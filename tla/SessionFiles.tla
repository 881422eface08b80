---------------------------- MODULE SessionFiles ----------------------------
(***************************************************************************)
(* Upload sessions and their stored source files: the row of a session in *)
(* SQLite, the file its storage_key names, and everything that creates,   *)
(* rewrites or gives them up -- the upload, the threaded endpoints that   *)
(* extend, select, confirm and delete, start, retry, cancel and execution *)
(* of a review, the periodic cleanup thread and the sweep at start-up.     *)
(*                                                                         *)
(* A session row carries no version.  A handler computes on the copy it    *)
(* read first (snap); repository.save SELECTs the row once more (base) and *)
(* copies every column onto it, and the flush at the commit writes those   *)
(* that differ from base: what others commit before the SELECT is          *)
(* overwritten, what they commit after it stays in the other columns.  A   *)
(* transaction that has written already keeps SQLite's lock: its SELECT    *)
(* and its commit are one step.  An upload makes a new storage key, so a   *)
(* session and its file share their name.                                  *)
(*                                                                         *)
(* Expiry times are numbered in the order they are issued: the deadline d *)
(* of a row has passed iff d <= passed[s].                                *)
(***************************************************************************)
EXTENDS Naturals, FiniteSets

CONSTANTS
    Sessions,      \* sessions that may be created
    Clients,       \* concurrent requests that name a session
    UploadSlots,   \* UPLOAD_POLICY.concurrency
    MaxDeadlines,  \* bound: expiry times issued for one session
    MaxRequests,   \* bound: requests that name a session
    MaxFaults      \* bound: crashes, failed deletions, busy databases

ASSUME FilesAssumption ==
    /\ UploadSlots \in Nat \ {0} /\ MaxDeadlines \in Nat
    /\ MaxRequests \in Nat /\ MaxFaults \in Nat

VARIABLES
    row,        \* the row of each session
    review,     \* the state of the latest review of each session
    older,      \* sessions with an earlier failed review, kept by a retry
    file,       \* what the storage root holds for each session
    issued, passed,  \* expiry times issued, and reached, per session
    upload,     \* where the upload request of each session is
    uploading,  \* ImmediateConcurrencyLimiter._active
    others,     \* uploads in progress of sessions that are not in Sessions
    req, asked, \* the request each client is in, and how many there were
    loop,       \* the handler that keeps the event loop, and its next step
    cleaner,    \* the cleanup
    proc,       \* the process
    faults,     \* bounded faults so far
    orphaned, restored, mixed, overtaken, halfDeleted
                \* history: see the properties

rows == <<row, review, older>>
time == <<issued, passed>>
uploads == <<upload, uploading, others>>
handlers == <<req, asked>>
saved == <<row, restored, mixed>>
history == <<orphaned, restored, mixed, overtaken, halfDeleted>>
vars == <<row, review, older, file, issued, passed, upload, uploading, others,
          req, asked, loop, cleaner, proc, faults, orphaned, restored, mixed,
          overtaken, halfDeleted>>

NoRow == [state |-> "absent"]
ScopeStatuses == {"IN_SCOPE", "OUT_OF_SCOPE", "EMPTY_DOCUMENT"}
Row == [state : {"TYPE_SELECTION_REQUIRED", "OUT_OF_SCOPE_CONFIRMATION_REQUIRED",
                 "READY_TO_REVIEW", "REUPLOAD_REQUIRED", "EXPIRED"},
        scope : ScopeStatuses, selected : BOOLEAN, confirmed : BOOLEAN,
        key : BOOLEAN,             \* storage_key is not None
        deadline : 1 .. MaxDeadlines]

ActiveStates == {"QUEUED", "REVIEWING"}
\* FAILED is a failure that may be retried, DONE any other terminal state.
ReviewStates == {"none", "EXPIRED", "CANCELLED", "FAILED", "DONE"} \cup ActiveStates

Idle == [step |-> "idle"]
Request == {Idle} \cup [step : {"select", "confirm", "extend", "touchReview",
                                "touchSession", "delete", "unlink", "deleteRow",
                                "start", "accept", "retry"},
                        session : Sessions, snap : Row, base : Row \cup {NoRow}]
Free == [step |-> "free"]
LoopStep == {Free} \cup [step : {"accept", "release", "unlink"}, session : Sessions]
              \cup [step : {"reread", "flush"}, session : Sessions, snap : Row, base : Row]
CleanerIdle == [step |-> "idle"]
\* How far the cleanup is with a session, and what became since of the reviews
\* that it listed: they are to expire, one was written, one was accepted (again).
View == [phase : {"found", "checked", "read", "listed"}, snap : Row, base : Row,
         expires : BOOLEAN, written : BOOLEAN, joined : BOOLEAN, again : BOOLEAN]

-----------------------------------------------------------------------------
(* Rows                                                                     *)

Exists(s) == row[s] # NoRow
Lapsed(s, r) == r.deadline <= passed[s]
\* list_storage_keys
Referenced(s) == Exists(s) /\ row[s].key
Overdue(s) == Exists(s) /\ Lapsed(s, row[s])
HasActive(s) == review[s] \in ActiveStates
IsStarted(s) == review[s] # "none"
Accepting(s) == loop.step = "accept" /\ loop.session = s
\* What is left of the bound while a review still has its own touches to come.
Reserve(s) == IF Accepting(s) THEN 2 ELSE IF HasActive(s) THEN 1 ELSE 0
CanIssue(s, n) == issued[s] + n <= MaxDeadlines

LoopFree == proc = "up" /\ loop = Free
Up == proc = "up"

\* The flush of the copy r of a row that save SELECTed as b: the columns that
\* differ are written.  A time is always taken to differ, SQLite gives it back
\* without its zone; one that is NULL in both is not.
Column(r, b, now) == IF r # b THEN r ELSE now
Flushed(now, r, b) ==
    [state |-> Column(r.state, b.state, now.state),
     scope |-> Column(r.scope, b.scope, now.scope),
     selected |-> Column(r.selected, b.selected, now.selected),
     confirmed |-> IF r.confirmed \/ b.confirmed THEN r.confirmed ELSE now.confirmed,
     key |-> Column(r.key, b.key, now.key),
     deadline |-> r.deadline]

\* history: a key that another commit dropped meanwhile is put back; the row is
\* left with columns of two copies.
Save(s, r, b) ==
    LET new == Flushed(row[s], r, b) IN
    /\ row' = [row EXCEPT ![s] = new]
    /\ restored' = IF new.key /\ ~row[s].key THEN restored \cup {s} ELSE restored
    /\ mixed' = IF new # r THEN mixed \cup {s} ELSE mixed

\* touch_session on the copy r.
Touch(s, r, b) ==
    /\ issued' = [issued EXCEPT ![s] = @ + 1]
    /\ Save(s, [r EXCEPT !.deadline = issued[s] + 1], b)

TypeChosen(r) == r.scope # "EMPTY_DOCUMENT" /\ r.selected
\* service._ensure_startable, without the expiry time.
Startable(r) ==
    r.state # "EXPIRED" /\ TypeChosen(r) /\ (r.scope = "OUT_OF_SCOPE" => r.confirmed)

Watched(s) == cleaner.step = "listed" /\ s \in DOMAIN cleaner.work
                /\ cleaner.work[s].phase = "listed"

See(s, view) == cleaner' = [cleaner EXCEPT !.work[s] = view]

\* A review of s is written: the version check will tell the cleanup if it is
\* one of those that it listed (if one was accepted since, it need not be).
ReviewWritten(s) ==
    \/ Watched(s) /\ See(s, [cleaner.work[s] EXCEPT !.written = TRUE])
    \/ (Watched(s) => cleaner.work[s].joined) /\ UNCHANGED cleaner

\* resolve_owned_session: an expired session is hidden unless a review runs.
Visible(s) == Exists(s) /\ (Overdue(s) => HasActive(s))

Become(c, r) == req' = [req EXCEPT ![c] = r] /\ asked' = asked
Resolve(c, s, step) ==
    /\ Up /\ req[c] = Idle /\ Visible(s) /\ asked < MaxRequests
    /\ asked' = asked + 1
    /\ req' = [req EXCEPT ![c] = [step |-> step, session |-> s,
                                   snap |-> row[s], base |-> NoRow]]
    /\ UNCHANGED <<rows, file, time, uploads, loop, cleaner, proc,
                   faults, history>>

Unlink(s) == file' = [file EXCEPT ![s] = "none"]

-----------------------------------------------------------------------------
(* POST /review-sessions: a slot, the file, the MCP call, the row.          *)

UploadBegin(s) ==
    /\ LoopFree /\ upload[s] = "new" /\ uploading < UploadSlots
    /\ uploading' = uploading + 1
    /\ upload' = [upload EXCEPT ![s] = "saving"]
    /\ UNCHANGED <<others, rows, file, time, handlers, loop, cleaner, proc, faults, history>>

UploadRefused(s) ==
    /\ LoopFree /\ upload[s] = "new" /\ uploading >= UploadSlots
    /\ upload' = [upload EXCEPT ![s] = "ended"]
    /\ UNCHANGED <<rows, file, time, uploading, others, handlers, loop, cleaner, proc, faults,
                   history>>

\* storage.save: the temporary file is complete before it gets its name.
UploadWrite(s) ==
    /\ Up /\ upload[s] = "saving" /\ file[s] = "none"
    /\ file' = [file EXCEPT ![s] = "temporary"]
    /\ UNCHANGED <<rows, time, uploads, handlers, loop, cleaner, proc, faults,
                   history>>

UploadStore(s) ==
    /\ Up /\ upload[s] = "saving" /\ file[s] = "temporary"
    /\ file' = [file EXCEPT ![s] = "stored"]
    /\ upload' = [upload EXCEPT ![s] = "assessing"]
    /\ UNCHANGED <<rows, time, uploading, others, handlers, loop, cleaner, proc, faults, history>>

\* Fault: the slot is not given back.
UploadEndsSilently(s) ==
    /\ upload' = [upload EXCEPT ![s] = "ended"]
    /\ uploading' = uploading /\ others' = others

UploadEnds(s) ==
    /\ upload' = [upload EXCEPT ![s] = "ended"]
    /\ uploading' = uploading - 1 /\ others' = others

\* The MCP call answered and normalize_scope_result accepted the answer.
StateFor(scope) ==
    CASE scope = "EMPTY_DOCUMENT" -> "REUPLOAD_REQUIRED"
      [] scope = "OUT_OF_SCOPE" -> "OUT_OF_SCOPE_CONFIRMATION_REQUIRED"
      [] OTHER -> "TYPE_SELECTION_REQUIRED"

UploadCommit(s, scope) ==
    /\ LoopFree /\ upload[s] = "assessing" /\ CanIssue(s, 1)
    /\ issued' = [issued EXCEPT ![s] = @ + 1]
    /\ row' = [row EXCEPT ![s] =
                 [state |-> StateFor(scope), scope |-> scope, selected |-> FALSE,
                  confirmed |-> FALSE, key |-> TRUE, deadline |-> issued[s] + 1]]
    /\ UploadEnds(s)
    /\ UNCHANGED <<review, older, file, passed, handlers, loop, cleaner, proc, faults,
                   history>>

\* Fault: the file stays.
FileAfterFailureKept(s) == file' = file

\* A timeout, a tool error or an invalid answer: "except Exception" takes the
\* file away (a temporary one goes in save's own finally).
FileAfterFailure(s) == Unlink(s)

UploadFails(s) ==
    /\ LoopFree /\ upload[s] \in {"saving", "assessing"}
    /\ FileAfterFailure(s)
    /\ UploadEnds(s)
    /\ UNCHANGED <<rows, time, handlers, loop, cleaner, proc, faults, history>>

\* The request is cancelled during the call: CancelledError is no Exception,
\* so the file stays without a row.
UploadCancelled(s) ==
    /\ LoopFree /\ upload[s] = "assessing"
    /\ UploadEnds(s)
    /\ orphaned' = orphaned \cup {s}
    /\ UNCHANGED <<rows, file, time, handlers, loop, cleaner, proc, faults, restored,
                   mixed, overtaken, halfDeleted>>

\* Uploads of sessions that the model does not follow hold slots as well.
OthersEnter ==
    /\ LoopFree /\ uploading < UploadSlots
    /\ \E s \in Sessions : upload[s] = "new"  \* bound: they compete with someone
    /\ uploading' = uploading + 1 /\ others' = others + 1
    /\ UNCHANGED <<rows, file, time, upload, handlers, loop, cleaner, proc, faults, history>>

OthersLeave ==
    /\ LoopFree /\ others > 0
    /\ uploading' = uploading - 1 /\ others' = others - 1
    /\ UNCHANGED <<rows, file, time, upload, handlers, loop, cleaner, proc, faults, history>>

-----------------------------------------------------------------------------
(* PATCH contract-type and POST out-of-scope-confirmation, in threads       *)

\* The type cannot be chosen, nothing is to be confirmed.
Refused(step, r) ==
    \/ step = "select" /\ r.scope = "EMPTY_DOCUMENT"
    \/ step = "confirm" /\ r.scope # "OUT_OF_SCOPE"

\* The SELECT of repository.save; a row that is gone ends the request.
Reread(c) ==
    LET s == req[c].session IN
    /\ Up /\ req[c].step \in {"select", "confirm", "touchSession"}
    /\ req[c].base = NoRow
    /\ Become(c, IF ~Exists(s) \/ Refused(req[c].step, req[c].snap) THEN Idle
                 ELSE [req[c] EXCEPT !.base = row[s]])
    /\ UNCHANGED <<rows, file, time, uploads, loop, cleaner, proc, faults, history>>

\* So does one that is gone at the flush.
Finish(c, s, write) ==
    /\ Become(c, Idle)
    /\ IF Exists(s) THEN write ELSE UNCHANGED <<saved, issued>>

\* Fault: selecting makes the session ready whatever its scope.
SelectedRowReady(r) == [r EXCEPT !.selected = TRUE, !.state = "READY_TO_REVIEW"]

SelectedRow(r) ==
    [r EXCEPT !.selected = TRUE,
              !.state = IF r.scope = "OUT_OF_SCOPE" /\ ~r.confirmed
                        THEN "OUT_OF_SCOPE_CONFIRMATION_REQUIRED"
                        ELSE "READY_TO_REVIEW"]

\* Another type than the one in base is a column that differs, too.
SelectType(c, another) ==
    LET s == req[c].session  b == req[c].base IN
    /\ Up /\ req[c].step = "select" /\ b # NoRow
    /\ Finish(c, s, /\ Save(s, SelectedRow(req[c].snap),
                            [b EXCEPT !.selected = @ /\ ~another])
                    /\ UNCHANGED issued)
    /\ UNCHANGED <<review, older, file, passed, uploads, loop, cleaner,
                   proc, faults, orphaned, overtaken, halfDeleted>>

ConfirmedRow(r) ==
    [r EXCEPT !.confirmed = TRUE,
              !.state = IF r.selected THEN "READY_TO_REVIEW"
                        ELSE "TYPE_SELECTION_REQUIRED"]

ConfirmScope(c) ==
    LET s == req[c].session IN
    /\ Up /\ req[c].step = "confirm" /\ req[c].base # NoRow
    /\ Finish(c, s, Save(s, ConfirmedRow(req[c].snap), req[c].base) /\ UNCHANGED issued)
    /\ UNCHANGED <<review, older, file, passed, uploads, loop, cleaner,
                   proc, faults, orphaned, overtaken, halfDeleted>>

-----------------------------------------------------------------------------
(* POST extend, in a thread: touch the latest review and a fresh copy of    *)
(* the session, or, when no review can be extended, the copy it came with.  *)

ExtendList(c) ==
    LET s == req[c].session IN
    /\ Up /\ req[c].step = "extend"
    /\ Become(c, IF Lapsed(s, req[c].snap) THEN Idle
                 ELSE [req[c] EXCEPT !.step = IF review[s] \in {"none", "EXPIRED"}
                                              THEN "touchSession" ELSE "touchReview"])
    /\ UNCHANGED <<rows, file, time, uploads, loop, cleaner, proc, faults,
                   history>>

\* The review is written first: the session is read under the lock.
ExtendReview(c) ==
    LET s == req[c].session IN
    /\ Up /\ req[c].step = "touchReview" /\ CanIssue(s, 1 + Reserve(s))
    /\ Finish(c, s, Touch(s, row[s], row[s]))
    /\ ReviewWritten(s)
    /\ UNCHANGED <<review, older, file, passed, uploads, loop,
                   proc, faults, orphaned, overtaken, halfDeleted>>

ExtendSession(c) ==
    LET s == req[c].session IN
    /\ Up /\ req[c].step = "touchSession" /\ req[c].base # NoRow
    /\ CanIssue(s, 1 + Reserve(s))
    /\ Finish(c, s, Touch(s, req[c].snap, req[c].base))
    /\ UNCHANGED <<review, older, file, passed, uploads, loop, cleaner,
                   proc, faults, orphaned, overtaken, halfDeleted>>

-----------------------------------------------------------------------------
(* DELETE /review-sessions/{id}, in a thread: the file goes before the row. *)

DeleteCheck(c) ==
    LET s == req[c].session IN
    /\ Up /\ req[c].step = "delete"
    /\ Become(c, IF IsStarted(s) THEN Idle ELSE [req[c] EXCEPT !.step = "unlink"])
    /\ UNCHANGED <<rows, file, time, uploads, loop, cleaner, proc, faults,
                   history>>

DeleteUnlink(c) ==
    LET s == req[c].session IN
    /\ Up /\ req[c].step = "unlink"
    /\ IF req[c].snap.key THEN Unlink(s) ELSE UNCHANGED file
    /\ Become(c, [req[c] EXCEPT !.step = "deleteRow"])
    /\ UNCHANGED <<rows, time, uploads, loop, cleaner, proc, faults, history>>

\* ON DELETE CASCADE takes the reviews along.
Drop(gone) ==
    /\ row' = [s \in Sessions |-> IF s \in gone THEN NoRow ELSE row[s]]
    /\ review' = [s \in Sessions |-> IF s \in gone THEN "none" ELSE review[s]]
    /\ older' = older \ gone

DeleteCommit(c) ==
    /\ Up /\ req[c].step = "deleteRow"
    /\ Drop({req[c].session})
    /\ Become(c, Idle)
    /\ UNCHANGED <<file, time, uploads, loop, cleaner, proc, faults, history>>

-----------------------------------------------------------------------------
(* Reviews: start (on the copy its dependency read, after two awaits),      *)
(* retry, execution and cancel, on the event loop.                          *)

\* create_review keeps the loop from its checks on; threads still run.
StartCheck(c) ==
    LET s == req[c].session  r == req[c].snap IN
    /\ LoopFree /\ req[c].step = "start" /\ CanIssue(s, 2)
    /\ ~HasActive(s) /\ Startable(r) /\ ~Lapsed(s, r)
    /\ Become(c, [req[c] EXCEPT !.step = "accept"])
    /\ loop' = [step |-> "accept", session |-> s]
    /\ UNCHANGED <<rows, file, time, uploads, cleaner, proc, faults, history>>

\* What became of the reviews that the cleanup listed: a start writes those
\* that have not expired, a retry adds one.
Joined(s, written) ==
    IF Watched(s)
    THEN See(s, [cleaner.work[s] EXCEPT !.written = @ \/ written, !.joined = TRUE,
                                        !.again = cleaner.work[s].joined /\ ~written])
    ELSE UNCHANGED cleaner

\* The previous reviews expire, the new one is flushed, the copy is saved.
StartCommit(c) ==
    LET s == req[c].session IN
    /\ Up /\ req[c].step = "accept" /\ Exists(s)
    /\ review' = [review EXCEPT ![s] = "QUEUED"]
    /\ older' = older \ {s}
    /\ Joined(s, TRUE)
    /\ Touch(s, req[c].snap, row[s])
    /\ Become(c, Idle) /\ loop' = Free
    /\ UNCHANGED <<file, passed, uploads, proc, faults, orphaned, overtaken, halfDeleted>>

\* A check fails; the row is gone, or an earlier review was written meanwhile.
StartReject(c) ==
    LET s == req[c].session  r == req[c].snap IN
    /\ \/ /\ LoopFree /\ req[c].step = "start"
          /\ HasActive(s) \/ ~Startable(r) \/ Lapsed(s, r)
       \/ /\ Up /\ req[c].step = "accept"
          /\ ~Exists(s) \/ review[s] \notin {"none", "EXPIRED"}
    /\ Become(c, Idle) /\ loop' = Free
    /\ UNCHANGED <<rows, file, time, uploads, cleaner, proc, faults, history>>

\* retry_review, for a review that was FAILED when its dependency read it: the
\* failed review stays, the session is not touched.
Retryable(s) == review[s] = "FAILED" \/ s \in older

Retry(c) ==
    LET s == req[c].session IN
    /\ LoopFree /\ req[c].step = "retry" /\ CanIssue(s, 1)
    /\ Become(c, Idle)
    /\ IF Exists(s) /\ ~HasActive(s)
       THEN /\ review' = [review EXCEPT ![s] = "QUEUED"]
            /\ older' = IF review[s] = "EXPIRED" THEN older ELSE older \cup {s}
            /\ Joined(s, FALSE)
       ELSE UNCHANGED <<review, older, cleaner>>
    /\ UNCHANGED <<row, file, time, uploads, loop, proc, faults, history>>

\* execute_review, first transaction.
ExecStart(s) ==
    /\ LoopFree /\ review[s] = "QUEUED"
    /\ review' = [review EXCEPT ![s] = IF row[s].key THEN "REVIEWING" ELSE "DONE"]
    /\ UNCHANGED <<row, older, file, time, uploads, handlers, loop, cleaner,
                   proc, faults, history>>

Outcomes == {"ok", "retryable", "fatal"}

\* execute_review, last transaction: the review first, then a fresh copy of the
\* session is touched; a failure that cannot be retried gives up the key, and
\* the file only after the commit.  A file that is missing when it is opened is
\* a retryable PIPELINE_ERROR.
ExecFinish(s, o) ==
    /\ LoopFree /\ review[s] = "REVIEWING" /\ CanIssue(s, 1)
    /\ file[s] # "stored" => o = "retryable"
    /\ review' = [review EXCEPT ![s] = IF o = "retryable" THEN "FAILED" ELSE "DONE"]
    /\ LET drop == o = "fatal" /\ row[s].key IN
       /\ Touch(s, [row[s] EXCEPT !.key = @ /\ ~drop], row[s])
       /\ loop' = IF drop THEN [step |-> "unlink", session |-> s] ELSE Free
    /\ UNCHANGED <<older, file, passed, uploads, handlers, cleaner, proc,
                   faults, orphaned, overtaken, halfDeleted>>

\* cancel_review, first transaction, for the latest review or for the failed
\* one that a retry left behind; a repeated DELETE finds CANCELLED.
CancelMark(s, latest) ==
    /\ LoopFree
    /\ IF latest THEN review[s] \notin {"none", "EXPIRED"} ELSE s \in older
    /\ review' = IF latest THEN [review EXCEPT ![s] = "CANCELLED"] ELSE review
    /\ IF latest /\ review[s] = "CANCELLED" THEN UNCHANGED cleaner ELSE ReviewWritten(s)
    /\ loop' = [step |-> "release", session |-> s]
    /\ UNCHANGED <<row, older, file, time, uploads, handlers, proc,
                   faults, history>>

\* Its second transaction: the copy, save's SELECT, the flush; the file goes
\* after the commit.
CancelRead ==
    LET s == loop.session IN
    /\ Up /\ loop.step = "release"
    /\ loop' = IF Referenced(s)
               THEN [step |-> "reread", session |-> s, snap |-> row[s], base |-> row[s]]
               ELSE Free
    /\ UNCHANGED <<rows, file, time, uploads, handlers, cleaner, proc, faults, history>>

CancelReread ==
    LET s == loop.session IN
    /\ Up /\ loop.step = "reread"
    /\ loop' = IF Exists(s)
               THEN [step |-> "flush", session |-> s, snap |-> loop.snap, base |-> row[s]]
               ELSE Free
    /\ UNCHANGED <<rows, file, time, uploads, handlers, cleaner, proc, faults, history>>

\* Fault: the file goes, the key stays in the row.
ReleasedRowKeepsKey(r) == r

ReleasedRow(r) == [r EXCEPT !.key = FALSE]

CancelFlush ==
    LET s == loop.session IN
    /\ Up /\ loop.step = "flush"
    /\ IF Exists(s)
       THEN /\ Save(s, ReleasedRow(loop.snap), loop.base)
            /\ loop' = [step |-> "unlink", session |-> s]
       ELSE UNCHANGED saved /\ loop' = Free
    /\ UNCHANGED <<review, older, file, time, uploads, handlers, cleaner, proc,
                   faults, orphaned, overtaken, halfDeleted>>

LoopUnlink ==
    /\ Up /\ loop.step = "unlink"
    /\ Unlink(loop.session)
    /\ loop' = Free
    /\ UNCHANGED <<rows, time, uploads, handlers, cleaner, proc, faults, history>>

LoopUnlinkFails ==
    /\ Up /\ loop.step = "unlink" /\ faults < MaxFaults
    /\ faults' = faults + 1
    /\ orphaned' = orphaned \cup {loop.session}
    /\ loop' = Free
    /\ UNCHANGED <<rows, file, time, uploads, handlers, cleaner, proc,
                   restored, mixed, overtaken, halfDeleted>>

-----------------------------------------------------------------------------
(* SessionFileLifecycle.cleanup_expired_and_orphaned, in a thread: every    *)
(* minute without, at start-up with the sweep of files nobody references.   *)

\* Fault: only sessions that could be reviewed are found.
ExpiredReady ==
    {s \in Sessions : Overdue(s) /\ row[s].state = "READY_TO_REVIEW"}

\* list_expired
Expired == {s \in Sessions : Overdue(s) /\ row[s].state # "EXPIRED"}

Tombstones == {s \in Sessions : row[s].state = "EXPIRED"}

\* A run that finds nothing to do while the process is up is left out.
CleanupList ==
    /\ proc = "starting" \/ (Up /\ Expired \cup Tombstones # {})
    /\ cleaner.step = "idle"
    /\ cleaner' = [step |-> "listed", work |->
                     [s \in Expired |->
                        [phase |-> "found", snap |-> row[s], base |-> row[s],
                         expires |-> FALSE, written |-> FALSE, joined |-> FALSE,
                         again |-> FALSE]]]
    /\ UNCHANGED <<rows, file, time, uploads, handlers, loop, proc, faults,
                   history>>

Skipped(s) == HasActive(s)

Found == IF cleaner.step = "listed" THEN DOMAIN cleaner.work ELSE {}
InPhase(phase) == {s \in Found : cleaner.work[s].phase = phase}

\* The first review to expire takes SQLite's lock; without one the cleanup
\* goes on to the next session, and to the records it deletes.
Locked == \E s \in InPhase("listed") : cleaner.work[s].expires
NextSession(s) ==
    s \in InPhase("found") /\ InPhase("checked") \cup InPhase("read") = {} /\ ~Locked

\* has_active_for_session
CleanupCheck(s) ==
    /\ NextSession(s)
    /\ IF Skipped(s)
       THEN cleaner' = [step |-> "listed", work |-> [t \in Found \ {s} |-> cleaner.work[t]]]
       ELSE See(s, [cleaner.work[s] EXCEPT !.phase = "checked"])
    /\ UNCHANGED <<rows, file, time, uploads, handlers, loop, proc, faults, history>>

\* The SELECT of save.
CleanupRead(s) ==
    /\ s \in InPhase("checked")
    /\ IF Exists(s) THEN See(s, [cleaner.work[s] EXCEPT !.phase = "read", !.base = row[s]])
       ELSE cleaner' = CleanerIdle
    /\ UNCHANGED <<rows, file, time, uploads, handlers, loop, proc, faults, history>>

\* list_by_session: an active review refuses to expire and ends the run.
CleanupReviews(s) ==
    /\ s \in InPhase("read")
    /\ IF HasActive(s) THEN cleaner' = CleanerIdle
       ELSE See(s, [cleaner.work[s] EXCEPT !.phase = "listed",
                      !.expires = review[s] \notin {"none", "EXPIRED"}])
    /\ UNCHANGED <<rows, file, time, uploads, handlers, loop, proc, faults, history>>

\* What the cleanup has not come to when it gets the lock, it reads under it.
ToExpire == {s \in Found : s \in InPhase("listed") \/ ~Skipped(s)}
Base(s) == IF s \in InPhase("listed") THEN cleaner.work[s].base ELSE row[s]

\* The files still to be deleted; at start-up the sweep comes after them.
Deleting(files) ==
    cleaner' = IF files = {} /\ Up THEN CleanerIdle
               ELSE [step |-> "deleting", files |-> files]

ExpiredReview(s) == IF IsStarted(s) THEN "EXPIRED" ELSE "none"

\* Fault: the row goes on naming the file that is about to be deleted.
ExpiredRowNamesFile(r) == [r EXCEPT !.state = "EXPIRED"]

ExpiredRow(r) == [r EXCEPT !.state = "EXPIRED", !.key = FALSE]

\* A row is gone, or a review that is to expire was written.
Conflict ==
    \/ \E s \in ToExpire : ~Exists(s)
    \/ \E s \in InPhase("listed") : cleaner.work[s].expires /\ cleaner.work[s].written

AtCommit == cleaner.step = "listed" /\ (Locked \/ InPhase("listed") = Found)

\* Sessions under whose expiry a review was accepted since it was looked for.
Overtaken == {s \in InPhase("listed") : cleaner.work[s].joined}

\* From the first write to the commit.  Tombstones are old enough after a day:
\* any that was EXPIRED before.
CleanupCommit(tombstones) ==
    LET new == [s \in ToExpire |-> ExpiredRow(cleaner.work[s].snap)] IN
    /\ AtCommit /\ ~Conflict
    /\ tombstones \subseteq Tombstones \ ToExpire
    /\ row' = [s \in Sessions |->
                 IF s \in tombstones THEN NoRow
                 ELSE IF s \in ToExpire THEN Flushed(row[s], new[s], Base(s))
                 ELSE row[s]]
    /\ review' = [s \in Sessions |->
                    IF s \in tombstones THEN "none"
                    ELSE IF s \in ToExpire \ Overtaken THEN ExpiredReview(s) ELSE review[s]]
    /\ older' = older \ (tombstones
                   \cup {s \in ToExpire : ~(s \in Overtaken /\ cleaner.work[s].again)})
    /\ mixed' = mixed \cup {s \in ToExpire : row'[s] # new[s]}
    /\ overtaken' = overtaken \cup Overtaken
    /\ Deleting({s \in ToExpire : cleaner.work[s].snap.key})
    /\ UNCHANGED <<file, time, uploads, handlers, loop, proc, faults, orphaned,
                   restored, halfDeleted>>

\* The version check, or the row count of the flush, ends the run.
CleanupAborts ==
    /\ AtCommit /\ Conflict
    /\ cleaner' = CleanerIdle
    /\ UNCHANGED <<rows, file, time, uploads, handlers, loop, proc, faults, history>>

\* The database stays busy: the run ends without a commit.
CleanupFails ==
    /\ proc = "up" /\ cleaner.step = "listed" /\ faults < MaxFaults
    /\ faults' = faults + 1
    /\ cleaner' = CleanerIdle
    /\ UNCHANGED <<rows, file, time, uploads, handlers, loop, proc, history>>

CleanupDelete(s) ==
    /\ cleaner.step = "deleting" /\ s \in cleaner.files
    /\ Unlink(s)
    /\ Deleting(cleaner.files \ {s})
    /\ UNCHANGED <<rows, time, uploads, handlers, loop, proc, faults, history>>

\* A deletion raises: the rest of the list is dropped with it.
CleanupDeleteFails ==
    /\ proc = "up" /\ cleaner.step = "deleting" /\ cleaner.files # {}
    /\ faults < MaxFaults
    /\ faults' = faults + 1
    /\ orphaned' = orphaned \cup cleaner.files
    /\ cleaner' = CleanerIdle
    /\ UNCHANGED <<rows, file, time, uploads, handlers, loop, proc,
                   restored, mixed, overtaken, halfDeleted>>

-----------------------------------------------------------------------------
(* The process: it dies between any two steps; a restart fails the reviews  *)
(* that were running, removes temporary files, cleans up and sweeps.        *)

\* The files whose only owner was in memory.
HeldInMemory ==
    {s \in Sessions : file[s] = "stored"
        /\ \/ upload[s] = "assessing"
           \/ loop.step = "unlink" /\ loop.session = s
           \/ cleaner.step = "deleting" /\ s \in cleaner.files}

Crash ==
    /\ proc # "down" /\ faults < MaxFaults
    /\ faults' = faults + 1
    /\ proc' = "down"
    /\ orphaned' = orphaned \cup HeldInMemory
    /\ halfDeleted' = halfDeleted \cup
         {s \in Sessions : \E c \in Clients : req[c].step = "deleteRow"
                                              /\ req[c].session = s}
    /\ upload' = [s \in Sessions |-> IF upload[s] = "new" THEN "new" ELSE "ended"]
    /\ uploading' = 0 /\ others' = 0
    /\ req' = [c \in Clients |-> Idle] /\ asked' = asked
    /\ loop' = Free
    /\ cleaner' = CleanerIdle
    /\ UNCHANGED <<rows, file, time, restored, mixed, overtaken>>

Interrupted == {s \in Sessions : review[s] = "REVIEWING"}

\* LocalFileStorage.__init__ unlinks what an interrupted save left behind.
Restart ==
    /\ proc = "down"
    /\ proc' = "starting"
    /\ review' = [s \in Sessions |-> IF s \in Interrupted THEN "FAILED" ELSE review[s]]
    /\ issued' = [s \in Sessions |-> IF s \in Interrupted THEN issued[s] + 1
                                     ELSE issued[s]]
    /\ row' = [s \in Sessions |-> IF s \in Interrupted
                                  THEN [row[s] EXCEPT !.deadline = issued[s] + 1]
                                  ELSE row[s]]
    /\ file' = [s \in Sessions |-> IF file[s] = "temporary" THEN "none" ELSE file[s]]
    /\ UNCHANGED <<older, passed, uploads, handlers, loop, cleaner, faults,
                   history>>

\* Fault: start-up runs the cleanup without remove_orphans.
SweepNothing == file

Sweep == [s \in Sessions |-> IF Referenced(s) THEN file[s] ELSE "none"]

Serve ==
    /\ proc = "starting" /\ cleaner.step = "deleting" /\ cleaner.files = {}
    /\ file' = Sweep
    /\ orphaned' = {}
    /\ cleaner' = CleanerIdle
    /\ proc' = "up"
    /\ UNCHANGED <<rows, time, uploads, handlers, loop, faults, restored,
                   mixed, overtaken, halfDeleted>>

\* Time passes up to the n-th expiry time of a session.
Pass(s, n) ==
    /\ n \in passed[s] + 1 .. issued[s]
    /\ passed' = [passed EXCEPT ![s] = n]
    /\ UNCHANGED <<rows, file, issued, uploads, handlers, loop, cleaner, proc,
                   faults, history>>

-----------------------------------------------------------------------------

Init ==
    /\ row = [s \in Sessions |-> NoRow]
    /\ review = [s \in Sessions |-> "none"]
    /\ older = {}
    /\ file = [s \in Sessions |-> "none"]
    /\ issued = [s \in Sessions |-> 0] /\ passed = [s \in Sessions |-> 0]
    /\ upload = [s \in Sessions |-> "new"] /\ uploading = 0 /\ others = 0
    /\ req = [c \in Clients |-> Idle] /\ asked = 0
    /\ loop = Free /\ cleaner = CleanerIdle
    /\ proc = "up" /\ faults = 0
    /\ orphaned = {} /\ restored = {} /\ mixed = {} /\ overtaken = {}
    /\ halfDeleted = {}

Upload(s) ==
    \/ UploadBegin(s) \/ UploadRefused(s) \/ UploadWrite(s) \/ UploadStore(s)
    \/ \E scope \in ScopeStatuses : UploadCommit(s, scope)
    \/ UploadFails(s) \/ UploadCancelled(s)

Accept(c) == StartCommit(c) \/ StartReject(c)

Handle(c) ==
    \/ \E s \in Sessions, step \in {"select", "confirm", "extend", "delete"} :
         Resolve(c, s, step)
    \/ Reread(c) \/ (\E another \in BOOLEAN : SelectType(c, another)) \/ ConfirmScope(c)
    \/ ExtendList(c) \/ ExtendReview(c) \/ ExtendSession(c)
    \/ DeleteCheck(c) \/ DeleteUnlink(c) \/ DeleteCommit(c)
    \/ \E s \in Sessions : loop = Free /\ Resolve(c, s, "start")
    \/ StartCheck(c) \/ Accept(c)
    \/ \E s \in Sessions : loop = Free /\ Retryable(s) /\ Resolve(c, s, "retry")
    \/ Retry(c)

Execute(s) == ExecStart(s) \/ \E o \in Outcomes : ExecFinish(s, o)

Release == CancelRead \/ CancelReread \/ CancelFlush
Cancel == (\E s \in Sessions, latest \in BOOLEAN : CancelMark(s, latest)) \/ Release

Clean == \/ CleanupList
         \/ \E s \in Sessions : CleanupCheck(s) \/ CleanupRead(s) \/ CleanupReviews(s)
         \/ \E tombstones \in SUBSET Sessions : CleanupCommit(tombstones)
         \/ CleanupAborts
         \/ \E s \in Sessions : CleanupDelete(s)

Next ==
    \/ \E s \in Sessions : Upload(s) \/ Execute(s)
    \/ OthersEnter \/ OthersLeave
    \/ \E c \in Clients : Handle(c)
    \/ Cancel \/ LoopUnlink \/ LoopUnlinkFails
    \/ Clean \/ CleanupFails \/ CleanupDeleteFails
    \/ Crash \/ Restart \/ Serve
    \/ \E s \in Sessions : \E n \in 1 .. MaxDeadlines : Pass(s, n)

Spec == Init /\ [][Next]_vars

\* The loop and the cleanup thread run, whose failures are bounded; a review
\* that is executed ends; a restart follows a crash.
Fairness ==
    /\ WF_vars(Clean) /\ WF_vars(LoopUnlink) /\ WF_vars(Release)
    /\ WF_vars(Restart) /\ WF_vars(Serve)
    /\ WF_vars(\E c \in Clients : Accept(c))
    /\ \A s \in Sessions : WF_vars(Execute(s))

FairSpec == Spec /\ Fairness

-----------------------------------------------------------------------------
(* Properties                                                               *)

CleanerOK ==
    \/ cleaner = CleanerIdle
    \/ \E S \in SUBSET Sessions : cleaner \in [step : {"listed"}, work : [S -> View]]
    \/ cleaner \in [step : {"deleting"}, files : SUBSET Sessions]

TypeOK ==
    /\ row \in [Sessions -> Row \cup {NoRow}] /\ review \in [Sessions -> ReviewStates]
    /\ older \subseteq Sessions
    /\ file \in [Sessions -> {"none", "temporary", "stored"}]
    /\ issued \in [Sessions -> 0 .. MaxDeadlines]
    /\ passed \in [Sessions -> 0 .. MaxDeadlines]
    /\ upload \in [Sessions -> {"new", "saving", "assessing", "ended"}]
    /\ uploading \in Nat /\ others \in Nat
    /\ req \in [Clients -> Request] /\ asked \in 0 .. MaxRequests /\ loop \in LoopStep
    /\ CleanerOK
    /\ proc \in {"up", "down", "starting"}
    /\ faults \in 0 .. MaxFaults
    /\ orphaned \subseteq Sessions /\ restored \subseteq Sessions
    /\ mixed \subseteq Sessions /\ overtaken \subseteq Sessions
    /\ halfDeleted \subseteq Sessions

InUpload == {s \in Sessions : upload[s] \in {"saving", "assessing"}}

\* A stored file is named by a row, or a handler in progress still answers for
\* it, or a recorded mishap orphaned it (a crash, a cancelled upload, a failed
\* deletion; a row left EXPIRED with a key by two crossing saves, which goes as
\* a tombstone): no other interleaving of handlers and cleanup leaks a file.
FilesAreOwned ==
    \A s \in Sessions : file[s] = "stored" =>
        \/ Referenced(s)
        \/ upload[s] = "assessing"
        \/ loop.step = "unlink" /\ loop.session = s
        \/ cleaner.step = "deleting" /\ s \in cleaner.files
        \/ s \in orphaned \cup (restored \cap mixed)

\* A row that names a file names one that exists, unless the session is being
\* deleted, its deletion was cut short by a crash, or a stale copy of the row
\* was written over the commit that gave the file up.
KeysNameFiles ==
    \A s \in Sessions : Referenced(s) =>
        \/ file[s] = "stored"
        \/ s \in restored \cup halfDeleted
        \/ \E c \in Clients : req[c].step = "deleteRow" /\ req[c].session = s

\* What the API shows as READY_TO_REVIEW (can_start_review) is what
\* create_review lets start, and nothing else, although every endpoint
\* computes the state from a copy of the row and others write in between.
ReadyIsStartable(r) ==
    r.state # "EXPIRED" => (r.state = "READY_TO_REVIEW" <=> Startable(r))

\* A session marked EXPIRED has given up its file, whoever wrote the row last.
ExpiredHoldsNothing(r) == r.state = "EXPIRED" => ~r.key

\* The state that the API shows is the one its row has: READY_TO_REVIEW means
\* startable, EXPIRED means without a file -- unless two saves crossed between
\* SELECT and flush and left the row with columns of both.
ShownStateIsTrue ==
    \A s \in Sessions : Exists(s) =>
        (ReadyIsStartable(row[s]) /\ ExpiredHoldsNothing(row[s])) \/ s \in mixed

\* The upload limiter counts the uploads in progress and keeps them below its
\* limit, through failures, cancellations and crashes.
UploadsAreCounted ==
    /\ TypeOK
    /\ uploading = Cardinality(InUpload) + others
    /\ uploading <= UploadSlots

\* The process serves only after the sweep: no file that no row names, no
\* temporary file and no review that a dead process was executing.
ServesClean ==
    [][proc' = "up" /\ proc # "up" => \A s \in Sessions :
          /\ file'[s] # "none" => Referenced(s)'
          /\ review'[s] # "REVIEWING"]_vars

CleanupTakes(s) ==
    /\ cleaner.step = "deleting" /\ s \in cleaner.files
    /\ cleaner' # cleaner /\ file' # file /\ file'[s] = "none"

\* The cleanup takes no file that a row still names, unless a stale copy put the
\* key back after its commit, and none under a running review, unless that was
\* accepted between the cleanup's check and its commit.  (One may be queued: a
\* retry acts on the copy of a review that has expired since, and its execution
\* will find no key.)
CleanupSparesReviews ==
    [][\A s \in Sessions : CleanupTakes(s) =>
          \/ ~Referenced(s) /\ (review[s] = "REVIEWING" => s \in overtaken)
          \/ s \in restored]_vars

\* A session whose expiry time passes is extended, or its file goes in the end
\* (or a recorded mishap orphans the file, as in FilesAreOwned).
LapsedIsCleaned ==
    \A s \in Sessions :
        Overdue(s) ~> \/ ~Overdue(s) \/ file[s] # "stored"
                      \/ s \in orphaned \cup (restored \cap mixed)

=============================================================================
