---------------------------- MODULE ReviewQueue ----------------------------
(***************************************************************************)
(* The review queue of the API server: the ledger of reviews in SQLite,   *)
(* the in-memory scheduler that mirrors its QUEUED rows, the runner that  *)
(* executes one review at a time, and the handlers that start, retry,     *)
(* cancel and extend, with crashes, graceful shutdown and restart.        *)
(*                                                                         *)
(* One event loop runs the async handlers, the worker and the execution   *)
(* task; a step that begins on the loop needs LoopFree, and a task keeps   *)
(* the loop until it awaits.  The sync endpoint that extends a session    *)
(* runs in a thread, between any two steps of the loop.                   *)
(*                                                                         *)
(* A review row carries a version: repository.save writes only if the     *)
(* version is still the one that was read.  stale[a] is the outcome that   *)
(* comparison would have for actor a: some row a has read was saved by    *)
(* another actor since.                                                    *)
(***************************************************************************)
EXTENDS Naturals, Sequences, FiniteSets

CONSTANTS
    Sessions,        \* the upload sessions
    NoSession,       \* not a session
    Requests,        \* concurrent requests handled on the event loop
    Extenders,       \* concurrent requests of the threaded extend endpoint
    Runner,          \* the execution task, as a reader and writer of rows
    MaxReviews,      \* bound: how many reviews are ever accepted
    Capacities,      \* the queue capacities builds are deployed with
    CancelAttempts,  \* attempts of the cancel handler's save loop
    MaxRestarts,     \* bound: how often the process is stopped or dies
    RecordsLapse     \* may an idempotency record expire before its session?

ASSUME SessionsAssumption == NoSession \notin Sessions
ASSUME ActorsAssumption ==
    /\ Requests \cap Extenders = {}
    /\ Runner \notin Requests \cup Extenders
ASSUME BoundsAssumption ==
    /\ MaxReviews \in Nat /\ Capacities \subseteq Nat \ {0}
    /\ CancelAttempts \in Nat \ {0} /\ MaxRestarts \in Nat
    /\ RecordsLapse \in BOOLEAN

\* Review ids in the order of created_at, by which the repository lists rows.
Reviews == 1 .. MaxReviews
NoReview == 0

Clients == Requests \cup Extenders
Actors == Clients \cup {Runner}

VARIABLES
    state, owner,    \* review rows: ReviewState and session_id
    retryable,       \* the FAILED reviews whose error says retryable
    hasKey,          \* the sessions whose row has a storage_key
    proc, worker,    \* the process and the scheduler's worker task
    pending,         \* ReviewScheduler._pending
    current,         \* ReviewScheduler.current_review_id
    exec,            \* where the current execution task is
    cancelled,       \* has the execution task been cancelled?
    outcome,         \* what the MCP call returned
    req,             \* the request each client is in
    stale,           \* would the actor's save lose the version comparison?
    restarts,        \* how often the process was stopped or died
    capacity         \* REVIEW_POLICY.queue_capacity of the running build

ledger == <<state, owner, retryable, hasKey>>
scheduler == <<proc, worker, pending, current>>
execution == <<exec, cancelled, outcome>>
deploy == <<restarts, capacity>>
vars == <<ledger, scheduler, execution, req, stale, deploy>>

Lifecycle == INSTANCE ReviewLifecycle
ReviewStates == Lifecycle!ReviewStates
ActiveStates == Lifecycle!ActiveStates

Outcomes == {"ok", "retryable", "fatal"}

ExecSteps == {"none",       \* no execution task
              "created",    \* the task exists and has not run
              "loaded",     \* it has read the QUEUED row
              "calling",    \* it awaits the MCP tool
              "recording", "recordingAgain",  \* a progress callback has read
              "answered",   \* it has read the REVIEWING row, answer in hand
              "done",       \* the task returned, or raised an error
              "aborted"}    \* the task raised CancelledError

RequestSteps == {"idle", "starting", "retrying", "cancel", "joining", "joined",
                 "cancelling", "clearing", "extending", "extendingAgain"}

IdleRequest == [step |-> "idle", session |-> NoSession, review |-> NoReview,
                seen |-> "ABSENT", tries |-> 0]

\* Every request but an idle or a starting one is about a review.
RequestRecord ==
    {m \in [step : RequestSteps, session : Sessions \cup {NoSession},
            review : Reviews \cup {NoReview}, seen : ReviewStates,
            tries : 0 .. CancelAttempts] :
        m.step \in {"idle", "starting"} \/ m.review \in Reviews}

-----------------------------------------------------------------------------
(* Queries of the review repository.                                       *)

Queued == {r \in Reviews : state[r] = "QUEUED"}

OfSession(s) == {r \in Reviews : owner[r] = s}

\* Fault: a running review does not count as active.
HasQueuedOnly(s) == \E r \in OfSession(s) : state[r] = "QUEUED"

HasActive(s) == \E r \in OfSession(s) : state[r] \in ActiveStates

\* The reviews of a session that are not EXPIRED yet.
Unexpired(s) == {r \in OfSession(s) : state[r] # "EXPIRED"}

\* The identity of the next review: ids are handed out in order.
IsNextId(r) ==
    /\ state[r] = "ABSENT"
    /\ \A x \in Reviews : x < r => state[x] # "ABSENT"

IdsLeft == \E r \in Reviews : state[r] = "ABSENT"

-----------------------------------------------------------------------------
(* The event loop and the version comparison.                              *)

\* The steps in which a task has read rows and not yet awaited.
ExecHoldsLoop == exec \in {"loaded", "recording", "recordingAgain", "answered"}
HandlerHoldsLoop(q) == req[q].step \in {"starting", "cancelling", "clearing"}

LoopFree == ~ExecHoldsLoop /\ \A q \in Requests : ~HandlerHoldsLoop(q)

\* The rows an actor has read and may still save.
RowsOf(a) ==
    IF a = Runner
    THEN IF ExecHoldsLoop THEN {current} ELSE {}
    ELSE CASE req[a].step = "starting" -> Unexpired(req[a].session)
           [] req[a].step \in {"cancelling", "extending", "extendingAgain"} ->
                {req[a].review}
           [] OTHER -> {}

\* Fault: a save that leaves the versions as they are.
SaveSameVersion(a, rows) == stale' = [stale EXCEPT ![a] = FALSE]

\* Actor a saves rows: their versions move on and every other reader of one of
\* them is stale.
Save(a, rows) ==
    stale' = [b \in Actors |->
                IF b = a THEN FALSE ELSE stale[b] \/ RowsOf(b) \cap rows # {}]

\* Actor a reads its rows again.
Refresh(a) == stale' = [stale EXCEPT ![a] = FALSE]

-----------------------------------------------------------------------------
(* The scheduler's mirror of the QUEUED rows.                              *)

InPending(r) == \E i \in 1 .. Len(pending) : pending[i] = r

\* Fault: one place too many.
AdmitsOneMore == proc = "up" /\ Cardinality(Queued) <= capacity

\* scheduler.admission: open, and the ledger holds fewer QUEUED rows than the
\* queue has places.
Admits == proc = "up" /\ Cardinality(Queued) < capacity

\* Fault: an id that waits already is added again.
EnqueueAgain(r) ==
    pending' = IF r = current \/ Len(pending) >= capacity
               THEN pending ELSE Append(pending, r)

\* Fault: the newest id goes first.
EnqueueFirst(r) ==
    pending' = IF InPending(r) \/ r = current \/ Len(pending) >= capacity
               THEN pending ELSE <<r>> \o pending

\* scheduler.enqueue.  A full mirror raises RuntimeError after the commit: the
\* row stays, the id is not added.
Enqueue(r) ==
    pending' = IF InPending(r) \/ r = current \/ Len(pending) >= capacity
               THEN pending
               ELSE Append(pending, r)

\* deque.remove: the queue without the entry r, if it has one.
Dequeue(r) ==
    \/ /\ ~InPending(r)
       /\ pending' = pending
    \/ \E i \in 1 .. Len(pending) :
          /\ pending[i] = r
          /\ pending' = SubSeq(pending, 1, i - 1)
                          \o SubSeq(pending, i + 1, Len(pending))

\* A new QUEUED row for session s, with older rows of the session expired in
\* the same transaction; after the commit its id is enqueued.
Accept(r, s, expired) ==
    /\ state' = [x \in Reviews |-> IF x = r THEN "QUEUED"
                                   ELSE IF x \in expired THEN "EXPIRED"
                                   ELSE state[x]]
    /\ owner' = [owner EXCEPT ![r] = s]
    /\ retryable' = retryable \ expired
    /\ Enqueue(r)

Become(c, r) == req' = [req EXCEPT ![c] = r]

-----------------------------------------------------------------------------
(* POST /reviews: the handler reads and writes without awaiting, but the    *)
(* extend thread can commit between its reads and its first write.          *)

StartRead(q, s) ==
    /\ LoopFree /\ Admits /\ IdsLeft
    /\ req[q].step = "idle"
    /\ ~HasActive(s)
    /\ Become(q, [IdleRequest EXCEPT !.step = "starting", !.session = s])
    /\ UNCHANGED <<ledger, scheduler, execution, stale, deploy>>

StartCommit(q) ==
    LET s == req[q].session IN
    /\ req[q].step = "starting" /\ ~stale[q]
    /\ \E r \in Reviews : IsNextId(r) /\ Accept(r, s, Unexpired(s))
    /\ Save(q, Unexpired(s))
    /\ Become(q, IdleRequest)
    /\ UNCHANGED <<hasKey, proc, worker, current, execution, deploy>>

\* A previous review changed under the handler: ConcurrentReviewUpdateError.
StartConflict(q) ==
    /\ req[q].step = "starting" /\ stale[q]
    /\ Refresh(q)
    /\ Become(q, IdleRequest)
    /\ UNCHANGED <<ledger, scheduler, execution, deploy>>

\* A start or retry whose key already has a review, after the idempotency
\* record of that key expired: the existing row is answered again, and its id
\* is enqueued whatever state it is in.
Replay(r) ==
    /\ RecordsLapse /\ LoopFree /\ Admits
    /\ state[r] # "ABSENT"
    /\ Enqueue(r)
    /\ UNCHANGED <<ledger, proc, worker, current, execution, req, stale, deploy>>

-----------------------------------------------------------------------------
(* POST /reviews/{id}/retry: the dependency reads the review in a thread,   *)
(* the handler decides on that copy later, on the loop.                     *)

RetryResolve(q, r) ==
    /\ proc = "up" /\ req[q].step = "idle"
    /\ state[r] = "FAILED" /\ r \in retryable
    /\ Become(q, [IdleRequest EXCEPT !.step = "retrying", !.review = r])
    /\ UNCHANGED <<ledger, scheduler, execution, stale, deploy>>

RetryAllowed(q) == Admits /\ IdsLeft /\ ~HasActive(owner[req[q].review])

RetryCommit(q) ==
    /\ LoopFree
    /\ req[q].step = "retrying" /\ RetryAllowed(q)
    /\ \E r \in Reviews : IsNextId(r) /\ Accept(r, owner[req[q].review], {})
    /\ Become(q, IdleRequest)
    /\ UNCHANGED <<hasKey, proc, worker, current, execution, stale, deploy>>

RetryReject(q) ==
    /\ LoopFree
    /\ req[q].step = "retrying" /\ ~RetryAllowed(q)
    /\ Become(q, IdleRequest)
    /\ UNCHANGED <<ledger, scheduler, execution, stale, deploy>>

-----------------------------------------------------------------------------
(* DELETE /reviews/{id}                                                     *)

CancelResolve(q, r) ==
    /\ proc = "up" /\ req[q].step = "idle"
    /\ state[r] \notin {"ABSENT", "EXPIRED"}
    /\ Become(q, [IdleRequest EXCEPT !.step = "cancel", !.review = r])
    /\ UNCHANGED <<ledger, scheduler, execution, stale, deploy>>

\* What the handler does once it has read the latest row, on attempt n.
AfterRead(q, n) ==
    CASE state[req[q].review] = "CANCELLED" -> [req[q] EXCEPT !.step = "clearing"]
      [] state[req[q].review] = "EXPIRED"   -> IdleRequest  \* ValueError
      [] OTHER -> [req[q] EXCEPT !.step = "cancelling", !.tries = n]

\* Fault: remove cancels only a task that has not reached the call.
CancellableEarly(r) == current = r /\ exec = "created"

\* The execution task of r is at an await, where task.cancel() reaches it.
Cancellable(r) == current = r /\ exec \in {"created", "calling"}

\* scheduler.remove: drop the id from the mirror and cancel its execution;
\* if there is one, await its end, else read the row at once.
CancelRemove(q) ==
    LET r == req[q].review IN
    /\ LoopFree
    /\ req[q].step = "cancel"
    /\ Dequeue(r)
    /\ cancelled' = (cancelled \/ Cancellable(r))
    /\ Become(q, IF current # r THEN AfterRead(q, 1)
                 ELSE [req[q] EXCEPT !.step = IF Cancellable(r) THEN "joining"
                                              ELSE "joined"])
    /\ UNCHANGED <<ledger, proc, worker, current, exec, outcome, stale, deploy>>

CancelRead(q) ==
    /\ LoopFree
    /\ req[q].step = "joined"
    /\ Become(q, AfterRead(q, 1))
    /\ UNCHANGED <<ledger, scheduler, execution, stale, deploy>>

CancelSave(q) ==
    LET r == req[q].review IN
    /\ req[q].step = "cancelling" /\ ~stale[q]
    /\ state' = [state EXCEPT ![r] = "CANCELLED"]
    /\ retryable' = retryable \ {r}
    /\ Save(q, {r})
    /\ Become(q, [req[q] EXCEPT !.step = "clearing"])
    /\ UNCHANGED <<owner, hasKey, scheduler, execution, deploy>>

\* Fault: one attempt too many.
AttemptsLeftOneMore(q) == req[q].tries <= CancelAttempts

AttemptsLeft(q) == req[q].tries < CancelAttempts

\* The version moved on: read again, or give up with REVIEW_STATE_CONFLICT.
CancelConflict(q) ==
    /\ req[q].step = "cancelling" /\ stale[q]
    /\ Refresh(q)
    /\ Become(q, IF AttemptsLeft(q)
                 THEN AfterRead(q, req[q].tries + 1)
                 ELSE IdleRequest)
    /\ UNCHANGED <<ledger, scheduler, execution, deploy>>

\* The second transaction: the session gives up its source file.
CancelClear(q) ==
    /\ req[q].step = "clearing"
    /\ hasKey' = hasKey \ {owner[req[q].review]}
    /\ Become(q, IdleRequest)
    /\ UNCHANGED <<state, owner, retryable, scheduler, execution, stale, deploy>>

-----------------------------------------------------------------------------
(* POST /review-sessions/{id}/extend: in a thread, extend the latest review *)
(* that is not EXPIRED.  The save writes every column of the copy it read.  *)

ExtendRead(e, r) ==
    /\ proc = "up" /\ req[e].step = "idle"
    /\ state[r] \notin {"ABSENT", "EXPIRED"}
    /\ \A x \in Unexpired(owner[r]) : x <= r
    /\ Become(e, [IdleRequest EXCEPT !.step = "extending", !.review = r,
                                     !.seen = state[r]])
    /\ UNCHANGED <<ledger, scheduler, execution, stale, deploy>>

ExtendSave(e) ==
    LET r == req[e].review IN
    /\ req[e].step \in {"extending", "extendingAgain"} /\ ~stale[e]
    /\ state' = [state EXCEPT ![r] = req[e].seen]
    /\ Save(e, {r})
    /\ Become(e, IdleRequest)
    /\ UNCHANGED <<owner, retryable, hasKey, scheduler, execution, deploy>>

\* touch_review: on a conflict, read the row again and save once more.
ExtendReread(e) ==
    /\ req[e].step = "extending" /\ stale[e]
    /\ Refresh(e)
    /\ Become(e, [req[e] EXCEPT !.step = "extendingAgain",
                                !.seen = state[req[e].review]])
    /\ UNCHANGED <<ledger, scheduler, execution, deploy>>

ExtendFail(e) ==
    /\ req[e].step = "extendingAgain" /\ stale[e]
    /\ Refresh(e)
    /\ Become(e, IdleRequest)
    /\ UNCHANGED <<ledger, scheduler, execution, deploy>>

-----------------------------------------------------------------------------
(* ReviewScheduler._run                                                     *)

\* Take the oldest id and read its row: a row that is no longer QUEUED is
\* skipped, otherwise an execution task is created.
Dispatch ==
    /\ LoopFree
    /\ worker = "running" /\ proc \in {"up", "stopping"}
    /\ current = NoReview /\ pending # <<>>
    /\ pending' = Tail(pending)
    /\ \/ /\ state[Head(pending)] = "QUEUED"
          /\ current' = Head(pending)
          /\ exec' = "created"
       \/ /\ state[Head(pending)] # "QUEUED"
          /\ UNCHANGED <<current, exec>>
    /\ UNCHANGED <<ledger, proc, worker, cancelled, outcome, req, stale, deploy>>

\* Fault: a cancelled execution ends the worker.
WorkerStopsOnAbort == exec = "aborted"

\* The worker has itself been cancelled and sees a CancelledError.
WorkerStops == worker = "cancelling" \/ (proc = "stopping" /\ exec = "aborted")

\* The await on the execution ends; the worker goes on whatever the task raised.
WorkerResume ==
    /\ LoopFree
    /\ exec \in {"done", "aborted"}
    /\ exec' = "none"
    /\ current' = NoReview
    /\ cancelled' = FALSE /\ outcome' = "ok"
    /\ worker' = IF WorkerStops THEN "ended" ELSE worker
    /\ UNCHANGED <<ledger, proc, pending, req, stale, deploy>>

-----------------------------------------------------------------------------
(* execute_review                                                           *)

\* Fault: the handlers that await the task are not resumed.
EndExecutionAlone(how) == exec' = how /\ req' = req

\* The task ends and with it the gather of the cancel handlers that await it.
EndExecution(how) ==
    /\ exec' = how
    /\ req' = [c \in Clients |-> IF req[c].step = "joining"
                                 THEN [req[c] EXCEPT !.step = "joined"]
                                 ELSE req[c]]

\* A task cancelled before its first step never runs.
ExecAbort ==
    /\ LoopFree
    /\ exec = "created" /\ cancelled
    /\ EndExecution("aborted")
    /\ UNCHANGED <<ledger, scheduler, cancelled, outcome, stale, deploy>>

\* The ready queue is FIFO: a cancel handler whose join ended was made ready
\* before this task was, so it has taken its step.  (It waits for any joined handler; one that
\* joined for another review is made ready about now, and the two orders of its
\* step and this reading come to the same.)
ExecRead ==
    /\ LoopFree
    /\ exec = "created" /\ ~cancelled
    /\ \A q \in Requests : req[q].step # "joined"
    /\ IF state[current] = "QUEUED"
       THEN exec' = "loaded" /\ UNCHANGED req
       ELSE EndExecution("done")
    /\ UNCHANGED <<ledger, scheduler, cancelled, outcome, stale, deploy>>

\* The row becomes REVIEWING, or FAILED when the session has no source file.
ExecStart ==
    /\ exec = "loaded" /\ ~stale[Runner]
    /\ IF owner[current] \in hasKey
       THEN /\ state' = [state EXCEPT ![current] = "REVIEWING"]
            /\ exec' = "calling"
            /\ UNCHANGED req
       ELSE /\ state' = [state EXCEPT ![current] = "FAILED"]
            /\ EndExecution("done")
    /\ retryable' = retryable \ {current}
    /\ Save(Runner, {current})
    /\ UNCHANGED <<owner, hasKey, scheduler, cancelled, outcome, deploy>>

\* The version moved on: ConcurrentReviewUpdateError leaves the task.
ExecStartConflict ==
    /\ exec = "loaded" /\ stale[Runner]
    /\ Refresh(Runner)
    /\ EndExecution("done")
    /\ UNCHANGED <<ledger, scheduler, cancelled, outcome, deploy>>

\* ReviewProgressRecorder: read, save, on a conflict read and save once more,
\* on a second one drop the event.
ProgressRead ==
    /\ LoopFree
    /\ exec = "calling" /\ state[current] = "REVIEWING"
    /\ exec' = "recording"
    /\ UNCHANGED <<ledger, scheduler, cancelled, outcome, req, stale, deploy>>

ProgressSave ==
    /\ exec \in {"recording", "recordingAgain"} /\ ~stale[Runner]
    /\ exec' = "calling"
    /\ Save(Runner, {current})
    /\ UNCHANGED <<ledger, scheduler, cancelled, outcome, req, deploy>>

ProgressConflict ==
    /\ exec \in {"recording", "recordingAgain"} /\ stale[Runner]
    /\ exec' = IF exec = "recording" THEN "recordingAgain" ELSE "calling"
    /\ Refresh(Runner)
    /\ UNCHANGED <<ledger, scheduler, cancelled, outcome, req, deploy>>

\* CancelledError at the MCP call is caught: the task returns normally.
ExecCancelled ==
    /\ LoopFree
    /\ exec = "calling" /\ cancelled
    /\ EndExecution("done")
    /\ UNCHANGED <<ledger, scheduler, cancelled, outcome, stale, deploy>>

\* The call returned, failed or timed out; the row is read again.
ExecAnswer(o) ==
    /\ LoopFree
    /\ exec = "calling" /\ ~cancelled
    /\ IF state[current] = "REVIEWING"
       THEN exec' = "answered" /\ UNCHANGED req
       ELSE EndExecution("done")
    /\ outcome' = o
    /\ UNCHANGED <<ledger, scheduler, cancelled, stale, deploy>>

\* COMPLETED or FAILED; a failure that cannot be retried drops the source file.
ExecFinish ==
    /\ exec = "answered" /\ ~stale[Runner]
    /\ state' = [state EXCEPT ![current] =
                    IF outcome = "ok" THEN "COMPLETED" ELSE "FAILED"]
    /\ retryable' = IF outcome = "retryable" THEN retryable \cup {current}
                    ELSE retryable \ {current}
    /\ hasKey' = IF outcome = "fatal" THEN hasKey \ {owner[current]} ELSE hasKey
    /\ Save(Runner, {current})
    /\ EndExecution("done")
    /\ UNCHANGED <<owner, scheduler, cancelled, outcome, deploy>>

\* The version moved on: roll back and return, the result is lost.
ExecFinishConflict ==
    /\ exec = "answered" /\ stale[Runner]
    /\ Refresh(Runner)
    /\ EndExecution("done")
    /\ UNCHANGED <<ledger, scheduler, cancelled, outcome, deploy>>

-----------------------------------------------------------------------------
(* The process: lifespan start and stop, and death.                         *)

\* The memory of a process that is gone.
Halt ==
    /\ proc' = "down" /\ worker' = "ended"
    /\ pending' = <<>> /\ current' = NoReview
    /\ exec' = "none" /\ cancelled' = FALSE /\ outcome' = "ok"
    /\ req' = [c \in Clients |-> IdleRequest]
    /\ stale' = [a \in Actors |-> FALSE]

\* Fault: no row is found to be interrupted.
NoneReviewing == {}

Reviewing == {r \in Reviews : state[r] = "REVIEWING"}

\* The QUEUED rows that have n older QUEUED rows.
Overflow(n) == {r \in Queued : Cardinality({x \in Queued : x < r}) >= n}

\* Interrupted rows and those beyond the capacity of the build become retryable
\* failures, the other QUEUED rows are enqueued in order, and the worker starts.
Startup(n) ==
    LET failed == Reviewing \cup Overflow(n)
        kept   == Queued \ Overflow(n)
    IN
    /\ proc = "down" /\ capacity' = n
    /\ state' = [r \in Reviews |-> IF r \in failed THEN "FAILED" ELSE state[r]]
    /\ retryable' = retryable \cup failed
    /\ \E order \in [1 .. Cardinality(kept) -> kept] :
          /\ \A i, j \in DOMAIN order : i < j => order[i] < order[j]
          /\ pending' = order
    /\ proc' = "up" /\ worker' = "running"
    /\ UNCHANGED <<owner, hasKey, current, execution, req, stale, restarts>>

\* scheduler.stop, once the server has answered the requests in flight:
\* cancelling the worker cancels the execution it awaits.
ShutdownBegin ==
    /\ LoopFree
    /\ proc = "up" /\ restarts < MaxRestarts
    /\ \A c \in Clients : req[c].step = "idle"
    /\ proc' = "stopping" /\ restarts' = restarts + 1
    /\ worker' = CASE exec = "none"                -> "ended"
                   [] exec \in {"done", "aborted"} -> "cancelling"
                   [] OTHER                        -> worker
    /\ cancelled' = (cancelled \/ exec \in {"created", "calling"})
    /\ UNCHANGED <<ledger, pending, current, exec, outcome, req, stale, capacity>>

\* The worker ended: what was REVIEWING becomes a retryable failure.
ShutdownEnd ==
    /\ proc = "stopping" /\ worker = "ended"
    /\ state' = [r \in Reviews |-> IF r \in Reviewing THEN "FAILED" ELSE state[r]]
    /\ retryable' = retryable \cup Reviewing
    /\ Halt
    /\ UNCHANGED <<owner, hasKey, deploy>>

\* The process dies.
Crash ==
    /\ proc = "up" /\ restarts < MaxRestarts
    /\ restarts' = restarts + 1
    /\ Halt
    /\ UNCHANGED <<ledger, capacity>>

\* The process is killed: it was told to stop and has not.
Kill ==
    /\ proc = "stopping"
    /\ Halt
    /\ UNCHANGED <<ledger, deploy>>

-----------------------------------------------------------------------------
Init ==
    /\ Lifecycle!LifecycleInit
    /\ retryable = {} /\ hasKey = Sessions
    /\ proc = "up" /\ worker = "running"
    /\ pending = <<>> /\ current = NoReview
    /\ exec = "none" /\ cancelled = FALSE /\ outcome = "ok"
    /\ req = [c \in Clients |-> IdleRequest]
    /\ stale = [a \in Actors |-> FALSE]
    /\ restarts = 0 /\ capacity \in Capacities

Start == \E q \in Requests :
    (\E s \in Sessions : StartRead(q, s)) \/ StartCommit(q) \/ StartConflict(q)

Retry == \E q \in Requests :
    (\E r \in Reviews : RetryResolve(q, r)) \/ RetryCommit(q) \/ RetryReject(q)

CancelStep(q) == \/ CancelRemove(q) \/ CancelRead(q) \/ CancelSave(q)
                 \/ CancelConflict(q) \/ CancelClear(q)

Cancel == \E q \in Requests :
    (\E r \in Reviews : CancelResolve(q, r)) \/ CancelStep(q)

ExtendStep(e) == ExtendSave(e) \/ ExtendReread(e) \/ ExtendFail(e)

Extend == \E e \in Extenders : (\E r \in Reviews : ExtendRead(e, r)) \/ ExtendStep(e)

Execute == \/ ExecAbort \/ ExecRead \/ ExecStart \/ ExecStartConflict
           \/ ProgressRead \/ ProgressSave \/ ProgressConflict
           \/ ExecCancelled \/ (\E o \in Outcomes : ExecAnswer(o))
           \/ ExecFinish \/ ExecFinishConflict

Next == \/ Start \/ (\E r \in Reviews : Replay(r)) \/ Retry \/ Cancel \/ Extend
        \/ Dispatch \/ WorkerResume \/ Execute
        \/ (\E n \in Capacities : Startup(n))
        \/ ShutdownBegin \/ ShutdownEnd \/ Crash \/ Kill

Spec == Init /\ [][Next]_vars

=============================================================================
