-------------------------- MODULE SessionFilesProofs --------------------------
(***************************************************************************)
(* Rows and files agree: whatever the requests, uploads, reviews, cleanups, *)
(* failures and crashes, how many there are and how they interleave, a     *)
(* stored file has an owner, a key names a file, the state shown is the    *)
(* state the row has, slots are counted, a process serves clean, and the   *)
(* cleanup takes nothing that is still named -- each with the exceptions   *)
(* that the property lists.                                                *)
(***************************************************************************)
EXTENDS SessionFiles, FiniteSetTheorems, TLAPS

-----------------------------------------------------------------------------
(* The inductive invariant.                                                 *)

LoopUnlinks(s) == loop.step = "unlink" /\ loop.session = s
LoopKeeps(s) == loop # Free /\ loop.session = s
CleanerListed(s) == cleaner.step = "listed" /\ s \in DOMAIN cleaner.work
CleanerDeletes(s) == cleaner.step = "deleting" /\ s \in cleaner.files
Holds(c, s) == req[c] # Idle /\ req[c].session = s

\* Time for the touches of an accepted and of a running review is kept, and
\* reviews have a row.
RowsBound ==
    \A s \in Sessions : /\ issued[s] + Reserve(s) <= MaxDeadlines
                        /\ ~Exists(s) => review[s] = "none"

\* One request at a time is between the checks and the commit of a start; what
\* is about to be saved was not refused.
RequestsFit ==
    /\ \A c \in Clients : req[c].step = "accept" => Accepting(req[c].session)
    /\ \A c, d \in Clients : req[c].step = "accept" /\ req[d].step = "accept" => c = d
    /\ \A c \in Clients :
         req[c] # Idle /\ req[c].base # NoRow => ~Refused(req[c].step, req[c].snap)

\* Whatever names a session comes after the end of its upload.
UploadsPrecede ==
    /\ \A s \in Sessions :
         Exists(s) \/ s \in older \/ LoopKeeps(s) \/ CleanerDeletes(s) \/ CleanerListed(s)
           => upload[s] = "ended"
    /\ \A c \in Clients : req[c] # Idle => upload[req[c].session] = "ended"

UploadFiles ==
    \A s \in Sessions : /\ upload[s] = "assessing" => file[s] = "stored"
                        /\ upload[s] \in {"new", "saving"} => file[s] # "stored"

\* The copies of a row that somebody may still write back, and the row itself.
RequestCopy(s, r) ==
    \E c \in Clients : Holds(c, s) /\ (r = req[c].snap \/ r = req[c].base)
LoopCopy(s, r) ==
    /\ loop.step \in {"reread", "flush"} /\ loop.session = s
    /\ r = loop.snap \/ r = loop.base
CleanerCopy(s, r) ==
    CleanerListed(s) /\ (r = cleaner.work[s].snap \/ r = cleaner.work[s].base)
Copy(s, r) == \/ RequestCopy(s, r) \/ LoopCopy(s, r) \/ CleanerCopy(s, r)
              \/ r = row[s]

\* They show a true state, unless columns of two copies were mixed.
TrueRow(r) == ReadyIsStartable(r) /\ ExpiredHoldsNothing(r)
CopiesAreTrue ==
    \A s \in Sessions : \A r \in Row : Copy(s, r) => TrueRow(r) \/ s \in mixed

\* A copy without a key of a row with one, and an expired copy with a key, are
\* there only after a key was put back.
KeyTells(s, r) ==
    \/ s \in restored
    \/ (Referenced(s) => r.key) /\ ~(r.state = "EXPIRED" /\ r.key)
CopiesTell == \A s \in Sessions : \A r \in Row : Copy(s, r) => KeyTells(s, r)

\* Between a crash and the end of the start-up only the cleanup runs.
Quiet ==
    /\ proc # "up" => /\ loop = Free
                      /\ \A c \in Clients : req[c] = Idle
                      /\ \A s \in Sessions : upload[s] \in {"new", "ended"}
    /\ proc = "down" => cleaner = CleanerIdle
    /\ proc = "starting" => \A s \in Sessions : review[s] # "REVIEWING"

\* A handler in progress takes the file away, or a mishap kept it from that.
Doomed(s) == LoopUnlinks(s) \/ CleanerDeletes(s) \/ s \in orphaned \cup (restored \cap mixed)

\* The row names the file, and so does every copy that may be written over it.
Shared(s) ==
    /\ Referenced(s)
    /\ \A c \in Clients : Holds(c, s) => req[c].snap.key /\ req[c].step # "deleteRow"
    /\ CleanerListed(s) => cleaner.work[s].snap.key

\* FilesAreOwned is not inductive: a stale copy without the key may be written
\* over a row that names the file, unless no such copy exists.
FilesAccounted ==
    \A s \in Sessions :
        file[s] = "stored" => upload[s] = "assessing" \/ Doomed(s) \/ Shared(s)

\* Nobody is about to delete a file that the row names.
DoomedUnnamed ==
    \A s \in Sessions :
        /\ LoopUnlinks(s) => ~Referenced(s) \/ s \in restored
        /\ CleanerDeletes(s) =>
             \/ ~Referenced(s) /\ (review[s] = "REVIEWING" => s \in overtaken)
             \/ s \in restored

SlotsCounted ==
    /\ IsFiniteSet(InUpload)
    /\ uploading = Cardinality(InUpload) + others
    /\ uploading <= UploadSlots

FilesInv ==
    /\ TypeOK /\ RowsBound /\ RequestsFit /\ SlotsCounted /\ UploadsPrecede /\ UploadFiles
    /\ CopiesAreTrue /\ CopiesTell /\ Quiet /\ FilesAccounted /\ DoomedUnnamed
    /\ KeysNameFiles

-----------------------------------------------------------------------------
(* What the types say of requests, the loop, the cleanup and rows.          *)

Steps == {"select", "confirm", "extend", "touchReview", "touchSession", "delete",
          "unlink", "deleteRow", "start", "accept", "retry"}

ReqTyped ==
    \A c \in Clients : req[c] # Idle =>
        /\ req[c].step \in Steps /\ req[c].session \in Sessions /\ req[c].snap \in Row
        /\ req[c].base # NoRow => req[c].base \in Row

LoopTyped ==
    loop # Free =>
        /\ loop.step \in {"accept", "release", "unlink", "reread", "flush"}
        /\ loop.session \in Sessions
        /\ loop.step \in {"reread", "flush"} => loop.snap \in Row /\ loop.base \in Row

CleanerTyped ==
    /\ cleaner.step \in {"idle", "listed", "deleting"}
    /\ cleaner.step = "idle" => cleaner = CleanerIdle
    /\ cleaner.step = "listed" =>
         /\ DOMAIN cleaner.work \subseteq Sessions
         /\ cleaner.work \in [DOMAIN cleaner.work -> View]
         /\ cleaner = [step |-> "listed", work |-> cleaner.work]
         /\ \A s \in DOMAIN cleaner.work :
              cleaner.work[s].snap \in Row /\ cleaner.work[s].base \in Row
    /\ cleaner.step = "deleting" => cleaner.files \subseteq Sessions

LEMMA ReqFacts == ASSUME TypeOK PROVE ReqTyped
  BY DEF TypeOK, ReqTyped, Request, Idle, Steps

LEMMA LoopFacts == ASSUME TypeOK PROVE LoopTyped
<1>1. CASE loop \in [step : {"accept", "release", "unlink"}, session : Sessions]
  BY <1>1 DEF LoopTyped
<1>2. CASE loop \in [step : {"reread", "flush"}, session : Sessions, snap : Row, base : Row]
  BY <1>2 DEF LoopTyped
<1>. QED
  BY <1>1, <1>2 DEF TypeOK, LoopTyped, LoopStep

LEMMA CleanerFacts == ASSUME TypeOK PROVE CleanerTyped
<1>1. CASE cleaner = CleanerIdle
  BY <1>1 DEF CleanerTyped, CleanerIdle
<1>2. CASE cleaner \in [step : {"deleting"}, files : SUBSET Sessions]
  BY <1>2 DEF CleanerTyped
<1>3. ASSUME NEW S \in SUBSET Sessions, cleaner \in [step : {"listed"}, work : [S -> View]]
      PROVE  CleanerTyped
  <2>1. /\ cleaner.step = "listed" /\ cleaner.work \in [S -> View]
        /\ cleaner = [step |-> "listed", work |-> cleaner.work]
    BY <1>3
  <2>2. DOMAIN cleaner.work = S
    BY <2>1
  <2>3. \A s \in S : cleaner.work[s].snap \in Row /\ cleaner.work[s].base \in Row
    BY <2>1 DEF View
  <2>. QED
    BY <2>1, <2>2, <2>3 DEF CleanerTyped
<1>. QED
  BY <1>1, <1>2, <1>3 DEF TypeOK, CleanerOK

LEMMA RestFacts ==
    /\ Idle.step = "idle" /\ Free.step = "free" /\ CleanerIdle.step = "idle"
    /\ NoRow \notin Row
  BY DEF Idle, Free, CleanerIdle, NoRow, Row

LEMMA RowFacts == ASSUME TypeOK, NEW s \in Sessions, Exists(s) PROVE row[s] \in Row
  BY DEF TypeOK, Exists

\* A touch changes the deadline of a row and nothing else.
LEMMA DeadlineOnly ==
    ASSUME NEW r \in Row, NEW d \in 1 .. MaxDeadlines
    PROVE  LET q == [r EXCEPT !.deadline = d] IN
           q \in Row /\ q.key = r.key /\ q.state = r.state /\ (TrueRow(r) => TrueRow(q))
  BY DEF Row, TrueRow, ReadyIsStartable, ExpiredHoldsNothing, Startable, TypeChosen

\* Giving up the key makes no state untrue.
LEMMA KeyOnly ==
    ASSUME NEW r \in Row, NEW k \in BOOLEAN, k => r.key
    PROVE  LET q == [r EXCEPT !.key = k] IN
           q \in Row /\ q.key = k /\ q.state = r.state /\ (TrueRow(r) => TrueRow(q))
  BY DEF Row, TrueRow, ReadyIsStartable, ExpiredHoldsNothing, Startable, TypeChosen

LEMMA ExpiredIsTrue ==
    ASSUME NEW r \in Row
    PROVE  ExpiredRow(r) \in Row /\ ~ExpiredRow(r).key /\ TrueRow(ExpiredRow(r))
  BY DEF Row, ExpiredRow, TrueRow, ReadyIsStartable, ExpiredHoldsNothing

LEMMA ReleasedIsTrue ==
    ASSUME NEW r \in Row
    PROVE  /\ ReleasedRow(r) \in Row /\ ~ReleasedRow(r).key
           /\ TrueRow(r) => TrueRow(ReleasedRow(r))
  BY DEF Row, ReleasedRow, TrueRow, ReadyIsStartable, ExpiredHoldsNothing, Startable,
         TypeChosen

LEMMA ChoiceIsTrue ==
    ASSUME NEW r \in Row, r.scope # "EMPTY_DOCUMENT"
    PROVE  /\ SelectedRow(r) \in Row /\ SelectedRow(r).key = r.key
           /\ SelectedRow(r).state # "EXPIRED" /\ TrueRow(SelectedRow(r))
  BY DEF Row, SelectedRow, TrueRow, ReadyIsStartable, ExpiredHoldsNothing, Startable,
         TypeChosen

LEMMA ConfirmationIsTrue ==
    ASSUME NEW r \in Row, r.scope = "OUT_OF_SCOPE"
    PROVE  /\ ConfirmedRow(r) \in Row /\ ConfirmedRow(r).key = r.key
           /\ ConfirmedRow(r).state # "EXPIRED" /\ TrueRow(ConfirmedRow(r))
  BY DEF Row, ConfirmedRow, TrueRow, ReadyIsStartable, ExpiredHoldsNothing, Startable,
         TypeChosen

LEMMA NewRowIsTrue ==
    ASSUME NEW scope \in ScopeStatuses, NEW d \in 1 .. MaxDeadlines
    PROVE  LET q == [state |-> StateFor(scope), scope |-> scope, selected |-> FALSE,
                     confirmed |-> FALSE, key |-> TRUE, deadline |-> d]
           IN q \in Row /\ q.key /\ q.state # "EXPIRED" /\ TrueRow(q)
  BY DEF Row, StateFor, ScopeStatuses, TrueRow, ReadyIsStartable, ExpiredHoldsNothing,
         Startable, TypeChosen

\* A flush: each column comes from the copy or from the row.
LEMMA FlushedFacts ==
    ASSUME NEW now \in Row, NEW r \in Row, NEW b \in Row
    PROVE  /\ Flushed(now, r, b) \in Row
           /\ Flushed(now, r, b).key = IF r.key # b.key THEN r.key ELSE now.key
           /\ Flushed(now, r, b).state = IF r.state # b.state THEN r.state ELSE now.state
  BY DEF Row, Flushed, Column

\* Unless a key is put back, no flush leaves an expired row with a key.
LEMMA FlushTells ==
    ASSUME NEW now \in Row, NEW old \in Row, NEW r \in Row, NEW b \in Row,
           now.key => old.key /\ b.key,
           ~(now.state = "EXPIRED" /\ now.key), ~(old.state = "EXPIRED" /\ old.key),
           r.state = "EXPIRED" => old.state = "EXPIRED" \/ ~r.key,
           Flushed(now, r, b).key => now.key
    PROVE  ~(Flushed(now, r, b).state = "EXPIRED" /\ Flushed(now, r, b).key)
  BY FlushedFacts DEF Row

-----------------------------------------------------------------------------
(* The writes to one row: what a request, the loop or an execution saves.   *)

Writes(s, q) ==
    /\ row' = [row EXCEPT ![s] = q]
    /\ restored' = IF q.key /\ ~row[s].key THEN restored \cup {s} ELSE restored
    /\ mixed' \in {mixed, mixed \cup {s}}
    /\ TrueRow(q) \/ s \in mixed'
    /\ s \in restored' \/ ~(q.state = "EXPIRED" /\ q.key)

LEMMA SaveWrites ==
    ASSUME TypeOK, CopiesTell, NEW s \in Sessions, Exists(s),
           NEW old \in Row, NEW r \in Row, NEW b \in Row, NEW base \in Row,
           Copy(s, old), Copy(s, base), b.key = base.key,
           TrueRow(r) \/ s \in mixed, r.state = "EXPIRED" => old.state = "EXPIRED" \/ ~r.key,
           Save(s, r, b)
    PROVE  \E q \in Row : Writes(s, q) /\ q.key \in {row[s].key, r.key}
<1> DEFINE q == Flushed(row[s], r, b)
<1>1. row[s] \in Row /\ Copy(s, row[s])
  BY RowFacts DEF Copy
<1>2. q \in Row /\ q.key \in {row[s].key, r.key}
  BY <1>1, FlushedFacts
<1>3. /\ row' = [row EXCEPT ![s] = q]
      /\ restored' = IF q.key /\ ~row[s].key THEN restored \cup {s} ELSE restored
      /\ mixed' = IF q # r THEN mixed \cup {s} ELSE mixed
  BY DEF Save
<1>4. s \in restored' \/ ~(q.state = "EXPIRED" /\ q.key)
  <2>1. CASE s \in restored \/ (q.key /\ ~row[s].key)
    BY <1>3, <2>1
  <2>2. CASE s \notin restored /\ (q.key => row[s].key)
    <3>1. KeyTells(s, row[s]) /\ KeyTells(s, old) /\ KeyTells(s, base)
      BY <1>1 DEF CopiesTell
    <3>2. /\ row[s].key => old.key /\ b.key
          /\ ~(row[s].state = "EXPIRED" /\ row[s].key)
          /\ ~(old.state = "EXPIRED" /\ old.key)
      BY <2>2, <3>1 DEF KeyTells, Referenced
    <3>. QED
      BY <1>1, <2>2, <3>2, FlushTells
  <2>. QED
    BY <2>1, <2>2
<1> HIDE DEF q
<1>5. Writes(s, q)
  BY <1>3, <1>4 DEF Writes
<1>. QED
  BY <1>2, <1>5

LEMMA TouchWrites ==
    ASSUME TypeOK, CopiesTell, FilesAssumption, NEW s \in Sessions, Exists(s),
           NEW old \in Row, NEW r \in Row, NEW b \in Row, Copy(s, old), Copy(s, b),
           TrueRow(r) \/ s \in mixed, r.state = old.state,
           CanIssue(s, 1), Touch(s, r, b)
    PROVE  \E q \in Row : Writes(s, q) /\ q.key \in {row[s].key, r.key}
<1> DEFINE d == issued[s] + 1
           q == [r EXCEPT !.deadline = d]
<1>1. d \in 1 .. MaxDeadlines
  BY DEF TypeOK, CanIssue, FilesAssumption
<1>2. q \in Row /\ q.key = r.key /\ q.state = r.state /\ (TrueRow(r) => TrueRow(q))
  BY <1>1, DeadlineOnly
<1>3. Save(s, q, b)
  BY DEF Touch
<1> HIDE DEF q
<1>4. \E w \in Row : Writes(s, w) /\ w.key \in {row[s].key, q.key}
  BY <1>2, <1>3, SaveWrites
<1>. QED
  BY <1>2, <1>4

RequestWrites(c, s) ==
    \/ UNCHANGED <<saved, issued>>
    \/ /\ Exists(s)
       /\ issued'[s] \in {issued[s], issued[s] + 1}
       /\ \E q \in Row : Writes(s, q) /\ q.key \in {row[s].key, req[c].snap.key}

LEMMA RequestHolds ==
    ASSUME TypeOK, CopiesAreTrue, NEW c \in Clients, req[c] # Idle
    PROVE  /\ req[c].session \in Sessions /\ req[c].snap \in Row
           /\ Copy(req[c].session, req[c].snap) /\ Copy(req[c].session, req[c].base)
           /\ TrueRow(req[c].snap) \/ req[c].session \in mixed
           /\ req[c].base # NoRow => req[c].base \in Row
<1>1. /\ req[c].session \in Sessions /\ req[c].snap \in Row
      /\ req[c].base # NoRow => req[c].base \in Row
  BY ReqFacts DEF ReqTyped
<1>2. Copy(req[c].session, req[c].snap) /\ Copy(req[c].session, req[c].base)
  BY DEF Copy, RequestCopy, Holds
<1>. QED
  BY <1>1, <1>2 DEF CopiesAreTrue

LEMMA SelectWrites ==
    ASSUME TypeOK, RequestsFit, CopiesAreTrue, CopiesTell, NEW c \in Clients,
           NEW another \in BOOLEAN, SelectType(c, another)
    PROVE  req[c] # Idle /\ RequestWrites(c, req[c].session)
<1> DEFINE s == req[c].session
           b == [req[c].base EXCEPT !.selected = @ /\ ~another]
           q == SelectedRow(req[c].snap)
<1>1. req[c] # Idle
  BY RestFacts DEF SelectType
<1>2. CASE ~Exists(s)
  BY <1>1, <1>2 DEF RequestWrites, SelectType, Finish
<1>3. CASE Exists(s)
  <2>1. /\ s \in Sessions /\ req[c].snap \in Row /\ req[c].base \in Row
        /\ Copy(s, req[c].snap) /\ Copy(s, req[c].base)
    BY <1>1, RequestHolds DEF SelectType
  <2>2. /\ Save(s, q, b) /\ issued' = issued
    BY <1>3 DEF SelectType, Finish
  <2>3. req[c].snap.scope # "EMPTY_DOCUMENT"
    BY <1>1 DEF RequestsFit, Refused, SelectType
  <2>4. q \in Row /\ q.key = req[c].snap.key /\ q.state # "EXPIRED" /\ TrueRow(q)
    BY <2>1, <2>3, ChoiceIsTrue
  <2>5. \E w \in Row : Writes(s, w) /\ w.key \in {row[s].key, q.key}
    <3>1. b \in Row /\ b.key = req[c].base.key
      BY <2>1 DEF Row
    <3> HIDE DEF q, b, s
    <3>. QED
      BY <1>3, <2>1, <2>2, <2>4, <3>1, SaveWrites
  <2>. QED
    BY <1>1, <1>3, <2>2, <2>4, <2>5 DEF RequestWrites
<1>. QED
  BY <1>2, <1>3

LEMMA ConfirmWrites ==
    ASSUME TypeOK, RequestsFit, CopiesAreTrue, CopiesTell, NEW c \in Clients, ConfirmScope(c)
    PROVE  req[c] # Idle /\ RequestWrites(c, req[c].session)
<1> DEFINE s == req[c].session
           q == ConfirmedRow(req[c].snap)
<1>1. req[c] # Idle
  BY RestFacts DEF ConfirmScope
<1>2. CASE ~Exists(s)
  BY <1>1, <1>2 DEF RequestWrites, ConfirmScope, Finish
<1>3. CASE Exists(s)
  <2>1. /\ s \in Sessions /\ req[c].snap \in Row /\ req[c].base \in Row
        /\ Copy(s, req[c].snap) /\ Copy(s, req[c].base)
    BY <1>1, RequestHolds DEF ConfirmScope
  <2>2. Save(s, q, req[c].base) /\ issued' = issued
    BY <1>3 DEF ConfirmScope, Finish
  <2>3. req[c].snap.scope = "OUT_OF_SCOPE"
    BY <1>1 DEF RequestsFit, Refused, ConfirmScope
  <2>4. q \in Row /\ q.key = req[c].snap.key /\ q.state # "EXPIRED" /\ TrueRow(q)
    BY <2>1, <2>3, ConfirmationIsTrue
  <2> HIDE DEF q, s
  <2>5. \E w \in Row : Writes(s, w) /\ w.key \in {row[s].key, q.key}
    BY <1>3, <2>1, <2>2, <2>4, SaveWrites
  <2>6. RequestWrites(c, s)
    BY <1>3, <2>2, <2>4, <2>5 DEF RequestWrites
  <2>. QED
    BY <1>1, <2>6 DEF s
<1>. QED
  BY <1>2, <1>3

LEMMA ExtendWrites ==
    ASSUME TypeOK, FilesAssumption, CopiesAreTrue, CopiesTell, NEW c \in Clients,
           ExtendReview(c) \/ ExtendSession(c)
    PROVE  req[c] # Idle /\ RequestWrites(c, req[c].session)
<1> DEFINE s == req[c].session
<1>1. req[c] # Idle /\ s \in Sessions /\ CanIssue(s, 1)
  <2>1. req[c] # Idle
    BY RestFacts DEF ExtendReview, ExtendSession
  <2>2. s \in Sessions
    BY <2>1, RequestHolds
  <2>. QED
    BY <2>1, <2>2
    DEF ExtendReview, ExtendSession, CanIssue, Reserve, TypeOK, FilesAssumption
<1>2. CASE ~Exists(s)
  BY <1>1, <1>2 DEF RequestWrites, ExtendReview, ExtendSession, Finish
<1>3. ASSUME Exists(s), NEW r \in Row, NEW b \in Row, Copy(s, r), Copy(s, b), Touch(s, r, b),
             r.key \in {row[s].key, req[c].snap.key}
      PROVE  RequestWrites(c, s)
  <2>1. TrueRow(r) \/ s \in mixed
    BY <1>1, <1>3 DEF CopiesAreTrue
  <2>2. issued'[s] = issued[s] + 1
    BY <1>1, <1>3 DEF Touch, TypeOK
  <2> HIDE DEF s
  <2>3. \E q \in Row : Writes(s, q) /\ q.key \in {row[s].key, r.key}
    BY <1>1, <1>3, <2>1, TouchWrites
  <2>. QED
    BY <1>3, <2>2, <2>3 DEF RequestWrites
<1>4. CASE Exists(s) /\ ExtendReview(c)
  <2>1. row[s] \in Row /\ Copy(s, row[s])
    BY <1>1, <1>4, RowFacts DEF Copy
  <2>2. Touch(s, row[s], row[s])
    BY <1>4 DEF ExtendReview, Finish
  <2>. QED
    BY <1>1, <1>3, <1>4, <2>1, <2>2
<1>5. CASE Exists(s) /\ ExtendSession(c)
  <2>1. /\ req[c].snap \in Row /\ req[c].base \in Row
        /\ Copy(s, req[c].snap) /\ Copy(s, req[c].base)
    BY <1>1, <1>5, RequestHolds DEF ExtendSession
  <2>2. Touch(s, req[c].snap, req[c].base)
    BY <1>5 DEF ExtendSession, Finish
  <2>. QED
    BY <1>1, <1>3, <1>5, <2>1, <2>2
<1>. QED
  BY <1>2, <1>4, <1>5

LEMMA StartWrites ==
    ASSUME TypeOK, FilesAssumption, RowsBound, RequestsFit, CopiesAreTrue, CopiesTell,
           NEW c \in Clients, StartCommit(c)
    PROVE  /\ req[c] # Idle /\ RequestWrites(c, req[c].session) /\ Exists(req[c].session)
           /\ issued[req[c].session] + 2 <= MaxDeadlines
<1> DEFINE s == req[c].session
           r == req[c].snap
<1>1. req[c] # Idle
  BY RestFacts DEF StartCommit
<1>2. s \in Sessions /\ r \in Row /\ Copy(s, r) /\ (TrueRow(r) \/ s \in mixed)
  BY <1>1, RequestHolds
<1>3. Touch(s, r, row[s]) /\ Exists(s) /\ row[s] \in Row /\ Copy(s, row[s])
  BY <1>2, RowFacts DEF StartCommit, Copy
<1>4. issued[s] + 2 <= MaxDeadlines /\ CanIssue(s, 1)
  BY <1>2, FilesAssumption
  DEF StartCommit, RequestsFit, RowsBound, Reserve, CanIssue, TypeOK
<1>5. issued'[s] = issued[s] + 1
  BY <1>2, <1>3 DEF Touch, TypeOK
<1> HIDE DEF s, r
<1>6. \E q \in Row : Writes(s, q) /\ q.key \in {row[s].key, r.key}
  BY <1>2, <1>3, <1>4, TouchWrites
<1>7. RequestWrites(c, s)
  BY <1>3, <1>5, <1>6 DEF RequestWrites, r
<1>. QED
  BY <1>1, <1>3, <1>4, <1>7 DEF s

LEMMA FinishWrites ==
    ASSUME TypeOK, FilesAssumption, RowsBound, CopiesAreTrue, CopiesTell,
           NEW s \in Sessions, NEW o \in Outcomes, ExecFinish(s, o)
    PROVE  /\ Exists(s)
           /\ \E q \in Row : Writes(s, q) /\ q.key \in {row[s].key, row[s].key /\ o # "fatal"}
<1> DEFINE k == row[s].key /\ o # "fatal"
           r == [row[s] EXCEPT !.key = k]
<1>1. Exists(s)
  BY DEF ExecFinish, RowsBound
<1>2. row[s] \in Row /\ Copy(s, row[s]) /\ (TrueRow(row[s]) \/ s \in mixed)
  BY <1>1, RowFacts DEF CopiesAreTrue, Copy
<1>3. k \in BOOLEAN /\ (k => row[s].key)
  OBVIOUS
<1>4. row[s].key \in BOOLEAN
  BY <1>2 DEF Row
<1>5. (row[s].key /\ ~(o = "fatal" /\ row[s].key)) = k
  BY <1>4
<1>6. Touch(s, r, row[s]) /\ CanIssue(s, 1)
  BY <1>5 DEF ExecFinish
<1> HIDE DEF k
<1>7. r \in Row /\ r.key = k /\ r.state = row[s].state /\ (TrueRow(row[s]) => TrueRow(r))
  BY <1>2, <1>3, KeyOnly
<1> HIDE DEF r
<1>8. \E q \in Row : Writes(s, q) /\ q.key \in {row[s].key, r.key}
  BY <1>1, <1>2, <1>6, <1>7, TouchWrites
<1>. QED
  BY <1>1, <1>7, <1>8 DEF k

LEMMA ReleaseWrites ==
    ASSUME TypeOK, CopiesAreTrue, CopiesTell, CancelFlush
    PROVE  /\ loop.session \in Sessions /\ loop # Free
           /\ \/ UNCHANGED saved /\ ~Exists(loop.session) /\ loop' = Free
              \/ /\ Exists(loop.session)
                 /\ loop' = [step |-> "unlink", session |-> loop.session]
                 /\ \E q \in Row : /\ Writes(loop.session, q)
                                   /\ q.key \in {row[loop.session].key, FALSE}
                                   /\ q.key => loop.session \in restored
<1> DEFINE s == loop.session
           r == ReleasedRow(loop.snap)
           b == loop.base
<1>1. loop # Free /\ s \in Sessions /\ loop.snap \in Row /\ b \in Row
  BY LoopFacts, RestFacts DEF CancelFlush, LoopTyped
<1>2. CASE ~Exists(s)
  BY <1>1, <1>2 DEF CancelFlush
<1>3. CASE Exists(s)
  <2>1. Copy(s, loop.snap) /\ Copy(s, b)
    BY DEF Copy, LoopCopy, CancelFlush
  <2>2. r \in Row /\ ~r.key /\ (TrueRow(r) \/ s \in mixed)
    BY <1>1, <2>1, ReleasedIsTrue DEF CopiesAreTrue
  <2>3. Save(s, r, b) /\ loop' = [step |-> "unlink", session |-> s]
    BY <1>3 DEF CancelFlush
  <2>4. PICK q \in Row : Writes(s, q) /\ q.key \in {row[s].key, r.key}
    BY <1>1, <1>3, <2>1, <2>2, <2>3, SaveWrites
  <2>5. r.key = FALSE /\ row[s] \in Row
    BY <1>1, <1>3, <2>2, RowFacts DEF Row
  <2>6. ASSUME q.key, s \notin restored
        PROVE  FALSE
    <3>1. row'[s] = q /\ row'[s] = Flushed(row[s], r, b)
      BY <1>1, <2>3, <2>4 DEF Save, Writes, TypeOK
    <3>2. Flushed(row[s], r, b).key = IF r.key # b.key THEN r.key ELSE row[s].key
      BY <1>1, <2>2, <2>5, FlushedFacts
    <3>3. row[s].key /\ ~b.key
      BY <1>1, <2>2, <2>5, <2>6, <3>1, <3>2 DEF Row
    <3>4. KeyTells(s, b)
      BY <1>1, <2>1 DEF CopiesTell
    <3>. QED
      BY <1>3, <2>6, <3>3, <3>4 DEF KeyTells, Referenced
  <2>. QED
    BY <1>1, <1>3, <2>3, <2>4, <2>5, <2>6
<1>. QED
  BY <1>2, <1>3

-----------------------------------------------------------------------------
(* Types.                                                                   *)

\* The steps that write rows, reviews or expiry times.
LEMMA RowFrame ==
    ASSUME [Next]_vars
    PROVE
      \/ \E s \in Sessions, scope \in ScopeStatuses : UploadCommit(s, scope)
      \/ \E c \in Clients : \/ (\E another \in BOOLEAN : SelectType(c, another))
                            \/ ConfirmScope(c) \/ ExtendReview(c) \/ ExtendSession(c)
                            \/ DeleteCommit(c) \/ StartCommit(c) \/ Retry(c)
      \/ \E s \in Sessions : \/ ExecStart(s)
                             \/ \E o \in Outcomes : ExecFinish(s, o)
      \/ \E s \in Sessions, latest \in BOOLEAN : CancelMark(s, latest)
      \/ CancelFlush
      \/ \E tombstones \in SUBSET Sessions : CleanupCommit(tombstones)
      \/ Restart
      \/ \E s \in Sessions : \E n \in 1 .. MaxDeadlines : Pass(s, n)
      \/ UNCHANGED <<row, review, older, issued, passed, restored, mixed>>
<1> DEFINE Same == UNCHANGED <<row, review, older, issued, passed, restored, mixed>>
<1> USE DEF rows, time, uploads, handlers, history
<1>1. ASSUME NEW s \in Sessions, Upload(s)
      PROVE  (\E scope \in ScopeStatuses : UploadCommit(s, scope)) \/ Same
  BY <1>1 DEF Upload, UploadEnds, UploadBegin, UploadRefused, UploadWrite, UploadStore,
              UploadFails, UploadCancelled
<1>2. ASSUME NEW c \in Clients, Handle(c)
      PROVE  \/ (\E another \in BOOLEAN : SelectType(c, another))
             \/ ConfirmScope(c) \/ ExtendReview(c) \/ ExtendSession(c)
             \/ DeleteCommit(c) \/ StartCommit(c) \/ Retry(c) \/ Same
  BY <1>2
  DEF Handle, Accept, Resolve, Become, Reread, ExtendList, DeleteCheck, DeleteUnlink,
      StartCheck, StartReject
<1>3. ASSUME \/ OthersEnter \/ OthersLeave \/ LoopUnlink \/ LoopUnlinkFails \/ CleanupFails
             \/ CleanupDeleteFails \/ Crash \/ Serve \/ CleanupList \/ CleanupAborts
             \/ CancelRead \/ CancelReread \/ UNCHANGED vars
             \/ \E s \in Sessions : \/ CleanupCheck(s) \/ CleanupRead(s) \/ CleanupReviews(s)
                                    \/ CleanupDelete(s)
      PROVE  Same
  BY <1>3 DEF OthersEnter, OthersLeave, LoopUnlink, LoopUnlinkFails, CleanupFails, vars,
         CleanupDeleteFails, Crash, Serve, CleanupList, CleanupAborts, CleanupCheck,
         CleanupRead, CleanupReviews, CleanupDelete, CancelRead, CancelReread
<1> HIDE DEF Same
<1>4. QED
  BY <1>1, <1>2, <1>3 DEF Next, Execute, Cancel, Release, Clean, Same

\* What the cleanup commits to a session it found.
LEMMA ExpiryWrites ==
    ASSUME TypeOK, CopiesTell, NEW s \in Sessions, NEW tombstones \in SUBSET Sessions,
           CleanupCommit(tombstones), s \in ToExpire
    PROVE  /\ Exists(s) /\ s \notin tombstones
           /\ row'[s] \in Row /\ (TrueRow(row'[s]) \/ s \in mixed')
           /\ row'[s].key \in {row[s].key, FALSE}
           /\ s \in restored' \/ ~row'[s].key
           /\ s \in restored' \/ ~(row'[s].state = "EXPIRED" /\ row'[s].key)
<1> DEFINE old == cleaner.work[s].snap
           r == ExpiredRow(old)
           q == Flushed(row[s], r, Base(s))
<1>1. s \in Found /\ CleanerListed(s)
  BY DEF CleanupCommit, AtCommit, ToExpire, Found, InPhase, CleanerListed
<1>2. Exists(s) /\ row[s] \in Row
  BY RowFacts DEF CleanupCommit, Conflict
<1>3. s \notin tombstones /\ restored' = restored
  BY DEF CleanupCommit
<1>4. old \in Row /\ Base(s) \in Row /\ Copy(s, Base(s))
  BY <1>1, <1>2, CleanerFacts DEF CleanerTyped, CleanerListed, Base, Copy, CleanerCopy
<1>5. r \in Row /\ ~r.key /\ TrueRow(r)
  BY <1>4, ExpiredIsTrue
<1>6. row' = [t \in Sessions |->
                IF t \in tombstones THEN NoRow
                ELSE IF t \in ToExpire
                     THEN Flushed(row[t], ExpiredRow(cleaner.work[t].snap), Base(t))
                     ELSE row[t]]
  <2>1. \A t \in ToExpire : [u \in ToExpire |-> ExpiredRow(cleaner.work[u].snap)][t]
                              = ExpiredRow(cleaner.work[t].snap)
    OBVIOUS
  <2>. QED
    BY <2>1 DEF CleanupCommit
<1>7. row'[s] = q
  BY <1>3, <1>6
<1>8. mixed' = mixed \cup {t \in ToExpire : row'[t] # ExpiredRow(cleaner.work[t].snap)}
  BY DEF CleanupCommit
<1>9. q \in Row /\ q.key = IF r.key # Base(s).key THEN r.key ELSE row[s].key
  BY <1>2, <1>4, <1>5, FlushedFacts
<1>10. r.key = FALSE /\ Base(s).key \in BOOLEAN /\ row[s].key \in BOOLEAN
  BY <1>2, <1>4, <1>5 DEF Row
<1>11. s \in restored \/ ~q.key
  BY <1>2, <1>4, <1>9, <1>10 DEF CopiesTell, KeyTells, Referenced
<1>12. TrueRow(q) \/ s \in mixed'
  BY <1>5, <1>7, <1>8
<1> HIDE DEF q, r
<1>. QED
  BY <1>2, <1>3, <1>7, <1>9, <1>10, <1>11, <1>12

LEMMA RowsStep ==
    ASSUME TypeOK, RowsBound, RequestsFit, CopiesAreTrue, CopiesTell, FilesAssumption,
           [Next]_vars
    PROVE  row' \in [Sessions -> Row \cup {NoRow}]
<1> DEFINE Goal == row \in [Sessions -> Row \cup {NoRow}]
<1>0. row \in [Sessions -> Row \cup {NoRow}]
  BY DEF TypeOK
<1>1. ASSUME NEW s \in Sessions, NEW scope \in ScopeStatuses, UploadCommit(s, scope)
      PROVE  Goal'
  <2>1. issued[s] + 1 \in 1 .. MaxDeadlines
    BY <1>1 DEF UploadCommit, CanIssue, TypeOK, FilesAssumption
  <2>. QED
    BY <1>0, <1>1, <2>1, NewRowIsTrue DEF UploadCommit
<1>2. ASSUME NEW s \in Sessions, NEW q \in Row, row' = [row EXCEPT ![s] = q]
      PROVE  Goal'
  BY <1>0, <1>2
<1>3. ASSUME NEW c \in Clients,
             \/ (\E another \in BOOLEAN : SelectType(c, another)) \/ ConfirmScope(c)
             \/ ExtendReview(c) \/ ExtendSession(c) \/ StartCommit(c)
      PROVE  Goal'
  <2>1. req[c] # Idle /\ RequestWrites(c, req[c].session)
    BY <1>3, SelectWrites, ConfirmWrites, ExtendWrites, StartWrites
  <2>. QED
    BY <1>0, <1>2, <2>1, ReqFacts DEF RequestWrites, Writes, ReqTyped, saved
<1>4. ASSUME NEW c \in Clients, DeleteCommit(c)
      PROVE  Goal'
  BY <1>0, <1>4 DEF DeleteCommit, Drop
<1>5. ASSUME NEW s \in Sessions, NEW o \in Outcomes, ExecFinish(s, o)
      PROVE  Goal'
  BY <1>2, <1>5, FinishWrites DEF Writes
<1>6. CASE CancelFlush
  BY <1>0, <1>2, <1>6, ReleaseWrites DEF Writes, saved
<1>7. ASSUME NEW tombstones \in SUBSET Sessions, CleanupCommit(tombstones)
      PROVE  Goal'
  <2>1. DOMAIN row' = Sessions /\ row' = [s \in Sessions |-> row'[s]]
    BY <1>7 DEF CleanupCommit
  <2>2. ASSUME NEW s \in Sessions PROVE row'[s] \in Row \cup {NoRow}
    <3>1. CASE s \in ToExpire
      BY <1>7, <3>1, ExpiryWrites
    <3>2. CASE s \notin ToExpire
      BY <1>0, <1>7, <3>2 DEF CleanupCommit
    <3>. QED
      BY <3>1, <3>2
  <2>. QED
    BY <2>1, <2>2
<1>8. CASE Restart
  <2>1. ASSUME NEW s \in Interrupted
        PROVE  [row[s] EXCEPT !.deadline = issued[s] + 1] \in Row
    <3>1. issued[s] + 1 \in 1 .. MaxDeadlines /\ row[s] \in Row
      BY <2>1, RowFacts
      DEF Interrupted, RowsBound, Reserve, HasActive, ActiveStates, TypeOK,
          FilesAssumption
    <3>. QED
      BY <3>1, DeadlineOnly
  <2>. QED
    BY <1>0, <1>8, <2>1 DEF Restart
<1>9. CASE UNCHANGED row
  BY <1>0, <1>9
<1>. QED
  BY RowFrame, <1>1, <1>3, <1>4, <1>5, <1>6, <1>7, <1>8, <1>9
  DEF Retry, ExecStart, CancelMark, Pass, rows

\* The handler that keeps the loop: a start is checked and committed, an
\* execution or a cancellation gives the file up.
LoopSteps ==
    \/ loop' = loop
    \/ /\ loop' = Free
       /\ loop.step = "unlink" => LoopUnlink \/ LoopUnlinkFails \/ Crash
       /\ loop.step = "accept" =>
            Crash \/ \E c \in Clients : req[c].step = "accept" /\ Accept(c)
    \/ \E c \in Clients :
         StartCheck(c) /\ loop' = [step |-> "accept", session |-> req[c].session]
    \/ \E s \in Sessions, latest \in BOOLEAN :
         CancelMark(s, latest) /\ loop' = [step |-> "release", session |-> s]
    \/ \E s \in Sessions : /\ ExecFinish(s, "fatal") /\ row[s].key
                           /\ loop' = [step |-> "unlink", session |-> s]
    \/ /\ CancelRead /\ Referenced(loop.session)
       /\ loop' = [step |-> "reread", session |-> loop.session,
                   snap |-> row[loop.session], base |-> row[loop.session]]
    \/ /\ CancelReread /\ Exists(loop.session)
       /\ loop' = [step |-> "flush", session |-> loop.session,
                   snap |-> loop.snap, base |-> row[loop.session]]
    \/ /\ CancelFlush /\ Exists(loop.session)
       /\ loop' = [step |-> "unlink", session |-> loop.session]

LEMMA LoopStepping == ASSUME TypeOK, RequestsFit, [Next]_vars PROVE LoopSteps
<1>1. ASSUME NEW s \in Sessions, NEW latest \in BOOLEAN, CancelMark(s, latest)
      PROVE  LoopSteps
  BY <1>1 DEF CancelMark, LoopSteps
<1>2. ASSUME NEW s \in Sessions, NEW o \in Outcomes, ExecFinish(s, o) PROVE LoopSteps
  BY <1>2, RestFacts DEF ExecFinish, LoopFree, LoopSteps
<1>3. ASSUME CancelRead \/ CancelFlush PROVE LoopSteps
  BY <1>3 DEF CancelRead, CancelFlush, LoopSteps
<1>4. ASSUME CancelReread PROVE LoopSteps
  BY <1>4 DEF CancelReread, LoopSteps
<1>5. ASSUME LoopUnlink \/ LoopUnlinkFails \/ Crash PROVE LoopSteps
  BY <1>5 DEF LoopUnlink, LoopUnlinkFails, Crash, LoopSteps
<1>6. ASSUME loop' = loop PROVE LoopSteps
  BY <1>6 DEF LoopSteps
<1>7. ASSUME NEW s \in Sessions, Upload(s) \/ ExecStart(s)
      PROVE  loop' = loop
  BY <1>7 DEF Upload, UploadBegin, UploadRefused, UploadWrite, UploadStore, UploadCommit,
              UploadFails, UploadCancelled, ExecStart
<1>8. ASSUME NEW c \in Clients, Handle(c)
      PROVE  LoopSteps
  <2>1. CASE StartCheck(c)
    BY <2>1 DEF StartCheck, LoopSteps
  <2>2. CASE Accept(c)
    <3>1. loop' = Free
      BY <2>2 DEF Accept, StartCommit, StartReject
    <3>2. loop = Free \/ req[c].step = "accept"
      BY <2>2 DEF Accept, StartCommit, StartReject, LoopFree
    <3>3. req[c].step = "accept" => loop.step = "accept"
      BY DEF RequestsFit, Accepting
    <3>. QED
      BY <2>2, <3>1, <3>2, <3>3, RestFacts DEF LoopSteps
  <2>3. CASE ~StartCheck(c) /\ ~Accept(c)
    <3>1. loop' = loop
      BY <1>8, <2>3 DEF Handle, Resolve, Reread, SelectType, ConfirmScope, ExtendList,
         ExtendReview, ExtendSession, DeleteCheck, DeleteUnlink, DeleteCommit, Retry
    <3>. QED
      BY <1>6, <3>1
  <2>. QED
    BY <2>1, <2>2, <2>3
<1>9. ASSUME \/ OthersEnter \/ OthersLeave \/ Clean \/ CleanupFails \/ CleanupDeleteFails
             \/ Restart \/ Serve \/ UNCHANGED vars
             \/ \E t \in Sessions : \E n \in 1 .. MaxDeadlines : Pass(t, n)
      PROVE  loop' = loop
  BY <1>9 DEF OthersEnter, OthersLeave, Clean, CleanupList, CleanupCheck, CleanupRead,
              CleanupReviews, CleanupCommit, CleanupAborts, CleanupDelete,
              CleanupFails, CleanupDeleteFails, Restart, Serve, Pass, vars
<1>10. ASSUME Next PROVE LoopSteps
  BY <1>1, <1>2, <1>3, <1>4, <1>5, <1>6, <1>7, <1>8, <1>9, <1>10
  DEF Next, Execute, Cancel, Release
<1>. QED
  BY <1>6, <1>9, <1>10

LEMMA AcceptingStep ==
    ASSUME TypeOK, RequestsFit, [Next]_vars, NEW s \in Sessions, Accepting(s)'
    PROVE  Accepting(s) \/ \E c \in Clients : StartCheck(c) /\ req[c].session = s
  BY LoopStepping, RestFacts DEF LoopSteps, Accepting

\* Expiry times and reviews.
TimeTyped ==
    /\ issued \in [Sessions -> 0 .. MaxDeadlines]
    /\ passed \in [Sessions -> 0 .. MaxDeadlines]
    /\ review \in [Sessions -> ReviewStates] /\ older \subseteq Sessions

\* What a step other than the check of a start does to the bound.
Keeps(s) ==
    /\ Exists(s) => Exists(s)' \/ review'[s] = "none"
    /\ ~Exists(s) => review'[s] = "none"
    /\ \/ issued'[s] = issued[s] /\ (HasActive(s)' => HasActive(s))
       \/ issued'[s] \in {issued[s], issued[s] + 1} /\ issued[s] + 2 <= MaxDeadlines
            /\ ~Accepting(s)'
       \/ issued'[s] = issued[s] + 1 /\ issued[s] + 1 + Reserve(s) <= MaxDeadlines
            /\ (HasActive(s)' => HasActive(s))
       \/ issued'[s] \in {issued[s], issued[s] + 1} /\ issued[s] + 1 <= MaxDeadlines
            /\ ~Accepting(s)' /\ (HasActive(s)' => issued'[s] = issued[s])

LEMMA BoundStep ==
    ASSUME TypeOK, FilesAssumption, RowsBound, RequestsFit, [Next]_vars,
           issued' \in [Sessions -> Nat],
           \A c \in Clients : ~StartCheck(c),
           \A s \in Sessions : Keeps(s)
    PROVE  RowsBound'
<1> SUFFICES ASSUME NEW s \in Sessions
             PROVE  /\ (issued[s] + Reserve(s) <= MaxDeadlines)'
                    /\ (~Exists(s) => review[s] = "none")'
  BY DEF RowsBound
<1>1. Accepting(s)' => Accepting(s)
  BY AcceptingStep
<1>2. issued[s] \in Nat /\ issued'[s] \in Nat /\ MaxDeadlines \in Nat
  BY FilesAssumption DEF TypeOK
<1>3. issued[s] + Reserve(s) <= MaxDeadlines
  BY DEF RowsBound
<1>4. (issued[s] + Reserve(s) <= MaxDeadlines)'
  BY <1>1, <1>2, <1>3 DEF Keeps, Reserve
<1>5. (~Exists(s) => review[s] = "none")'
  BY DEF Keeps
<1>. QED
  BY <1>4, <1>5

LEMMA TimeStep ==
    ASSUME TypeOK, RowsBound, RequestsFit, CopiesAreTrue, CopiesTell, UploadsPrecede, Quiet,
           FilesAssumption, [Next]_vars
    PROVE  TimeTyped' /\ RowsBound'
<1> DEFINE Goal == TimeTyped' /\ RowsBound'
<1> USE DEF TimeTyped, HasActive, ActiveStates, ReviewStates, CanIssue, FilesAssumption
<1>0. TimeTyped
  BY DEF TypeOK
<1>a. \A s \in Sessions : /\ issued[s] + Reserve(s) <= MaxDeadlines
                          /\ ~Exists(s) => review[s] = "none"
  BY DEF RowsBound
<1>b. ASSUME TimeTyped', \A c \in Clients : ~StartCheck(c), \A s \in Sessions : Keeps(s)
      PROVE  Goal
  BY <1>b, BoundStep
<1>c. ASSUME loop' = Free PROVE \A s \in Sessions : ~Accepting(s)'
  BY <1>c, RestFacts DEF Accepting
<1> HIDE DEF Goal
<1>1. ASSUME NEW s \in Sessions, NEW scope \in ScopeStatuses, UploadCommit(s, scope)
      PROVE  Goal
  <2>1. ~Exists(s) /\ Exists(s)'
    BY <1>1, RestFacts, NewRowIsTrue
    DEF UploadCommit, UploadsPrecede, Exists, TypeOK, NoRow
  <2>2. \A t \in Sessions \ {s} : row'[t] = row[t]
    BY <1>1 DEF UploadCommit, TypeOK
  <2>3. /\ UNCHANGED <<review, passed, older, req, loop>> /\ LoopFree
        /\ issued' = [issued EXCEPT ![s] = @ + 1] /\ issued[s] + 1 <= MaxDeadlines
    BY <1>1 DEF UploadCommit, handlers
  <2>4. TimeTyped'
    BY <1>0, <2>3
  <2>5. \A c \in Clients : ~StartCheck(c)
    BY <2>3, RestFacts DEF StartCheck, LoopFree
  <2>6. ~Accepting(s)'
    BY <2>3, <1>c DEF LoopFree
  <2>7. \A t \in Sessions : Keeps(t)
    BY <1>0, <1>a, <2>1, <2>2, <2>3, <2>6 DEF Keeps, Exists
  <2>. QED
    BY <1>b, <2>4, <2>5, <2>7
<1>2. ASSUME NEW c \in Clients,
             (\E another \in BOOLEAN : SelectType(c, another)) \/ ConfirmScope(c)
      PROVE  Goal
  <2>1. /\ req[c] # Idle /\ RequestWrites(c, req[c].session)
        /\ UNCHANGED <<review, older, passed, issued, loop>>
    BY <1>2, SelectWrites, ConfirmWrites DEF SelectType, ConfirmScope, Finish, Save
  <2>2. \A t \in Sessions : Exists(t) => Exists(t)'
    BY <2>1, RestFacts DEF RequestWrites, Writes, Exists, TypeOK, saved
  <2>3. \A d \in Clients : ~StartCheck(d)
    BY <2>1, RestFacts DEF StartCheck, LoopFree
  <2>4. \A t \in Sessions : Keeps(t)
    BY <1>a, <2>1, <2>2 DEF Keeps
  <2>. QED
    BY <1>0, <1>b, <2>1, <2>3, <2>4
<1>3. ASSUME NEW c \in Clients, ExtendReview(c) \/ ExtendSession(c)
      PROVE  Goal
  <2> DEFINE s == req[c].session
  <2>1. RequestWrites(c, s) /\ s \in Sessions
    BY <1>3, ExtendWrites, ReqFacts DEF ReqTyped
  <2>2. \A t \in Sessions : Exists(t) => Exists(t)'
    BY <2>1, RestFacts DEF RequestWrites, Writes, Exists, TypeOK, saved
  <2>3. /\ UNCHANGED <<review, older, passed, loop>>
        /\ issued' = issued \/ issued' = [issued EXCEPT ![s] = @ + 1]
        /\ issued[s] + (1 + Reserve(s)) <= MaxDeadlines
    BY <1>0, <1>3, <2>1 DEF ExtendReview, ExtendSession, Finish, Touch
  <2>4. issued[s] + 1 + Reserve(s) <= MaxDeadlines /\ Reserve(s) \in Nat
    BY <1>0, <2>1, <2>3 DEF Reserve
  <2>5. TimeTyped'
    BY <1>0, <2>1, <2>3, <2>4
  <2>6. \A d \in Clients : ~StartCheck(d)
    BY <2>3, RestFacts DEF StartCheck, LoopFree
  <2>7. \A t \in Sessions : Keeps(t)
    BY <1>0, <1>a, <2>1, <2>2, <2>3, <2>4 DEF Keeps
  <2>. QED
    BY <1>b, <2>5, <2>6, <2>7
<1>4. ASSUME NEW c \in Clients, StartCommit(c)
      PROVE  Goal
  <2> DEFINE s == req[c].session
  <2>1. RequestWrites(c, s) /\ s \in Sessions /\ Exists(s) /\ issued[s] + 2 <= MaxDeadlines
    BY <1>4, StartWrites, ReqFacts DEF ReqTyped
  <2>2. \A t \in Sessions : Exists(t) => Exists(t)'
    BY <2>1, RestFacts DEF RequestWrites, Writes, Exists, TypeOK, saved
  <2>3. /\ review' = [review EXCEPT ![s] = "QUEUED"] /\ passed' = passed
        /\ older' \subseteq older /\ loop' = Free
        /\ issued' = [issued EXCEPT ![s] = @ + 1]
    BY <1>4 DEF StartCommit, Touch
  <2>4. TimeTyped'
    BY <1>0, <2>1, <2>3
  <2>5. \A d \in Clients : ~StartCheck(d)
    BY <2>3, RestFacts DEF StartCheck
  <2>6. \A t \in Sessions : Keeps(t)
    BY <1>0, <1>a, <1>c, <2>1, <2>2, <2>3 DEF Keeps
  <2>. QED
    BY <1>b, <2>4, <2>5, <2>6
<1>5. ASSUME NEW c \in Clients, DeleteCommit(c)
      PROVE  Goal
  <2>1. UNCHANGED <<issued, passed, loop>> /\ review' \in [Sessions -> ReviewStates]
        /\ older' \subseteq Sessions
    BY <1>0, <1>5 DEF DeleteCommit, Drop, time
  <2>2. \A d \in Clients : ~StartCheck(d)
    BY <2>1, RestFacts DEF StartCheck, LoopFree
  <2>3. \A t \in Sessions : Keeps(t)
    BY <1>0, <1>a, <1>5 DEF DeleteCommit, Drop, Exists, time, Keeps
  <2>. QED
    BY <1>0, <1>b, <2>1, <2>2, <2>3
<1>6. ASSUME NEW c \in Clients, Retry(c)
      PROVE  Goal
  <2> DEFINE s == req[c].session
  <2>1. s \in Sessions
    BY <1>6, ReqFacts, RestFacts DEF Retry, ReqTyped
  <2>2. /\ UNCHANGED <<row, issued, passed, loop>> /\ loop = Free
        /\ issued[s] + 1 <= MaxDeadlines
        /\ \/ UNCHANGED <<review, older>>
           \/ /\ Exists(s) /\ review' = [review EXCEPT ![s] = "QUEUED"]
              /\ older' \subseteq older \cup {s}
    BY <1>6 DEF Retry, LoopFree, time
  <2>3. TimeTyped'
    BY <1>0, <2>1, <2>2
  <2>4. \A d \in Clients : ~StartCheck(d)
    BY <2>2, RestFacts DEF StartCheck
  <2>5. \A t \in Sessions : Keeps(t)
    BY <1>0, <1>a, <1>c, <2>1, <2>2 DEF Keeps, Exists
  <2>. QED
    BY <1>b, <2>3, <2>4, <2>5
<1>7. ASSUME NEW s \in Sessions, ExecStart(s)
      PROVE  Goal
  <2>1. /\ UNCHANGED <<row, issued, passed, older, loop>> /\ review[s] = "QUEUED"
        /\ \E r \in {"REVIEWING", "DONE"} : review' = [review EXCEPT ![s] = r]
    BY <1>7 DEF ExecStart, time
  <2>2. TimeTyped'
    BY <1>0, <2>1
  <2>3. \A d \in Clients : ~StartCheck(d)
    BY <2>1, RestFacts DEF StartCheck, LoopFree
  <2>4. \A t \in Sessions : Keeps(t)
    BY <1>0, <1>a, <2>1 DEF Keeps, Exists
  <2>. QED
    BY <1>b, <2>2, <2>3, <2>4
<1>8. ASSUME NEW s \in Sessions, NEW o \in Outcomes, ExecFinish(s, o)
      PROVE  Goal
  <2>1. \A t \in Sessions : Exists(t) => Exists(t)'
    BY <1>8, FinishWrites, RestFacts DEF Writes, Exists, TypeOK
  <2>2. /\ review' = [review EXCEPT ![s] = IF o = "retryable" THEN "FAILED" ELSE "DONE"]
        /\ UNCHANGED <<passed, older, req>> /\ issued' = [issued EXCEPT ![s] = @ + 1]
        /\ review[s] = "REVIEWING" /\ issued[s] + 1 <= MaxDeadlines
        /\ loop'.step # "accept"
    BY <1>8, RestFacts DEF ExecFinish, Touch, handlers
  <2>3. TimeTyped'
    BY <1>0, <2>2
  <2>4. \A d \in Clients : ~StartCheck(d)
    BY <2>2 DEF StartCheck
  <2>5. \A t \in Sessions : Keeps(t)
    BY <1>0, <1>a, <2>1, <2>2 DEF Keeps, Accepting
  <2>. QED
    BY <1>b, <2>3, <2>4, <2>5
<1>9. ASSUME NEW s \in Sessions, NEW latest \in BOOLEAN, CancelMark(s, latest)
      PROVE  Goal
  <2>1. /\ UNCHANGED <<row, issued, passed, older, req>> /\ loop'.step # "accept"
        /\ review' = review \/ (review' = [review EXCEPT ![s] = "CANCELLED"] /\ review[s] # "none")
    BY <1>9 DEF CancelMark, time, handlers
  <2>2. TimeTyped'
    BY <1>0, <2>1
  <2>3. \A d \in Clients : ~StartCheck(d)
    BY <2>1 DEF StartCheck
  <2>4. \A t \in Sessions : Keeps(t)
    BY <1>0, <1>a, <2>1 DEF Keeps, Exists
  <2>. QED
    BY <1>b, <2>2, <2>3, <2>4
<1>10. ASSUME CancelFlush PROVE Goal
  <2>1. \A t \in Sessions : Exists(t) => Exists(t)'
    BY <1>10, ReleaseWrites, RestFacts DEF Exists, TypeOK, Writes, saved
  <2>2. UNCHANGED <<issued, passed, review, older, req>> /\ loop'.step # "accept"
    BY <1>10, RestFacts DEF CancelFlush, time, handlers
  <2>3. \A d \in Clients : ~StartCheck(d)
    BY <2>2 DEF StartCheck
  <2>4. \A t \in Sessions : Keeps(t)
    BY <1>a, <2>1, <2>2 DEF Keeps
  <2>. QED
    BY <1>0, <1>b, <2>2, <2>3, <2>4
<1>11. ASSUME NEW tombstones \in SUBSET Sessions, CleanupCommit(tombstones)
       PROVE  Goal
  <2>1. \A s \in Sessions : Exists(s)' \/ s \in tombstones \/ (~Exists(s) /\ s \notin ToExpire)
    <3>1. ASSUME NEW s \in Sessions, s \in ToExpire
          PROVE  Exists(s)'
      BY <1>11, <3>1, ExpiryWrites, RestFacts DEF Exists
    <3>2. ASSUME NEW s \in Sessions, s \notin ToExpire, s \notin tombstones
          PROVE  row'[s] = row[s]
      BY <1>11, <3>2 DEF CleanupCommit
    <3>. QED
      BY <3>1, <3>2 DEF Exists
  <2>2. \A s \in Sessions : review'[s] =
                 IF s \in tombstones THEN "none"
                 ELSE IF s \in ToExpire \ Overtaken THEN ExpiredReview(s) ELSE review[s]
    BY <1>11 DEF CleanupCommit
  <2>3. \A s \in Sessions : ExpiredReview(s) \in {"none", "EXPIRED"}
    BY DEF ExpiredReview
  <2>4. review' \in [Sessions -> ReviewStates]
    BY <1>0, <1>11, <2>3 DEF CleanupCommit
  <2>5. UNCHANGED <<issued, passed, loop>> /\ older' \subseteq older
    BY <1>11 DEF CleanupCommit, time
  <2>6. \A d \in Clients : ~StartCheck(d)
    BY <2>5, RestFacts DEF StartCheck, LoopFree
  <2>7. ASSUME NEW s \in Sessions PROVE Keeps(s)
    <3>1. ~Exists(s) => s \notin ToExpire
      BY <1>11 DEF CleanupCommit, Conflict
    <3>2. review'[s] \in {"none", "EXPIRED", review[s]}
      BY <2>2, <2>3
    <3>3. ~Exists(s) => review'[s] = "none"
      BY <1>a, <2>2, <3>1
    <3>4. Exists(s) => Exists(s)' \/ review'[s] = "none"
      BY <2>1, <2>2
    <3>. QED
      BY <2>5, <3>2, <3>3, <3>4 DEF Keeps
  <2>. QED
    BY <1>0, <1>b, <2>4, <2>5, <2>6, <2>7
<1>12. ASSUME Restart PROVE Goal
  <2>1. ASSUME NEW s \in Interrupted
        PROVE  /\ [row[s] EXCEPT !.deadline = issued[s] + 1] # NoRow
               /\ issued[s] + 1 <= MaxDeadlines
    <3>1. row[s] \in Row
      BY <2>1, <1>a, RowFacts DEF Interrupted
    <3>2. issued[s] + 1 <= MaxDeadlines
      BY <1>0, <1>a, <2>1 DEF Interrupted, Reserve
    <3>. QED
      BY <3>1, <3>2 DEF Row, NoRow
  <2>2. UNCHANGED <<passed, older, loop>> /\ loop = Free
    BY <1>12 DEF Restart, Quiet
  <2>3. /\ \A s \in Interrupted : issued'[s] = issued[s] + 1 /\ review'[s] = "FAILED" /\ Exists(s)'
        /\ \A s \in Sessions \ Interrupted :
             issued'[s] = issued[s] /\ review'[s] = review[s] /\ row'[s] = row[s]
    BY <1>12, <2>1 DEF Restart, Exists, Interrupted
  <2>4. TimeTyped'
    BY <1>0, <1>12, <2>1 DEF Restart, Interrupted
  <2>5. \A d \in Clients : ~StartCheck(d)
    BY <2>2, RestFacts DEF StartCheck
  <2>6. ASSUME NEW s \in Sessions PROVE Keeps(s)
    <3>1. CASE s \in Interrupted
      BY <1>a, <1>c, <2>1, <2>2, <2>3, <3>1 DEF Keeps, Interrupted
    <3>2. CASE s \notin Interrupted
      BY <1>a, <2>3, <3>2 DEF Keeps, Exists
    <3>. QED
      BY <3>1, <3>2
  <2>. QED
    BY <1>b, <2>4, <2>5, <2>6
<1>13. ASSUME NEW s \in Sessions, NEW n \in 1 .. MaxDeadlines, Pass(s, n)
       PROVE  Goal
  <2>1. UNCHANGED <<row, review, older, issued, loop>> /\ passed' = [passed EXCEPT ![s] = n]
    BY <1>13 DEF Pass, rows
  <2>2. \A d \in Clients : ~StartCheck(d)
    BY <2>1, RestFacts DEF StartCheck, LoopFree
  <2>3. \A t \in Sessions : Keeps(t)
    BY <1>a, <2>1 DEF Keeps, Exists
  <2>. QED
    BY <1>0, <1>b, <2>1, <2>2, <2>3
<1>14. ASSUME UNCHANGED <<row, review, older, issued, passed>> PROVE Goal
  <2>1. TimeTyped'
    BY <1>0, <1>14
  <2>2. CASE \A c \in Clients : ~StartCheck(c)
    <3>1. \A t \in Sessions : Keeps(t)
      BY <1>a, <1>14 DEF Keeps, Exists
    <3>. QED
      BY <1>b, <2>1, <2>2, <3>1
  <2>3. ASSUME NEW c \in Clients, StartCheck(c)
        PROVE  Goal
    <3>1. /\ loop' = [step |-> "accept", session |-> req[c].session]
          /\ loop = Free /\ issued[req[c].session] + 2 <= MaxDeadlines
      BY <2>3 DEF StartCheck, LoopFree
    <3>2. ASSUME NEW s \in Sessions
          PROVE  (issued[s] + Reserve(s) <= MaxDeadlines)'
      <4>1. Accepting(s)' => s = req[c].session
        BY <3>1 DEF Accepting
      <4>2. ~Accepting(s)
        BY <3>1, RestFacts DEF Accepting
      <4>. QED
        BY <1>0, <1>a, <1>14, <3>1, <4>1, <4>2 DEF Reserve
    <3>3. ASSUME NEW s \in Sessions
          PROVE  (~Exists(s) => review[s] = "none")'
      BY <1>a, <1>14 DEF Exists
    <3>. QED
      BY <2>1, <3>2, <3>3 DEF RowsBound, Goal
  <2>. QED
    BY <2>2, <2>3
<1>. QED
  BY RowFrame, <1>1, <1>2, <1>3, <1>4, <1>5, <1>6, <1>7, <1>8, <1>9, <1>10, <1>11, <1>12,
     <1>13,
     <1>14 DEF Goal

-----------------------------------------------------------------------------
(* A step of a request: it goes on with its copy, ends, or reads the row.   *)

GoesOn(c) ==
    /\ req[c] # Idle /\ req'[c] # Idle
    /\ req'[c].session = req[c].session /\ req'[c].snap = req[c].snap
    /\ \/ req'[c].base = req[c].base
       \/ /\ req'[c].base = row[req[c].session]
          /\ ~Refused(req'[c].step, req'[c].snap)
    /\ req[c].step # "deleteRow"
    /\ req'[c].step = req[c].step \/ req'[c].step \notin {"select", "confirm"}
    /\ req'[c].step = "deleteRow" => DeleteUnlink(c)
    /\ req'[c].step = "accept" => StartCheck(c)

Reads(c) ==
    /\ req[c] = Idle /\ req'[c] # Idle /\ proc = "up"
    /\ req'[c].session \in Sessions /\ Exists(req'[c].session)
    /\ req'[c].snap = row[req'[c].session] /\ req'[c].base = NoRow
    /\ req'[c].step \notin {"deleteRow", "accept"}
    /\ UNCHANGED <<rows, file, time, uploads, loop, cleaner, proc, faults, history>>

Ends(c) ==
    /\ req'[c] = Idle
    /\ req[c].step = "deleteRow" => DeleteCommit(c) \/ Crash

LEMMA ResolveReads ==
    ASSUME TypeOK, NEW c \in Clients, NEW s \in Sessions,
           NEW step \in {"select", "confirm", "extend", "delete", "start", "retry"},
           Resolve(c, s, step)
    PROVE  /\ \E new \in Request : req' = [req EXCEPT ![c] = new]
           /\ asked' \in 0 .. MaxRequests /\ Reads(c)
<1> DEFINE new == [step |-> step, session |-> s, snap |-> row[s], base |-> NoRow]
<1>1. row[s] \in Row
  BY RowFacts DEF Resolve, Visible
<1>2. new \in Request /\ new # Idle
  BY <1>1 DEF Request, Idle
<1>3. req' = [req EXCEPT ![c] = new]
  BY DEF Resolve
<1>4. req'[c] = new
  BY <1>3 DEF TypeOK
<1>5. asked' \in 0 .. MaxRequests
  BY FilesAssumption DEF Resolve, TypeOK
<1>6. Reads(c)
  BY <1>2, <1>4 DEF Resolve, Reads, Visible, Up
<1>. QED
  BY <1>2, <1>3, <1>5, <1>6

RequestRecord == [step : Steps, session : Sessions, snap : Row, base : Row \cup {NoRow}]

LEMMA RequestTyped ==
    ASSUME TypeOK, NEW c \in Clients, req[c] # Idle PROVE req[c] \in RequestRecord
  BY DEF TypeOK, Request, RequestRecord, Steps

LEMMA GoesOnTyped ==
    ASSUME NEW r \in RequestRecord, NEW step \in Steps
    PROVE  LET new == [r EXCEPT !.step = step] IN
           /\ new \in Request /\ new # Idle /\ new.step = step
           /\ new.session = r.session /\ new.snap = r.snap /\ new.base = r.base
<1>1. [r EXCEPT !.step = step] \in RequestRecord
  BY DEF RequestRecord
<1>2. \A q \in RequestRecord : q \in Request /\ q # Idle
  BY DEF Request, RequestRecord, Idle, Steps
<1>3. /\ [r EXCEPT !.step = step].step = step
      /\ [r EXCEPT !.step = step].session = r.session
      /\ [r EXCEPT !.step = step].snap = r.snap
      /\ [r EXCEPT !.step = step].base = r.base
  BY DEF RequestRecord
<1>. QED
  BY <1>1, <1>2, <1>3

LEMMA RereadTyped ==
    ASSUME NEW r \in RequestRecord, NEW b \in Row
    PROVE  LET new == [r EXCEPT !.base = b] IN
           /\ new \in Request /\ new # Idle /\ new.step = r.step
           /\ new.session = r.session /\ new.snap = r.snap /\ new.base = b
<1>1. [r EXCEPT !.base = b] \in RequestRecord
  BY DEF RequestRecord
<1>2. \A q \in RequestRecord : q \in Request /\ q # Idle
  BY DEF Request, RequestRecord, Idle, Steps
<1>3. /\ [r EXCEPT !.base = b].step = r.step
      /\ [r EXCEPT !.base = b].session = r.session
      /\ [r EXCEPT !.base = b].snap = r.snap
      /\ [r EXCEPT !.base = b].base = b
  BY DEF RequestRecord
<1>. QED
  BY <1>1, <1>2, <1>3

LEMMA RequestStep ==
    ASSUME TypeOK, [Next]_vars
    PROVE  /\ req' \in [Clients -> Request] /\ asked' \in 0 .. MaxRequests
           /\ \A c \in Clients : req'[c] = req[c] \/ GoesOn(c) \/ Reads(c) \/ Ends(c)
<1> DEFINE Goal == /\ req' \in [Clients -> Request] /\ asked' \in 0 .. MaxRequests
                   /\ \A c \in Clients : req'[c] = req[c] \/ GoesOn(c) \/ Reads(c) \/ Ends(c)
<1>0. /\ req \in [Clients -> Request] /\ asked \in 0 .. MaxRequests /\ Idle \in Request
      /\ Idle.step = "idle"
  BY DEF TypeOK, Request, Idle
<1>1. ASSUME NEW c \in Clients, NEW s \in Sessions,
             NEW step \in {"select", "confirm", "extend", "delete", "start", "retry"},
             Resolve(c, s, step)
      PROVE  Goal
  <2>1. PICK new \in Request : req' = [req EXCEPT ![c] = new]
    BY <1>1, ResolveReads
  <2>2. asked' \in 0 .. MaxRequests /\ Reads(c)
    BY <1>1, ResolveReads
  <2>. QED
    BY <1>0, <2>1, <2>2
<1>2. ASSUME NEW c \in Clients, Become(c, Idle),
             req[c].step = "deleteRow" => DeleteCommit(c) \/ Crash
      PROVE  Goal
  BY <1>0, <1>2 DEF Become, Ends
<1>3. ASSUME NEW c \in Clients,
             NEW step \in {"touchReview", "touchSession", "unlink", "deleteRow", "accept"},
             req[c].step \notin {"idle", "deleteRow"},
             Become(c, [req[c] EXCEPT !.step = step]),
             step = "deleteRow" => DeleteUnlink(c), step = "accept" => StartCheck(c)
      PROVE  Goal
  <2> DEFINE new == [req[c] EXCEPT !.step = step]
  <2>1. req[c] # Idle
    BY <1>0, <1>3
  <2>2. /\ new \in Request /\ new # Idle /\ new.step = step
        /\ new.session = req[c].session /\ new.snap = req[c].snap /\ new.base = req[c].base
    <3>1. req[c] \in RequestRecord /\ step \in Steps
      BY <2>1, RequestTyped DEF Steps
    <3>. QED
      BY <3>1, GoesOnTyped
  <2>3. req' = [req EXCEPT ![c] = new] /\ asked' = asked
    BY <1>3 DEF Become
  <2> HIDE DEF new
  <2>4. req'[c] = new
    BY <1>0, <2>3
  <2>5. /\ req[c].step # "deleteRow" /\ step \notin {"select", "confirm"}
        /\ step = "deleteRow" => DeleteUnlink(c)
        /\ step = "accept" => StartCheck(c)
    BY <1>3
  <2>6. GoesOn(c)
    BY <2>1, <2>2, <2>4, <2>5 DEF GoesOn
  <2>. QED
    BY <1>0, <2>2, <2>3, <2>6
<1>4. ASSUME NEW c \in Clients, Reread(c)
      PROVE  Goal
  <2> DEFINE s == req[c].session
             new == [req[c] EXCEPT !.base = row[s]]
  <2>1. req[c] # Idle /\ req[c].step \in {"select", "confirm", "touchSession"}
    BY <1>0, <1>4 DEF Reread
  <2>2. s \in Sessions
    BY <2>1, RequestTyped DEF RequestRecord
  <2>3. CASE Become(c, Idle)
    BY <1>2, <2>1, <2>3
  <2>4. CASE ~Become(c, Idle)
    <3>1. Exists(s) /\ ~Refused(req[c].step, req[c].snap) /\ Become(c, new)
      BY <1>4, <2>4 DEF Reread
    <3>2. row[s] \in Row
      BY <2>2, <3>1, RowFacts
    <3>3. /\ new \in Request /\ new # Idle /\ new.step = req[c].step
          /\ new.session = s /\ new.snap = req[c].snap /\ new.base = row[s]
      BY <2>1, <3>2, RequestTyped, RereadTyped
    <3>4. req' = [req EXCEPT ![c] = new] /\ asked' = asked
      BY <3>1 DEF Become
    <3> HIDE DEF new
    <3>5. GoesOn(c)
      BY <1>0, <2>1, <3>1, <3>3, <3>4 DEF GoesOn
    <3>. QED
      BY <1>0, <3>3, <3>4, <3>5
  <2>. QED
    BY <2>3, <2>4
<1> HIDE DEF Goal
<1>5. ASSUME NEW c \in Clients,
             \/ (\E another \in BOOLEAN : SelectType(c, another)) \/ ConfirmScope(c)
             \/ ExtendReview(c) \/ ExtendSession(c) \/ DeleteCommit(c) \/ Accept(c) \/ Retry(c)
      PROVE  Goal
  <2>1. Become(c, Idle) /\ (req[c].step = "deleteRow" => DeleteCommit(c) \/ Crash)
    BY <1>5
    DEF SelectType, ConfirmScope, ExtendReview, ExtendSession, DeleteCommit, Accept,
        StartCommit, StartReject, Retry, Finish
  <2>. QED
    BY <1>2, <2>1
<1>6. ASSUME NEW c \in Clients, ExtendList(c) \/ DeleteCheck(c)
      PROVE  Goal
  <2>1. /\ req[c].step \in {"extend", "delete"}
        /\ \/ Become(c, Idle)
           \/ \E step \in {"touchReview", "touchSession", "unlink"} :
                Become(c, [req[c] EXCEPT !.step = step])
    BY <1>6 DEF ExtendList, DeleteCheck
  <2>. QED
    BY <1>2, <1>3, <2>1
<1>7. ASSUME NEW c \in Clients, DeleteUnlink(c)
      PROVE  Goal
  <2>1. req[c].step = "unlink" /\ Become(c, [req[c] EXCEPT !.step = "deleteRow"])
    BY <1>7 DEF DeleteUnlink
  <2>. QED
    BY <1>3, <1>7, <2>1
<1>8. ASSUME NEW c \in Clients, StartCheck(c)
      PROVE  Goal
  <2>1. req[c].step = "start" /\ Become(c, [req[c] EXCEPT !.step = "accept"])
    BY <1>8 DEF StartCheck
  <2>. QED
    BY <1>3, <1>8, <2>1
<1>9. ASSUME Crash PROVE Goal
  BY <1>0, <1>9 DEF Crash, Ends, Goal
<1>10. ASSUME UNCHANGED <<req, asked>> PROVE Goal
  BY <1>0, <1>10 DEF Goal
<1>11. ASSUME NEW c \in Clients, Handle(c)
       PROVE  Goal
  BY <1>1, <1>4, <1>5, <1>6, <1>7, <1>8, <1>11 DEF Handle
<1> USE DEF handlers
<1>12. ASSUME NEW s \in Sessions, Upload(s) \/ Execute(s)
       PROVE  UNCHANGED <<req, asked>>
  BY <1>12 DEF Upload, UploadBegin, UploadRefused, UploadWrite, UploadStore, UploadCommit,
               UploadFails, UploadCancelled, Execute, ExecStart, ExecFinish
<1>13. ASSUME \/ OthersEnter \/ OthersLeave \/ Cancel \/ LoopUnlink \/ LoopUnlinkFails
              \/ Clean \/ CleanupFails \/ CleanupDeleteFails \/ Restart \/ Serve \/ UNCHANGED vars
              \/ \E s \in Sessions : \E n \in 1 .. MaxDeadlines : Pass(s, n)
       PROVE  UNCHANGED <<req, asked>>
  BY <1>13
  DEF OthersEnter, OthersLeave, Cancel, CancelMark, Release, CancelRead, CancelReread,
      CancelFlush, LoopUnlink, vars, LoopUnlinkFails, Clean, CleanupList, CleanupCheck,
      CleanupRead, CleanupReviews, CleanupCommit, CleanupAborts, CleanupDelete,
      CleanupFails, CleanupDeleteFails, Restart, Serve, Pass
<1>14. ASSUME Next PROVE Goal
  BY <1>9, <1>10, <1>11, <1>12, <1>13, <1>14 DEF Next
<1>15. ASSUME UNCHANGED vars PROVE Goal
  BY <1>10, <1>15 DEF vars
<1>. QED
  BY <1>14, <1>15 DEF Goal

LEMMA FitStep ==
    ASSUME TypeOK, RequestsFit, [Next]_vars
    PROVE  RequestsFit'
<1>1. ASSUME NEW c \in Clients, (req[c].step = "accept")'
      PROVE  req'[c] = req[c] \/ StartCheck(c)
  BY <1>1, RequestStep, RestFacts DEF GoesOn, Reads, Ends
<1>2. ASSUME NEW c \in Clients, StartCheck(c)
      PROVE  /\ \A d \in Clients \ {c} : req'[d] = req[d]
             /\ loop = Free /\ loop' = [step |-> "accept", session |-> req[c].session]
  BY <1>2 DEF StartCheck, Become, LoopFree, TypeOK
<1>3. ASSUME NEW c \in Clients, NEW d \in Clients, req'[c].step = "accept", req'[d].step = "accept"
      PROVE  c = d
  <2>1. CASE req'[c] = req[c] /\ req'[d] = req[d]
    BY <1>3, <2>1 DEF RequestsFit
  <2>2. ASSUME NEW e \in Clients, StartCheck(e)
        PROVE  c = d
    <3>1. \A f \in Clients : req[f].step # "accept"
      BY <1>2, <2>2, RestFacts DEF RequestsFit, Accepting
    <3>. QED
      BY <1>2, <1>3, <2>2, <3>1
  <2>. QED
    BY <1>1, <1>3, <2>1, <2>2
<1>4. ASSUME NEW c \in Clients, req'[c].step = "accept"
      PROVE  Accepting(req[c].session)'
  <2>1. CASE StartCheck(c)
    <3>1. req[c] # Idle
      BY <2>1, RestFacts DEF StartCheck
    <3>2. (req[c].session)' = req[c].session
      BY <1>4, <2>1, <3>1, RequestStep, RestFacts DEF GoesOn, Reads, Ends, StartCheck
    <3>3. loop' = [step |-> "accept", session |-> req[c].session]
      BY <1>2, <2>1
    <3>. QED
      BY <3>2, <3>3 DEF Accepting
  <2>2. CASE req'[c] = req[c]
    <3>1. req[c].step = "accept" /\ Accepting(req[c].session)
      BY <1>4, <2>2 DEF RequestsFit
    <3>2. loop' = loop
      <4>1. ASSUME NEW d \in Clients, req[d].step = "accept", Accept(d)
            PROVE  FALSE
        <5>1. d = c
          BY <3>1, <4>1 DEF RequestsFit
        <5>2. req'[d] = Idle
          BY <4>1 DEF Accept, StartCommit, StartReject, Become, TypeOK
        <5>. QED
          BY <1>4, <5>1, <5>2, RestFacts
      <4>2. ~Crash
        BY <1>4, RestFacts DEF Crash
      <4>. QED
        BY <3>1, <4>1, <4>2, LoopStepping, RestFacts
        DEF LoopSteps, Accepting, StartCheck, CancelMark, ExecFinish, CancelRead,
            CancelReread, CancelFlush, LoopFree
    <3>. QED
      BY <2>2, <3>1, <3>2 DEF Accepting
  <2>. QED
    BY <1>1, <1>4, <2>1, <2>2
<1>5. ASSUME NEW c \in Clients, req'[c] # Idle, req'[c].base # NoRow
      PROVE  ~Refused(req'[c].step, req'[c].snap)
  <2>1. CASE req'[c] = req[c]
    BY <1>5, <2>1 DEF RequestsFit
  <2>2. CASE GoesOn(c)
    BY <1>5, <2>2 DEF GoesOn, RequestsFit, Refused
  <2>. QED
    BY <1>5, <2>1, <2>2, RequestStep DEF Reads, Ends
<1>. QED
  BY <1>3, <1>4, <1>5 DEF RequestsFit, Refused

-----------------------------------------------------------------------------
(* What a step does to uploads, files, the loop, the cleanup and the        *)
(* process, one variable at a time.                                         *)

LEMMA UploadFrame ==
    ASSUME [Next]_vars
    PROVE  (\E s \in Sessions : Upload(s)) \/ Crash \/ upload' = upload
<1> USE DEF uploads
<1>1. ASSUME NEW c \in Clients, Handle(c)
      PROVE  upload' = upload
  BY <1>1
  DEF Handle, Accept, Resolve, Reread, SelectType, ConfirmScope, ExtendList, ExtendReview,
      ExtendSession, DeleteCheck, DeleteUnlink, DeleteCommit, StartCheck, StartCommit,
      StartReject, Retry
<1>2. ASSUME NEW s \in Sessions, Execute(s)
      PROVE  upload' = upload
  BY <1>2 DEF Execute, ExecStart, ExecFinish
<1>3. ASSUME \/ OthersEnter \/ OthersLeave \/ Cancel \/ LoopUnlink \/ LoopUnlinkFails
             \/ Clean \/ CleanupFails \/ CleanupDeleteFails \/ Restart \/ Serve \/ UNCHANGED vars
             \/ \E s \in Sessions : \E n \in 1 .. MaxDeadlines : Pass(s, n)
      PROVE  upload' = upload
  BY <1>3
  DEF OthersEnter, OthersLeave, Cancel, CancelMark, Release, CancelRead, CancelReread,
      CancelFlush, LoopUnlink, vars, LoopUnlinkFails, Clean, CleanupList, CleanupCheck,
      CleanupRead, CleanupReviews, CleanupCommit, CleanupAborts, CleanupDelete,
      CleanupFails, CleanupDeleteFails, Restart, Serve, Pass
<1>. QED
  BY <1>1, <1>2, <1>3 DEF Next

LEMMA UploadTypedStep ==
    ASSUME TypeOK, [Next]_vars
    PROVE  upload' \in [Sessions -> {"new", "saving", "assessing", "ended"}]
<1>1. ASSUME NEW s \in Sessions, Upload(s)
      PROVE  upload' \in [Sessions -> {"new", "saving", "assessing", "ended"}]
  BY <1>1 DEF Upload, UploadBegin, UploadRefused, UploadWrite, UploadStore, UploadCommit,
              UploadFails, UploadCancelled, UploadEnds, TypeOK, uploads
<1>2. CASE Crash
  BY <1>2 DEF Crash
<1>. QED
  BY <1>1, <1>2, UploadFrame DEF TypeOK

LEMMA UploadStep ==
    ASSUME TypeOK, [Next]_vars, NEW s \in Sessions
    PROVE  \/ upload'[s] = upload[s] /\ (Crash => upload[s] \in {"new", "ended"})
           \/ UploadBegin(s) \/ UploadRefused(s) \/ UploadStore(s)
           \/ \E scope \in ScopeStatuses : UploadCommit(s, scope)
           \/ UploadFails(s) \/ UploadCancelled(s)
           \/ Crash /\ upload'[s] = "ended"
<1>1. ASSUME NEW t \in Sessions, Upload(t)
      PROVE  \/ UploadBegin(t) \/ UploadRefused(t) \/ UploadStore(t)
             \/ \E scope \in ScopeStatuses : UploadCommit(t, scope)
             \/ UploadFails(t) \/ UploadCancelled(t) \/ UNCHANGED upload
  BY <1>1 DEF Upload, UploadWrite, uploads
<1>2. ASSUME NEW t \in Sessions, Upload(t), t # s
      PROVE  upload'[s] = upload[s]
  BY <1>1, <1>2 DEF UploadBegin, UploadRefused, UploadStore, UploadCommit, UploadFails,
                    UploadCancelled, UploadEnds, TypeOK
<1>3. CASE Crash
  BY <1>3 DEF Crash, TypeOK
<1>4. CASE ~Crash
  BY <1>1, <1>2, <1>4, UploadFrame
<1>. QED
  BY <1>3, <1>4

LEMMA FileFrame ==
    ASSUME [Next]_vars
    PROVE  \/ \E s \in Sessions : UploadWrite(s) \/ UploadStore(s) \/ UploadFails(s)
           \/ \E c \in Clients : DeleteUnlink(c)
           \/ \E s \in Sessions : CleanupDelete(s)
           \/ LoopUnlink \/ Restart \/ Serve \/ file' = file
<1>1. ASSUME NEW s \in Sessions, Upload(s)
      PROVE  UploadWrite(s) \/ UploadStore(s) \/ UploadFails(s) \/ file' = file
  BY <1>1 DEF Upload, UploadBegin, UploadRefused, UploadCommit, UploadCancelled
<1>2. ASSUME NEW c \in Clients, Handle(c)
      PROVE  DeleteUnlink(c) \/ file' = file
  BY <1>2
  DEF Handle, Accept, Resolve, Reread, SelectType, ConfirmScope, ExtendList, ExtendReview,
      ExtendSession, DeleteCheck, DeleteCommit, StartCheck, StartCommit, StartReject,
      Retry
<1>3. ASSUME NEW s \in Sessions, Execute(s)
      PROVE  file' = file
  BY <1>3 DEF Execute, ExecStart, ExecFinish
<1>4. ASSUME \/ OthersEnter \/ OthersLeave \/ Cancel \/ LoopUnlinkFails \/ CleanupList
             \/ CleanupAborts \/ CleanupFails \/ CleanupDeleteFails \/ Crash \/ UNCHANGED vars
             \/ \E tombstones \in SUBSET Sessions : CleanupCommit(tombstones)
             \/ \E s \in Sessions : CleanupCheck(s) \/ CleanupRead(s) \/ CleanupReviews(s)
             \/ \E s \in Sessions : \E n \in 1 .. MaxDeadlines : Pass(s, n)
      PROVE  file' = file
  BY <1>4
  DEF OthersEnter, OthersLeave, Cancel, CancelMark, Release, CancelRead, CancelReread,
      CancelFlush, vars, LoopUnlinkFails, CleanupList, CleanupCheck, CleanupRead,
      CleanupReviews, CleanupCommit, CleanupAborts, CleanupFails, Crash,
      CleanupDeleteFails, Pass
<1>. QED
  BY <1>1, <1>2, <1>3, <1>4 DEF Next, Clean

LEMMA FileTypedStep ==
    ASSUME TypeOK, [Next]_vars
    PROVE  file' \in [Sessions -> {"none", "temporary", "stored"}]
<1>0. file \in [Sessions -> {"none", "temporary", "stored"}]
  BY DEF TypeOK
<1>. QED
  BY <1>0, FileFrame
  DEF UploadWrite, UploadStore, UploadFails, FileAfterFailure, DeleteUnlink,
      CleanupDelete, LoopUnlink, Unlink, Restart, Serve, Sweep

LEMMA FileStep ==
    ASSUME TypeOK, [Next]_vars, NEW s \in Sessions
    PROVE  \/ file'[s] = file[s]
           \/ UploadWrite(s) \/ UploadStore(s)
           \/ /\ file'[s] = "none"
              /\ \/ UploadFails(s)
                 \/ \E c \in Clients : DeleteUnlink(c) /\ Holds(c, s) /\ req[c].snap.key
                 \/ LoopUnlink /\ LoopUnlinks(s)
                 \/ CleanupDelete(s) /\ CleanerDeletes(s)
                 \/ Restart /\ file[s] = "temporary"
                 \/ Serve /\ ~Referenced(s)
<1>0. file \in [Sessions -> {"none", "temporary", "stored"}] /\ Idle.step = "idle"
  BY RestFacts DEF TypeOK
<1>1. ASSUME NEW t \in Sessions, UploadWrite(t) \/ UploadStore(t) \/ UploadFails(t), t # s
      PROVE  file'[s] = file[s]
  BY <1>0, <1>1 DEF UploadWrite, UploadStore, UploadFails, FileAfterFailure, Unlink
<1>2. ASSUME NEW t \in Sessions, UploadFails(t)
      PROVE  file'[t] = "none"
  BY <1>0, <1>2 DEF UploadFails, FileAfterFailure, Unlink
<1>3. ASSUME NEW c \in Clients, DeleteUnlink(c)
      PROVE  file'[s] = file[s] \/ (file'[s] = "none" /\ Holds(c, s) /\ req[c].snap.key)
  BY <1>0, <1>3 DEF DeleteUnlink, Unlink, Holds
<1>4. ASSUME LoopUnlink
      PROVE  file'[s] = file[s] \/ (file'[s] = "none" /\ LoopUnlinks(s))
  BY <1>0, <1>4 DEF LoopUnlink, Unlink, LoopUnlinks
<1>5. ASSUME NEW t \in Sessions, CleanupDelete(t)
      PROVE  file'[s] = file[s] \/ (file'[s] = "none" /\ CleanerDeletes(s) /\ t = s)
  BY <1>0, <1>5 DEF CleanupDelete, Unlink, CleanerDeletes
<1>6. CASE Restart
  BY <1>0, <1>6 DEF Restart
<1>7. CASE Serve
  BY <1>0, <1>7 DEF Serve, Sweep
<1>. QED
  BY <1>1, <1>2, <1>3, <1>4, <1>5, <1>6, <1>7, FileFrame

-----------------------------------------------------------------------------
(* The cleanup: it lists, looks at one session after the other, commits,    *)
(* deletes one file after the other.                                        *)

\* What it listed is worked on; a base is a copy of the row.
WorkStays ==
    /\ cleaner.step = "listed" /\ cleaner'.step = "listed" /\ CleanerOK'
    /\ DOMAIN cleaner'.work \subseteq DOMAIN cleaner.work
    /\ \A s \in DOMAIN cleaner'.work :
         /\ cleaner'.work[s].snap = cleaner.work[s].snap
         /\ cleaner'.work[s].base \in {cleaner.work[s].base, row[s]}

CleanerSteps ==
    \/ cleaner' = cleaner
    \/ cleaner.step = "listed" /\ cleaner' = CleanerIdle
    \/ WorkStays
    \/ CleanupList
    \/ \E tombstones \in SUBSET Sessions : CleanupCommit(tombstones)
    \/ \E s \in Sessions : CleanupDelete(s)
    \/ CleanupDeleteFails \/ Crash \/ Serve

LEMMA SeeStays ==
    ASSUME TypeOK, NEW s \in Sessions, CleanerListed(s), NEW view \in View,
           view.snap = cleaner.work[s].snap, view.base \in {cleaner.work[s].base, row[s]},
           See(s, view)
    PROVE  WorkStays
<1> DEFINE S == DOMAIN cleaner.work
           f == cleaner.work
<1>1. /\ cleaner.step = "listed" /\ S \in SUBSET Sessions /\ s \in S /\ f \in [S -> View]
      /\ cleaner = [step |-> "listed", work |-> f]
  BY CleanerFacts DEF CleanerTyped, CleanerListed
<1>2. cleaner' = [step |-> "listed", work |-> [f EXCEPT ![s] = view]]
  BY <1>1 DEF See
<1>3. cleaner'.step = "listed" /\ cleaner'.work = [f EXCEPT ![s] = view]
  BY <1>2
<1>4. cleaner'.work \in [S -> View]
  BY <1>1, <1>3
<1>5. CleanerOK'
  BY <1>1, <1>2, <1>3, <1>4 DEF CleanerOK
<1>6. \A t \in S : cleaner'.work[t] = IF t = s THEN view ELSE f[t]
  BY <1>1, <1>3
<1>. QED
  BY <1>1, <1>3, <1>4, <1>5, <1>6 DEF WorkStays

LEMMA WatchedListed ==
    ASSUME TypeOK, NEW s, Watched(s)
    PROVE  s \in Sessions /\ CleanerListed(s) /\ cleaner.work[s] \in View
  BY CleanerFacts DEF CleanerTyped, Watched, CleanerListed

\* A review that is written or accepted changes only what is known of the reviews.
LEMMA MarkStays ==
    ASSUME TypeOK, NEW s, NEW written \in BOOLEAN, ReviewWritten(s) \/ Joined(s, written)
    PROVE  cleaner' = cleaner \/ WorkStays
<1> DEFINE v == cleaner.work[s]
           v1 == [v EXCEPT !.written = TRUE]
           v2 == [v EXCEPT !.written = @ \/ written, !.joined = TRUE,
                           !.again = cleaner.work[s].joined /\ ~written]
<1>1. CASE cleaner' # cleaner
  <2>1. Watched(s) /\ (See(s, v1) \/ See(s, v2))
    BY <1>1 DEF ReviewWritten, Joined
  <2>2. s \in Sessions /\ CleanerListed(s) /\ v \in View
    BY <2>1, WatchedListed
  <2>3. v1 \in View /\ v1.snap = v.snap /\ v1.base = v.base
    BY <2>2 DEF View
  <2>4. v2 \in View /\ v2.snap = v.snap /\ v2.base = v.base
    BY <2>2 DEF View
  <2> HIDE DEF v, v1, v2
  <2>5. \A w \in {v1, v2} : w \in View /\ w.snap = v.snap /\ w.base = v.base
    BY <2>3, <2>4
  <2>6. \E w \in {v1, v2} : See(s, w)
    BY <2>1
  <2>. QED
    BY <2>2, <2>5, <2>6, SeeStays DEF v
<1>. QED
  BY <1>1

LEMMA LookStays ==
    ASSUME TypeOK, NEW s \in Sessions, CleanupCheck(s) \/ CleanupRead(s) \/ CleanupReviews(s)
    PROVE  WorkStays \/ (cleaner.step = "listed" /\ cleaner' = CleanerIdle)
<1> DEFINE v == cleaner.work[s]
           v1 == [v EXCEPT !.phase = "checked"]
           v2 == [v EXCEPT !.phase = "read", !.base = row[s]]
           v3 == [v EXCEPT !.phase = "listed", !.expires = review[s] \notin {"none", "EXPIRED"}]
<1>1. CleanerListed(s) /\ v \in View
  <2>1. s \in Found
    BY DEF CleanupCheck, CleanupRead, CleanupReviews, NextSession, InPhase
  <2>. QED
    BY <2>1, CleanerFacts DEF CleanerTyped, Found, CleanerListed
<1>2. v1 \in View /\ v1.snap = v.snap /\ v1.base = v.base
  BY <1>1 DEF View
<1>3. Exists(s) => v2 \in View /\ v2.snap = v.snap /\ v2.base = row[s]
  BY <1>1, RowFacts DEF View
<1>4. v3 \in View /\ v3.snap = v.snap /\ v3.base = v.base
  BY <1>1 DEF View
<1>5. CASE cleaner' = CleanerIdle
  BY <1>1, <1>5 DEF CleanerListed
<1>6. CASE cleaner' = [step |-> "listed", work |-> [t \in Found \ {s} |-> cleaner.work[t]]]
  <2>1. Found = DOMAIN cleaner.work /\ cleaner.step = "listed"
    BY <1>1 DEF Found, CleanerListed
  <2>2. /\ Found \ {s} \in SUBSET Sessions
        /\ [t \in Found \ {s} |-> cleaner.work[t]] \in [Found \ {s} -> View]
    BY <2>1, CleanerFacts DEF CleanerTyped
  <2>3. cleaner' \in [step : {"listed"}, work : [Found \ {s} -> View]]
    BY <1>6, <2>2
  <2>4. CleanerOK'
    BY <2>2, <2>3 DEF CleanerOK
  <2>5. /\ cleaner'.step = "listed" /\ DOMAIN cleaner'.work = Found \ {s}
        /\ \A t \in Found \ {s} : cleaner'.work[t] = cleaner.work[t]
    BY <1>6
  <2>. QED
    BY <2>1, <2>4, <2>5 DEF WorkStays
<1>7. CASE See(s, v1) \/ (Exists(s) /\ See(s, v2)) \/ See(s, v3)
  <2> HIDE DEF v, v1, v2, v3
  <2>1. ASSUME NEW w \in View, w.snap = v.snap, w.base \in {v.base, row[s]}, See(s, w)
        PROVE  WorkStays
    BY <1>1, <2>1, SeeStays DEF v
  <2>. QED
    BY <1>2, <1>3, <1>4, <1>7, <2>1
<1>. QED
  BY <1>5, <1>6, <1>7 DEF CleanupCheck, CleanupRead, CleanupReviews

LEMMA CleanerStepping == ASSUME TypeOK, [Next]_vars PROVE CleanerSteps
<1>1. ASSUME NEW s \in Sessions, Upload(s) \/ Execute(s)
      PROVE  cleaner' = cleaner
  BY <1>1 DEF Upload, UploadBegin, UploadRefused, UploadWrite, UploadStore, UploadCommit,
              UploadFails, UploadCancelled, Execute, ExecStart, ExecFinish
<1>2. ASSUME NEW c \in Clients, Handle(c)
      PROVE  cleaner' = cleaner \/ WorkStays
  <2>1. CASE ReviewWritten(req[c].session) \/ (\E w \in BOOLEAN : Joined(req[c].session, w))
    BY <2>1, MarkStays
  <2>2. \/ cleaner' = cleaner \/ ReviewWritten(req[c].session)
        \/ \E w \in BOOLEAN : Joined(req[c].session, w)
    BY <1>2 DEF Handle, Accept, Resolve, Reread, SelectType, ConfirmScope, ExtendList,
                ExtendReview, ExtendSession, DeleteCheck, DeleteUnlink, DeleteCommit,
                StartCheck, StartCommit, StartReject, Retry
  <2>. QED
    BY <2>1, <2>2
<1>3. ASSUME \/ OthersEnter \/ OthersLeave \/ Release \/ LoopUnlink \/ LoopUnlinkFails
             \/ Restart \/ UNCHANGED vars
             \/ \E t \in Sessions : \E n \in 1 .. MaxDeadlines : Pass(t, n)
      PROVE  cleaner' = cleaner
  BY <1>3 DEF OthersEnter, OthersLeave, Release, CancelRead, CancelReread, CancelFlush,
              LoopUnlink, LoopUnlinkFails, Restart, Pass, vars
<1>4. ASSUME NEW s \in Sessions, NEW latest \in BOOLEAN, CancelMark(s, latest)
      PROVE  cleaner' = cleaner \/ WorkStays
  BY <1>4, MarkStays DEF CancelMark
<1>5. ASSUME CleanupFails \/ CleanupAborts
      PROVE  cleaner.step = "listed" /\ cleaner' = CleanerIdle
  BY <1>5 DEF CleanupFails, CleanupAborts, AtCommit
<1>. QED
  BY <1>1, <1>2, <1>3, <1>4, <1>5, LookStays DEF Next, Clean, Cancel, CleanerSteps

\* What is left to delete was left before, or comes from the commit; what is
\* listed was listed before, or is read from the row.
LEMMA CleanerFiles ==
    ASSUME TypeOK, [Next]_vars, NEW s \in Sessions
    PROVE  /\ CleanerDeletes(s) =>
                \/ CleanerDeletes(s)' \/ CleanupDelete(s)
                \/ (CleanupDeleteFails /\ s \in orphaned') \/ Crash
           /\ CleanerDeletes(s)' =>
                \/ CleanerDeletes(s)
                \/ \E tombstones \in SUBSET Sessions :
                     CleanupCommit(tombstones) /\ s \in ToExpire /\ cleaner.work[s].snap.key
           /\ CleanerListed(s)' =>
                \/ /\ CleanerListed(s)
                   /\ cleaner'.work[s].snap = cleaner.work[s].snap
                   /\ cleaner'.work[s].base \in {cleaner.work[s].base, row[s]}
                \/ /\ CleanupList /\ Exists(s)
                   /\ cleaner'.work[s].snap = row[s] /\ cleaner'.work[s].base = row[s]
<1> USE DEF CleanerDeletes, CleanerListed
<1>0. CASE WorkStays
  BY <1>0 DEF WorkStays
<1>1. CASE cleaner' = cleaner \/ (cleaner.step = "listed" /\ cleaner' = CleanerIdle)
  BY <1>1, RestFacts
<1>2. CASE CleanupList
  <2>1. /\ cleaner.step = "idle" /\ cleaner'.step = "listed" /\ DOMAIN cleaner'.work = Expired
        /\ \A t \in Expired : cleaner'.work[t].snap = row[t] /\ cleaner'.work[t].base = row[t]
    BY <1>2 DEF CleanupList
  <2>. QED
    BY <1>2, <2>1 DEF Expired, Overdue
<1>3. ASSUME NEW tombstones \in SUBSET Sessions, CleanupCommit(tombstones)
      PROVE  /\ cleaner.step = "listed" /\ cleaner'.step # "listed"
             /\ CleanerDeletes(s)' => s \in ToExpire /\ cleaner.work[s].snap.key
  BY <1>3 DEF CleanupCommit, AtCommit, Deleting, CleanerIdle
<1>4. ASSUME NEW t \in Sessions, CleanupDelete(t)
      PROVE  /\ cleaner.step = "deleting" /\ cleaner'.step # "listed"
             /\ CleanerDeletes(s)' => CleanerDeletes(s)
             /\ ~CleanerDeletes(s) \/ CleanerDeletes(s)' \/ t = s
  BY <1>4 DEF CleanupDelete, Deleting, CleanerIdle
<1>5. CASE CleanupDeleteFails \/ Crash \/ Serve
  BY <1>5 DEF CleanupDeleteFails, Crash, Serve, CleanerIdle
<1>. QED
  BY <1>0, <1>1, <1>2, <1>3, <1>4, <1>5, CleanerStepping DEF CleanerSteps

LEMMA CleanerTypedStep ==
    ASSUME TypeOK, [Next]_vars
    PROVE  CleanerOK'
<1>1. ASSUME NEW F \in SUBSET Sessions, cleaner' = [step |-> "deleting", files |-> F]
      PROVE  CleanerOK'
  BY <1>1 DEF CleanerOK
<1>2. CASE cleaner' = CleanerIdle
  BY <1>2 DEF CleanerOK
<1>3. CASE cleaner' = cleaner
  BY <1>3 DEF CleanerOK, TypeOK
<1>4. CASE CleanupList
  <2>1. Expired \in SUBSET Sessions /\ \A s \in Expired : row[s] \in Row
    BY RowFacts DEF Expired, Overdue
  <2>2. \A s \in Expired : [phase |-> "found", snap |-> row[s], base |-> row[s], expires |-> FALSE,
                            written |-> FALSE, joined |-> FALSE, again |-> FALSE] \in View
    BY <2>1 DEF View
  <2>3. cleaner' \in [step : {"listed"}, work : [Expired -> View]]
    BY <1>4, <2>2 DEF CleanupList
  <2>. QED
    BY <2>1, <2>3 DEF CleanerOK
<1>5. ASSUME NEW tombstones \in SUBSET Sessions, CleanupCommit(tombstones)
      PROVE  CleanerOK'
  <2>1. {s \in ToExpire : cleaner.work[s].snap.key} \in SUBSET Sessions
    BY <1>5, CleanerFacts DEF CleanerTyped, ToExpire, Found, CleanupCommit, AtCommit
  <2>. QED
    BY <1>1, <1>2, <1>5, <2>1 DEF CleanupCommit, Deleting
<1>6. ASSUME NEW s \in Sessions, CleanupDelete(s)
      PROVE  CleanerOK'
  <2>1. cleaner.files \ {s} \in SUBSET Sessions
    BY <1>6, CleanerFacts DEF CleanerTyped, CleanupDelete
  <2>. QED
    BY <1>1, <1>2, <1>6, <2>1 DEF CleanupDelete, Deleting
<1>. QED
  BY <1>2, <1>3, <1>4, <1>5, <1>6, CleanerStepping
  DEF CleanerSteps, WorkStays, CleanupDeleteFails, Crash, Serve

\* The process, its mishaps and what is recorded of them.
LEMMA RecordStep ==
    ASSUME TypeOK, [Next]_vars
    PROVE  /\ \/ UNCHANGED proc
              \/ Crash \/ Restart \/ Serve
           /\ faults' \in 0 .. MaxFaults
           /\ orphaned' \subseteq Sessions /\ restored' \subseteq Sessions
           /\ halfDeleted' \subseteq Sessions
           /\ mixed' \subseteq Sessions /\ overtaken' \subseteq Sessions
           /\ mixed \subseteq mixed' /\ overtaken \subseteq overtaken'
           /\ restored \subseteq restored' /\ halfDeleted \subseteq halfDeleted'
           /\ orphaned \subseteq orphaned' \/ Serve
<1> DEFINE Same == UNCHANGED <<proc, faults, orphaned, restored, mixed, overtaken, halfDeleted>>
           Goal == /\ \/ UNCHANGED proc
                      \/ Crash \/ Restart \/ Serve
                   /\ faults' \in 0 .. MaxFaults
                   /\ orphaned' \subseteq Sessions /\ restored' \subseteq Sessions
                   /\ halfDeleted' \subseteq Sessions
                   /\ mixed' \subseteq Sessions /\ overtaken' \subseteq Sessions
                   /\ mixed \subseteq mixed' /\ overtaken \subseteq overtaken'
                   /\ restored \subseteq restored' /\ halfDeleted \subseteq halfDeleted'
                   /\ orphaned \subseteq orphaned' \/ Serve
<1> USE DEF history
<1>0. /\ faults \in 0 .. MaxFaults /\ MaxFaults \in Nat /\ orphaned \subseteq Sessions
      /\ restored \subseteq Sessions /\ halfDeleted \subseteq Sessions
      /\ mixed \subseteq Sessions /\ overtaken \subseteq Sessions
  BY FilesAssumption DEF TypeOK
<1>1. ASSUME NEW s \in Sessions, Upload(s) PROVE Goal
  BY <1>0, <1>1
  DEF Upload, UploadBegin, UploadRefused, UploadWrite, UploadStore, UploadCommit,
      UploadFails, UploadCancelled
<1>2. ASSUME NEW c \in Clients, Handle(c) PROVE Goal
  <2>1. /\ restored' \in {restored, restored \cup {req[c].session}}
        /\ mixed' \in {mixed, mixed \cup {req[c].session}}
        /\ UNCHANGED <<proc, faults, orphaned, overtaken, halfDeleted>>
    BY <1>2
    DEF Handle, Accept, Resolve, Reread, SelectType, ConfirmScope, ExtendList,
        ExtendReview, ExtendSession, DeleteCheck, DeleteUnlink, DeleteCommit, StartCheck,
        StartCommit, StartReject, Retry, Finish, Touch, Save, saved
  <2>2. UNCHANGED <<restored, mixed>> \/ req[c].session \in Sessions
    <3>1. CASE req[c] = Idle
      BY <1>2, <3>1, RestFacts
      DEF Handle, Accept, Resolve, Reread, SelectType, ConfirmScope, ExtendList,
          ExtendReview, ExtendSession, DeleteCheck, DeleteUnlink, DeleteCommit,
          StartCheck, StartCommit, StartReject, Retry
    <3>2. CASE req[c] # Idle
      BY <3>2, ReqFacts DEF ReqTyped
    <3>. QED
      BY <3>1, <3>2
  <2>. QED
    BY <1>0, <2>1, <2>2
<1>3. ASSUME NEW s \in Sessions, Execute(s) PROVE Goal
  BY <1>0, <1>3 DEF Execute, ExecStart, ExecFinish, Touch, Save
<1>4. ASSUME LoopUnlinkFails PROVE Goal
  <2>1. loop.session \in Sessions
    BY <1>4, LoopFacts, RestFacts DEF LoopTyped, LoopUnlinkFails
  <2>. QED
    BY <1>0, <1>4, <2>1 DEF LoopUnlinkFails
<1>5. ASSUME CleanupFails \/ CleanupDeleteFails PROVE Goal
  <2>1. CleanupDeleteFails => cleaner.files \subseteq Sessions
    BY CleanerFacts DEF CleanupDeleteFails, CleanerTyped
  <2>. QED
    BY <1>0, <1>5, <2>1 DEF CleanupFails, CleanupDeleteFails
<1>6. ASSUME Crash PROVE Goal
  BY <1>0, <1>6 DEF Crash, HeldInMemory
<1>7. ASSUME Restart \/ Serve PROVE Goal
  BY <1>0, <1>7 DEF Restart, Serve
<1>8. ASSUME \/ OthersEnter \/ OthersLeave \/ LoopUnlink \/ UNCHANGED vars
             \/ CancelRead \/ CancelReread \/ CleanupList \/ CleanupAborts
             \/ \E s \in Sessions, latest \in BOOLEAN : CancelMark(s, latest)
             \/ \E s \in Sessions : \/ CleanupCheck(s) \/ CleanupRead(s) \/ CleanupReviews(s)
                                    \/ CleanupDelete(s)
             \/ \E t \in Sessions : \E n \in 1 .. MaxDeadlines : Pass(t, n)
      PROVE  Goal
  BY <1>0, <1>8
  DEF OthersEnter, OthersLeave, CancelMark, CancelRead, CancelReread, LoopUnlink,
      CleanupList, CleanupCheck, CleanupRead, CleanupReviews, CleanupAborts,
      CleanupDelete, Pass, vars
<1>9. ASSUME CancelFlush PROVE Goal
  <2>1. loop.session \in Sessions
    BY <1>9, LoopFacts, RestFacts DEF LoopTyped, CancelFlush
  <2>. QED
    BY <1>0, <1>9, <2>1 DEF CancelFlush, Save, saved
<1>10. ASSUME NEW tombstones \in SUBSET Sessions, CleanupCommit(tombstones) PROVE Goal
  <2>1. ToExpire \subseteq Sessions /\ Overtaken \subseteq Sessions
    BY <1>10, CleanerFacts
    DEF CleanerTyped, ToExpire, Overtaken, InPhase, Found, CleanupCommit, AtCommit
  <2>2. mixed \subseteq mixed' /\ mixed' \subseteq mixed \cup ToExpire
    BY <1>10 DEF CleanupCommit
  <2>3. /\ overtaken' = overtaken \cup Overtaken
        /\ UNCHANGED <<proc, faults, orphaned, restored, halfDeleted>>
    BY <1>10 DEF CleanupCommit
  <2>. QED
    BY <1>0, <2>1, <2>2, <2>3
<1> HIDE DEF Goal
<1>11. ASSUME Next PROVE Goal
  BY <1>1, <1>2, <1>3, <1>4, <1>5, <1>6, <1>7, <1>8, <1>9, <1>10, <1>11
  DEF Next, Cancel, Release, Clean
<1>. QED
  BY <1>8, <1>11 DEF Goal

-----------------------------------------------------------------------------
(* The slots of the upload limiter.                                         *)

SlotsTyped == uploading \in Nat /\ others \in Nat

LEMMA SlotTaken ==
    ASSUME TypeOK, SlotsCounted, NEW s \in Sessions, upload[s] \in {"saving", "assessing"},
           UploadEnds(s)
    PROVE  SlotsTyped' /\ SlotsCounted'
<1>1. s \in InUpload /\ InUpload' = InUpload \ {s}
  BY DEF InUpload, UploadEnds, TypeOK
<1>2. IsFiniteSet(InUpload') /\ Cardinality(InUpload') = Cardinality(InUpload) - 1
  BY <1>1, FS_RemoveElement DEF SlotsCounted
<1>3. Cardinality(InUpload') \in Nat /\ Cardinality(InUpload) \in Nat
  BY <1>2, FS_CardinalityType DEF SlotsCounted
<1>. QED
  BY <1>2, <1>3, FilesAssumption DEF SlotsCounted, SlotsTyped, UploadEnds, TypeOK

LEMMA SlotsKept ==
    ASSUME TypeOK, SlotsCounted, UNCHANGED <<uploading, others>>,
           \A s \in Sessions : upload'[s] \in {"saving", "assessing"}
                               <=> upload[s] \in {"saving", "assessing"}
    PROVE  SlotsTyped' /\ SlotsCounted'
<1>1. InUpload' = InUpload
  BY DEF InUpload
<1>. QED
  BY <1>1 DEF SlotsCounted, SlotsTyped, TypeOK

LEMMA SlotsStep ==
    ASSUME TypeOK, SlotsCounted, FilesAssumption, [Next]_vars
    PROVE  SlotsTyped' /\ SlotsCounted'
<1> DEFINE Goal == SlotsTyped' /\ SlotsCounted'
<1>0. /\ UploadSlots \in Nat /\ uploading \in Nat /\ others \in Nat
      /\ Cardinality(InUpload) \in Nat
  BY FilesAssumption, FS_CardinalityType DEF TypeOK, SlotsCounted
<1>1. ASSUME NEW s \in Sessions, UploadBegin(s) PROVE Goal
  <2>1. s \notin InUpload /\ InUpload' = InUpload \cup {s}
    BY <1>1 DEF UploadBegin, InUpload, TypeOK
  <2>2. IsFiniteSet(InUpload') /\ Cardinality(InUpload') = Cardinality(InUpload) + 1
    BY <2>1, FS_AddElement DEF SlotsCounted
  <2>. QED
    BY <1>0, <1>1, <2>2 DEF UploadBegin, SlotsCounted, SlotsTyped
<1>2. ASSUME NEW s \in Sessions, UploadRefused(s) \/ UploadWrite(s) \/ UploadStore(s) PROVE Goal
  BY <1>2, SlotsKept DEF UploadRefused, UploadWrite, UploadStore, uploads, TypeOK
<1>3. ASSUME NEW s \in Sessions, NEW scope \in ScopeStatuses, UploadCommit(s, scope) PROVE Goal
  BY <1>3, SlotTaken DEF UploadCommit
<1>4. ASSUME NEW s \in Sessions, UploadFails(s) \/ UploadCancelled(s) PROVE Goal
  BY <1>4, SlotTaken DEF UploadFails, UploadCancelled
<1>5. ASSUME OthersEnter \/ OthersLeave PROVE Goal
  <2>1. InUpload' = InUpload
    BY <1>5 DEF OthersEnter, OthersLeave, InUpload
  <2>. QED
    BY <1>0, <1>5, <2>1 DEF OthersEnter, OthersLeave, SlotsCounted, SlotsTyped
<1>6. ASSUME Crash PROVE Goal
  <2>1. InUpload' = {}
    BY <1>6 DEF Crash, InUpload
  <2>. QED
    BY <1>0, <1>6, <2>1, FS_EmptySet DEF Crash, SlotsCounted, SlotsTyped
<1>7. ASSUME UNCHANGED uploads PROVE Goal
  BY <1>7, SlotsKept DEF uploads
<1>8. ASSUME NEW c \in Clients, Handle(c) PROVE UNCHANGED uploads
  BY <1>8
  DEF Handle, Accept, Resolve, Reread, SelectType, ConfirmScope, ExtendList, ExtendReview,
      ExtendSession, DeleteCheck, DeleteUnlink, DeleteCommit, StartCheck, StartCommit,
      StartReject, Retry
<1>9. ASSUME NEW s \in Sessions, Execute(s) PROVE UNCHANGED uploads
  BY <1>9 DEF Execute, ExecStart, ExecFinish
<1>10. ASSUME \/ Cancel \/ LoopUnlink \/ LoopUnlinkFails \/ Clean \/ CleanupFails
              \/ CleanupDeleteFails \/ Restart \/ Serve \/ UNCHANGED vars
              \/ \E s \in Sessions : \E n \in 1 .. MaxDeadlines : Pass(s, n)
       PROVE  UNCHANGED uploads
  BY <1>10
  DEF Cancel, CancelMark, Release, CancelRead, CancelReread, CancelFlush, LoopUnlink,
      LoopUnlinkFails, Clean, CleanupList, CleanupCheck, CleanupRead, CleanupReviews,
      CleanupCommit, CleanupAborts, CleanupDelete, CleanupFails, CleanupDeleteFails,
      Restart, Serve, Pass, vars, uploads
<1> HIDE DEF Goal
<1>11. ASSUME Next PROVE Goal
  BY <1>1, <1>2, <1>3, <1>4, <1>5, <1>6, <1>7, <1>8, <1>9, <1>10, <1>11 DEF Next, Upload
<1>. QED
  BY <1>7, <1>10, <1>11 DEF Goal

-----------------------------------------------------------------------------

LEMMA TypesStep ==
    ASSUME TypeOK, RowsBound, RequestsFit, SlotsCounted, UploadsPrecede, CopiesAreTrue,
           CopiesTell, Quiet, FilesAssumption, [Next]_vars
    PROVE  TypeOK'
<1>1. row' \in [Sessions -> Row \cup {NoRow}]
  BY RowsStep
<1>2. TimeTyped'
  BY TimeStep
<1>3. req' \in [Clients -> Request] /\ asked' \in 0 .. MaxRequests
  BY RequestStep
<1>4. SlotsTyped'
  BY SlotsStep
<1>5. CleanerOK'
  BY CleanerTypedStep
<1>6. /\ faults' \in 0 .. MaxFaults
      /\ orphaned' \subseteq Sessions /\ restored' \subseteq Sessions
      /\ halfDeleted' \subseteq Sessions
      /\ mixed' \subseteq Sessions /\ overtaken' \subseteq Sessions
  BY RecordStep
<1>7. proc' \in {"up", "down", "starting"}
  BY RecordStep DEF TypeOK, Crash, Restart, Serve
<1>8. loop' \in LoopStep
  <2>1. Free \in LoopStep /\ loop \in LoopStep
    BY DEF LoopStep, TypeOK
  <2>2. \A s \in Sessions, step \in {"accept", "release", "unlink"} :
          [step |-> step, session |-> s] \in LoopStep
    BY DEF LoopStep
  <2>3. \A s \in Sessions, step \in {"reread", "flush"}, r \in Row, b \in Row :
          [step |-> step, session |-> s, snap |-> r, base |-> b] \in LoopStep
    BY DEF LoopStep
  <2>4. \A c \in Clients : StartCheck(c) => req[c].session \in Sessions
    BY ReqFacts, RestFacts DEF ReqTyped, StartCheck
  <2>5. CancelRead \/ CancelReread \/ CancelFlush => loop.session \in Sessions
    BY LoopFacts, RestFacts DEF LoopTyped, CancelRead, CancelReread, CancelFlush
  <2>6. CancelReread => loop.snap \in Row
    BY LoopFacts, RestFacts DEF LoopTyped, CancelReread
  <2>7. \A s \in Sessions : Exists(s) => row[s] \in Row
    BY RowFacts
  <2>. QED
    BY <2>1, <2>2, <2>3, <2>4, <2>5, <2>6, <2>7, LoopStepping DEF LoopSteps, Referenced
<1>9. /\ upload' \in [Sessions -> {"new", "saving", "assessing", "ended"}]
      /\ file' \in [Sessions -> {"none", "temporary", "stored"}]
  BY UploadTypedStep, FileTypedStep
<1>. QED
  BY <1>1, <1>2, <1>3, <1>4, <1>5, <1>6, <1>7, <1>8, <1>9
  DEF TypeOK, TimeTyped, SlotsTyped

-----------------------------------------------------------------------------
(* What a step does to the row of a session, and to its review.             *)

Rewritten(s) ==
    \/ row'[s].key = row[s].key
    \/ /\ \E c \in Clients : Holds(c, s) /\ row'[s].key = req[c].snap.key
       /\ row'[s].key /\ ~row[s].key => s \in restored'
    \/ ~row'[s].key /\ LoopUnlinks(s)'
    \/ ~row'[s].key /\ \E tombstones \in SUBSET Sessions : CleanupCommit(tombstones) /\ s \in ToExpire

\* A true row, or a mixed one; an expired one with a key only after one was put back.
Sound(s, r) ==
    /\ r \in Row /\ (TrueRow(r) \/ s \in mixed')
    /\ s \in restored' \/ ~(r.state = "EXPIRED" /\ r.key)

RowChange(s) ==
    \/ row'[s] = row[s]
    \/ /\ ~Exists(s) /\ \E scope \in ScopeStatuses : UploadCommit(s, scope)
       /\ Sound(s, row'[s]) /\ row'[s].key
    \/ /\ Exists(s) /\ row'[s] = NoRow
       /\ \/ \E c \in Clients : Holds(c, s) /\ req[c].step = "deleteRow"
          \/ row[s].state = "EXPIRED"
    \/ Exists(s) /\ Sound(s, row'[s]) /\ Rewritten(s)

LEMMA WritesChange ==
    ASSUME TypeOK, NEW s \in Sessions, NEW t \in Sessions, NEW q \in Row, Writes(s, q)
    PROVE  /\ row'[t] = IF t = s THEN q ELSE row[t]
           /\ q.key /\ ~row[s].key => s \in restored'
           /\ Sound(s, q)
  BY DEF Writes, TypeOK, Sound

LEMMA RowChanges ==
    ASSUME TypeOK, RowsBound, RequestsFit, CopiesAreTrue, CopiesTell, UploadsPrecede,
           FilesAssumption, [Next]_vars, NEW s \in Sessions
    PROVE  RowChange(s)
<1>0. row \in [Sessions -> Row \cup {NoRow}]
  BY DEF TypeOK
<1>1. ASSUME NEW t \in Sessions, NEW scope \in ScopeStatuses, UploadCommit(t, scope)
      PROVE  RowChange(s)
  <2> DEFINE d == issued[t] + 1
             q == [state |-> StateFor(scope), scope |-> scope, selected |-> FALSE,
                   confirmed |-> FALSE, key |-> TRUE, deadline |-> d]
  <2>1. d \in 1 .. MaxDeadlines
    BY <1>1 DEF UploadCommit, CanIssue, TypeOK, FilesAssumption
  <2>2. q \in Row /\ q.key /\ q.state # "EXPIRED" /\ TrueRow(q)
    BY <2>1, NewRowIsTrue
  <2>3. row' = [row EXCEPT ![t] = q] /\ ~Exists(t)
    BY <1>1 DEF UploadCommit, UploadsPrecede
  <2> HIDE DEF q
  <2>. QED
    BY <1>0, <1>1, <2>2, <2>3 DEF RowChange, Sound
<1>2. ASSUME NEW c \in Clients, req[c] # Idle, RequestWrites(c, req[c].session)
      PROVE  RowChange(s)
  <2> DEFINE t == req[c].session
  <2>1. t \in Sessions /\ RequestWrites(c, t)
    BY <1>2, ReqFacts DEF ReqTyped
  <2>2. CASE UNCHANGED saved
    BY <2>2 DEF RowChange, saved
  <2>3. ASSUME NEW q \in Row, Writes(t, q), q.key \in {row[t].key, req[c].snap.key},
               Exists(t), t = s
        PROVE  RowChange(s)
    <3>1. row'[s] = q /\ (q.key /\ ~row[s].key => s \in restored') /\ Sound(s, q)
      BY <2>1, <2>3, WritesChange
    <3>2. Holds(c, s)
      BY <1>2, <2>3 DEF Holds
    <3> HIDE DEF t
    <3>3. Rewritten(s)
      BY <2>3, <3>1, <3>2 DEF Rewritten
    <3>. QED
      BY <2>3, <3>1, <3>3 DEF RowChange
  <2>4. ASSUME NEW q \in Row, Writes(t, q), t # s
        PROVE  RowChange(s)
    BY <2>1, <2>4, WritesChange DEF RowChange
  <2> HIDE DEF t
  <2>. QED
    BY <2>1, <2>2, <2>3, <2>4 DEF RequestWrites
<1>3. ASSUME NEW c \in Clients, DeleteCommit(c)
      PROVE  RowChange(s)
  <2>1. req[c] # Idle /\ req[c].step = "deleteRow"
    BY <1>3, RestFacts DEF DeleteCommit
  <2>2. row'[s] = IF s = req[c].session THEN NoRow ELSE row[s]
    BY <1>3 DEF DeleteCommit, Drop
  <2>. QED
    BY <2>1, <2>2 DEF RowChange, Holds, Exists
<1>4. ASSUME NEW t \in Sessions, NEW o \in Outcomes, ExecFinish(t, o)
      PROVE  RowChange(s)
  <2>1. PICK q \in Row : Writes(t, q) /\ q.key \in {row[t].key, row[t].key /\ o # "fatal"}
    BY <1>4, FinishWrites
  <2>2. Exists(t) /\ row[t].key \in BOOLEAN
    BY <1>4, FinishWrites, RowFacts DEF Row
  <2>3. row'[s] = (IF s = t THEN q ELSE row[s]) /\ Sound(t, q)
    BY <2>1, WritesChange
  <2>4. ASSUME s = t, q.key # row[t].key
        PROVE  ~q.key /\ LoopUnlinks(s)'
    <3>1. o = "fatal" /\ row[t].key
      BY <2>1, <2>2, <2>4
    <3>2. loop' = [step |-> "unlink", session |-> t]
      BY <1>4, <3>1 DEF ExecFinish
    <3>. QED
      BY <2>1, <2>4, <3>1, <3>2 DEF LoopUnlinks
  <2>. QED
    BY <2>1, <2>2, <2>3, <2>4 DEF RowChange, Rewritten
<1>5. ASSUME CancelFlush PROVE RowChange(s)
  <2>1. PICK t \in Sessions : t = loop.session
    BY <1>5, ReleaseWrites
  <2>2. CASE UNCHANGED saved
    BY <2>2 DEF RowChange, saved
  <2>3. ASSUME NEW q \in Row, Writes(t, q), q.key \in {row[t].key, FALSE}, Exists(t),
               loop' = [step |-> "unlink", session |-> t]
        PROVE  RowChange(s)
    <3>1. row'[s] = (IF s = t THEN q ELSE row[s]) /\ Sound(t, q)
      BY <2>1, <2>3, WritesChange
    <3>2. LoopUnlinks(t)'
      BY <2>3 DEF LoopUnlinks
    <3>3. CASE s = t
      BY <2>3, <3>1, <3>2, <3>3 DEF RowChange, Rewritten
    <3>4. CASE s # t
      BY <3>1, <3>4 DEF RowChange
    <3>. QED
      BY <3>3, <3>4
  <2>. QED
    BY <1>5, <2>1, <2>2, <2>3, ReleaseWrites
<1>6. ASSUME NEW tombstones \in SUBSET Sessions, CleanupCommit(tombstones)
      PROVE  RowChange(s)
  <2>1. CASE s \in tombstones
    <3>1. row'[s] = NoRow /\ row[s].state = "EXPIRED"
      BY <1>6, <2>1 DEF CleanupCommit, Tombstones
    <3>. QED
      BY <3>1 DEF RowChange, Exists, NoRow
  <2>2. CASE s \notin tombstones /\ s \in ToExpire
    <3>1. /\ Exists(s) /\ Sound(s, row'[s])
          /\ row'[s].key = row[s].key \/ ~row'[s].key
      BY <1>6, <2>2, ExpiryWrites DEF Sound
    <3>2. Rewritten(s)
      BY <1>6, <2>2, <3>1 DEF Rewritten
    <3>. QED
      BY <3>1, <3>2 DEF RowChange
  <2>3. CASE s \notin tombstones /\ s \notin ToExpire
    BY <1>6, <2>3 DEF RowChange, CleanupCommit
  <2>. QED
    BY <2>1, <2>2, <2>3
<1>7. CASE Restart
  <2>1. CASE s \in Interrupted
    <3> DEFINE q == [row[s] EXCEPT !.deadline = issued[s] + 1]
    <3>1. /\ issued[s] + 1 \in 1 .. MaxDeadlines
          /\ Exists(s) /\ row[s] \in Row
      BY <2>1, RowFacts
      DEF Interrupted, RowsBound, Reserve, HasActive, ActiveStates, TypeOK,
          FilesAssumption
    <3>2. /\ TrueRow(row[s]) \/ s \in mixed
          /\ s \in restored \/ ~(row[s].state = "EXPIRED" /\ row[s].key)
      BY <3>1 DEF CopiesAreTrue, CopiesTell, Copy, KeyTells
    <3>3. /\ q \in Row /\ q.key = row[s].key /\ q.state = row[s].state
          /\ TrueRow(row[s]) => TrueRow(q)
      BY <3>1, DeadlineOnly
    <3>4. row'[s] = q /\ mixed' = mixed /\ restored' = restored
      BY <1>7, <2>1 DEF Restart, history
    <3> HIDE DEF q
    <3>. QED
      BY <3>1, <3>2, <3>3, <3>4 DEF RowChange, Rewritten, Sound
  <2>2. CASE s \notin Interrupted
    BY <1>7, <2>2 DEF Restart, RowChange
  <2>. QED
    BY <2>1, <2>2
<1>8. CASE UNCHANGED row
  BY <1>8 DEF RowChange
<1>. QED
  BY RowFrame, <1>1, <1>2, <1>3, <1>4, <1>5, <1>6, <1>7, <1>8, SelectWrites,
     ConfirmWrites, ExtendWrites, StartWrites
  DEF Retry, ExecStart, CancelMark, Pass, rows

-----------------------------------------------------------------------------
(* The invariant is kept.                                                   *)

LEMMA EndedStays ==
    ASSUME TypeOK, [Next]_vars, NEW s \in Sessions, upload[s] = "ended"
    PROVE  upload'[s] = "ended"
  BY UploadStep DEF UploadBegin, UploadRefused, UploadStore, UploadCommit, UploadFails,
                    UploadCancelled

\* A row that gains a key gets it from an upload, or is recorded as restored.
LEMMA KeyGained ==
    ASSUME TypeOK, RowsBound, RequestsFit, CopiesAreTrue, CopiesTell, UploadsPrecede,
           FilesAssumption, [Next]_vars,
           NEW s \in Sessions, upload[s] = "ended", Referenced(s)', s \notin restored'
    PROVE  Referenced(s) /\ row'[s].key = row[s].key
<1>1. CASE row'[s] = row[s]
  BY <1>1 DEF Referenced, Exists
<1>2. CASE row'[s] # row[s]
  <2>1. Exists(s) /\ row'[s] \in Row /\ Rewritten(s) /\ row[s] \in Row
    BY <1>2, RowChanges, RowFacts DEF RowChange, Sound, Referenced, Exists, UploadCommit
  <2>2. row[s].key \in BOOLEAN /\ row'[s].key
    BY <2>1 DEF Row, Referenced
  <2>. QED
    BY <2>1, <2>2 DEF Rewritten, Referenced
<1>. QED
  BY <1>1, <1>2

\* A copy of the row is an earlier one, or the row as it is now.
LEMMA CopyStep ==
    ASSUME TypeOK, RequestsFit, [Next]_vars, NEW s \in Sessions, NEW r \in Row, Copy(s, r)'
    PROVE  Copy(s, r) \/ r = row'[s]
<1>1. CASE RequestCopy(s, r)'
  <2>1. PICK c \in Clients : req'[c] # Idle /\ req'[c].session = s
                             /\ (r = req'[c].snap \/ r = req'[c].base)
    BY <1>1 DEF RequestCopy, Holds
  <2>2. CASE req'[c] = req[c]
    BY <2>1, <2>2 DEF Copy, RequestCopy, Holds
  <2>3. CASE GoesOn(c)
    BY <2>1, <2>3 DEF Copy, RequestCopy, Holds, GoesOn
  <2>4. CASE Reads(c)
    BY <2>1, <2>4, RestFacts DEF Copy, Reads
  <2>. QED
    BY <2>1, <2>2, <2>3, <2>4, RequestStep DEF Ends
<1>2. CASE LoopCopy(s, r)'
  BY <1>2, LoopStepping, RestFacts
  DEF LoopSteps, LoopCopy, Copy, CancelReread
<1>3. CASE CleanerCopy(s, r)'
  <2>1. CleanerListed(s)' /\ (r = cleaner'.work[s].snap \/ r = cleaner'.work[s].base)
    BY <1>3 DEF CleanerCopy
  <2>. QED
    BY <2>1, CleanerFiles DEF Copy, CleanerCopy
<1>. QED
  BY <1>1, <1>2, <1>3 DEF Copy

\* Only a session whose upload has ended has copies.
LEMMA CopyEnded ==
    ASSUME UploadsPrecede, NEW s \in Sessions, NEW r \in Row, Copy(s, r)
    PROVE  upload[s] = "ended"
  BY RestFacts
  DEF UploadsPrecede, Copy, RequestCopy, LoopCopy, CleanerCopy, Holds, LoopKeeps, Exists

LEMMA CopiesStep ==
    ASSUME TypeOK, RowsBound, RequestsFit, CopiesAreTrue, CopiesTell, UploadsPrecede,
           FilesAssumption, [Next]_vars
    PROVE  CopiesAreTrue' /\ CopiesTell'
<1>1. ASSUME NEW s \in Sessions, NEW r \in Row, Copy(s, r)'
      PROVE  /\ TrueRow(r) \/ s \in mixed'
             /\ \/ s \in restored'
                \/ (Referenced(s)' => r.key) /\ ~(r.state = "EXPIRED" /\ r.key)
  <2>0. mixed \subseteq mixed' /\ restored \subseteq restored'
    BY RecordStep
  <2>1. CASE Copy(s, r)
    <3>1. (TrueRow(r) \/ s \in mixed) /\ KeyTells(s, r)
      BY <2>1 DEF CopiesAreTrue, CopiesTell
    <3>2. upload[s] = "ended"
      BY <2>1, CopyEnded
    <3>3. Referenced(s)' /\ s \notin restored' => Referenced(s)
      BY <3>2, KeyGained
    <3>. QED
      BY <2>0, <3>1, <3>3 DEF KeyTells
  <2>2. CASE r = row'[s] /\ row'[s] = row[s]
    BY <1>1, <2>2, <2>0 DEF CopiesAreTrue, CopiesTell, KeyTells, Copy, Referenced
  <2>3. CASE r = row'[s] /\ row'[s] # row[s]
    <3>1. Sound(s, r)
      BY <2>3, RowChanges, RestFacts DEF RowChange
    <3>. QED
      BY <2>3, <3>1 DEF Sound, Referenced
  <2>. QED
    BY <1>1, <2>1, <2>2, <2>3, CopyStep
<1>2. CopiesAreTrue'
  BY <1>1 DEF CopiesAreTrue, TrueRow, ReadyIsStartable, ExpiredHoldsNothing, Startable,
              TypeChosen
<1>3. CopiesTell'
  BY <1>1 DEF CopiesTell, KeyTells
<1>. QED
  BY <1>2, <1>3

LEMMA PrecedeStep ==
    ASSUME TypeOK, RowsBound, RequestsFit, CopiesAreTrue, CopiesTell, UploadsPrecede,
           FilesAssumption, [Next]_vars
    PROVE  UploadsPrecede'
<1>1. ASSUME NEW s \in Sessions, Exists(s)'
      PROVE  upload'[s] = "ended"
  <2>1. CASE Exists(s)
    BY <2>1, EndedStays DEF UploadsPrecede
  <2>2. CASE ~Exists(s)
    <3>1. row'[s] # row[s]
      BY <1>1, <2>2 DEF Exists
    <3>2. \E scope \in ScopeStatuses : UploadCommit(s, scope)
      BY <2>2, <3>1, RowChanges DEF RowChange
    <3>. QED
      BY <3>2 DEF UploadCommit, UploadEnds, TypeOK
  <2>. QED
    BY <2>1, <2>2
<1>2. ASSUME NEW s \in Sessions, s \in older'
      PROVE  upload'[s] = "ended"
  <2>1. \A c \in Clients : Retry(c) => older' \in {older, older \cup {req[c].session}}
                                       /\ (older' = older \/ Exists(req[c].session))
    BY DEF Retry
  <2>2. s \in older \/ Exists(s)
    BY <1>2, <2>1, RowFrame
    DEF UploadCommit, SelectType, ConfirmScope, ExtendReview, ExtendSession, DeleteCommit,
        StartCommit, Drop, ExecStart, ExecFinish, CancelMark, CancelFlush, CleanupCommit,
        Restart, Pass, rows
  <2>. QED
    BY <2>2, EndedStays DEF UploadsPrecede
<1>3. ASSUME NEW s \in Sessions, LoopKeeps(s)'
      PROVE  upload'[s] = "ended"
  <2>1. LoopKeeps(s) \/ Exists(s) \/ s \in older \/ \E c \in Clients : Holds(c, s)
    <3>1. CASE loop' = loop \/ loop' = Free
      BY <1>3, <3>1, RestFacts DEF LoopKeeps
    <3>2. ASSUME NEW t \in Sessions, NEW latest \in BOOLEAN, CancelMark(t, latest),
                 loop' = [step |-> "release", session |-> t]
          PROVE  Exists(s) \/ s \in older
      BY <1>3, <3>2 DEF LoopKeeps, CancelMark, RowsBound
    <3>3. ASSUME NEW t \in Sessions, ExecFinish(t, "fatal"),
                 loop' = [step |-> "unlink", session |-> t]
          PROVE  Exists(s)
      BY <1>3, <3>3 DEF LoopKeeps, ExecFinish, RowsBound
    <3>4. CASE (CancelRead \/ CancelReread \/ CancelFlush) /\ loop'.session = loop.session
      BY <1>3, <3>4, RestFacts DEF LoopKeeps, CancelRead, CancelReread, CancelFlush
    <3>5. ASSUME NEW c \in Clients, StartCheck(c),
                 loop' = [step |-> "accept", session |-> req[c].session]
          PROVE  Holds(c, s)
      BY <1>3, <3>5, RestFacts DEF LoopKeeps, Holds, StartCheck
    <3>. QED
      BY <3>1, <3>2, <3>3, <3>4, <3>5, LoopStepping DEF LoopSteps
  <2>. QED
    BY <2>1, EndedStays DEF UploadsPrecede, Holds
<1>4. ASSUME NEW s \in Sessions, CleanerDeletes(s)' \/ CleanerListed(s)'
      PROVE  upload'[s] = "ended"
  <2>1. \/ CleanerDeletes(s) \/ CleanerListed(s) \/ Exists(s)
        \/ \E tombstones \in SUBSET Sessions : CleanupCommit(tombstones) /\ s \in ToExpire
    BY <1>4, CleanerFiles
  <2>2. ASSUME NEW tombstones \in SUBSET Sessions, CleanupCommit(tombstones), s \in ToExpire
        PROVE  Exists(s)
    BY <2>2 DEF CleanupCommit, Conflict
  <2>. QED
    BY <2>1, <2>2, EndedStays DEF UploadsPrecede
<1>5. ASSUME NEW c \in Clients, req'[c] # Idle
      PROVE  upload'[req'[c].session] = "ended"
  <2>1. CASE req'[c] = req[c] \/ GoesOn(c)
    BY <1>5, <2>1, EndedStays, ReqFacts DEF GoesOn, UploadsPrecede, ReqTyped
  <2>2. CASE Reads(c)
    BY <2>2, EndedStays DEF Reads, UploadsPrecede
  <2>. QED
    BY <1>5, <2>1, <2>2, RequestStep DEF Ends
<1>. QED
  BY <1>1, <1>2, <1>3, <1>4, <1>5 DEF UploadsPrecede

LEMMA UploadFilesStep ==
    ASSUME TypeOK, UploadsPrecede, UploadFiles, Quiet, [Next]_vars
    PROVE  UploadFiles'
<1> SUFFICES ASSUME NEW s \in Sessions
             PROVE  /\ upload'[s] = "assessing" => file'[s] = "stored"
                    /\ upload'[s] \in {"new", "saving"} => file'[s] # "stored"
  BY DEF UploadFiles
<1>1. CASE upload[s] = "ended"
  BY <1>1, EndedStays
<1>2. CASE upload[s] # "ended"
  <2>1. /\ ~LoopUnlinks(s) /\ ~CleanerDeletes(s) /\ ~Exists(s)
        /\ \A c \in Clients : ~Holds(c, s)
    BY <1>2, RestFacts DEF UploadsPrecede, Holds, LoopUnlinks, LoopKeeps
  <2>2. \/ file'[s] = file[s]
        \/ UploadWrite(s) \/ UploadStore(s) \/ UploadFails(s)
        \/ file'[s] = "none" /\ Restart /\ file[s] = "temporary"
        \/ file'[s] = "none" /\ Serve
    BY <2>1, FileStep
  <2>3. CASE UploadWrite(s) \/ UploadStore(s) \/ UploadFails(s)
    BY <2>3 DEF UploadWrite, UploadStore, UploadFails, UploadEnds, uploads, TypeOK
  <2>4. CASE Restart \/ Serve
    <3>1. proc # "up" /\ upload' = upload
      BY <2>4 DEF Restart, Serve, uploads
    <3>2. upload[s] = "new" /\ file[s] # "stored"
      BY <1>2, <3>1 DEF Quiet, UploadFiles
    <3>3. ~UploadStore(s)
      BY <3>1 DEF UploadStore, Up
    <3>4. file'[s] # "stored"
      BY <2>2, <3>1, <3>2, <3>3 DEF UploadWrite, UploadFails, Up, LoopFree, TypeOK
    <3>. QED
      BY <3>1, <3>2, <3>4
  <2>5. CASE file'[s] = file[s] /\ ~(UploadWrite(s) \/ UploadStore(s) \/ UploadFails(s))
    BY <1>2, <2>5, UploadStep
    DEF UploadBegin, UploadRefused, UploadCommit, UploadCancelled, UploadEnds,
        UploadFiles, TypeOK
  <2>. QED
    BY <2>2, <2>3, <2>4, <2>5
<1>. QED
  BY <1>1, <1>2

\* While the process does not serve, only the cleanup and the clock go on.
LEMMA DownSteps ==
    ASSUME proc # "up", [Next]_vars
    PROVE  Clean \/ Crash \/ Restart \/ Serve \/ UNCHANGED <<loop, req, upload, cleaner, review>>
<1> USE DEF Up, LoopFree
<1>1. ASSUME NEW s \in Sessions PROVE ~(Upload(s) \/ Execute(s))
  BY DEF Upload, UploadBegin, UploadRefused, UploadWrite, UploadStore, UploadCommit,
         UploadFails, UploadCancelled, Execute, ExecStart, ExecFinish
<1>2. ASSUME NEW c \in Clients PROVE ~Handle(c)
  BY DEF Handle, Accept, Resolve, Reread, SelectType, ConfirmScope, ExtendList,
         ExtendReview, ExtendSession, DeleteCheck, DeleteUnlink, DeleteCommit, StartCheck,
         StartCommit, StartReject, Retry
<1>3. ~(\/ OthersEnter \/ OthersLeave \/ Cancel \/ LoopUnlink \/ LoopUnlinkFails
        \/ CleanupFails \/ CleanupDeleteFails)
  BY DEF OthersEnter, OthersLeave, Cancel, CancelMark, Release, CancelRead, CancelReread,
         CancelFlush, LoopUnlink, LoopUnlinkFails, CleanupFails, CleanupDeleteFails
<1>4. ASSUME NEW s \in Sessions, NEW n \in 1 .. MaxDeadlines, Pass(s, n)
      PROVE  UNCHANGED <<loop, req, upload, cleaner, review>>
  BY <1>4 DEF Pass, uploads, handlers, rows
<1>5. CASE UNCHANGED vars
  BY <1>5 DEF vars
<1>6. CASE Next
  BY <1>1, <1>2, <1>3, <1>4, <1>6 DEF Next
<1>. QED
  BY <1>5, <1>6

LEMMA CleanIsQuiet ==
    ASSUME TypeOK, Clean
    PROVE  /\ UNCHANGED <<loop, req, upload>>
           /\ \A s \in Sessions : review'[s] = "REVIEWING" => review[s] = "REVIEWING"
           /\ cleaner # CleanerIdle \/ proc # "down"
<1>1. ASSUME NEW tombstones \in SUBSET Sessions, CleanupCommit(tombstones), NEW s \in Sessions,
             review'[s] = "REVIEWING"
      PROVE  review[s] = "REVIEWING"
  BY <1>1 DEF CleanupCommit, ExpiredReview
<1>2. ASSUME NEW s \in Sessions, CleanupCheck(s) \/ CleanupRead(s) \/ CleanupReviews(s)
      PROVE  UNCHANGED <<loop, req, upload, review>> /\ cleaner # CleanerIdle
  <2>1. s \in Found
    BY <1>2 DEF CleanupCheck, CleanupRead, CleanupReviews, NextSession, InPhase
  <2>. QED
    BY <1>2, <2>1, RestFacts
    DEF CleanupCheck, CleanupRead, CleanupReviews, Found, uploads, handlers, rows
<1>. QED
  BY <1>1, <1>2, RestFacts
  DEF Clean, CleanupList, CleanupCommit, CleanupAborts, AtCommit, CleanupDelete, uploads,
      handlers, rows, Up

LEMMA QuietStep ==
    ASSUME TypeOK, RowsBound, Quiet, [Next]_vars
    PROVE  Quiet'
<1>1. CASE Crash
  BY <1>1 DEF Crash, Quiet, CleanerIdle
<1>2. CASE Restart
  BY <1>2, RestFacts DEF Restart, Quiet, uploads, handlers, Interrupted
<1>3. CASE Serve
  BY <1>3 DEF Serve, Quiet
<1>4. CASE proc' = proc /\ ~Crash
  <2>1. CASE proc = "up"
    BY <1>4, <2>1 DEF Quiet
  <2>2. CASE proc = "down"
    <3>1. UNCHANGED <<loop, req, upload, cleaner>>
      BY <1>4, <2>2, DownSteps, CleanIsQuiet, RestFacts DEF Quiet, Restart, Serve
    <3>. QED
      BY <1>4, <2>2, <3>1 DEF Quiet
  <2>3. CASE proc = "starting"
    <3>1. /\ UNCHANGED <<loop, req, upload>>
          /\ \A s \in Sessions : review'[s] = "REVIEWING" => review[s] = "REVIEWING"
      BY <1>4, <2>3, DownSteps, CleanIsQuiet DEF Restart, Serve
    <3>. QED
      BY <1>4, <2>3, <3>1 DEF Quiet
  <2>. QED
    BY <2>1, <2>2, <2>3 DEF TypeOK
<1>. QED
  BY <1>1, <1>2, <1>3, <1>4, RecordStep

LEMMA DoomedStays ==
    ASSUME TypeOK, RequestsFit, Quiet, UploadsPrecede, [Next]_vars, NEW s \in Sessions,
           file[s] = "stored", file'[s] = "stored", Doomed(s)
    PROVE  Doomed(s)' \/ Shared(s)'
<1>1. CASE Serve
  <2>1. file'[s] = IF Referenced(s) THEN file[s] ELSE "none"
    BY <1>1 DEF Serve, Sweep
  <2>2. Referenced(s)'
    BY <1>1, <2>1 DEF Serve, rows, Referenced, Exists
  <2>3. ~CleanerListed(s)' /\ \A c \in Clients : ~Holds(c, s)'
    BY <1>1, RestFacts DEF Serve, CleanerListed, Holds, Quiet, handlers
  <2>. QED
    BY <2>2, <2>3 DEF Shared
<1>2. CASE s \in orphaned \cup (restored \cap mixed) /\ ~Serve
  BY <1>2, RecordStep DEF Doomed
<1>3. CASE Crash
  BY <1>3 DEF Crash, HeldInMemory, Doomed, LoopUnlinks, CleanerDeletes
<1>4. CASE LoopUnlinks(s) /\ ~Crash
  <2>1. CASE LoopUnlink
    BY <1>4, <2>1 DEF LoopUnlink, LoopUnlinks, Unlink, TypeOK
  <2>2. CASE LoopUnlinkFails
    BY <1>4, <2>2 DEF LoopUnlinkFails, LoopUnlinks, Doomed
  <2>3. CASE loop' = loop
    BY <1>4, <2>3 DEF LoopUnlinks, Doomed
  <2>. QED
    BY <1>4, <2>1, <2>2, <2>3, LoopStepping, RestFacts
    DEF LoopSteps, LoopUnlinks, StartCheck, CancelMark, CancelRead, CancelReread,
        CancelFlush, ExecFinish, LoopFree
<1>5. CASE CleanerDeletes(s) /\ ~Crash
  <2>1. CASE CleanupDelete(s)
    BY <2>1 DEF CleanupDelete, Unlink, TypeOK
  <2>. QED
    BY <1>5, <2>1, CleanerFiles DEF Doomed
<1>6. CASE s \in restored \cap mixed
  BY <1>6, RecordStep DEF Doomed
<1>. QED
  BY <1>1, <1>2, <1>3, <1>4, <1>5, <1>6 DEF Doomed

LEMMA SharedStays ==
    ASSUME TypeOK, RowsBound, RequestsFit, CopiesAreTrue, CopiesTell, UploadsPrecede,
           FilesAssumption, [Next]_vars,
           NEW s \in Sessions, file[s] = "stored", file'[s] = "stored", Shared(s)
    PROVE  Doomed(s)' \/ Shared(s)'
<1>0. Referenced(s) /\ row[s] \in Row /\ row[s].key
  BY RowFacts DEF Shared, Referenced
<1>1. ASSUME NEW c \in Clients, Holds(c, s)
      PROVE  req[c].snap.key /\ req[c].step # "deleteRow"
  BY <1>1 DEF Shared
<1>2. Doomed(s)' \/ Referenced(s)'
  <2>1. CASE row'[s] = row[s]
    BY <1>0, <2>1 DEF Referenced, Exists
  <2>2. CASE row'[s] = NoRow
    <3>1. row[s].state = "EXPIRED"
      BY <1>0, <1>1, <2>2, RowChanges, RestFacts DEF RowChange, Sound, Referenced, Exists
    <3>2. (TrueRow(row[s]) \/ s \in mixed) /\ KeyTells(s, row[s])
      BY <1>0 DEF CopiesAreTrue, CopiesTell, Copy
    <3>3. s \in restored /\ s \in mixed
      BY <1>0, <3>1, <3>2 DEF KeyTells, TrueRow, ExpiredHoldsNothing
    <3>. QED
      BY <3>3, RecordStep DEF Doomed
  <2>3. CASE row'[s] \in Row /\ Rewritten(s)
    <3>1. ASSUME NEW tombstones \in SUBSET Sessions, CleanupCommit(tombstones), s \in ToExpire
          PROVE  CleanerDeletes(s)'
      <4>1. CleanerListed(s)
        BY <3>1 DEF CleanupCommit, AtCommit, ToExpire, Found, InPhase, CleanerListed
      <4>2. cleaner.work[s].snap.key
        BY <4>1 DEF Shared
      <4>3. cleaner' = [step |-> "deleting", files |-> {t \in ToExpire : cleaner.work[t].snap.key}]
        BY <3>1, <4>2 DEF CleanupCommit, Deleting
      <4>. QED
        BY <3>1, <4>2, <4>3 DEF CleanerDeletes
    <3>. QED
      BY <1>0, <1>1, <2>3, <3>1, RestFacts DEF Rewritten, Referenced, Exists, Doomed
  <2>. QED
    BY <1>0, <2>1, <2>2, <2>3, RowChanges DEF RowChange, Sound, Referenced
<1>3. ASSUME NEW c \in Clients, Holds(c, s)'
      PROVE  (req[c].snap.key /\ req[c].step # "deleteRow")'
  <2>1. CASE req'[c] = req[c]
    BY <1>1, <1>3, <2>1 DEF Holds
  <2>2. CASE GoesOn(c)
    <3>1. Holds(c, s) /\ req[c].snap.key
      BY <1>1, <1>3, <2>2 DEF GoesOn, Holds
    <3>2. ~DeleteUnlink(c)
      BY <3>1 DEF DeleteUnlink, Unlink, Holds, TypeOK
    <3>. QED
      BY <2>2, <3>1, <3>2 DEF GoesOn
  <2>3. CASE Reads(c)
    BY <1>0, <1>3, <2>3 DEF Reads, Holds
  <2>. QED
    BY <1>3, <2>1, <2>2, <2>3, RequestStep DEF Ends, Holds
<1>4. CleanerListed(s)' => (cleaner.work[s].snap.key)'
  BY <1>0, CleanerFiles DEF Shared
<1>. QED
  BY <1>2, <1>3, <1>4 DEF Shared

LEMMA AccountedStep ==
    ASSUME TypeOK, RowsBound, RequestsFit, CopiesAreTrue, CopiesTell, UploadsPrecede,
           UploadFiles, Quiet, FilesAccounted, FilesAssumption, [Next]_vars
    PROVE  FilesAccounted'
<1> SUFFICES ASSUME NEW s \in Sessions, file'[s] = "stored"
             PROVE  upload'[s] = "assessing" \/ Doomed(s)' \/ Shared(s)'
  BY DEF FilesAccounted
<1>1. CASE UploadStore(s)
  BY <1>1 DEF UploadStore, TypeOK
<1>2. CASE ~UploadStore(s)
  <2>1. file[s] = "stored"
    BY <1>2, FileStep DEF UploadWrite, TypeOK
  <2>2. CASE upload[s] = "assessing"
    <3>1. CASE upload'[s] = "assessing"
      BY <3>1
    <3>2. CASE UploadFails(s)
      BY <3>2 DEF UploadFails, FileAfterFailure, Unlink, TypeOK
    <3>3. CASE UploadCancelled(s)
      BY <3>3 DEF UploadCancelled, Doomed
    <3>4. CASE Crash
      BY <2>1, <2>2, <3>4 DEF Crash, HeldInMemory, Doomed
    <3>5. ASSUME NEW scope \in ScopeStatuses, UploadCommit(s, scope)
          PROVE  Shared(s)'
      <4>1. ~Exists(s) /\ ~CleanerListed(s) /\ \A c \in Clients : ~Holds(c, s)
        BY <2>2 DEF UploadsPrecede, Holds
      <4>2. row'[s].key /\ row'[s] \in Row
        <5> DEFINE d == issued[s] + 1
                   q == [state |-> StateFor(scope), scope |-> scope, selected |-> FALSE,
                         confirmed |-> FALSE, key |-> TRUE, deadline |-> d]
        <5>1. d \in 1 .. MaxDeadlines
          BY <3>5 DEF UploadCommit, CanIssue, TypeOK, FilesAssumption
        <5>2. q \in Row /\ q.key
          BY <5>1, NewRowIsTrue
        <5>3. row'[s] = q
          BY <3>5 DEF UploadCommit, TypeOK
        <5>. QED
          BY <5>2, <5>3
      <4>3. UNCHANGED <<req, cleaner>>
        BY <3>5 DEF UploadCommit, handlers
      <4>. QED
        BY <4>1, <4>2, <4>3, RestFacts
        DEF Shared, Referenced, Exists, CleanerListed, Holds
    <3>. QED
      BY <2>2, <3>1, <3>2, <3>3, <3>4, <3>5, UploadStep
      DEF UploadBegin, UploadRefused, UploadStore
  <2>3. CASE Doomed(s)
    BY <2>1, <2>3, DoomedStays
  <2>4. CASE Shared(s)
    BY <2>1, <2>4, SharedStays
  <2>. QED
    BY <2>1, <2>2, <2>3, <2>4 DEF FilesAccounted
<1>. QED
  BY <1>1, <1>2

\* A review that begins to run has found the key in its row.
LEMMA ReviewingHasKey ==
    ASSUME TypeOK, RowsBound, FilesAssumption, [Next]_vars, NEW s \in Sessions,
           review[s] # "REVIEWING", ~Referenced(s)
    PROVE  review'[s] # "REVIEWING"
<1>1. ASSUME NEW t \in Sessions, ExecStart(t)
      PROVE  review'[s] # "REVIEWING"
  BY <1>1 DEF ExecStart, RowsBound, Referenced, TypeOK
<1>2. CASE Restart
  BY <1>2 DEF Restart
<1>3. ASSUME NEW tombstones \in SUBSET Sessions, CleanupCommit(tombstones)
      PROVE  review'[s] # "REVIEWING"
  BY <1>3 DEF CleanupCommit, ExpiredReview
<1>4. ASSUME NEW c \in Clients,
             \/ (\E another \in BOOLEAN : SelectType(c, another)) \/ ConfirmScope(c)
             \/ ExtendReview(c) \/ ExtendSession(c) \/ DeleteCommit(c) \/ StartCommit(c)
             \/ Retry(c)
      PROVE  review'[s] # "REVIEWING"
  BY <1>4
  DEF SelectType, ConfirmScope, ExtendReview, ExtendSession, DeleteCommit, StartCommit,
      Retry, Drop, TypeOK
<1>. QED
  BY <1>1, <1>2, <1>3, <1>4, RowFrame
  DEF UploadCommit, ExecFinish, CancelMark, CancelFlush, Pass, rows, TypeOK

LEMMA UnnamedStep ==
    ASSUME TypeOK, RowsBound, RequestsFit, CopiesAreTrue, CopiesTell, UploadsPrecede,
           DoomedUnnamed, FilesAssumption, [Next]_vars
    PROVE  DoomedUnnamed'
<1> SUFFICES ASSUME NEW s \in Sessions, s \notin restored'
             PROVE  /\ LoopUnlinks(s)' => ~Referenced(s)'
                    /\ CleanerDeletes(s)' =>
                         ~Referenced(s)' /\ (review'[s] = "REVIEWING" => s \in overtaken')
  BY DEF DoomedUnnamed
<1>0. s \notin restored /\ overtaken \subseteq overtaken'
  BY RecordStep
<1>1. ASSUME LoopUnlinks(s)' PROVE ~Referenced(s)'
  <2>1. CASE LoopUnlinks(s)
    <3>1. ~Referenced(s) /\ upload[s] = "ended"
      BY <1>0, <2>1, RestFacts DEF DoomedUnnamed, UploadsPrecede, LoopUnlinks, LoopKeeps
    <3>. QED
      BY <3>1, KeyGained
  <2>2. ASSUME NEW t \in Sessions, ExecFinish(t, "fatal"), row[t].key,
               loop' = [step |-> "unlink", session |-> t]
        PROVE  ~Referenced(s)'
    <3>1. t = s
      BY <1>1, <2>2 DEF LoopUnlinks
    <3>2. row'[s].key = FALSE
      <4> DEFINE new == [row[s] EXCEPT !.key = FALSE, !.deadline = issued[s] + 1]
      <4>1. LET r == [row[s] EXCEPT !.key = @ /\ ~("fatal" = "fatal" /\ row[s].key)] IN
            Touch(s, r, row[s])
        BY <2>2, <3>1 DEF ExecFinish
      <4>2. Exists(s) /\ row[s] \in Row /\ row[s].key = TRUE
        BY <2>2, <3>1, FinishWrites, RowFacts DEF Outcomes, Row
      <4>3. row'[s] = Flushed(row[s], new, row[s])
        BY <2>2, <3>1, <4>1, <4>2 DEF Touch, Save, TypeOK, Row
      <4>4. new.key = FALSE
        BY <4>2 DEF Row
      <4> HIDE DEF new
      <4>5. row'[s].key = Column(new.key, row[s].key, row[s].key)
        BY <4>3 DEF Flushed
      <4>. QED
        BY <4>2, <4>4, <4>5 DEF Column
    <3>. QED
      BY <3>2 DEF Referenced
  <2>3. ASSUME CancelFlush, Exists(loop.session),
               loop' = [step |-> "unlink", session |-> loop.session]
        PROVE  ~Referenced(s)'
    <3>1. loop.session = s
      BY <1>1, <2>3 DEF LoopUnlinks
    <3>2. PICK q \in Row : Writes(s, q) /\ (q.key => s \in restored)
      BY <2>3, <3>1, ReleaseWrites
    <3>. QED
      BY <1>0, <3>2, WritesChange DEF Referenced
  <2>. QED
    BY <1>1, <2>1, <2>2, <2>3, LoopStepping, RestFacts DEF LoopUnlinks, LoopSteps
<1>2. ASSUME CleanerDeletes(s)'
      PROVE  ~Referenced(s)' /\ (review'[s] = "REVIEWING" => s \in overtaken')
  <2>1. CASE CleanerDeletes(s)
    <3>1. /\ ~Referenced(s) /\ upload[s] = "ended"
          /\ review[s] = "REVIEWING" => s \in overtaken
      BY <1>0, <2>1 DEF DoomedUnnamed, UploadsPrecede
    <3>2. ~Referenced(s)'
      BY <3>1, KeyGained
    <3>3. review'[s] = "REVIEWING" => review[s] = "REVIEWING"
      BY <3>1, ReviewingHasKey
    <3>. QED
      BY <1>0, <3>1, <3>2, <3>3
  <2>2. ASSUME NEW tombstones \in SUBSET Sessions, CleanupCommit(tombstones), s \in ToExpire
        PROVE  ~Referenced(s)' /\ (review'[s] = "REVIEWING" => s \in overtaken')
    <3>1. ~Referenced(s)'
      BY <2>2, ExpiryWrites DEF Referenced
    <3>2. s \notin Overtaken => review'[s] \in {"none", "EXPIRED"}
      BY <2>2 DEF CleanupCommit, ExpiredReview
    <3>3. s \in Overtaken => s \in overtaken'
      BY <2>2 DEF CleanupCommit
    <3>. QED
      BY <3>1, <3>2, <3>3
  <2>. QED
    BY <1>2, <2>1, <2>2, CleanerFiles
<1>. QED
  BY <1>1, <1>2

LEMMA NamesStep ==
    ASSUME TypeOK, RowsBound, RequestsFit, CopiesAreTrue, CopiesTell, UploadsPrecede,
           UploadFiles, DoomedUnnamed, KeysNameFiles, FilesAssumption, [Next]_vars
    PROVE  KeysNameFiles'
<1> SUFFICES ASSUME NEW s \in Sessions, Referenced(s)', s \notin restored', s \notin halfDeleted',
                    \A c \in Clients : ~(req'[c].step = "deleteRow" /\ req'[c].session = s)
             PROVE  file'[s] = "stored"
  BY DEF KeysNameFiles
<1>0. s \notin restored /\ s \notin halfDeleted
  BY RecordStep
<1>1. CASE upload[s] # "ended"
  <2>1. ~Exists(s) /\ row'[s] # row[s]
    BY <1>1 DEF UploadsPrecede, Referenced, Exists
  <2>2. \E scope \in ScopeStatuses : UploadCommit(s, scope)
    BY <2>1, RowChanges DEF RowChange
  <2>. QED
    BY <2>2 DEF UploadCommit, UploadFiles
<1>2. CASE upload[s] = "ended"
  <2>1. Referenced(s)
    BY <1>2, KeyGained
  <2>2. ASSUME NEW c \in Clients, req[c].step = "deleteRow", req[c].session = s
        PROVE  FALSE
    <3>1. req[c] # Idle
      BY <2>2, RestFacts
    <3>2. CASE req'[c] = req[c]
      BY <2>2, <3>2
    <3>3. CASE DeleteCommit(c)
      BY <2>2, <3>3 DEF DeleteCommit, Drop, Referenced, Exists
    <3>4. CASE Crash
      BY <2>2, <3>4 DEF Crash
    <3>. QED
      BY <2>2, <3>1, <3>2, <3>3, <3>4, RequestStep DEF GoesOn, Reads, Ends
  <2>3. file[s] = "stored"
    BY <1>0, <2>1, <2>2 DEF KeysNameFiles
  <2>4. ~LoopUnlinks(s) /\ ~CleanerDeletes(s)
    BY <1>0, <2>1 DEF DoomedUnnamed
  <2>5. ASSUME NEW c \in Clients, DeleteUnlink(c), Holds(c, s)
        PROVE  FALSE
    <3>1. req' = [req EXCEPT ![c] = [req[c] EXCEPT !.step = "deleteRow"]]
      BY <2>5 DEF DeleteUnlink, Become
    <3>2. req[c] \in RequestRecord
      BY <2>5, RequestTyped DEF Holds
    <3>3. req'[c].step = "deleteRow" /\ req'[c].session = s
      BY <2>5, <3>1, <3>2, GoesOnTyped DEF Holds, TypeOK, Steps
    <3>. QED
      BY <3>3
  <2>. QED
    BY <1>2, <2>1, <2>3, <2>4, <2>5, FileStep DEF UploadWrite, UploadStore, UploadFails
<1>. QED
  BY <1>1, <1>2

-----------------------------------------------------------------------------
(* The theorems.                                                            *)

LEMMA InvInit == ASSUME FilesAssumption, Init PROVE FilesInv
<1>1. InUpload = {} /\ UploadSlots \in Nat /\ MaxDeadlines \in Nat
  BY FilesAssumption DEF Init, InUpload
<1>2. SlotsCounted
  BY <1>1, FS_EmptySet DEF Init, SlotsCounted
<1>3. TypeOK
  BY <1>1, FilesAssumption
  DEF Init, TypeOK, ReviewStates, Request, LoopStep, CleanerOK
<1>4. UploadsPrecede /\ UploadFiles /\ Quiet /\ FilesAccounted /\ RequestsFit
  BY RestFacts
  DEF Init, UploadsPrecede, UploadFiles, Quiet, FilesAccounted, RequestsFit, Exists,
      LoopUnlinks, LoopKeeps, CleanerDeletes, CleanerListed
<1>5. \A s \in Sessions : \A r \in Row : ~Copy(s, r)
  BY RestFacts DEF Init, Copy, RequestCopy, LoopCopy, CleanerCopy, CleanerListed, Holds
<1>6. CopiesAreTrue /\ CopiesTell
  BY <1>5 DEF CopiesAreTrue, CopiesTell
<1>7. RowsBound /\ DoomedUnnamed /\ KeysNameFiles
  BY <1>1, RestFacts
  DEF Init, RowsBound, DoomedUnnamed, KeysNameFiles, Exists, Referenced, Reserve,
      Accepting, HasActive, ActiveStates, LoopUnlinks, CleanerDeletes
<1>. QED
  BY <1>2, <1>3, <1>4, <1>6, <1>7 DEF FilesInv

LEMMA InvStep == FilesInv /\ [Next]_vars => FilesInv'
<1> SUFFICES ASSUME FilesInv, [Next]_vars PROVE FilesInv'
  OBVIOUS
<1>1. /\ TypeOK /\ RowsBound /\ RequestsFit /\ SlotsCounted /\ UploadsPrecede /\ UploadFiles
      /\ CopiesAreTrue /\ CopiesTell /\ Quiet /\ FilesAccounted /\ DoomedUnnamed
      /\ KeysNameFiles
  BY DEF FilesInv
<1>2. TypeOK' /\ RowsBound' /\ RequestsFit' /\ SlotsCounted'
  BY <1>1, TypesStep, TimeStep, FitStep, SlotsStep, FilesAssumption
<1>3. UploadsPrecede' /\ UploadFiles' /\ CopiesAreTrue' /\ CopiesTell' /\ Quiet'
  BY <1>1, PrecedeStep, UploadFilesStep, CopiesStep, QuietStep, FilesAssumption
<1>4. FilesAccounted' /\ DoomedUnnamed' /\ KeysNameFiles'
  BY <1>1, AccountedStep, UnnamedStep, NamesStep, FilesAssumption
<1>. QED
  BY <1>2, <1>3, <1>4 DEF FilesInv

\* The inductive invariant holds of every behaviour.
THEOREM FilesInvariant == Spec => []FilesInv
<1>1. Init => FilesInv
  BY InvInit, FilesAssumption
<1>. QED
  BY <1>1, InvStep, PTL DEF Spec

\* A stored file always has an owner: a row, a handler in progress or a
\* recorded mishap.
THEOREM FilesOwned == Spec => []FilesAreOwned
<1>1. FilesInv => FilesAreOwned
  BY DEF FilesInv, FilesAccounted, FilesAreOwned, Doomed, Shared, LoopUnlinks,
         CleanerDeletes
<1>. QED
  BY <1>1, FilesInvariant, PTL

\* A row that names a file names one that exists, with the exceptions that the
\* property lists.
THEOREM KeysName == Spec => []KeysNameFiles
<1>1. FilesInv => KeysNameFiles
  BY DEF FilesInv
<1>. QED
  BY <1>1, FilesInvariant, PTL

\* The state that a row shows is the one it has, whoever wrote it last, unless
\* two saves crossed and left it with columns of both.
THEOREM StatesAreTrue == Spec => []ShownStateIsTrue
<1>1. FilesInv => ShownStateIsTrue
  <2>1. ASSUME FilesInv, NEW s \in Sessions, Exists(s)
        PROVE  TrueRow(row[s]) \/ s \in mixed
    BY <2>1, RowFacts DEF FilesInv, CopiesAreTrue, Copy
  <2>. QED
    BY <2>1 DEF TrueRow, ShownStateIsTrue
<1>. QED
  BY <1>1, FilesInvariant, PTL

\* The upload limiter counts its uploads and stays within its limit; types.
THEOREM SlotsAreCounted == Spec => []UploadsAreCounted
<1>1. FilesInv => UploadsAreCounted
  BY DEF FilesInv, SlotsCounted, UploadsAreCounted
<1>. QED
  BY <1>1, FilesInvariant, PTL

\* A process serves only after the sweep, and after it failed the reviews of its
\* predecessor.
THEOREM ServingIsClean == Spec => ServesClean
<1>1. FilesInv /\ [Next]_vars =>
        [proc' = "up" /\ proc # "up" => \A s \in Sessions :
            /\ file'[s] # "none" => Referenced(s)'
            /\ review'[s] # "REVIEWING"]_vars
  <2> SUFFICES ASSUME FilesInv, [Next]_vars, proc' = "up", proc # "up", NEW s \in Sessions
               PROVE  /\ file'[s] # "none" => Referenced(s)'
                      /\ review'[s] # "REVIEWING"
    OBVIOUS
  <2>1. TypeOK /\ Quiet
    BY DEF FilesInv
  <2>2. Serve
    BY <2>1, RecordStep DEF Crash, Restart
  <2>3. file'[s] = IF Referenced(s) THEN file[s] ELSE "none"
    BY <2>2 DEF Serve, Sweep
  <2>4. Referenced(s)' = Referenced(s) /\ review' = review
    BY <2>2 DEF Serve, rows, Referenced, Exists
  <2>5. review[s] # "REVIEWING"
    BY <2>1, <2>2 DEF Serve, Quiet
  <2>. QED
    BY <2>3, <2>4, <2>5
<1>. QED
  BY <1>1, FilesInvariant, PTL DEF ServesClean, Spec

\* The cleanup takes no file that a row names and none under a running review,
\* unless a key was put back or the review overtook the cleanup.
THEOREM CleanupSpares == Spec => CleanupSparesReviews
<1>1. FilesInv =>
        [\A s \in Sessions :
            CleanupTakes(s) =>
              \/ ~Referenced(s) /\ (review[s] = "REVIEWING" => s \in overtaken)
              \/ s \in restored]_vars
  BY DEF FilesInv, DoomedUnnamed, CleanupTakes, CleanerDeletes
<1>. QED
  BY <1>1, FilesInvariant, PTL DEF CleanupSparesReviews
=============================================================================
