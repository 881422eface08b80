---------------------------- MODULE Idempotency ----------------------------
(***************************************************************************)
(* The @idempotent decorator (core/idempotency) around the chat and the    *)
(* suggestion handlers: the guard of a key within a process, the record of *)
(* an answer in the database, and what a request does with them.           *)
(*                                                                         *)
(* A step is what a handler does from one await to the next; a process has *)
(* one event loop, and several processes may share the database.  A key    *)
(* stands for scope, session and Idempotency-Key, a body for a             *)
(* fingerprint, and an answer is named after the request that produced it. *)
(***************************************************************************)
EXTENDS Naturals, FiniteSets

CONSTANTS Requests, Keys, Bodies, Processes,
          KeyOf, BodyOf, ProcessOf,   \* what each request asks, and where
          NoRequest

ASSUME CallsAssumption ==
    /\ KeyOf \in [Requests -> Keys]
    /\ BodyOf \in [Requests -> Bodies]
    /\ ProcessOf \in [Requests -> Processes]

ASSUME NoRequestAssumption == NoRequest \notin Requests

VARIABLES
    at,         \* where each request is, or how it ended
    answer,     \* the request whose answer it got
    guards,     \* _guards of each process; an entry is named after its creator
    entry,      \* the guard entry that each request uses
    locked,     \* the entries whose lock is taken
    stored,     \* the committed records: for each key, the answer
    lapsed,     \* the keys whose record is past expires_at
    writer      \* the request whose transaction holds SQLite's write lock

vars == <<at, answer, guards, entry, locked, stored, lapsed, writer>>

Busy == {"waiting", "executing"}
Ended == {"answered", "refused", "failed"}

GuardKey(r) == <<ProcessOf[r], KeyOf[r]>>

\* A record that find_replay returns.
Live(k) == stored[k] # NoRequest /\ k \notin lapsed

Init ==
    /\ at = [r \in Requests |-> "out"]
    /\ answer = [r \in Requests |-> NoRequest]
    /\ guards = [g \in Processes \X Keys |-> NoRequest]
    /\ entry = [r \in Requests |-> NoRequest]
    /\ locked = {} /\ lapsed = {} /\ writer = NoRequest
    /\ stored = [k \in Keys |-> NoRequest]

-----------------------------------------------------------------------------
(* The guard                                                               *)

\* users of an entry, without r
OtherUsers(r) == {x \in Requests \ {r} : at[x] \in Busy /\ entry[x] = entry[r]}

\* A request joins the entry of its key, or makes one.
Arrive(r) ==
    /\ at[r] = "out"
    /\ LET e == IF guards[GuardKey(r)] = NoRequest THEN r ELSE guards[GuardKey(r)]
       IN  /\ guards' = [guards EXCEPT ![GuardKey(r)] = e]
           /\ entry' = [entry EXCEPT ![r] = e]
    /\ at' = [at EXCEPT ![r] = "waiting"]
    /\ UNCHANGED <<answer, locked, stored, lapsed, writer>>

GetsLock(r) == at[r] = "waiting" /\ entry[r] \notin locked

\* Fault: the entry goes although others use it.
GuardsAfterEvenInUse(r) == [guards EXCEPT ![GuardKey(r)] = NoRequest]

\* The last user takes the entry away.
GuardsAfter(r) ==
    IF OtherUsers(r) = {} /\ guards[GuardKey(r)] = entry[r]
    THEN [guards EXCEPT ![GuardKey(r)] = NoRequest]
    ELSE guards

\* Fault: an error leaves the lock taken.
UnlockOnAnswer(r, how) == IF how = "failed" THEN locked ELSE locked \ {entry[r]}

Unlock(r, how) == locked \ {entry[r]}

\* A request leaves the guarded block, with the lock that it has.
Leave(r, how, source) ==
    /\ at' = [at EXCEPT ![r] = how]
    /\ answer' = [answer EXCEPT ![r] = source]
    /\ guards' = GuardsAfter(r)
    /\ locked' = Unlock(r, how)
    /\ entry' = entry

-----------------------------------------------------------------------------
(* The record                                                              *)

SameCall(r) == BodyOf[stored[KeyOf[r]]] = BodyOf[r]

\* What find_replay gives for a live record, at once or after a lost insert:
\* the answer, or the refusal of a key that is used for something else.
Replayed(r) ==
    /\ Live(KeyOf[r])
    /\ \/ SameCall(r) /\ Leave(r, "answered", stored[KeyOf[r]])
       \/ ~SameCall(r) /\ Leave(r, "refused", NoRequest)

Replay(r) ==
    /\ GetsLock(r) /\ Replayed(r)
    /\ UNCHANGED <<stored, lapsed, writer>>

\* No live record: the handler runs.  A lapsed record is deleted first, and the
\* transaction stays open while the handler awaits its calls.
Execute(r) ==
    /\ GetsLock(r) /\ ~Live(KeyOf[r])
    /\ \/ stored[KeyOf[r]] = NoRequest /\ writer' = writer
       \/ stored[KeyOf[r]] # NoRequest /\ writer = NoRequest /\ writer' = r
    /\ at' = [at EXCEPT ![r] = "executing"]
    /\ locked' = locked \cup {entry[r]}
    /\ UNCHANGED <<answer, guards, entry, stored, lapsed>>

\* The lapsed record cannot be deleted: the database is locked.
LookupFails(r) ==
    /\ GetsLock(r) /\ KeyOf[r] \in lapsed /\ writer # NoRequest
    /\ Leave(r, "failed", NoRequest)
    /\ UNCHANGED <<stored, lapsed, writer>>

\* Fault: a record of the key is overwritten.
InsertsAlways(r) == writer \in {NoRequest, r}

\* The insert succeeds: there is no record, or its own deletion came first.
Inserts(r) == \/ writer = NoRequest /\ stored[KeyOf[r]] = NoRequest
              \/ writer = r

\* save_response and commit.
Save(r) ==
    /\ at[r] = "executing" /\ Inserts(r)
    /\ stored' = [stored EXCEPT ![KeyOf[r]] = r]
    /\ lapsed' = lapsed \ {KeyOf[r]} /\ writer' = NoRequest
    /\ Leave(r, "answered", r)

\* Another process was first: rollback, and its answer counts.  If that has
\* lapsed, the error of the insert is raised.
Lose(r) ==
    /\ at[r] = "executing" /\ writer = NoRequest /\ stored[KeyOf[r]] # NoRequest
    /\ \/ Replayed(r)
       \/ ~Live(KeyOf[r]) /\ Leave(r, "failed", NoRequest)
    /\ UNCHANGED <<stored, lapsed, writer>>

\* The handler raises, is cancelled, or finds the database locked when it saves;
\* closing the session rolls back.  That comes after the lock is given back: who
\* finds the lapsed record in between meets a locked database, a failure that
\* LookupFails allows at any time of the transaction; both are one step here.
Fail(r) ==
    /\ at[r] = "executing"
    /\ writer' = IF writer = r THEN NoRequest ELSE writer
    /\ Leave(r, "failed", NoRequest)
    /\ UNCHANGED <<stored, lapsed>>

\* Fault: the lock is released by a request that never had it.
LockAfterAbandonReleased(r) == locked \ {entry[r]}

LockAfterAbandon(r) == locked

\* A request is cancelled while it waits for the lock.
Abandon(r) ==
    /\ at[r] = "waiting"
    /\ at' = [at EXCEPT ![r] = "failed"]
    /\ guards' = GuardsAfter(r) /\ locked' = LockAfterAbandon(r)
    /\ UNCHANGED <<answer, entry, stored, lapsed, writer>>

-----------------------------------------------------------------------------
(* Time, cleanup, crashes                                                  *)

\* A record gets older than the TTL of its session.
Lapse(k) ==
    /\ Live(k) /\ lapsed' = lapsed \cup {k}
    /\ UNCHANGED <<at, answer, guards, entry, locked, stored, writer>>

\* delete_expired_records of the cleanup thread.
Sweep ==
    /\ lapsed # {} /\ writer = NoRequest
    /\ stored' = [k \in Keys |-> IF k \in lapsed THEN NoRequest ELSE stored[k]]
    /\ lapsed' = {}
    /\ UNCHANGED <<at, answer, guards, entry, locked, writer>>

\* The requests of process p that are not answered.
Lost(p) == {r \in Requests : ProcessOf[r] = p /\ at[r] \in Busy}

\* Process p dies and is started again: guards, requests and the open
\* transaction are gone, what is committed stays.
Crash(p) ==
    /\ at' = [r \in Requests |-> IF r \in Lost(p) THEN "failed" ELSE at[r]]
    /\ guards' = [g \in Processes \X Keys |-> IF g[1] = p THEN NoRequest ELSE guards[g]]
    /\ locked' = locked \ {entry[r] : r \in Lost(p)}
    /\ writer' = IF writer \in Lost(p) THEN NoRequest ELSE writer
    /\ UNCHANGED <<answer, entry, stored, lapsed>>

Enters(r) == Replay(r) \/ Execute(r) \/ LookupFails(r)
Finishes(r) == Save(r) \/ Lose(r) \/ Fail(r)

Next ==
    \/ \E r \in Requests : Arrive(r) \/ Enters(r) \/ Finishes(r) \/ Abandon(r)
    \/ \E k \in Keys : Lapse(k)
    \/ Sweep
    \/ \E p \in Processes : Crash(p)

Spec == Init /\ [][Next]_vars

-----------------------------------------------------------------------------
(* Properties                                                              *)

\* Every variable holds a value it can hold.
TypeOK ==
    /\ at \in [Requests -> {"out"} \cup Busy \cup Ended]
    /\ answer \in [Requests -> Requests \cup {NoRequest}]
    /\ guards \in [Processes \X Keys -> Requests \cup {NoRequest}]
    /\ entry \in [Requests -> Requests \cup {NoRequest}]
    /\ locked \subseteq Requests
    /\ stored \in [Keys -> Requests \cup {NoRequest}]
    /\ lapsed \subseteq {k \in Keys : stored[k] # NoRequest}
    /\ writer \in Requests \cup {NoRequest}

\* An entry stays in _guards as long as a request uses it, so that all requests
\* of a key in a process use the same one.
EntriesStay ==
    \A r \in Requests :
        at[r] \in Busy => entry[r] \in Requests /\ guards[GuardKey(r)] = entry[r]

\* An entry serves the key, in the process, of the request that made it.
EntriesAreApart ==
    \A g \in Processes \X Keys : guards[g] # NoRequest => GuardKey(guards[g]) = g

\* The guard lets one request of a key and a process execute at a time, also when
\* requests arrive, give up and fail while others wait.
GuardExcludes ==
    \A r, x \in Requests :
        /\ at[r] = "executing" => entry[r] \in locked
        /\ at[r] = "executing" /\ at[x] = "executing" /\ GuardKey(r) = GuardKey(x)
              => r = x

\* An open transaction belongs to a request that has found its record lapsed, and
\* nobody can change that record before it ends.
WriterFoundLapsed ==
    writer # NoRequest => at[writer] = "executing" /\ KeyOf[writer] \in lapsed

\* A request that is not answered has no answer.
AnswersAreGiven == \A r \in Requests : at[r] # "answered" => answer[r] = NoRequest

\* A guard is taken apart only when nobody uses it, excludes while it is used, and
\* an open transaction stays with its request.
GuardInv ==
    /\ TypeOK /\ EntriesStay /\ EntriesAreApart /\ GuardExcludes
    /\ WriterFoundLapsed /\ AnswersAreGiven

\* No request works for an answer that its own process has already given: a call
\* that is repeated while the first one runs waits for it.
WorksOnce ==
    \A r \in Requests :
        at[r] = "executing" /\ Live(KeyOf[r])
            => ProcessOf[stored[KeyOf[r]]] # ProcessOf[r]

\* What callers see: the decorator keeps the promise of AnsweredOnce.
Promise == INSTANCE AnsweredOnce WITH
    outcome <- [r \in Requests |-> IF at[r] \in Ended THEN at[r] ELSE "pending"],
    recorded <- [k \in Keys |-> IF Live(k) THEN stored[k] ELSE NoRequest]

\* Across processes, lapses, failures and crashes, a kept answer is the answer to
\* its key, and a key is never answered for another call.
KeepsPromise == Promise!PromiseSpec

\* asyncio.Lock serves its waiters in turn, and a handler ends: its calls carry
\* timeouts, and SQLite's write lock is awaited for busy_timeout at most.
Fairness == \A r \in Requests :
    SF_vars(Enters(r)) /\ WF_vars(Finishes(r))

FairSpec == Spec /\ Fairness

\* No request waits for ever for its key, whatever happens to those before it.
CallEnds == \A r \in Requests : at[r] = "waiting" ~> at[r] \in Ended

=============================================================================
