-------------------------- MODULE ReviewQueueProps --------------------------
(***************************************************************************)
(* What ReviewQueue is checked for.                                        *)
(***************************************************************************)
EXTENDS ReviewQueue

\* Every variable holds a value the program can hold.
TypeOK ==
    /\ state \in [Reviews -> ReviewStates]
    /\ owner \in [Reviews -> Sessions \cup {NoSession}]
    /\ retryable \subseteq Reviews
    /\ hasKey \subseteq Sessions
    /\ proc \in {"up", "stopping", "down"}
    /\ worker \in {"running", "cancelling", "ended"}
    /\ pending \in Seq(Reviews)
    /\ current \in Reviews \cup {NoReview}
    /\ exec \in ExecSteps
    /\ exec # "none" => current \in Reviews
    /\ cancelled \in BOOLEAN
    /\ outcome \in Outcomes
    /\ req \in [Clients -> RequestRecord]
    /\ stale \in [Actors -> BOOLEAN]
    /\ restarts \in 0 .. MaxRestarts
    /\ capacity \in Capacities

\* A session never has two active reviews: the look-ahead of start and retry is
\* enough, so the partial unique index behind it never has to refuse a row.
OneActivePerSession ==
    \A r, x \in Reviews :
        /\ state[r] \in ActiveStates /\ state[x] \in ActiveStates
        /\ owner[r] = owner[x]
        => r = x

\* A serving process never has more QUEUED rows in the ledger than its queue has
\* places, even if the build before it had a longer queue.
QueuedWithinCapacity == proc = "up" => Cardinality(Queued) <= capacity

\* While the runner awaits the MCP tool, records progress or holds the answer,
\* its review is REVIEWING: nobody cancels, expires or fails a row under it.
ExecutionOwnsReview ==
    exec \in {"calling", "recording", "recordingAgain", "answered"} =>
        state[current] = "REVIEWING"

\* No id is in the mirror twice or both waiting and running, and the mirror
\* stays within its bound.
MirrorWellFormed ==
    /\ Len(pending) <= capacity
    /\ \A i, j \in 1 .. Len(pending) : pending[i] = pending[j] => i = j
    /\ current # NoReview => ~InPending(current)

-----------------------------------------------------------------------------
(* The inductive invariant behind the life cycle and the two properties of  *)
(* the ledger.  Each part says which of an actor's earlier readings are     *)
(* still true when it acts on them.                                         *)

\* At most one task is between a read and the await that follows it.
OneLoopHolder ==
    /\ \A q \in Requests : HandlerHoldsLoop(q) => ~ExecHoldsLoop
    /\ \A p, q \in Requests :
          HandlerHoldsLoop(p) /\ HandlerHoldsLoop(q) => p = q

\* A process that is down has neither a task nor a request.
DownIsQuiet ==
    proc = "down" => exec = "none" /\ \A c \in Clients : req[c] = IdleRequest

\* A row exists if and only if it has a session.
RowsAreOwned == \A r \in Reviews : owner[r] = NoSession <=> state[r] = "ABSENT"

\* The execution task works on the row of the current review, in the state in
\* which it has read it.
ExecutionReadsTrue ==
    /\ exec = "loaded" => state[current] = "QUEUED"
    /\ ExecutionOwnsReview

\* What a request was decided on still holds when its handler writes.
RequestsReadTrue ==
    /\ \A c \in Clients :
          req[c].step \notin {"idle", "starting"} => state[req[c].review] # "ABSENT"
    /\ \A q \in Requests :
          req[q].step = "starting" =>
             req[q].session \in Sessions /\ ~HasActive(req[q].session)
    /\ \A q \in Requests :
          req[q].step = "cancelling" =>
             state[req[q].review] \notin {"CANCELLED", "EXPIRED"}

\* A cancel handler that waits no more has outlived the execution of its review.
JoinedAfterEnd ==
    \A q \in Requests :
        req[q].step \in {"joined", "cancelling"} /\ req[q].review = current =>
            exec \in {"none", "created", "done", "aborted"}

\* An extend request whose save would win the version comparison holds a copy
\* in the state of the row.
CopiesAreCurrent ==
    \A e \in Extenders :
        req[e].step \in {"extending", "extendingAgain"} /\ ~stale[e] =>
            req[e].seen = state[req[e].review]

\* What each actor has read and will act on.
Readings ==
    /\ OneLoopHolder /\ DownIsQuiet
    /\ RowsAreOwned /\ ExecutionReadsTrue /\ RequestsReadTrue
    /\ JoinedAfterEnd /\ CopiesAreCurrent

\* No stale copy, thread, crash or recovery makes a later write of an actor
\* contradict what the ledger says by then.
LedgerInv == TypeOK /\ Readings /\ OneActivePerSession

-----------------------------------------------------------------------------
(* Action properties and the abstract specification.                        *)

\* Whatever threads, stale copies, crashes and recoveries do, each row follows
\* the life cycle of the aggregate and is accepted alone in its session.
FollowsLifecycle == Lifecycle!LifecycleSpec

\* A review that is accepted (202) is in the worker's queue when its handler
\* ends: enqueue does not find the mirror full after the commit.
AcceptedIsMirrored ==
    [][\A r \in Reviews : state[r] = "ABSENT" /\ state'[r] # "ABSENT" =>
            \E i \in 1 .. Len(pending') : pending'[i] = r]_vars

\* A cancel handler is between taking the review from the scheduler and
\* writing CANCELLED.
BeingCancelled(r) ==
    \E q \in Requests : /\ req[q].review = r
                        /\ req[q].step \in {"joining", "joined", "cancelling"}

\* Executions start in the order of acceptance: nothing older that is not being
\* cancelled is still QUEUED.
StartsInOrder ==
    [][exec = "none" /\ exec' = "created" =>
            \A r \in Queued : r < current' => BeingCancelled(r)]_vars

\* A serving process has every active review in hand: a QUEUED one waits in the
\* mirror or is about to start, a REVIEWING one is being executed, unless a
\* cancel handler is about to end it.
ActiveIsInHand ==
    proc = "up" =>
        \A r \in Reviews :
            /\ state[r] = "QUEUED" =>
                  \/ InPending(r)
                  \/ current = r /\ exec \in {"created", "loaded"}
                  \/ BeingCancelled(r)
            /\ state[r] = "REVIEWING" =>
                  \/ current = r /\ exec \notin {"created", "loaded", "done", "aborted"}
                  \/ BeingCancelled(r)

-----------------------------------------------------------------------------
(* Liveness.  asyncio runs ready callbacks in FIFO order, so a task that is *)
(* ready again and again is run: strong fairness for the steps that need   *)
(* the loop free.  The MCP call ends because it carries a read timeout. A   *)
(* thread, the restart policy and a step on the loop are weakly fair.      *)

EndsCall == ExecCancelled \/ \E o \in Outcomes : ExecAnswer(o)

HoldsLoop ==
    \/ ExecStart \/ ExecStartConflict \/ ExecFinish \/ ExecFinishConflict
    \/ ProgressSave \/ ProgressConflict
    \/ \E q \in Requests : \/ StartCommit(q) \/ StartConflict(q) \/ CancelSave(q)
                            \/ CancelConflict(q) \/ CancelClear(q)

Fairness ==
    /\ WF_vars(HoldsLoop)
    /\ WF_vars(\E n \in Capacities : Startup(n)) /\ WF_vars(ShutdownEnd)
    /\ SF_vars(Dispatch) /\ SF_vars(WorkerResume)
    /\ SF_vars(ExecAbort) /\ SF_vars(ExecRead) /\ SF_vars(EndsCall)
    /\ \A q \in Requests : SF_vars(CancelRemove(q)) /\ SF_vars(CancelRead(q))
    /\ \A e \in Extenders : WF_vars(ExtendStep(e))

FairSpec == Spec /\ Fairness

\* Whoever told the process to stop kills it when it does not.
SupervisedSpec == FairSpec /\ WF_vars(Kill)

\* Every accepted review leaves the queue.
QueuedIsServed ==
    \A r \in Reviews : state[r] = "QUEUED" ~> state[r] # "QUEUED"

\* Every execution ends: a review does not stay REVIEWING, whatever happens to
\* the call, the worker or the process.
ReviewingEnds ==
    \A r \in Reviews : state[r] = "REVIEWING" ~> state[r] # "REVIEWING"

\* Every cancel request ends, also one that waits for the execution it cancelled.
CancelIsAnswered ==
    \A q \in Requests : req[q].step = "cancel" ~> req[q].step = "idle"

\* A process that is told to stop does stop.
ShutdownEnds == proc = "stopping" ~> proc = "down"

=============================================================================
