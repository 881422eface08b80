------------------------- MODULE ReviewQueueProofs -------------------------
(***************************************************************************)
(* What holds of ReviewQueue for every number of sessions, requests,      *)
(* threads, reviews, places in the queue and restarts.                    *)
(***************************************************************************)
EXTENDS ReviewQueueProps, TLAPS, FiniteSetTheorems, SequenceTheorems

-----------------------------------------------------------------------------
(* Typing of the helpers.                                                   *)

\* Review ids are positive, and NoReview is none of them.
LEMMA ReviewIds == Reviews \subseteq Nat \ {0} /\ NoReview \notin Reviews
BY BoundsAssumption DEF Reviews, NoReview

\* deque.append keeps the mirror a sequence of review ids.
LEMMA EnqueueType ==
    ASSUME pending \in Seq(Reviews), NEW r \in Reviews, Enqueue(r)
    PROVE  pending' \in Seq(Reviews)
BY AppendProperties DEF Enqueue

\* deque.remove keeps the mirror a sequence of review ids.
LEMMA DequeueType ==
    ASSUME pending \in Seq(Reviews), NEW r, Dequeue(r)
    PROVE  pending' \in Seq(Reviews)
<1>1. CASE pending' = pending
  BY <1>1
<1>2. ASSUME NEW i \in 1 .. Len(pending),
             pending' = SubSeq(pending, 1, i - 1) \o SubSeq(pending, i + 1, Len(pending))
      PROVE  pending' \in Seq(Reviews)
  <2>1. i \in Nat /\ Len(pending) \in Nat /\ 1 <= i /\ i <= Len(pending)
    BY LenProperties
  <2>2. SubSeq(pending, 1, i - 1) \in Seq(Reviews)
    BY <2>1, LenProperties, SubSeqProperties
  <2>3. SubSeq(pending, i + 1, Len(pending)) \in Seq(Reviews)
    BY <2>1, LenProperties, SubSeqProperties
  <2>. QED  BY <1>2, <2>2, <2>3, ConcatProperties
<1>. QED  BY <1>1, <1>2 DEF Dequeue

\* The rows are finitely many, so each selection of them can be counted.
LEMMA RowsAreFinite ==
    ASSUME NEW S \in SUBSET Reviews
    PROVE  IsFiniteSet(S) /\ Cardinality(S) \in Nat
<1>1. IsFiniteSet(Reviews)
  BY BoundsAssumption, FS_Interval DEF Reviews
<1>. QED  BY <1>1, FS_Subset, FS_CardinalityType

\* The mirror that reconcile fills is a sequence of review ids.
LEMMA StartupType ==
    ASSUME NEW n \in Capacities, Startup(n)
    PROVE  pending' \in Seq(Reviews)
<1>. DEFINE kept == Queued \ Overflow(n)
<1>1. Cardinality(kept) \in Nat
  BY RowsAreFinite DEF Queued
<1>2. PICK order \in [1 .. Cardinality(kept) -> kept] : pending' = order
  BY DEF Startup
<1>3. kept \subseteq Reviews
  BY DEF Queued
<1>. HIDE DEF kept
<1>4. order \in [1 .. Cardinality(kept) -> Reviews]
  BY <1>2, <1>3
<1>5. order \in Seq(Reviews)
  BY <1>1, <1>4, SeqDef
<1>. QED  BY <1>2, <1>5

\* A save leaves one Boolean per actor.
LEMMA SaveType ==
    ASSUME NEW a, NEW rows, Save(a, rows), stale \in [Actors -> BOOLEAN]
    PROVE  stale' \in [Actors -> BOOLEAN]
BY DEF Save

\* Reading again leaves one Boolean per actor.
LEMMA RefreshType ==
    ASSUME NEW a, Refresh(a), stale \in [Actors -> BOOLEAN]
    PROVE  stale' \in [Actors -> BOOLEAN]
BY DEF Refresh

\* A client that takes up a request is in a request again.
LEMMA BecomeType ==
    ASSUME NEW c \in Clients, NEW record \in RequestRecord, Become(c, record),
           req \in [Clients -> RequestRecord]
    PROVE  req' \in [Clients -> RequestRecord]
BY DEF Become

\* Resuming the handlers that await an execution yields requests again.
LEMMA EndExecutionType ==
    ASSUME NEW how, EndExecution(how), req \in [Clients -> RequestRecord]
    PROVE  req' \in [Clients -> RequestRecord]
BY DEF EndExecution, RequestRecord, RequestSteps

\* No request at all counts as a request record.
LEMMA IdleRequestType == IdleRequest \in RequestRecord
BY BoundsAssumption DEF IdleRequest, RequestRecord, RequestSteps, ReviewStates,
   Lifecycle!ReviewStates

\* What a cancel handler does after a read is a request again.
LEMMA AfterReadType ==
    ASSUME NEW q \in Clients, req \in [Clients -> RequestRecord],
           req[q].step \notin {"idle", "starting"},
           NEW n \in 0 .. CancelAttempts
    PROVE  AfterRead(q, n) \in RequestRecord
<1>1. [req[q] EXCEPT !.step = "clearing"] \in RequestRecord
  BY DEF RequestRecord, RequestSteps
<1>2. [req[q] EXCEPT !.step = "cancelling", !.tries = n] \in RequestRecord
  BY DEF RequestRecord, RequestSteps
<1>3. CASE state[req[q].review] = "CANCELLED"
  BY <1>1, <1>3 DEF AfterRead
<1>4. CASE state[req[q].review] = "EXPIRED"
  BY <1>4, IdleRequestType DEF AfterRead
<1>5. CASE state[req[q].review] \notin {"CANCELLED", "EXPIRED"}
  BY <1>2, <1>5 DEF AfterRead
<1>. QED  BY <1>3, <1>4, <1>5

\* An accepted review leaves rows, mirror and error records well typed.
LEMMA AcceptType ==
    ASSUME TypeOK, NEW r \in Reviews, NEW s \in Sessions \cup {NoSession},
           NEW expired, Accept(r, s, expired)
    PROVE  /\ state' \in [Reviews -> ReviewStates]
           /\ owner' \in [Reviews -> Sessions \cup {NoSession}]
           /\ retryable' \subseteq Reviews
           /\ pending' \in Seq(Reviews)
<1>1. pending' \in Seq(Reviews)
  BY EnqueueType DEF Accept, TypeOK
<1>. QED  BY <1>1 DEF Accept, TypeOK, ReviewStates, Lifecycle!ReviewStates

\* The memory of a process that is gone is well typed.
LEMMA HaltType ==
    ASSUME Halt
    PROVE  /\ proc' \in {"up", "stopping", "down"}
           /\ worker' \in {"running", "cancelling", "ended"}
           /\ pending' \in Seq(Reviews)
           /\ current' \in Reviews \cup {NoReview}
           /\ exec' = "none" /\ exec' \in ExecSteps
           /\ cancelled' \in BOOLEAN /\ outcome' \in Outcomes
           /\ req' \in [Clients -> RequestRecord]
           /\ stale' \in [Actors -> BOOLEAN]
<1>1. <<>> \in Seq(Reviews)
  BY EmptySeq
<1>. QED  BY <1>1, IdleRequestType DEF Halt, ExecSteps, Outcomes

-----------------------------------------------------------------------------
(* Type correctness.                                                        *)

\* A fresh process on an empty database is well typed.
LEMMA InitTypeOK == Init => TypeOK
<1>. SUFFICES ASSUME Init PROVE TypeOK
  OBVIOUS
<1>1. pending \in Seq(Reviews)
  BY EmptySeq DEF Init
<1>2. /\ state \in [Reviews -> ReviewStates]
      /\ owner \in [Reviews -> Sessions \cup {NoSession}]
  BY DEF Init, Lifecycle!LifecycleInit, ReviewStates, Lifecycle!ReviewStates
<1>3. req \in [Clients -> RequestRecord] /\ stale \in [Actors -> BOOLEAN]
  BY IdleRequestType DEF Init
<1>4. restarts \in 0 .. MaxRestarts
  BY BoundsAssumption DEF Init
<1>. QED
  BY <1>1, <1>2, <1>3, <1>4 DEF Init, TypeOK, ExecSteps, Outcomes

\* Every handler, worker and runner step keeps the variables in their types.
LEMMA NextTypeOK == TypeOK /\ [Next]_vars => TypeOK'
<1>. SUFFICES ASSUME TypeOK, [Next]_vars PROVE TypeOK'
  OBVIOUS
<1>. USE DEF TypeOK
<1>1. ASSUME NEW q \in Requests, NEW s \in Sessions, StartRead(q, s) PROVE TypeOK'
  <2>1. [IdleRequest EXCEPT !.step = "starting", !.session = s] \in RequestRecord
    BY IdleRequestType DEF RequestRecord, RequestSteps
  <2>2. req' \in [Clients -> RequestRecord]
    BY <1>1, <2>1, BecomeType DEF StartRead, Clients
  <2>. QED
    BY <1>1, <2>2 DEF StartRead, ledger, scheduler, execution, deploy
<1>2. ASSUME NEW q \in Requests, StartCommit(q) PROVE TypeOK'
  BY <1>2, AcceptType, SaveType, IdleRequestType
  DEF StartCommit, Become, Clients, RequestRecord, execution, deploy
<1>3. ASSUME NEW q \in Requests, StartConflict(q) PROVE TypeOK'
  BY <1>3, RefreshType, IdleRequestType
  DEF StartConflict, Become, Clients, ledger, scheduler, execution, deploy
<1>4. ASSUME NEW r \in Reviews, Replay(r) PROVE TypeOK'
  BY <1>4, EnqueueType DEF Replay, ledger, execution, deploy
<1>5. ASSUME NEW q \in Requests, NEW r \in Reviews, RetryResolve(q, r) PROVE TypeOK'
  <2>1. [IdleRequest EXCEPT !.step = "retrying", !.review = r] \in RequestRecord
    BY IdleRequestType DEF RequestRecord, RequestSteps
  <2>2. req' \in [Clients -> RequestRecord]
    BY <1>5, <2>1, BecomeType DEF RetryResolve, Clients
  <2>. QED
    BY <1>5, <2>2 DEF RetryResolve, ledger, scheduler, execution, deploy
<1>6. ASSUME NEW q \in Requests, RetryCommit(q) PROVE TypeOK'
  <2>1. PICK r \in Reviews : Accept(r, owner[req[q].review], {})
    BY <1>6 DEF RetryCommit
  <2>2. owner[req[q].review] \in Sessions \cup {NoSession}
    BY <1>6 DEF RetryCommit, Clients, RequestRecord
  <2>3. /\ state' \in [Reviews -> ReviewStates]
        /\ owner' \in [Reviews -> Sessions \cup {NoSession}]
        /\ retryable' \subseteq Reviews
        /\ pending' \in Seq(Reviews)
    BY <2>1, <2>2, AcceptType
  <2>. QED
    BY <1>6, <2>3, BecomeType, IdleRequestType
    DEF RetryCommit, Clients, execution, deploy
<1>7. ASSUME NEW q \in Requests, RetryReject(q) PROVE TypeOK'
  BY <1>7, IdleRequestType
  DEF RetryReject, Become, Clients, ledger, scheduler, execution, deploy
<1>8. ASSUME NEW q \in Requests, NEW r \in Reviews, CancelResolve(q, r) PROVE TypeOK'
  <2>1. [IdleRequest EXCEPT !.step = "cancel", !.review = r] \in RequestRecord
    BY IdleRequestType DEF RequestRecord, RequestSteps
  <2>2. req' \in [Clients -> RequestRecord]
    BY <1>8, <2>1, BecomeType DEF CancelResolve, Clients
  <2>. QED
    BY <1>8, <2>2 DEF CancelResolve, ledger, scheduler, execution, deploy
<1>9. ASSUME NEW q \in Requests, CancelRemove(q) PROVE TypeOK'
  <2>1. AfterRead(q, 1) \in RequestRecord
    BY <1>9, AfterReadType, BoundsAssumption DEF CancelRemove, Clients
  <2>2. /\ [req[q] EXCEPT !.step = "joining"] \in RequestRecord
        /\ [req[q] EXCEPT !.step = "joined"] \in RequestRecord
    BY <1>9 DEF CancelRemove, Clients, RequestRecord, RequestSteps
  <2>3. req' \in [Clients -> RequestRecord]
    BY <1>9, <2>1, <2>2, BecomeType DEF CancelRemove, Clients
  <2>4. pending' \in Seq(Reviews)
    BY <1>9, DequeueType DEF CancelRemove
  <2>. QED
    BY <1>9, <2>3, <2>4 DEF CancelRemove, Cancellable, ledger, deploy
<1>10. ASSUME NEW q \in Requests, CancelRead(q) PROVE TypeOK'
  BY <1>10, AfterReadType, BoundsAssumption
  DEF CancelRead, Become, Clients, ledger, scheduler, execution, deploy
<1>11. ASSUME NEW q \in Requests, CancelSave(q) PROVE TypeOK'
  <2>1. [req[q] EXCEPT !.step = "clearing"] \in RequestRecord
    BY <1>11 DEF CancelSave, Clients, RequestRecord, RequestSteps
  <2>2. req' \in [Clients -> RequestRecord]
    BY <1>11, <2>1, BecomeType DEF CancelSave, Clients
  <2>. QED
    BY <1>11, <2>2, SaveType
    DEF CancelSave, ReviewStates, Lifecycle!ReviewStates, scheduler, execution,
        deploy
<1>12. ASSUME NEW q \in Requests, CancelConflict(q) PROVE TypeOK'
  <2>1. ASSUME AttemptsLeft(q) PROVE AfterRead(q, req[q].tries + 1) \in RequestRecord
    <3>1. req[q].tries + 1 \in 0 .. CancelAttempts
      BY <2>1, BoundsAssumption DEF AttemptsLeft, Clients, RequestRecord
    <3>. QED  BY <1>12, <3>1, AfterReadType DEF CancelConflict, Clients
  <2>2. req' \in [Clients -> RequestRecord]
    BY <1>12, <2>1, BecomeType, IdleRequestType DEF CancelConflict, Clients
  <2>. QED
    BY <1>12, <2>2, RefreshType
    DEF CancelConflict, ledger, scheduler, execution, deploy
<1>13. ASSUME NEW q \in Requests, CancelClear(q) PROVE TypeOK'
  BY <1>13, IdleRequestType
  DEF CancelClear, Become, Clients, scheduler, execution, deploy
<1>14. ASSUME NEW e \in Extenders, NEW r \in Reviews, ExtendRead(e, r) PROVE TypeOK'
  <2>1. [IdleRequest EXCEPT !.step = "extending", !.review = r, !.seen = state[r]] \in RequestRecord
    BY IdleRequestType DEF RequestRecord, RequestSteps
  <2>2. req' \in [Clients -> RequestRecord]
    BY <1>14, <2>1, BecomeType DEF ExtendRead, Clients
  <2>. QED
    BY <1>14, <2>2 DEF ExtendRead, ledger, scheduler, execution, deploy
<1>15. ASSUME NEW e \in Extenders, ExtendSave(e) PROVE TypeOK'
  BY <1>15, SaveType, IdleRequestType
  DEF ExtendSave, Become, Clients, RequestRecord, scheduler, execution, deploy
<1>16. ASSUME NEW e \in Extenders, ExtendReread(e) PROVE TypeOK'
  <2>1. [req[e] EXCEPT !.step = "extendingAgain",
                       !.seen = state[req[e].review]] \in RequestRecord
    BY <1>16 DEF ExtendReread, Clients, RequestRecord, RequestSteps
  <2>2. req' \in [Clients -> RequestRecord]
    BY <1>16, <2>1, BecomeType DEF ExtendReread, Clients
  <2>. QED
    BY <1>16, <2>2, RefreshType
    DEF ExtendReread, ledger, scheduler, execution, deploy
<1>17. ASSUME NEW e \in Extenders, ExtendFail(e) PROVE TypeOK'
  BY <1>17, RefreshType, IdleRequestType
  DEF ExtendFail, Become, Clients, ledger, scheduler, execution, deploy
<1>18. CASE Dispatch
  BY <1>18, HeadTailProperties DEF Dispatch, ExecSteps, ledger, deploy
<1>19. CASE WorkerResume
  BY <1>19 DEF WorkerResume, ExecSteps, Outcomes, ledger, deploy
<1>20. CASE ExecAbort
  BY <1>20, EndExecutionType
  DEF ExecAbort, EndExecution, ExecSteps, ledger, scheduler, deploy
<1>21. CASE ExecRead
  BY <1>21, EndExecutionType
  DEF ExecRead, EndExecution, ExecSteps, ledger, scheduler, deploy
<1>22. CASE ExecStart
  BY <1>22, EndExecutionType, SaveType
  DEF ExecStart, EndExecution, ExecSteps, ReviewStates,
      Lifecycle!ReviewStates, scheduler, deploy
<1>23. CASE ExecStartConflict
  BY <1>23, EndExecutionType, RefreshType
  DEF ExecStartConflict, EndExecution, ExecSteps, ledger, scheduler, deploy
<1>24. CASE ProgressRead
  BY <1>24 DEF ProgressRead, ExecSteps, ledger, scheduler, deploy
<1>25. CASE ProgressSave
  BY <1>25, SaveType DEF ProgressSave, ExecSteps, ledger, scheduler, deploy
<1>26. CASE ProgressConflict
  BY <1>26, RefreshType
  DEF ProgressConflict, ExecSteps, ledger, scheduler, deploy
<1>27. CASE ExecCancelled
  BY <1>27, EndExecutionType
  DEF ExecCancelled, EndExecution, ExecSteps, ledger, scheduler, deploy
<1>28. ASSUME NEW o \in Outcomes, ExecAnswer(o) PROVE TypeOK'
  BY <1>28, EndExecutionType
  DEF ExecAnswer, EndExecution, ExecSteps, ledger, scheduler, deploy
<1>29. CASE ExecFinish
  <2>1. state' \in [Reviews -> ReviewStates]
    BY <1>29 DEF ExecFinish, ReviewStates, Lifecycle!ReviewStates
  <2>2. retryable' \subseteq Reviews /\ hasKey' \subseteq Sessions
    BY <1>29 DEF ExecFinish
  <2>. QED
    BY <1>29, <2>1, <2>2, EndExecutionType, SaveType
    DEF ExecFinish, EndExecution, ExecSteps, scheduler, deploy
<1>30. CASE ExecFinishConflict
  BY <1>30, EndExecutionType, RefreshType
  DEF ExecFinishConflict, EndExecution, ExecSteps, ledger, scheduler, deploy
<1>31. ASSUME NEW n \in Capacities, Startup(n) PROVE TypeOK'
  BY <1>31, StartupType
  DEF Startup, Reviewing, Overflow, Queued, ReviewStates,
      Lifecycle!ReviewStates, execution
<1>32. CASE ShutdownBegin
  BY <1>32, BoundsAssumption DEF ShutdownBegin, ledger
<1>33. CASE ShutdownEnd
  <2>1. state' \in [Reviews -> ReviewStates] /\ retryable' \subseteq Reviews
    BY <1>33 DEF ShutdownEnd, Reviewing, ReviewStates, Lifecycle!ReviewStates
  <2>. QED  BY <1>33, <2>1, HaltType DEF ShutdownEnd, deploy
<1>34. CASE Crash
  BY <1>34, HaltType, BoundsAssumption DEF Crash, ledger
<1>35. CASE Kill
  BY <1>35, HaltType DEF Kill, ledger, deploy
<1>36. CASE UNCHANGED vars
  BY <1>36 DEF vars, ledger, scheduler, execution, deploy
<1>. QED
  BY <1>1, <1>2, <1>3, <1>4, <1>5, <1>6, <1>7, <1>8, <1>9, <1>10, <1>11, <1>12,
      <1>13, <1>14, <1>15, <1>16, <1>17, <1>18, <1>19, <1>20, <1>21, <1>22, <1>23,
      <1>24, <1>25, <1>26, <1>27, <1>28, <1>29, <1>30, <1>31, <1>32, <1>33, <1>34,
      <1>35, <1>36
  DEF Next, Start, Retry, Cancel, CancelStep, Extend, ExtendStep, Execute

-----------------------------------------------------------------------------
(* The ledger.                                                              *)

\* A request that is past its first step is about a review that exists.
LEMMA RequestsNameRows ==
    ASSUME TypeOK, Readings, NEW c \in Clients,
           req[c].step \notin {"idle", "starting"}
    PROVE  /\ req[c].review \in Reviews /\ state[req[c].review] # "ABSENT"
           /\ proc # "down"
BY DEF TypeOK, RequestRecord, Readings, RequestsReadTrue, DownIsQuiet, IdleRequest

\* The end of an execution changes no request but those that await it.
LEMMA EndExecutionSteps ==
    ASSUME NEW how, EndExecution(how), req \in [Clients -> RequestRecord],
           NEW c \in Clients
    PROVE  /\ req'[c].review = req[c].review /\ req'[c].session = req[c].session
           /\ req'[c].seen = req[c].seen
           /\ \/ req'[c].step = req[c].step
              \/ req[c].step = "joining" /\ req'[c].step = "joined"
BY DEF EndExecution, RequestRecord

\* A save makes the copies of the rows it writes stale, so those that are not
\* stale stay true.
LEMMA SaveKeepsCopies ==
    ASSUME TypeOK, Readings, NEW a \in Actors \ Extenders, NEW rows, Save(a, rows),
           \A e \in Extenders :
              req'[e].step \in {"extending", "extendingAgain"} =>
                 /\ req'[e].step = req[e].step
                 /\ req'[e].review = req[e].review /\ req'[e].seen = req[e].seen,
           \A x \in Reviews \ rows : state[x] = "ABSENT" \/ state'[x] = state[x]
    PROVE  CopiesAreCurrent'
<1>. SUFFICES ASSUME NEW e \in Extenders,
                     req'[e].step \in {"extending", "extendingAgain"}, ~stale'[e]
              PROVE  req'[e].seen = state'[req'[e].review]
  BY DEF CopiesAreCurrent
<1>1. e \in Clients /\ e \in Actors /\ e # a /\ e # Runner
  BY ActorsAssumption DEF Clients, Actors
<1>2. req[e].review \in Reviews /\ state[req[e].review] # "ABSENT"
  BY <1>1, RequestsNameRows
<1>3. RowsOf(e) = {req[e].review}
  BY <1>1 DEF RowsOf
<1>4. ~stale[e] /\ req[e].review \notin rows
  BY <1>1, <1>3 DEF Save
<1>5. req[e].seen = state[req[e].review]
  BY <1>4 DEF Readings, CopiesAreCurrent
<1>. QED  BY <1>2, <1>4, <1>5

\* No step of one actor makes what another has read and will act on untrue,
\* except by making its copy stale.
LEMMA NextReadings == LedgerInv /\ [Next]_vars => Readings'
<1>. SUFFICES ASSUME LedgerInv, [Next]_vars PROVE Readings'
  OBVIOUS
<1>. USE ActorsAssumption, SessionsAssumption, ReviewIds
     DEF LedgerInv, Readings, OneLoopHolder, DownIsQuiet, RowsAreOwned,
         ExecutionReadsTrue, ExecutionOwnsReview, RequestsReadTrue, JoinedAfterEnd,
         CopiesAreCurrent, HandlerHoldsLoop, ExecHoldsLoop, Clients, Actors, HasActive, OfSession, ActiveStates, Lifecycle!ActiveStates
<1>1. ASSUME NEW q \in Requests, NEW s \in Sessions, StartRead(q, s) PROVE Readings'
  <2>1. /\ OneLoopHolder' /\ RowsAreOwned' /\ ExecutionReadsTrue'
        /\ RequestsReadTrue' /\ JoinedAfterEnd' /\ CopiesAreCurrent'
    BY <1>1
    DEF TypeOK, StartRead, Become, IdleRequest, LoopFree, ledger, scheduler,
        execution, deploy
  <2>2. DownIsQuiet'
    BY <1>1 DEF StartRead, Admits, scheduler
  <2>. QED  BY <2>1, <2>2
<1>2. ASSUME NEW q \in Requests, StartCommit(q) PROVE Readings'
  <2>1. /\ OneLoopHolder' /\ DownIsQuiet' /\ RowsAreOwned'
       /\ ExecutionReadsTrue' /\ JoinedAfterEnd'
    BY <1>2
    DEF TypeOK, StartCommit, Become, IdleRequest, Accept, Save, RowsOf, Unexpired,
        IsNextId, ledger, scheduler, execution, deploy
  <2>2. RequestsReadTrue'
    <3>1. PICK r \in Reviews :
             IsNextId(r) /\ Accept(r, req[q].session, Unexpired(req[q].session))
      BY <1>2 DEF StartCommit
    <3>2. /\ \A p \in Requests \ {q} : ~HandlerHoldsLoop(p)
          /\ ~HandlerHoldsLoop(q)'
      BY <1>2 DEF StartCommit, Become, IdleRequest, TypeOK
    <3>3. \A x \in Reviews : state[x] # "ABSENT" => state'[x] # "ABSENT"
      BY <3>1 DEF Accept, IsNextId, TypeOK
    <3>. QED
      BY <1>2, <3>2, <3>3, RequestsNameRows
      DEF StartCommit, Become, IdleRequest, TypeOK
  <2>3. CopiesAreCurrent'
    <3>1. PICK r \in Reviews :
             IsNextId(r) /\ Accept(r, req[q].session, Unexpired(req[q].session))
      BY <1>2 DEF StartCommit
    <3>2. \A x \in Reviews \ Unexpired(req[q].session) :
             state[x] = "ABSENT" \/ state'[x] = state[x]
      BY <3>1 DEF Accept, IsNextId
    <3>3. \A e \in Extenders : req'[e] = req[e]
      BY <1>2 DEF StartCommit, Become, TypeOK
    <3>. QED
      BY <1>2, <3>2, <3>3, SaveKeepsCopies DEF StartCommit
  <2>. QED  BY <2>1, <2>2, <2>3
<1>3. ASSUME NEW q \in Requests, StartConflict(q) PROVE Readings'
  BY <1>3
  DEF TypeOK, StartConflict, Become, IdleRequest, Refresh, ledger, scheduler,
      execution, deploy
<1>4. ASSUME NEW r \in Reviews, Replay(r) PROVE Readings'
  BY <1>4 DEF TypeOK, Replay, ledger, scheduler, execution, deploy
<1>5. ASSUME NEW q \in Requests, NEW r \in Reviews, RetryResolve(q, r) PROVE Readings'
  BY <1>5
  DEF TypeOK, RetryResolve, Become, IdleRequest, ledger, scheduler, execution,
      deploy
<1>6. ASSUME NEW q \in Requests, RetryCommit(q) PROVE Readings'
  <2>1. OneLoopHolder' /\ DownIsQuiet' /\ ExecutionReadsTrue' /\ JoinedAfterEnd'
    BY <1>6
    DEF TypeOK, RetryCommit, Become, IdleRequest, Accept, IsNextId, LoopFree,
        ledger, scheduler, execution, deploy
  <2>2. RowsAreOwned'
    <3>1. PICK r \in Reviews : IsNextId(r) /\ Accept(r, owner[req[q].review], {})
      BY <1>6 DEF RetryCommit
    <3>2. owner[req[q].review] # NoSession
      BY <1>6, RequestsNameRows DEF RetryCommit
    <3>. QED  BY <3>1, <3>2 DEF Accept, IsNextId, TypeOK
  <2>3. RequestsReadTrue'
    <3>1. PICK r \in Reviews : IsNextId(r) /\ Accept(r, owner[req[q].review], {})
      BY <1>6 DEF RetryCommit
    <3>2. /\ \A p \in Requests : ~HandlerHoldsLoop(p)
          /\ ~HandlerHoldsLoop(q)'
      BY <1>6 DEF RetryCommit, Become, IdleRequest, TypeOK, LoopFree
    <3>3. \A x \in Reviews : state[x] # "ABSENT" => state'[x] # "ABSENT"
      BY <3>1 DEF Accept, IsNextId, TypeOK
    <3>. QED
      BY <1>6, <3>2, <3>3, RequestsNameRows
      DEF RetryCommit, Become, IdleRequest, TypeOK
  <2>4. CopiesAreCurrent'
    <3>1. PICK r \in Reviews : IsNextId(r) /\ Accept(r, owner[req[q].review], {})
      BY <1>6 DEF RetryCommit
    <3>2. \A e \in Extenders : req'[e] = req[e] /\ stale'[e] = stale[e]
      BY <1>6 DEF RetryCommit, Become, TypeOK
    <3>3. \A x \in Reviews : state[x] # "ABSENT" => state'[x] = state[x]
      BY <3>1 DEF Accept, IsNextId, TypeOK
    <3>4. ASSUME NEW e \in Extenders, req[e].step \in {"extending", "extendingAgain"}, ~stale[e]
          PROVE  req[e].seen = state'[req[e].review]
      <4>1. req[e].review \in Reviews /\ state[req[e].review] # "ABSENT"
        BY <3>4, RequestsNameRows
      <4>. QED  BY <3>3, <3>4, <4>1
    <3>. QED  BY <3>2, <3>4
  <2>. QED  BY <2>1, <2>2, <2>3, <2>4
<1>7. ASSUME NEW q \in Requests, RetryReject(q) PROVE Readings'
  BY <1>7
  DEF TypeOK, RetryReject, Become, IdleRequest, LoopFree, ledger, scheduler,
      execution, deploy
<1>8. ASSUME NEW q \in Requests, NEW r \in Reviews, CancelResolve(q, r) PROVE Readings'
  BY <1>8
  DEF TypeOK, CancelResolve, Become, IdleRequest, ledger, scheduler, execution,
      deploy
<1>9. ASSUME NEW q \in Requests, CancelRemove(q) PROVE Readings'
  <2>1. /\ OneLoopHolder' /\ DownIsQuiet' /\ RowsAreOwned'
       /\ ExecutionReadsTrue' /\ RequestsReadTrue' /\ CopiesAreCurrent'
    BY <1>9
    DEF TypeOK, CancelRemove, Become, IdleRequest, LoopFree, AfterRead,
        Cancellable, ExecSteps, ledger, scheduler, execution, deploy
  <2>2. JoinedAfterEnd'
    <3>1. ASSUME req'[q].step \in {"joined", "cancelling"}, req'[q].review = current'
          PROVE  exec' \in {"none", "created", "done", "aborted"}
      <4>1. current' = current /\ exec' = exec /\ LoopFree
        BY <1>9 DEF CancelRemove
      <4>2. req'[q].review = req[q].review
        BY <1>9, <3>1 DEF CancelRemove, Become, AfterRead, IdleRequest, TypeOK
      <4>3. ASSUME Cancellable(req[q].review) PROVE FALSE
        <5>1. req'[q] = [req[q] EXCEPT !.step = "joining"]
          BY <1>9, <4>3 DEF CancelRemove, Become, Cancellable, TypeOK
        <5>2. req[q] \in RequestRecord
          BY DEF TypeOK
        <5>. QED  BY <3>1, <5>1, <5>2 DEF RequestRecord
      <4>. QED
        BY <3>1, <4>1, <4>2, <4>3 DEF Cancellable, LoopFree, ExecSteps, TypeOK
    <3>2. \A p \in Requests \ {q} : req'[p] = req[p]
      BY <1>9 DEF CancelRemove, Become, TypeOK
    <3>. QED
      BY <1>9, <3>1, <3>2 DEF CancelRemove
  <2>. QED  BY <2>1, <2>2
<1>10. ASSUME NEW q \in Requests, CancelRead(q) PROVE Readings'
  BY <1>10
  DEF TypeOK, CancelRead, Become, IdleRequest, LoopFree, AfterRead, ledger,
      scheduler, execution, deploy
<1>11. ASSUME NEW q \in Requests, CancelSave(q) PROVE Readings'
  <2>1. OneLoopHolder' /\ JoinedAfterEnd'
    BY <1>11
    DEF TypeOK, CancelSave, Become, Save, RowsOf, ledger, scheduler, execution,
        deploy
  <2>5. ExecutionReadsTrue'
    BY <1>11
    DEF TypeOK, CancelSave, Become, Save, RowsOf, ledger, scheduler, execution,
        deploy
  <2>6. RequestsReadTrue'
    BY <1>11
    DEF TypeOK, CancelSave, Become, Save, RowsOf, ledger, scheduler, execution,
        deploy
  <2>2. DownIsQuiet'
    BY <1>11, RequestsNameRows DEF CancelSave, scheduler
  <2>3. RowsAreOwned'
    BY <1>11, RequestsNameRows DEF CancelSave, TypeOK
  <2>4. CopiesAreCurrent'
    <3>1. \A e \in Extenders : req'[e] = req[e]
      BY <1>11 DEF CancelSave, Become, TypeOK
    <3>2. \A x \in Reviews \ {req[q].review} : state'[x] = state[x]
      BY <1>11 DEF CancelSave, TypeOK
    <3>. QED
      BY <1>11, <3>1, <3>2, SaveKeepsCopies DEF CancelSave
  <2>. QED  BY <2>1, <2>2, <2>3, <2>4, <2>5, <2>6
<1>12. ASSUME NEW q \in Requests, CancelConflict(q) PROVE Readings'
  BY <1>12
  DEF TypeOK, CancelConflict, Become, IdleRequest, Refresh, AfterRead, ledger,
      scheduler, execution, deploy
<1>13. ASSUME NEW q \in Requests, CancelClear(q) PROVE Readings'
  BY <1>13
  DEF TypeOK, CancelClear, Become, IdleRequest, ledger, scheduler, execution,
      deploy
<1>14. ASSUME NEW e \in Extenders, NEW r \in Reviews, ExtendRead(e, r) PROVE Readings'
  BY <1>14
  DEF TypeOK, ExtendRead, Become, IdleRequest, ledger, scheduler, execution,
      deploy
<1>15. ASSUME NEW e \in Extenders, ExtendSave(e) PROVE Readings'
  BY <1>15
  DEF TypeOK, ExtendSave, Become, IdleRequest, Save, RowsOf, ledger, scheduler,
      execution, deploy
<1>16. ASSUME NEW e \in Extenders, ExtendReread(e) PROVE Readings'
  BY <1>16
  DEF TypeOK, ExtendReread, Become, IdleRequest, Refresh, ledger, scheduler,
      execution, deploy
<1>17. ASSUME NEW e \in Extenders, ExtendFail(e) PROVE Readings'
  BY <1>17
  DEF TypeOK, ExtendFail, Become, IdleRequest, Refresh, ledger, scheduler,
      execution, deploy
<1>18. CASE Dispatch
  BY <1>18 DEF TypeOK, Dispatch, LoopFree, ledger, scheduler, execution, deploy
<1>19. CASE WorkerResume
  BY <1>19 DEF TypeOK, WorkerResume, LoopFree, ledger, scheduler, execution, deploy
<1>20. CASE ExecAbort
  BY <1>20
  DEF TypeOK, ExecAbort, LoopFree, EndExecution, ledger, scheduler, execution,
      deploy
<1>21. CASE ExecRead
  <2>1. OneLoopHolder'
    BY <1>21, EndExecutionSteps DEF ExecRead, LoopFree, EndExecution, TypeOK
  <2>2. DownIsQuiet' /\ RowsAreOwned' /\ ExecutionReadsTrue' /\ JoinedAfterEnd'
    BY <1>21
    DEF TypeOK, ExecRead, LoopFree, EndExecution, ledger, scheduler, execution,
        deploy
  <2>3. RequestsReadTrue'
    BY <1>21, EndExecutionSteps DEF ExecRead, ledger, TypeOK
  <2>4. CopiesAreCurrent'
    BY <1>21, EndExecutionSteps DEF ExecRead, ledger, TypeOK
  <2>. QED  BY <2>1, <2>2, <2>3, <2>4
<1>22. CASE ExecStart
  <2>1. OneLoopHolder'
    BY <1>22, EndExecutionSteps DEF ExecStart, EndExecution, TypeOK
  <2>2. DownIsQuiet' /\ RowsAreOwned' /\ ExecutionReadsTrue' /\ JoinedAfterEnd'
    BY <1>22
    DEF TypeOK, ExecStart, EndExecution, Save, RowsOf, ledger, scheduler,
        execution, deploy
  <2>3. RequestsReadTrue'
    <3>1. /\ \A x \in Reviews : state[x] # "ABSENT" => state'[x] # "ABSENT"
          /\ \A p \in Requests : ~HandlerHoldsLoop(p)
      BY <1>22 DEF ExecStart, TypeOK
    <3>. QED
      BY <1>22, <3>1, EndExecutionSteps, RequestsNameRows DEF ExecStart, TypeOK
  <2>4. CopiesAreCurrent'
    <3>1. \A x \in Reviews \ {current} : state'[x] = state[x]
      BY <1>22 DEF ExecStart, TypeOK
    <3>. QED
      BY <1>22, <3>1, EndExecutionSteps, SaveKeepsCopies DEF ExecStart, TypeOK
  <2>. QED  BY <2>1, <2>2, <2>3, <2>4
<1>23. CASE ExecStartConflict
  BY <1>23
  DEF TypeOK, ExecStartConflict, EndExecution, Refresh, ledger, scheduler,
      execution, deploy
<1>24. CASE ProgressRead
  BY <1>24 DEF TypeOK, ProgressRead, LoopFree, ledger, scheduler, execution, deploy
<1>25. CASE ProgressSave
  BY <1>25
  DEF TypeOK, ProgressSave, Save, RowsOf, ledger, scheduler, execution, deploy
<1>26. CASE ProgressConflict
  BY <1>26
  DEF TypeOK, ProgressConflict, Refresh, ledger, scheduler, execution, deploy
<1>27. CASE ExecCancelled
  BY <1>27
  DEF TypeOK, ExecCancelled, LoopFree, EndExecution, ledger, scheduler, execution,
      deploy
<1>28. ASSUME NEW o \in Outcomes, ExecAnswer(o) PROVE Readings'
  BY <1>28
  DEF TypeOK, ExecAnswer, LoopFree, EndExecution, ledger, scheduler, execution,
      deploy
<1>29. CASE ExecFinish
  <2>1. /\ OneLoopHolder' /\ DownIsQuiet' /\ RowsAreOwned'
       /\ ExecutionReadsTrue' /\ RequestsReadTrue' /\ JoinedAfterEnd'
    BY <1>29
    DEF TypeOK, ExecFinish, EndExecution, Save, RowsOf, ledger, scheduler,
        execution, deploy
  <2>2. CopiesAreCurrent'
    <3>1. \A x \in Reviews \ {current} : state'[x] = state[x]
      BY <1>29 DEF ExecFinish, TypeOK
    <3>. QED
      BY <1>29, <3>1, EndExecutionSteps, SaveKeepsCopies DEF ExecFinish, TypeOK
  <2>. QED  BY <2>1, <2>2
<1>30. CASE ExecFinishConflict
  BY <1>30
  DEF TypeOK, ExecFinishConflict, EndExecution, Refresh, ledger, scheduler,
      execution, deploy
<1>31. ASSUME NEW n \in Capacities, Startup(n) PROVE Readings'
  BY <1>31
  DEF TypeOK, Startup, Reviewing, Overflow, Queued, IdleRequest, ledger,
      scheduler, execution, deploy
<1>32. CASE ShutdownBegin
  BY <1>32 DEF TypeOK, ShutdownBegin, ledger, scheduler, execution, deploy
<1>33. CASE ShutdownEnd
  BY <1>33
  DEF TypeOK, ShutdownEnd, Halt, Reviewing, IdleRequest, ledger, scheduler,
      execution, deploy
<1>34. CASE Crash
  BY <1>34
  DEF TypeOK, Crash, Halt, IdleRequest, ledger, scheduler, execution, deploy
<1>35. CASE Kill
  BY <1>35 DEF TypeOK, Kill, Halt, IdleRequest, ledger, scheduler, execution, deploy
<1>36. CASE UNCHANGED vars
  BY <1>36 DEF vars, ledger, scheduler, execution, deploy
<1>. QED
  BY <1>1, <1>2, <1>3, <1>4, <1>5, <1>6, <1>7, <1>8, <1>9, <1>10, <1>11, <1>12,
      <1>13, <1>14, <1>15, <1>16, <1>17, <1>18, <1>19, <1>20, <1>21, <1>22, <1>23,
      <1>24, <1>25, <1>26, <1>27, <1>28, <1>29, <1>30, <1>31, <1>32, <1>33, <1>34,
      <1>35, <1>36
  DEF Next, Start, Retry, Cancel, CancelStep, Extend, ExtendStep, Execute

-----------------------------------------------------------------------------
(* The life cycle.                                                          *)

\* Accepting a review into a session without an active one is a step of the
\* life cycle, whichever of its inactive rows expire with it.
LEMMA AcceptFollowsLifecycle ==
    ASSUME LedgerInv, NEW r \in Reviews, IsNextId(r), NEW s \in Sessions,
           NEW expired \in SUBSET Unexpired(s), ~HasActive(s), Accept(r, s, expired)
    PROVE  Lifecycle!LifecycleNext
<1>. USE DEF LedgerInv, TypeOK, Readings, RowsAreOwned, Accept, IsNextId
<1>1. \A x \in expired : state[x] \in {"COMPLETED", "FAILED", "CANCELLED"} /\ x # r
  BY SessionsAssumption
  DEF Unexpired, OfSession, HasActive, ActiveStates, Lifecycle!ActiveStates,
      ReviewStates, Lifecycle!ReviewStates
<1>2. ASSUME NEW x \in Reviews PROVE Lifecycle!RowStep(x)
  BY <1>1 DEF Lifecycle!RowStep, Lifecycle!Moves, Lifecycle!ActiveStates
<1>3. ASSUME NEW x \in Reviews PROVE Lifecycle!AcceptedAlone(x)
  <2>1. SUFFICES ASSUME x = r, NEW y \in Reviews \ {r}, owner'[y] = s
                 PROVE  state'[y] \notin Lifecycle!ActiveStates
    BY DEF Lifecycle!AcceptedAlone
  <2>2. y \in OfSession(s)
    BY <2>1 DEF OfSession
  <2>. QED  BY <2>1, <2>2 DEF HasActive, ActiveStates, Lifecycle!ActiveStates
<1>. QED  BY <1>2, <1>3 DEF Lifecycle!LifecycleNext

\* The row of a review that exists stays as it is or makes a move.
Moved(x) ==
    /\ owner'[x] = owner[x]
    /\ \/ state'[x] = state[x]
       \/ state[x] # "ABSENT" /\ <<state[x], state'[x]>> \in Lifecycle!Moves

\* Rows that each stay or make one move, none of them accepted, follow the
\* life cycle.
LEMMA MoveFollowsLifecycle ==
    ASSUME \A x \in Reviews : Moved(x)
    PROVE  Lifecycle!LifecycleNext
BY DEF Moved, Lifecycle!LifecycleNext, Lifecycle!RowStep, Lifecycle!AcceptedAlone

\* Every step of the queue is a step of the life cycle, or leaves it alone.
LEMMA NextFollowsLifecycle ==
    LedgerInv /\ [Next]_vars => [Lifecycle!LifecycleNext]_(Lifecycle!lifecycleVars)
<1>. SUFFICES ASSUME LedgerInv, Next
              PROVE  Lifecycle!LifecycleNext \/ UNCHANGED <<state, owner>>
  BY DEF vars, ledger, Lifecycle!lifecycleVars
<1>. USE DEF LedgerInv
<1>1. ASSUME NEW q \in Requests, StartCommit(q) PROVE Lifecycle!LifecycleNext
  <2>1. req[q].session \in Sessions /\ ~HasActive(req[q].session)
    BY <1>1 DEF StartCommit, Readings, RequestsReadTrue
  <2>. QED
    BY <1>1, <2>1, AcceptFollowsLifecycle DEF StartCommit
<1>2. ASSUME NEW q \in Requests, RetryCommit(q) PROVE Lifecycle!LifecycleNext
  <2>1. owner[req[q].review] \in Sessions
    BY <1>2, RequestsNameRows
    DEF RetryCommit, Clients, TypeOK, Readings, RowsAreOwned
  <2>2. ~HasActive(owner[req[q].review])
    BY <1>2 DEF RetryCommit, RetryAllowed
  <2>3. PICK r \in Reviews : IsNextId(r) /\ Accept(r, owner[req[q].review], {})
    BY <1>2 DEF RetryCommit
  <2>. QED  BY <2>1, <2>2, <2>3, AcceptFollowsLifecycle
<1>3. ASSUME NEW q \in Requests, CancelSave(q) PROVE Lifecycle!LifecycleNext
  <2>1. /\ req[q].review \in Reviews
        /\ state[req[q].review] \in {"QUEUED", "REVIEWING", "COMPLETED", "FAILED"}
    BY <1>3, RequestsNameRows
    DEF CancelSave, Clients, TypeOK, ReviewStates, Lifecycle!ReviewStates,
        Readings, RequestsReadTrue
  <2>2. \A x \in Reviews : Moved(x)
    BY <1>3, <2>1
    DEF CancelSave, Moved, TypeOK, Lifecycle!Moves, Lifecycle!ActiveStates
  <2>. QED  BY <2>2, MoveFollowsLifecycle
<1>4. ASSUME NEW e \in Extenders, ExtendSave(e) PROVE UNCHANGED <<state, owner>>
  <2>1. req[e].seen = state[req[e].review]
    BY <1>4 DEF ExtendSave, Readings, CopiesAreCurrent
  <2>. QED  BY <1>4, <2>1 DEF ExtendSave, TypeOK
<1>5. CASE ExecStart
  <2>1. current \in Reviews /\ state[current] = "QUEUED"
    BY <1>5 DEF ExecStart, TypeOK, Readings, ExecutionReadsTrue
  <2>2. \A x \in Reviews : Moved(x)
    BY <1>5, <2>1
    DEF ExecStart, Moved, TypeOK, Lifecycle!Moves, Lifecycle!ActiveStates
  <2>. QED  BY <2>2, MoveFollowsLifecycle
<1>6. CASE ExecFinish
  <2>1. current \in Reviews /\ state[current] = "REVIEWING"
    BY <1>6
    DEF ExecFinish, TypeOK, Readings, ExecutionReadsTrue, ExecutionOwnsReview
  <2>2. \A x \in Reviews : Moved(x)
    BY <1>6, <2>1
    DEF ExecFinish, Moved, TypeOK, Lifecycle!Moves, Lifecycle!ActiveStates
  <2>. QED  BY <2>2, MoveFollowsLifecycle
<1>7. ASSUME NEW n \in Capacities, Startup(n) PROVE Lifecycle!LifecycleNext
  <2>1. \A x \in Reviews : Moved(x)
    BY <1>7
    DEF Startup, Moved, Reviewing, Overflow, Queued, TypeOK, Lifecycle!Moves,
        Lifecycle!ActiveStates
  <2>. QED  BY <2>1, MoveFollowsLifecycle
<1>8. CASE ShutdownEnd
  <2>1. \A x \in Reviews : Moved(x)
    BY <1>8
    DEF ShutdownEnd, Moved, Reviewing, TypeOK, Lifecycle!Moves,
        Lifecycle!ActiveStates
  <2>. QED  BY <2>1, MoveFollowsLifecycle
<1>9. ASSUME NEW q \in Requests,
             \/ \E s \in Sessions : StartRead(q, s)
             \/ StartConflict(q) \/ RetryReject(q)
             \/ \E r \in Reviews : RetryResolve(q, r) \/ CancelResolve(q, r)
             \/ CancelRemove(q) \/ CancelRead(q) \/ CancelConflict(q) \/ CancelClear(q)
      PROVE  UNCHANGED <<state, owner>>
  BY <1>9
  DEF StartRead, StartConflict, RetryReject, RetryResolve, CancelResolve,
      CancelRemove, CancelRead, CancelConflict, CancelClear, ledger
<1>10. ASSUME NEW e \in Extenders,
              (\E r \in Reviews : ExtendRead(e, r)) \/ ExtendReread(e) \/ ExtendFail(e)
       PROVE  UNCHANGED <<state, owner>>
  BY <1>10 DEF ExtendRead, ExtendReread, ExtendFail, ledger
<1>11. CASE \/ (\E r \in Reviews : Replay(r)) \/ Dispatch \/ WorkerResume
            \/ ExecAbort \/ ExecRead \/ ExecStartConflict
            \/ ProgressRead \/ ProgressSave \/ ProgressConflict \/ ExecCancelled
            \/ (\E o \in Outcomes : ExecAnswer(o)) \/ ExecFinishConflict
            \/ ShutdownBegin \/ Crash \/ Kill
  BY <1>11
  DEF Replay, Dispatch, WorkerResume, ExecAbort, ExecRead, ExecStartConflict,
      ProgressRead, ProgressSave, ProgressConflict, ExecCancelled, ExecAnswer,
      ExecFinishConflict, ShutdownBegin, Crash, Kill, ledger
<1>. QED
  BY <1>1, <1>2, <1>3, <1>4, <1>5, <1>6, <1>7, <1>8, <1>9, <1>10, <1>11
  DEF Next, Start, Retry, Cancel, CancelStep, Extend, ExtendStep, Execute

\* Along the life cycle a session keeps at most one active review.
LEMMA LifecycleKeepsOneActive ==
    ASSUME LedgerInv, [Lifecycle!LifecycleNext]_(Lifecycle!lifecycleVars)
    PROVE  OneActivePerSession'
<1>. USE DEF ActiveStates, Lifecycle!ActiveStates
<1>1. CASE UNCHANGED <<state, owner>>
  BY <1>1 DEF LedgerInv, OneActivePerSession
<1>2. CASE Lifecycle!LifecycleNext
  <2>. SUFFICES ASSUME NEW r \in Reviews, NEW x \in Reviews,
                       state'[r] \in ActiveStates, state'[x] \in ActiveStates,
                       owner'[r] = owner'[x], r # x
                PROVE  FALSE
    BY DEF OneActivePerSession
  <2>1. \A y \in {r, x} : Lifecycle!RowStep(y) /\ Lifecycle!AcceptedAlone(y)
    BY <1>2 DEF Lifecycle!LifecycleNext
  <2>2. \A y \in {r, x} : state[y] # "ABSENT"
    BY <2>1 DEF Lifecycle!RowStep, Lifecycle!AcceptedAlone, Lifecycle!Moves
  <2>3. \A y \in {r, x} : state[y] \in ActiveStates /\ owner'[y] = owner[y]
    BY <2>1, <2>2 DEF Lifecycle!RowStep, Lifecycle!Moves
  <2>. QED  BY <2>3 DEF LedgerInv, OneActivePerSession
<1>. QED  BY <1>1, <1>2 DEF Lifecycle!lifecycleVars

-----------------------------------------------------------------------------
(* The theorems.                                                            *)

\* The invariant holds of an empty database.
LEMMA InitLedgerInv == Init => LedgerInv
<1>. SUFFICES ASSUME Init PROVE Readings /\ OneActivePerSession
  BY InitTypeOK DEF LedgerInv
<1>. USE DEF Init, Lifecycle!LifecycleInit, IdleRequest
<1>1. OneLoopHolder /\ DownIsQuiet /\ RequestsReadTrue /\ JoinedAfterEnd /\ CopiesAreCurrent
  BY DEF OneLoopHolder, HandlerHoldsLoop, DownIsQuiet, RequestsReadTrue,
     JoinedAfterEnd, CopiesAreCurrent, Clients
<1>2. RowsAreOwned /\ ExecutionReadsTrue /\ OneActivePerSession
  BY DEF RowsAreOwned, ExecutionReadsTrue, ExecutionOwnsReview, OneActivePerSession,
     ActiveStates, Lifecycle!ActiveStates
<1>. QED  BY <1>1, <1>2 DEF Readings

\* LedgerInv is inductive: what an actor has read, and what the ledger says,
\* agree in every reachable state.
THEOREM LedgerInvariance == Spec => []LedgerInv
<1>1. LedgerInv /\ [Next]_vars => LedgerInv'
  BY NextTypeOK, NextReadings, NextFollowsLifecycle, LifecycleKeepsOneActive
  DEF LedgerInv
<1>. QED  BY InitLedgerInv, <1>1, PTL DEF Spec

\* Every variable stays in its type.
THEOREM TypeCorrect == Spec => []TypeOK
<1>1. LedgerInv => TypeOK
  BY DEF LedgerInv
<1>. QED  BY LedgerInvariance, <1>1, PTL

\* No session ever has two active reviews.
THEOREM OneActive == Spec => []OneActivePerSession
<1>1. LedgerInv => OneActivePerSession
  BY DEF LedgerInv
<1>. QED  BY LedgerInvariance, <1>1, PTL

\* Nobody writes a review while the runner works on it, so the state the runner
\* has read is the state it leaves.
THEOREM RunnerOwnsReview == Spec => []ExecutionOwnsReview
<1>1. LedgerInv => ExecutionOwnsReview
  BY DEF LedgerInv, Readings, ExecutionReadsTrue
<1>. QED  BY LedgerInvariance, <1>1, PTL

\* The queue, with its handlers, threads, crashes and recoveries, implements the
\* life cycle of the aggregate.
THEOREM Refinement == Spec => FollowsLifecycle
<1>1. Init => Lifecycle!LifecycleInit
  BY DEF Init
<1>2. LedgerInv /\ [Next]_vars => [Lifecycle!LifecycleNext]_(Lifecycle!lifecycleVars)
  BY NextFollowsLifecycle
<1>. QED
  BY LedgerInvariance, <1>1, <1>2, PTL
  DEF Spec, FollowsLifecycle, Lifecycle!LifecycleSpec

=============================================================================
