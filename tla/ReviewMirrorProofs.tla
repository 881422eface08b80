------------------------- MODULE ReviewMirrorProofs -------------------------
(***************************************************************************)
(* The scheduler's mirror and the bound of the queue, for every number of  *)
(* sessions, requests, threads, reviews and restarts and for every         *)
(* capacity a build may have, on the ground of LedgerInvariance.  Then     *)
(* ledger and scheduler agree: without the threaded extension and without  *)
(* replays of lapsed keys, a serving process has every active review in    *)
(* hand, what it accepts is in its mirror, and it starts reviews in the    *)
(* order of acceptance.                                                    *)
(***************************************************************************)
EXTENDS ReviewQueueProofs

\* A process that is down has no mirror.
MirrorInv == MirrorWellFormed /\ (proc = "down" => pending = <<>> /\ current = NoReview)

\* A start that was admitted and has not yet written still has its place.
PlacesInv ==
    /\ QueuedWithinCapacity
    /\ \A q \in Requests : req[q].step = "starting" => Cardinality(Queued) < capacity

-----------------------------------------------------------------------------
(* The mirror.                                                              *)

\* scheduler.enqueue adds an id at most once, and only if there is a place.
LEMMA EnqueueKeepsMirror ==
    ASSUME TypeOK, MirrorInv, proc # "down", NEW r \in Reviews, Enqueue(r),
           UNCHANGED <<proc, current, capacity>>
    PROVE  MirrorInv'
<1>1. CASE pending' = pending
  BY <1>1 DEF MirrorInv, MirrorWellFormed, InPending
<1>2. CASE pending' # pending
  <2>1. /\ pending' = Append(pending, r) /\ ~InPending(r) /\ r # current
        /\ ~(Len(pending) >= capacity)
    BY <1>2 DEF Enqueue
  <2>2. pending \in Seq(Reviews) /\ Len(pending) \in Nat /\ capacity \in Nat
    BY BoundsAssumption, LenProperties DEF TypeOK
  <2>3. /\ Len(pending') = Len(pending) + 1 /\ pending'[Len(pending) + 1] = r
        /\ \A i \in 1 .. Len(pending) : pending'[i] = pending[i]
    BY <2>1, <2>2, AppendProperties
  <2>4. Len(pending') <= capacity
    BY <2>1, <2>2, <2>3
  <2>5. \A i \in 1 .. Len(pending) : pending[i] # r
    BY <2>1 DEF InPending
  <2>6. \A i \in 1 .. Len(pending') : i \in 1 .. Len(pending) \/ i = Len(pending) + 1
    BY <2>2, <2>3
  <2>7. \A i, j \in 1 .. Len(pending') : pending'[i] = pending'[j] => i = j
    BY <2>3, <2>5, <2>6 DEF MirrorInv, MirrorWellFormed
  <2>8. current # NoReview => \A i \in 1 .. Len(pending') : pending'[i] # current
    BY <2>1, <2>3, <2>6 DEF MirrorInv, MirrorWellFormed, InPending
  <2>. QED
    BY <2>4, <2>7, <2>8 DEF MirrorInv, MirrorWellFormed, InPending
<1>. QED
  BY <1>1, <1>2

\* A sequence without its i-th element keeps the others in their order.
LEMMA WithoutOne ==
    ASSUME NEW S, NEW s \in Seq(S), NEW i \in 1 .. Len(s), NEW t
    PROVE  t = SubSeq(s, 1, i - 1) \o SubSeq(s, i + 1, Len(s)) =>
           /\ Len(t) = Len(s) - 1
           /\ \A j \in 1 .. Len(t) : t[j] = IF j < i THEN s[j] ELSE s[j + 1]
<1> DEFINE u == SubSeq(s, 1, i - 1)
           v == SubSeq(s, i + 1, Len(s))
<1>1. i \in Nat /\ Len(s) \in Nat /\ 1 <= i /\ i <= Len(s)
  BY LenProperties
<1>2. \A j \in 1 .. Len(s) : s[j] \in S
  BY ElementOfSeq
<1>3. /\ u \in Seq(S) /\ Len(u) = i - 1
      /\ \A j \in 1 .. i - 1 : u[j] = s[j]
  BY <1>1, <1>2, SubSeqProperties
<1>4. /\ v \in Seq(S) /\ Len(v) = Len(s) - i
      /\ \A j \in 1 .. Len(s) - i : v[j] = s[i + j]
  BY <1>1, <1>2, SubSeqProperties
<1>0. HAVE t = u \o v
<1> HIDE DEF u, v
<1>5. t = u \o v
  BY <1>0
<1>6. /\ Len(t) = Len(u) + Len(v)
      /\ \A j \in 1 .. Len(u) + Len(v) :
            t[j] = IF j <= Len(u) THEN u[j] ELSE v[j - Len(u)]
  <2>1. u \in Seq(S) /\ v \in Seq(S)
    BY <1>3, <1>4
  <2>. QED
    BY <1>5, <2>1, ConcatProperties, Zenon
<1>7. Len(t) = Len(s) - 1
  <2>1. Len(u) = i - 1 /\ Len(v) = Len(s) - i /\ Len(t) = Len(u) + Len(v)
    BY <1>3, <1>4, <1>6
  <2>. QED
    BY <1>1, <2>1
<1>8. ASSUME NEW j \in 1 .. Len(t), j < i
      PROVE  t[j] = s[j]
  <2>1. j \in 1 .. i - 1 /\ j <= i - 1 /\ j \in 1 .. Len(t)
    BY <1>1, <1>7, <1>8
  <2>2. t[j] = IF j <= Len(u) THEN u[j] ELSE v[j - Len(u)]
    BY <1>6
  <2>3. Len(u) = i - 1 /\ u[j] = s[j]
    BY <1>3, <2>1
  <2>. QED
    BY <2>1, <2>2, <2>3
<1>9. ASSUME NEW j \in 1 .. Len(t), ~(j < i)
      PROVE  t[j] = s[j + 1]
  <2> DEFINE n == j - (i - 1)
  <2>1. n \in 1 .. Len(s) - i /\ i + n = j + 1 /\ ~(j <= i - 1) /\ j \in 1 .. Len(u) + Len(v)
    <3>1. j \in Nat /\ 1 <= j /\ j <= Len(s) - 1 /\ i <= j
      BY <1>1, <1>7, <1>9
    <3>2. j \in 1 .. Len(u) + Len(v)
      BY <1>6
    <3>. QED
      BY <1>1, <3>1, <3>2
  <2>2. t[j] = v[n]
    <3>1. t[j] = IF j <= Len(u) THEN u[j] ELSE v[j - Len(u)]
      BY <1>6, <2>1
    <3>2. Len(u) = i - 1
      BY <1>3
    <3>. QED
      BY <2>1, <3>1, <3>2
  <2>. QED
    BY <1>4, <2>1, <2>2
<1>. QED
  BY <1>7, <1>8, <1>9

\* A mirror all of whose ids come from the old one, in order, is well formed.
LEMMA ShorterMirror ==
    ASSUME TypeOK, MirrorInv, NEW i \in 1 .. Len(pending),
           Len(pending') = Len(pending) - 1,
           \A j \in 1 .. Len(pending') :
              pending'[j] = IF j < i THEN pending[j] ELSE pending[j + 1]
    PROVE  /\ Len(pending') <= capacity
           /\ \A j, k \in 1 .. Len(pending') : pending'[j] = pending'[k] => j = k
           /\ \A j \in 1 .. Len(pending') :
                 pending'[j] # pending[i] /\ \E k \in 1 .. Len(pending) : pending'[j] = pending[k]
<1>1. /\ Len(pending) \in Nat /\ capacity \in Nat /\ Len(pending) <= capacity
      /\ i \in Nat /\ 1 <= i /\ i <= Len(pending)
  BY BoundsAssumption, LenProperties DEF TypeOK, MirrorInv, MirrorWellFormed
<1>2. \A j, k \in 1 .. Len(pending) : pending[j] = pending[k] => j = k
  BY DEF MirrorInv, MirrorWellFormed
<1>3. ASSUME NEW j \in 1 .. Len(pending')
      PROVE  /\ j \in 1 .. Len(pending) /\ j + 1 \in 1 .. Len(pending)
             /\ pending'[j] = IF j < i THEN pending[j] ELSE pending[j + 1]
  BY <1>1
<1>4. ASSUME NEW j \in 1 .. Len(pending'), NEW k \in 1 .. Len(pending'),
             pending'[j] = pending'[k]
      PROVE  j = k
  <2>1. CASE j < i /\ k < i
    BY <1>2, <1>3, <1>4, <2>1
  <2>2. CASE j < i /\ ~(k < i)
    <3>1. pending[j] = pending[k + 1]
      BY <1>3, <1>4, <2>2
    <3>2. j = k + 1
      BY <1>2, <1>3, <3>1
    <3>. QED
      BY <1>1, <2>2, <3>2
  <2>3. CASE ~(j < i) /\ k < i
    <3>1. pending[j + 1] = pending[k]
      BY <1>3, <1>4, <2>3
    <3>2. j + 1 = k
      BY <1>2, <1>3, <3>1
    <3>. QED
      BY <1>1, <2>3, <3>2
  <2>4. CASE ~(j < i) /\ ~(k < i)
    <3>1. pending[j + 1] = pending[k + 1]
      BY <1>3, <1>4, <2>4
    <3>2. j + 1 = k + 1
      BY <1>2, <1>3, <3>1
    <3>. QED
      BY <3>2
  <2>. QED
    BY <2>1, <2>2, <2>3, <2>4
<1>5. ASSUME NEW j \in 1 .. Len(pending')
      PROVE  /\ pending'[j] # pending[i]
             /\ \E k \in 1 .. Len(pending) : pending'[j] = pending[k]
  <2>1. CASE j < i
    <3>1. pending'[j] = pending[j] /\ j # i
      BY <1>1, <1>3, <2>1
    <3>. QED
      BY <1>2, <1>3, <3>1
  <2>2. CASE ~(j < i)
    <3>1. pending'[j] = pending[j + 1] /\ j + 1 # i
      BY <1>1, <1>3, <2>2
    <3>. QED
      BY <1>2, <1>3, <3>1
  <2>. QED
    BY <2>1, <2>2
<1>6. Len(pending') <= capacity
  BY <1>1
<1>. QED
  BY <1>4, <1>5, <1>6

\* deque.remove leaves no second entry behind.
LEMMA DequeueKeepsMirror ==
    ASSUME TypeOK, MirrorInv, proc # "down", NEW r, Dequeue(r),
           UNCHANGED <<proc, current, capacity>>
    PROVE  MirrorInv'
<1>1. CASE pending' = pending
  BY <1>1 DEF MirrorInv, MirrorWellFormed, InPending
<1>2. ASSUME NEW i \in 1 .. Len(pending),
             pending' = SubSeq(pending, 1, i - 1) \o SubSeq(pending, i + 1, Len(pending))
      PROVE  MirrorInv'
  <2>1. /\ Len(pending') = Len(pending) - 1
        /\ \A j \in 1 .. Len(pending') :
              pending'[j] = IF j < i THEN pending[j] ELSE pending[j + 1]
    BY <1>2, WithoutOne DEF TypeOK
  <2>2. /\ Len(pending') <= capacity
        /\ \A j, k \in 1 .. Len(pending') : pending'[j] = pending'[k] => j = k
        /\ \A j \in 1 .. Len(pending') : \E k \in 1 .. Len(pending) : pending'[j] = pending[k]
    BY <2>1, ShorterMirror
  <2>. QED
    BY <2>2 DEF MirrorInv, MirrorWellFormed, InPending
<1>. QED
  BY <1>1, <1>2 DEF Dequeue

\* The worker takes the oldest id out of the mirror before it works on it.
LEMMA DispatchKeepsMirror ==
    ASSUME TypeOK, MirrorInv, Dispatch
    PROVE  MirrorInv'
<1>1. pending \in Seq(Reviews) /\ pending # <<>> /\ pending' = Tail(pending)
  BY DEF Dispatch, TypeOK
<1>2. /\ 1 \in 1 .. Len(pending) /\ Len(pending') = Len(pending) - 1
      /\ Head(pending) = pending[1]
      /\ \A j \in 1 .. Len(pending') : pending'[j] = pending[j + 1]
  BY <1>1, HeadTailProperties, LenProperties
<1>3. \A j \in 1 .. Len(pending') :
         pending'[j] = IF j < 1 THEN pending[j] ELSE pending[j + 1]
  BY <1>2
<1>4. /\ Len(pending') <= capacity
      /\ \A j, k \in 1 .. Len(pending') : pending'[j] = pending'[k] => j = k
      /\ \A j \in 1 .. Len(pending') : pending'[j] # Head(pending)
  BY <1>2, <1>3, ShorterMirror
<1>5. /\ current' \in {Head(pending), NoReview} /\ proc' # "down" /\ capacity' = capacity
  BY DEF Dispatch, deploy
<1>. QED
  BY <1>4, <1>5 DEF MirrorInv, MirrorWellFormed, InPending

\* Start-up keeps as many of the oldest QUEUED rows as the queue has places: the
\* newest that is kept has all the others before it, and fewer than n.
LEMMA StartupKeepsPlaces ==
    ASSUME NEW n \in Capacities, Startup(n)
    PROVE  /\ Cardinality(Queued \ Overflow(n)) <= n
           /\ Len(pending') = Cardinality(Queued \ Overflow(n))
           /\ \A i, j \in 1 .. Len(pending') : pending'[i] = pending'[j] => i = j
<1> DEFINE kept == Queued \ Overflow(n)
           c == Cardinality(kept)
<1>1. kept \in SUBSET Reviews /\ c \in Nat /\ n \in Nat
  BY RowsAreFinite, BoundsAssumption DEF Queued
<1>2. PICK order \in [1 .. c -> kept] :
         /\ \A i, j \in DOMAIN order : i < j => order[i] < order[j]
         /\ pending' = order
  BY DEF Startup
<1>3. \A x \in kept : x \in Queued /\ ~(Cardinality({y \in Queued : y < x}) >= n)
  BY DEF Overflow
<1> HIDE DEF kept, c
<1>4. \A i \in 1 .. c : order[i] \in kept /\ order[i] \in Nat
  BY <1>1, <1>2, ReviewIds
<1>5. \A i, j \in 1 .. c : order[i] = order[j] => i = j
  <2>1. TAKE i, j \in 1 .. c
  <2>2. HAVE order[i] = order[j]
  <2>3. ~(i < j) /\ ~(j < i)
    BY <1>2, <1>4, <2>2
  <2>. QED
    BY <1>1, <2>3
<1>6. c <= n
  <2>1. SUFFICES ASSUME c > n PROVE FALSE
    BY <1>1
  <2> DEFINE m == order[c]
             before == {y \in Queued : y < m}
             f == [i \in 1 .. c - 1 |-> order[i]]
  <2>2. c \in 1 .. c /\ c - 1 \in Nat /\ m \in kept
    BY <1>1, <1>4, <2>1, BoundsAssumption
  <2>3. ASSUME NEW i \in 1 .. c - 1
        PROVE  order[i] \in before
    <3>1. i \in 1 .. c /\ i < c /\ DOMAIN order = 1 .. c
      BY <1>1
    <3>2. order[i] < order[c] /\ order[i] \in Queued
      BY <1>2, <1>3, <1>4, <2>2, <3>1
    <3>. QED
      BY <3>2
  <2>4. before \in SUBSET Reviews
    BY DEF Queued
  <2>5. IsFiniteSet(before) /\ Cardinality(before) \in Nat
    BY <2>4, RowsAreFinite
  <2>6. f \in Injection(1 .. c - 1, before)
    <3>1. f \in [1 .. c - 1 -> before]
      BY <2>3
    <3>2. \A i, j \in 1 .. c - 1 : f[i] = f[j] => i = j
      BY <1>1, <1>5
    <3>. QED
      BY <3>1, <3>2 DEF Injection, IsInjective
  <2>7. Cardinality(1 .. c - 1) <= Cardinality(before)
    BY <2>5, <2>6, FS_Injection
  <2>8. Cardinality(1 .. c - 1) = c - 1
    BY <2>2, FS_Interval
  <2>9. ~(Cardinality(before) >= n)
    BY <1>3, <2>2
  <2>. QED
    BY <1>1, <2>1, <2>5, <2>7, <2>8, <2>9
<1>7. Len(order) = c
  BY <1>1, <1>2, LenProperties, SeqDef
<1>. QED
  BY <1>2, <1>5, <1>6, <1>7 DEF kept, c

\* No other step touches the mirror.
LEMMA MirrorIsLeftAlone ==
    ASSUME [Next]_vars,
           ~\E q \in Requests : StartCommit(q) \/ RetryCommit(q) \/ CancelRemove(q),
           ~\E r \in Reviews : Replay(r),
           ~\E n \in Capacities : Startup(n),
           ~(Dispatch \/ WorkerResume \/ ShutdownBegin \/ ShutdownEnd \/ Crash \/ Kill)
    PROVE  UNCHANGED <<proc, pending, current, capacity>>
BY DEF Next, vars, Start, Retry, Cancel, CancelStep, Extend, ExtendStep, Execute,
       StartRead, StartConflict, RetryResolve, RetryReject, CancelResolve, CancelRead,
       CancelSave, CancelConflict, CancelClear, ExtendRead, ExtendSave, ExtendReread,
       ExtendFail, ExecAbort, ExecRead, ExecStart, ExecStartConflict, ProgressRead,
       ProgressSave, ProgressConflict, ExecCancelled, ExecAnswer, ExecFinish,
       ExecFinishConflict, scheduler, deploy

\* Every step keeps the mirror.
LEMMA NextMirror ==
    ASSUME LedgerInv, MirrorInv, [Next]_vars
    PROVE  MirrorInv'
<1>1. TypeOK
  BY DEF LedgerInv
<1>2. ASSUME NEW q \in Requests, StartCommit(q)
      PROVE  MirrorInv'
  <2>1. PICK r \in Reviews : Enqueue(r)
    BY <1>2 DEF StartCommit, Accept
  <2>2. proc # "down" /\ UNCHANGED <<proc, current, capacity>>
    BY <1>2 DEF StartCommit, LedgerInv, Readings, DownIsQuiet, IdleRequest, Clients, deploy
  <2>. QED
    BY <1>1, <2>1, <2>2, EnqueueKeepsMirror
<1>3. ASSUME NEW q \in Requests, RetryCommit(q)
      PROVE  MirrorInv'
  <2>1. PICK r \in Reviews : Enqueue(r)
    BY <1>3 DEF RetryCommit, Accept
  <2>2. proc # "down" /\ UNCHANGED <<proc, current, capacity>>
    BY <1>3 DEF RetryCommit, RetryAllowed, Admits, deploy
  <2>. QED
    BY <1>1, <2>1, <2>2, EnqueueKeepsMirror
<1>4. ASSUME NEW r \in Reviews, Replay(r)
      PROVE  MirrorInv'
  <2>1. proc # "down" /\ Enqueue(r) /\ UNCHANGED <<proc, current, capacity>>
    BY <1>4 DEF Replay, Admits, deploy
  <2>. QED
    BY <1>1, <2>1, EnqueueKeepsMirror
<1>5. ASSUME NEW q \in Requests, CancelRemove(q)
      PROVE  MirrorInv'
  <2>1. Dequeue(req[q].review) /\ UNCHANGED <<proc, current, capacity>>
    BY <1>5 DEF CancelRemove, deploy
  <2>2. proc # "down"
    BY <1>5 DEF CancelRemove, LedgerInv, Readings, DownIsQuiet, IdleRequest, Clients
  <2>. QED
    BY <1>1, <2>1, <2>2, DequeueKeepsMirror
<1>6. CASE Dispatch
  BY <1>1, <1>6, DispatchKeepsMirror
<1>7. CASE WorkerResume
  BY <1>7 DEF WorkerResume, MirrorInv, MirrorWellFormed, InPending, deploy
<1>8. ASSUME NEW n \in Capacities, Startup(n)
      PROVE  MirrorInv'
  <2>1. proc' = "up" /\ current' = NoReview /\ capacity' = n
    BY <1>8 DEF Startup, MirrorInv
  <2>2. /\ Len(pending') <= n
        /\ \A i, j \in 1 .. Len(pending') : pending'[i] = pending'[j] => i = j
    BY <1>8, StartupKeepsPlaces
  <2>. QED
    BY <2>1, <2>2 DEF MirrorInv, MirrorWellFormed, InPending
<1>9. CASE ShutdownBegin
  BY <1>9 DEF ShutdownBegin, MirrorInv, MirrorWellFormed, InPending
<1>10. CASE ShutdownEnd \/ Crash \/ Kill
  <2>1. pending' = <<>> /\ current' = NoReview /\ capacity' = capacity
    BY <1>10 DEF ShutdownEnd, Crash, Kill, Halt, deploy
  <2>2. Len(pending') = 0 /\ capacity \in Nat
    BY <1>1, <2>1, BoundsAssumption DEF TypeOK
  <2>. QED
    BY <2>1, <2>2 DEF MirrorInv, MirrorWellFormed, InPending
<1>11. CASE UNCHANGED <<proc, pending, current, capacity>>
  BY <1>11 DEF MirrorInv, MirrorWellFormed, InPending
<1>. QED
  BY <1>2, <1>3, <1>4, <1>5, <1>6, <1>7, <1>8, <1>9, <1>10, <1>11, MirrorIsLeftAlone

\* A fresh process has an empty mirror.
LEMMA InitMirror == Init => MirrorInv
<1>. SUFFICES ASSUME Init PROVE MirrorInv
  OBVIOUS
<1>1. pending = <<>> /\ Len(pending) = 0 /\ current = NoReview /\ capacity \in Nat
  BY BoundsAssumption DEF Init
<1>. QED
  BY <1>1 DEF MirrorInv, MirrorWellFormed

\* Whatever is accepted, replayed, cancelled, recovered or lost, the queue in
\* memory has no review twice, does not hold the one that runs, and has no more
\* entries than places.
THEOREM MirrorIsSound == Spec => []MirrorWellFormed
<1>1. LedgerInv /\ MirrorInv /\ [Next]_vars => MirrorInv'
  BY NextMirror
<1>2. MirrorInv => MirrorWellFormed
  BY DEF MirrorInv
<1>. QED
  BY LedgerInvariance, InitMirror, <1>1, <1>2, PTL DEF Spec

-----------------------------------------------------------------------------
(* The bound of the queue.  The handler of a start counts the QUEUED rows  *)
(* in one step and writes in a later one: no other row becomes QUEUED in    *)
(* between, for the handler keeps the loop and threads write back only the  *)
(* states they find.                                                        *)

\* A step after which no other row is QUEUED keeps the bound.
LEMMA NoMoreQueued ==
    ASSUME TypeOK, PlacesInv, Queued' \subseteq Queued, capacity' = capacity,
           proc' = "up" => proc = "up",
           \A q \in Requests : req'[q].step = "starting" => req[q].step = "starting"
    PROVE  PlacesInv'
<1>1. Queued \in SUBSET Reviews /\ capacity \in Nat
  BY BoundsAssumption DEF Queued, TypeOK
<1>2. IsFiniteSet(Queued) /\ Cardinality(Queued) \in Nat /\ Cardinality(Queued') \in Nat
  BY <1>1, RowsAreFinite
<1>3. Cardinality(Queued') <= Cardinality(Queued)
  BY <1>2, FS_Subset
<1>. QED
  BY <1>1, <1>2, <1>3 DEF PlacesInv, QueuedWithinCapacity

\* One accepted row fills one place.
LEMMA OneMoreQueued ==
    ASSUME TypeOK, NEW r \in Reviews, NEW s, NEW expired, Accept(r, s, expired),
           Cardinality(Queued) < capacity, capacity' = capacity,
           \A q \in Requests : req'[q].step # "starting"
    PROVE  PlacesInv'
<1>1. Queued \in SUBSET Reviews /\ capacity \in Nat
  BY BoundsAssumption DEF Queued, TypeOK
<1>2. Queued' \subseteq Queued \cup {r}
  BY DEF Accept, Queued
<1>3. IsFiniteSet(Queued) /\ Cardinality(Queued) \in Nat
  BY <1>1, RowsAreFinite
<1>4. IsFiniteSet(Queued \cup {r}) /\ Cardinality(Queued \cup {r}) <= Cardinality(Queued) + 1
      /\ Cardinality(Queued \cup {r}) \in Nat
  <2>1. /\ IsFiniteSet(Queued \cup {r})
        /\ Cardinality(Queued \cup {r}) =
              IF r \in Queued THEN Cardinality(Queued) ELSE Cardinality(Queued) + 1
    BY <1>3, FS_AddElement
  <2>. QED
    BY <1>3, <2>1
<1>5. Cardinality(Queued') <= Cardinality(Queued \cup {r}) /\ Cardinality(Queued') \in Nat
  BY <1>2, <1>4, FS_Subset, FS_CardinalityType
<1>. QED
  BY <1>1, <1>3, <1>4, <1>5 DEF PlacesInv, QueuedWithinCapacity

\* The steps of the handlers that accept no review.
LEMMA HandlersQueueNothing ==
    ASSUME TypeOK, PlacesInv, NEW q \in Requests,
           \/ StartConflict(q) \/ RetryReject(q) \/ CancelStep(q)
           \/ \E r \in Reviews : RetryResolve(q, r) \/ CancelResolve(q, r)
    PROVE  PlacesInv'
<1>1. Queued' \subseteq Queued
  BY DEF StartConflict, RetryResolve, RetryReject, CancelResolve, CancelStep, CancelRemove,
         CancelRead, CancelSave, CancelConflict, CancelClear, ledger, Queued, TypeOK
<1>2. proc' = proc /\ capacity' = capacity
  BY DEF StartConflict, RetryResolve, RetryReject, CancelResolve, CancelStep, CancelRemove,
         CancelRead, CancelSave, CancelConflict, CancelClear, scheduler, deploy
<1>3. \A n : req[q].step \notin {"idle", "starting"} => AfterRead(q, n).step # "starting"
  BY DEF AfterRead, IdleRequest, TypeOK, Clients, RequestRecord
<1>4. req[q] \in RequestRecord
  BY DEF TypeOK, Clients
<1>5. \E m : Become(q, m) /\ m.step # "starting"
  <2>1. CASE StartConflict(q) \/ RetryReject(q)
    BY <2>1 DEF StartConflict, RetryReject, IdleRequest
  <2>2. CASE \E r \in Reviews : RetryResolve(q, r) \/ CancelResolve(q, r)
    <3>1. PICK r \in Reviews : RetryResolve(q, r) \/ CancelResolve(q, r)
      BY <2>2
    <3>2. CASE RetryResolve(q, r)
      <4> DEFINE m == [IdleRequest EXCEPT !.step = "retrying", !.review = r]
      <4>1. Become(q, m) /\ m.step # "starting"
        BY <3>2 DEF RetryResolve, IdleRequest
      <4> HIDE DEF m
      <4>. QED
        BY <4>1
    <3>3. CASE CancelResolve(q, r)
      <4> DEFINE m == [IdleRequest EXCEPT !.step = "cancel", !.review = r]
      <4>1. Become(q, m) /\ m.step # "starting"
        BY <3>3 DEF CancelResolve, IdleRequest
      <4> HIDE DEF m
      <4>. QED
        BY <4>1
    <3>. QED
      BY <3>1, <3>2, <3>3
  <2>3. CASE CancelRemove(q)
    <3> DEFINE m == IF current # req[q].review THEN AfterRead(q, 1)
                    ELSE [req[q] EXCEPT !.step = IF Cancellable(req[q].review)
                                                 THEN "joining" ELSE "joined"]
    <3>1. Become(q, m) /\ req[q].step = "cancel"
      BY <2>3 DEF CancelRemove
    <3>2. [req[q] EXCEPT !.step = IF Cancellable(req[q].review)
                                  THEN "joining" ELSE "joined"].step # "starting"
      BY <1>4 DEF RequestRecord
    <3>3. m.step # "starting"
      BY <1>3, <3>1, <3>2
    <3> HIDE DEF m
    <3>. QED
      BY <3>1, <3>3
  <2>4. CASE CancelRead(q)
    <3>1. Become(q, AfterRead(q, 1)) /\ req[q].step = "joined"
      BY <2>4 DEF CancelRead
    <3>2. AfterRead(q, 1).step # "starting"
      BY <1>3, <3>1
    <3>. QED
      BY <3>1, <3>2
  <2>5. CASE CancelSave(q) \/ CancelClear(q)
    BY <1>4, <2>5 DEF CancelSave, CancelClear, IdleRequest, RequestRecord
  <2>6. CASE CancelConflict(q)
    <3> DEFINE m == IF AttemptsLeft(q) THEN AfterRead(q, req[q].tries + 1) ELSE IdleRequest
    <3>1. Become(q, m) /\ req[q].step = "cancelling"
      BY <2>6 DEF CancelConflict
    <3>2. m.step # "starting"
      BY <1>3, <3>1 DEF IdleRequest
    <3> HIDE DEF m
    <3>. QED
      BY <3>1, <3>2
  <2>. QED
    BY <2>1, <2>2, <2>3, <2>4, <2>5, <2>6 DEF CancelStep
<1>6. \A p \in Requests : req'[p].step = "starting" => req[p].step = "starting"
  BY <1>5 DEF Become, TypeOK, Clients
<1>. QED
  BY <1>1, <1>2, <1>6, NoMoreQueued

\* The steps of the execution task and of the worker.
LEMMA ExecutionQueuesNothing ==
    ASSUME TypeOK, PlacesInv, Execute \/ Dispatch \/ WorkerResume
    PROVE  PlacesInv'
<1>1. Queued' \subseteq Queued
  BY DEF Execute, Dispatch, WorkerResume, ExecAbort, ExecRead, ExecStart, ExecStartConflict,
         ProgressRead, ProgressSave, ProgressConflict, ExecCancelled, ExecAnswer, ExecFinish,
         ExecFinishConflict, ledger, Queued, TypeOK
<1>2. proc' = proc /\ capacity' = capacity
  BY DEF Execute, Dispatch, WorkerResume, ExecAbort, ExecRead, ExecStart, ExecStartConflict,
         ProgressRead, ProgressSave, ProgressConflict, ExecCancelled, ExecAnswer, ExecFinish,
         ExecFinishConflict, scheduler, deploy
<1>3. req' = req \/ \E how : EndExecution(how)
  BY DEF Execute, Dispatch, WorkerResume, ExecAbort, ExecRead, ExecStart, ExecStartConflict,
         ProgressRead, ProgressSave, ProgressConflict, ExecCancelled, ExecAnswer, ExecFinish,
         ExecFinishConflict
<1>4. \A p \in Requests : req'[p].step = "starting" => req[p].step = "starting"
  <2>1. ASSUME NEW how, EndExecution(how), NEW p \in Requests, req'[p].step = "starting"
        PROVE  req[p].step = "starting"
    BY <2>1 DEF EndExecution, TypeOK, Clients, RequestRecord
  <2>. QED
    BY <1>3, <2>1
<1>. QED
  BY <1>1, <1>2, <1>4, NoMoreQueued

\* A thread that extends a review writes back the state the row has.
LEMMA ExtendQueuesNothing ==
    ASSUME LedgerInv, PlacesInv, Extend
    PROVE  PlacesInv'
<1>1. PICK e \in Extenders : (\E r \in Reviews : ExtendRead(e, r)) \/ ExtendStep(e)
  BY DEF Extend
<1>2. TypeOK
  BY DEF LedgerInv
<1>3. Queued' \subseteq Queued
  <2>1. CASE ExtendSave(e)
    <3>1. req[e].seen = state[req[e].review]
      BY <2>1 DEF ExtendSave, LedgerInv, Readings, CopiesAreCurrent
    <3>. QED
      BY <1>2, <2>1, <3>1 DEF ExtendSave, Queued, TypeOK
  <2>2. CASE ~ExtendSave(e)
    BY <1>1, <2>2 DEF ExtendRead, ExtendStep, ExtendReread, ExtendFail, ledger, Queued
  <2>. QED
    BY <2>1, <2>2
<1>4. proc' = proc /\ capacity' = capacity
  BY <1>1 DEF ExtendRead, ExtendStep, ExtendSave, ExtendReread, ExtendFail, scheduler, deploy
<1>5. \E m : req' = [req EXCEPT ![e] = m]
  BY <1>1 DEF ExtendRead, ExtendStep, ExtendSave, ExtendReread, ExtendFail, Become
<1>6. \A p \in Requests : req'[p] = req[p]
  BY <1>2, <1>5, ActorsAssumption DEF TypeOK, Clients
<1>. QED
  BY <1>2, <1>3, <1>4, <1>6, NoMoreQueued

\* Every step keeps the bound.
LEMMA NextPlaces ==
    ASSUME LedgerInv, PlacesInv, [Next]_vars
    PROVE  PlacesInv'
<1>1. TypeOK
  BY DEF LedgerInv
<1>2. ASSUME NEW q \in Requests, NEW s \in Sessions, StartRead(q, s)
      PROVE  PlacesInv'
  BY <1>2 DEF StartRead, Admits, ledger, scheduler, deploy, PlacesInv, QueuedWithinCapacity,
              Queued
<1>3. ASSUME NEW q \in Requests, StartCommit(q)
      PROVE  PlacesInv'
  <2>1. \A p \in Requests : req'[p].step # "starting"
    <3>1. \A p \in Requests : p # q => req[p].step # "starting"
      BY <1>3 DEF StartCommit, LedgerInv, Readings, OneLoopHolder, HandlerHoldsLoop
    <3>. QED
      BY <1>1, <1>3, <3>1 DEF StartCommit, Become, IdleRequest, TypeOK, Clients
  <2>2. Cardinality(Queued) < capacity /\ capacity' = capacity
    BY <1>3 DEF StartCommit, PlacesInv, deploy
  <2>3. PICK r \in Reviews : Accept(r, req[q].session, Unexpired(req[q].session))
    BY <1>3 DEF StartCommit
  <2>. QED
    BY <1>1, <2>1, <2>2, <2>3, OneMoreQueued
<1>4. ASSUME NEW q \in Requests, RetryCommit(q)
      PROVE  PlacesInv'
  <2>1. \A p \in Requests : req'[p].step # "starting"
    BY <1>1, <1>4 DEF RetryCommit, LoopFree, HandlerHoldsLoop, Become, IdleRequest, TypeOK,
                      Clients
  <2>2. Cardinality(Queued) < capacity /\ capacity' = capacity
    BY <1>4 DEF RetryCommit, RetryAllowed, Admits, deploy
  <2>3. PICK r \in Reviews : Accept(r, owner[req[q].review], {})
    BY <1>4 DEF RetryCommit
  <2>. QED
    BY <1>1, <2>1, <2>2, <2>3, OneMoreQueued
<1>5. ASSUME NEW q \in Requests,
             \/ StartConflict(q) \/ RetryReject(q) \/ CancelStep(q)
             \/ \E r \in Reviews : RetryResolve(q, r) \/ CancelResolve(q, r)
      PROVE  PlacesInv'
  BY <1>1, <1>5, HandlersQueueNothing
<1>6. CASE Extend
  BY <1>6, ExtendQueuesNothing
<1>7. CASE Execute \/ Dispatch \/ WorkerResume
  BY <1>1, <1>7, ExecutionQueuesNothing
<1>8. ASSUME NEW n \in Capacities, Startup(n)
      PROVE  PlacesInv'
  <2>1. \A q \in Requests : req'[q].step # "starting"
    BY <1>8 DEF Startup, LedgerInv, Readings, DownIsQuiet, Clients, IdleRequest
  <2>2. Queued' \subseteq Queued \ Overflow(n) /\ capacity' = n /\ n \in Nat
    BY <1>8, BoundsAssumption DEF Startup, Queued
  <2>3. Queued \ Overflow(n) \in SUBSET Reviews
    BY DEF Queued
  <2>4. /\ IsFiniteSet(Queued \ Overflow(n)) /\ Cardinality(Queued \ Overflow(n)) \in Nat
        /\ Cardinality(Queued \ Overflow(n)) <= n
    BY <1>8, <2>3, RowsAreFinite, StartupKeepsPlaces
  <2>5. /\ Cardinality(Queued') <= Cardinality(Queued \ Overflow(n))
        /\ Cardinality(Queued') \in Nat
    BY <2>2, <2>4, FS_Subset, FS_CardinalityType
  <2>. QED
    BY <2>1, <2>2, <2>4, <2>5 DEF PlacesInv, QueuedWithinCapacity
<1>9. CASE \/ ShutdownBegin \/ ShutdownEnd \/ Crash \/ Kill \/ UNCHANGED vars
           \/ \E r \in Reviews : Replay(r)
  <2>1. Queued' \subseteq Queued
    BY <1>1, <1>9 DEF ShutdownBegin, ShutdownEnd, Crash, Kill, Replay, vars, ledger, Queued,
                      TypeOK
  <2>2. capacity' = capacity /\ (proc' = "up" => proc = "up")
    BY <1>9 DEF ShutdownBegin, ShutdownEnd, Crash, Kill, Replay, Halt, vars, scheduler, deploy
  <2>3. \A q \in Requests : req'[q].step = "starting" => req[q].step = "starting"
    BY <1>9 DEF ShutdownBegin, ShutdownEnd, Crash, Kill, Replay, Halt, vars, Clients,
                IdleRequest
  <2>. QED
    BY <1>1, <2>1, <2>2, <2>3, NoMoreQueued
<1>. QED
  BY <1>2, <1>3, <1>4, <1>5, <1>6, <1>7, <1>8, <1>9 DEF Next, Start, Retry, Cancel

\* However starts, retries, threads, recoveries and builds with other capacities
\* interleave, a serving process never has more QUEUED rows than places.
THEOREM QueueIsBounded == Spec => []QueuedWithinCapacity
<1>1. Init => PlacesInv
  <2>. SUFFICES ASSUME Init PROVE PlacesInv
    OBVIOUS
  <2>1. Queued = {} /\ Cardinality(Queued) = 0
    BY FS_EmptySet DEF Init, Lifecycle!LifecycleInit, Queued
  <2>2. capacity \in Nat \ {0}
    BY BoundsAssumption DEF Init
  <2>. QED
    BY <2>1, <2>2 DEF PlacesInv, QueuedWithinCapacity
<1>2. LedgerInv /\ PlacesInv /\ [Next]_vars => PlacesInv'
  BY NextPlaces
<1>3. PlacesInv => QueuedWithinCapacity
  BY DEF PlacesInv
<1>. QED
  BY LedgerInvariance, <1>1, <1>2, <1>3, PTL DEF Spec

-----------------------------------------------------------------------------
(* Ledger and scheduler.                                                    *)

\* What no_extension leaves out, because the code strands reviews with it.
Alone == Extenders = {} /\ ~RecordsLapse

CancelSteps == {"joining", "joined", "cancelling"}

\* Actors on one loop never lose a version comparison.
NothingStale ==
    /\ \A a \in Actors : ~stale[a]
    /\ \A q \in Requests : req[q].step \notin {"extending", "extendingAgain"}

\* Ids are handed out without gaps, and what runs exists.
IdsInOrder ==
    /\ \A x, y \in Reviews : x < y /\ state[x] = "ABSENT" => state[y] = "ABSENT"
    /\ current # NoReview => state[current] # "ABSENT"

\* The mirror holds QUEUED reviews that nobody is cancelling, oldest first.
MirrorIsQueued ==
    \A r \in Reviews : InPending(r) => state[r] = "QUEUED" /\ ~BeingCancelled(r)

MirrorInOrder ==
    \A i, j \in 1 .. Len(pending) : i < j => pending[i] < pending[j]

\* Who joins waits for the current execution, and a serving process cancels an
\* execution only for somebody who joins it.
JoinsWait ==
    /\ \A q \in Requests : req[q].step = "joining" =>
          req[q].review = current /\ exec \notin {"none", "done", "aborted"}
    /\ proc = "up" /\ cancelled /\ exec \notin {"done", "aborted"} =>
          \E q \in Requests : req[q].step = "joining"
    /\ exec = "none" => ~cancelled
    /\ proc = "up" => worker = "running"

\* As long as the worker takes reviews, each QUEUED one comes to it, unless it is
\* being cancelled or the worker is about to see its own cancellation.
QueuedInHand ==
    proc # "down" /\ worker = "running" =>
        \A r \in Reviews : state[r] = "QUEUED" =>
            \/ InPending(r)
            \/ current = r /\ exec \in {"created", "loaded"}
            \/ BeingCancelled(r)
            \/ proc = "stopping" /\ current = r /\ exec = "aborted"

ReviewingInHand ==
    proc = "up" =>
        \A r \in Reviews : state[r] = "REVIEWING" =>
            \/ current = r /\ exec \notin {"created", "loaded", "done", "aborted"}
            \/ BeingCancelled(r)

HandInv == /\ NothingStale /\ IdsInOrder /\ MirrorIsQueued /\ MirrorInOrder
           /\ JoinsWait /\ QueuedInHand /\ ReviewingInHand

\* All that is known before a step.
Known == LedgerInv /\ MirrorInv /\ PlacesInv /\ HandInv

-----------------------------------------------------------------------------
(* Facts about single variables.                                            *)

\* A save by the actor that keeps the loop finds no other reader.
LEMMA SaveHarmsNobody ==
    ASSUME TypeOK, OneLoopHolder, Alone, NothingStale, NEW a \in Actors, NEW rows,
           Save(a, rows),
           IF a = Runner THEN ExecHoldsLoop ELSE HandlerHoldsLoop(a)
    PROVE  \A b \in Actors : ~stale'[b]
<1>1. Actors = Requests \cup {Runner} /\ Runner \notin Requests
  BY ActorsAssumption DEF Alone, Actors, Clients
<1>2. ASSUME NEW b \in Actors, b # a
      PROVE  RowsOf(b) = {}
  <2>1. CASE b = Runner
    BY <1>1, <1>2, <2>1 DEF OneLoopHolder, RowsOf
  <2>2. CASE b \in Requests
    <3>1. ~HandlerHoldsLoop(b)
      BY <1>1, <1>2, <2>2 DEF OneLoopHolder
    <3>. QED
      BY <1>1, <2>2, <3>1 DEF RowsOf, HandlerHoldsLoop, NothingStale
  <2>. QED
    BY <1>1, <2>1, <2>2
<1>. QED
  BY <1>2 DEF Save, NothingStale

\* A handler that enters or leaves no part of a cancellation.
LEMMA OtherRequests ==
    ASSUME TypeOK, NEW q \in Requests, NEW m, Become(q, m),
           req[q].step \notin CancelSteps, m.step \notin CancelSteps
    PROVE  /\ \A r : BeingCancelled(r)' <=> BeingCancelled(r)
           /\ \A p \in Requests : req'[p].step = "joining" <=> req[p].step = "joining"
           /\ \A p \in Requests : req'[p].step = "joining" => req'[p] = req[p]
<1>1. \A p \in Requests : req'[p] = IF p = q THEN m ELSE req[p]
  BY DEF Become, TypeOK, Clients
<1>. QED
  BY <1>1 DEF BeingCancelled, CancelSteps

\* The end of an execution resumes its cancellers and ends no cancellation.
LEMMA EndedExecution ==
    ASSUME TypeOK, NEW how, EndExecution(how)
    PROVE  /\ \A r : BeingCancelled(r)' <=> BeingCancelled(r)
           /\ \A p \in Requests : req'[p].step # "joining"
           /\ \A p \in Requests :
                 req'[p].step \in {"extending", "extendingAgain"} => req'[p].step = req[p].step
<1>1. \A p \in Requests : /\ req'[p].review = req[p].review
                          /\ req'[p].step = IF req[p].step = "joining" THEN "joined"
                                            ELSE req[p].step
  BY DEF EndExecution, TypeOK, Clients, RequestRecord
<1>. QED
  BY <1>1 DEF BeingCancelled

\* Distinct QUEUED ids take no more places than there are QUEUED rows.
LEMMA MirrorIsNoLonger ==
    ASSUME TypeOK, MirrorInv, MirrorIsQueued
    PROVE  Len(pending) <= Cardinality(Queued)
<1>1. /\ Queued \in SUBSET Reviews /\ Len(pending) \in Nat
      /\ pending \in [1 .. Len(pending) -> Reviews]
  BY LenProperties DEF TypeOK, Queued
<1>2. IsFiniteSet(Queued) /\ Cardinality(Queued) \in Nat
  BY <1>1, RowsAreFinite
<1>3. pending \in Injection(1 .. Len(pending), Queued)
  <2>1. pending \in [1 .. Len(pending) -> Queued]
    BY <1>1 DEF MirrorIsQueued, Queued, InPending
  <2>2. \A i, j \in 1 .. Len(pending) : pending[i] = pending[j] => i = j
    BY DEF MirrorInv, MirrorWellFormed
  <2>. QED
    BY <2>1, <2>2 DEF Injection, IsInjective
<1>4. Cardinality(1 .. Len(pending)) <= Cardinality(Queued)
  BY <1>2, <1>3, FS_Injection
<1>. QED
  BY <1>1, <1>4, FS_Interval

\* An accepted review finds a place in the mirror.
LEMMA AcceptedHasPlace ==
    ASSUME TypeOK, MirrorInv, HandInv, NEW r \in Reviews, IsNextId(r), NEW s, NEW expired,
           Accept(r, s, expired), Cardinality(Queued) < capacity
    PROVE  pending' = Append(pending, r)
<1>1. ~InPending(r) /\ r # current
  <2>1. state[r] = "ABSENT" /\ r # NoReview
    BY ReviewIds DEF IsNextId
  <2>. QED
    BY <2>1 DEF InPending, HandInv, MirrorIsQueued, IdsInOrder
<1>2. ~(Len(pending) >= capacity)
  <2>1. Len(pending) \in Nat /\ capacity \in Nat /\ Cardinality(Queued) \in Nat
    BY BoundsAssumption, LenProperties, RowsAreFinite DEF TypeOK, Queued
  <2>. QED
    BY <2>1, MirrorIsNoLonger DEF HandInv
<1>. QED
  BY <1>1, <1>2 DEF Accept, Enqueue

\* What an entry at the end changes.
LEMMA AppendedEntry ==
    ASSUME TypeOK, NEW r \in Reviews, pending' = Append(pending, r)
    PROVE  /\ Len(pending) \in Nat /\ Len(pending') = Len(pending) + 1
           /\ pending'[Len(pending) + 1] = r
           /\ \A i \in 1 .. Len(pending) : pending'[i] = pending[i]
           /\ \A i \in 1 .. Len(pending') : i \in 1 .. Len(pending) \/ i = Len(pending) + 1
           /\ \A x : InPending(x)' <=> InPending(x) \/ x = r
<1>1. pending \in Seq(Reviews) /\ Len(pending) \in Nat
  BY LenProperties DEF TypeOK
<1>2. /\ Len(pending') = Len(pending) + 1 /\ pending'[Len(pending) + 1] = r
      /\ \A i \in 1 .. Len(pending) : pending'[i] = pending[i]
  BY <1>1, AppendProperties
<1>3. \A i \in 1 .. Len(pending') : i \in 1 .. Len(pending) \/ i = Len(pending) + 1
  BY <1>1, <1>2
<1>4. /\ \A i \in 1 .. Len(pending) : i \in 1 .. Len(pending')
      /\ Len(pending) + 1 \in 1 .. Len(pending')
  BY <1>1, <1>2
<1>5. ASSUME NEW x
      PROVE  InPending(x)' <=> InPending(x) \/ x = r
  BY <1>2, <1>3, <1>4 DEF InPending
<1>. QED
  BY <1>1, <1>2, <1>3, <1>5

\* An accepted review is in hand, and nothing else gets out of it.
LEMMA AcceptKeepsHand ==
    ASSUME Known, Alone, NEW r \in Reviews, IsNextId(r), NEW s, NEW expired,
           Accept(r, s, expired),
           \A x \in expired : state[x] \notin {"ABSENT", "QUEUED", "REVIEWING"},
           Cardinality(Queued) < capacity,
           UNCHANGED <<proc, worker, current, execution>>,
           NEW q \in Requests, Become(q, IdleRequest), req[q].step \notin CancelSteps,
           \A a \in Actors : ~stale'[a]
    PROVE  HandInv'
<1>1. TypeOK /\ MirrorInv /\ HandInv /\ Readings
  BY DEF Known, LedgerInv
<1>2. /\ state[r] = "ABSENT" /\ r # NoReview /\ r \in Nat
      /\ \A x \in Reviews : x < r => state[x] # "ABSENT"
  BY ReviewIds DEF IsNextId
<1>3. \A x \in Reviews : state'[x] = IF x = r THEN "QUEUED"
                                     ELSE IF x \in expired THEN "EXPIRED" ELSE state[x]
  BY DEF Accept
<1>4. pending' = Append(pending, r)
  BY <1>1, AcceptedHasPlace
<1>5. /\ Len(pending) \in Nat /\ Len(pending') = Len(pending) + 1
      /\ pending'[Len(pending) + 1] = r
      /\ \A i \in 1 .. Len(pending) : pending'[i] = pending[i]
      /\ \A i \in 1 .. Len(pending') : i \in 1 .. Len(pending) \/ i = Len(pending) + 1
      /\ \A x : InPending(x)' <=> InPending(x) \/ x = r
  BY <1>1, <1>4, AppendedEntry
<1>6. /\ \A x : BeingCancelled(x)' <=> BeingCancelled(x)
      /\ \A p \in Requests : req'[p].step = "joining" <=> req[p].step = "joining"
      /\ \A p \in Requests : req'[p].step = "joining" => req'[p] = req[p]
  BY <1>1, OtherRequests DEF IdleRequest, CancelSteps
<1>7. ~BeingCancelled(r)
  BY <1>2 DEF BeingCancelled, Known, LedgerInv, Readings, RequestsReadTrue, Clients
<1>8. \A i \in 1 .. Len(pending) :
         pending[i] \in Reviews /\ pending[i] \in Nat /\ state[pending[i]] = "QUEUED"
  BY <1>1, ReviewIds, ElementOfSeq DEF TypeOK, HandInv, MirrorIsQueued, InPending
<1>9. NothingStale'
  BY <1>1 DEF HandInv, NothingStale, Become, IdleRequest, TypeOK, Clients
<1>10. IdsInOrder'
  <2>1. ASSUME NEW x \in Reviews, NEW y \in Reviews, x < y, state'[x] = "ABSENT"
        PROVE  state'[y] = "ABSENT"
    <3>1. state[x] = "ABSENT" /\ x # r
      BY <1>3, <2>1
    <3>2. state[y] = "ABSENT"
      BY <1>1, <2>1, <3>1 DEF HandInv, IdsInOrder
    <3>. QED
      BY <1>2, <1>3, <2>1, <3>1, <3>2
  <2>2. current # NoReview => state'[current] # "ABSENT"
    BY <1>1, <1>3 DEF HandInv, IdsInOrder, TypeOK
  <2>. QED
    BY <2>1, <2>2 DEF IdsInOrder
<1>11. MirrorIsQueued'
  <2>1. ASSUME NEW x \in Reviews, InPending(x)'
        PROVE  state'[x] = "QUEUED" /\ ~BeingCancelled(x)'
    <3>1. CASE x = r
      BY <1>3, <1>6, <1>7, <3>1
    <3>2. CASE x # r
      <4>1. state[x] = "QUEUED" /\ ~BeingCancelled(x)
        BY <1>1, <1>5, <2>1, <3>2 DEF HandInv, MirrorIsQueued
      <4>. QED
        BY <1>3, <1>6, <3>2, <4>1
    <3>. QED
      BY <3>1, <3>2
  <2>. QED
    BY <2>1 DEF MirrorIsQueued
<1>12. MirrorInOrder'
  <2>1. \A i \in 1 .. Len(pending) : pending[i] < r
    BY <1>1, <1>2, <1>8 DEF HandInv, IdsInOrder
  <2>2. ASSUME NEW i \in 1 .. Len(pending'), NEW j \in 1 .. Len(pending'), i < j
        PROVE  pending'[i] < pending'[j]
    <3>1. CASE j \in 1 .. Len(pending)
      BY <1>1, <1>5, <2>2, <3>1 DEF HandInv, MirrorInOrder
    <3>2. CASE j = Len(pending) + 1
      BY <1>5, <2>1, <2>2, <3>2
    <3>. QED
      BY <1>5, <3>1, <3>2
  <2>. QED
    BY <2>2 DEF MirrorInOrder
<1>13. JoinsWait'
  BY <1>1, <1>6 DEF HandInv, JoinsWait, execution
<1>14. QueuedInHand'
  BY <1>1, <1>3, <1>5, <1>6 DEF HandInv, QueuedInHand, execution
<1>15. ReviewingInHand'
  BY <1>1, <1>3, <1>6 DEF HandInv, ReviewingInHand, execution
<1>. QED
  BY <1>9, <1>10, <1>11, <1>12, <1>13, <1>14, <1>15 DEF HandInv

\* POST /reviews and its retry.
LEMMA AcceptingHandlers ==
    ASSUME Known, Alone, NEW q \in Requests, StartCommit(q) \/ RetryCommit(q)
    PROVE  HandInv'
<1>1. TypeOK /\ HandInv /\ Readings /\ PlacesInv
  BY DEF Known, LedgerInv
<1>2. q \in Actors /\ q # Runner
  BY ActorsAssumption DEF Actors, Clients
<1>3. CASE StartCommit(q)
  <2>1. PICK r \in Reviews :
           IsNextId(r) /\ Accept(r, req[q].session, Unexpired(req[q].session))
    BY <1>3 DEF StartCommit
  <2>2. \A a \in Actors : ~stale'[a]
    <3>1. Save(q, Unexpired(req[q].session)) /\ HandlerHoldsLoop(q)
      BY <1>3 DEF StartCommit, HandlerHoldsLoop
    <3>. QED
      BY <1>1, <1>2, <3>1, SaveHarmsNobody DEF HandInv, Readings
  <2>3. \A x \in Unexpired(req[q].session) :
           state[x] \notin {"ABSENT", "QUEUED", "REVIEWING"}
    BY <1>1, <1>3, SessionsAssumption
    DEF StartCommit, Unexpired, OfSession, Readings, RequestsReadTrue, RowsAreOwned, HasActive,
        ActiveStates, Lifecycle!ActiveStates
  <2>4. Cardinality(Queued) < capacity /\ Become(q, IdleRequest)
        /\ UNCHANGED <<proc, worker, current, execution>> /\ req[q].step \notin CancelSteps
    BY <1>1, <1>3 DEF StartCommit, PlacesInv, CancelSteps
  <2>. QED
    BY <2>1, <2>2, <2>3, <2>4, AcceptKeepsHand
<1>4. CASE RetryCommit(q)
  <2>1. PICK r \in Reviews : IsNextId(r) /\ Accept(r, owner[req[q].review], {})
    BY <1>4 DEF RetryCommit
  <2>2. \A a \in Actors : ~stale'[a]
    BY <1>1, <1>4 DEF RetryCommit, HandInv, NothingStale
  <2>3. Cardinality(Queued) < capacity /\ Become(q, IdleRequest)
        /\ UNCHANGED <<proc, worker, current, execution>> /\ req[q].step \notin CancelSteps
    BY <1>4 DEF RetryCommit, RetryAllowed, Admits, CancelSteps
  <2>. QED
    BY <2>1, <2>2, <2>3, AcceptKeepsHand
<1>. QED
  BY <1>3, <1>4

\* Handlers that only take up or give up a request.
LEMMA ReadingHandlers ==
    ASSUME Known, Alone, NEW q \in Requests,
           \/ StartConflict(q) \/ RetryReject(q)
           \/ \E s \in Sessions : StartRead(q, s)
           \/ \E r \in Reviews : RetryResolve(q, r) \/ CancelResolve(q, r)
    PROVE  HandInv'
<1>1. TypeOK /\ HandInv
  BY DEF Known, LedgerInv
<1>2. ~StartConflict(q)
  BY <1>1 DEF StartConflict, HandInv, NothingStale, Actors, Clients
<1>3. /\ UNCHANGED <<ledger, scheduler, execution, stale>>
      /\ req[q].step \notin CancelSteps
      /\ \E m : /\ Become(q, m) /\ m.step \notin CancelSteps
               /\ m.step \notin {"extending", "extendingAgain"}
  <2>1. CASE RetryReject(q)
    BY <2>1 DEF RetryReject, CancelSteps, IdleRequest
  <2>2. ASSUME NEW s \in Sessions, StartRead(q, s)
        PROVE  <1>3!1 /\ <1>3!2 /\ <1>3!3
    <3> DEFINE m == [IdleRequest EXCEPT !.step = "starting", !.session = s]
    <3>1. m.step = "starting" /\ Become(q, m)
      BY <2>2 DEF StartRead, IdleRequest
    <3> HIDE DEF m
    <3>. QED
      BY <2>2, <3>1 DEF StartRead, CancelSteps
  <2>3. ASSUME NEW r \in Reviews, RetryResolve(q, r)
        PROVE  <1>3!1 /\ <1>3!2 /\ <1>3!3
    <3> DEFINE m == [IdleRequest EXCEPT !.step = "retrying", !.review = r]
    <3>1. m.step = "retrying" /\ Become(q, m)
      BY <2>3 DEF RetryResolve, IdleRequest
    <3> HIDE DEF m
    <3>. QED
      BY <2>3, <3>1 DEF RetryResolve, CancelSteps
  <2>4. ASSUME NEW r \in Reviews, CancelResolve(q, r)
        PROVE  <1>3!1 /\ <1>3!2 /\ <1>3!3
    <3> DEFINE m == [IdleRequest EXCEPT !.step = "cancel", !.review = r]
    <3>1. m.step = "cancel" /\ Become(q, m)
      BY <2>4 DEF CancelResolve, IdleRequest
    <3> HIDE DEF m
    <3>. QED
      BY <2>4, <3>1 DEF CancelResolve, CancelSteps
  <2>. QED
    BY <1>2, <2>1, <2>2, <2>3, <2>4
<1>4. /\ \A x : BeingCancelled(x)' <=> BeingCancelled(x)
      /\ \A p \in Requests : req'[p].step = "joining" <=> req[p].step = "joining"
      /\ \A p \in Requests : req'[p].step = "joining" => req'[p] = req[p]
  BY <1>1, <1>3, OtherRequests
<1>5. \A p \in Requests : req'[p].step \notin {"extending", "extendingAgain"}
  BY <1>1, <1>3 DEF Become, HandInv, NothingStale, TypeOK, Clients
<1>. QED
  BY <1>1, <1>3, <1>4, <1>5
  DEF HandInv, NothingStale, IdsInOrder, MirrorIsQueued, MirrorInOrder, JoinsWait,
      QueuedInHand, ReviewingInHand, InPending, ledger, scheduler, execution

-----------------------------------------------------------------------------
(* The steps of a cancellation.                                             *)

\* deque.remove takes out the one entry and leaves the others in their order.
LEMMA DequeueFacts ==
    ASSUME TypeOK, MirrorInv, MirrorInOrder, NEW r, Dequeue(r)
    PROVE  /\ MirrorInOrder'
           /\ \A x : InPending(x)' <=> InPending(x) /\ x # r
<1>1. CASE ~InPending(r) /\ pending' = pending
  BY <1>1 DEF MirrorInOrder, InPending
<1>2. ASSUME NEW i \in 1 .. Len(pending), pending[i] = r,
             pending' = SubSeq(pending, 1, i - 1) \o SubSeq(pending, i + 1, Len(pending))
      PROVE  /\ MirrorInOrder'
             /\ \A x : InPending(x)' <=> InPending(x) /\ x # r
  <2>1. /\ Len(pending') = Len(pending) - 1
        /\ \A j \in 1 .. Len(pending') :
              pending'[j] = IF j < i THEN pending[j] ELSE pending[j + 1]
    BY <1>2, WithoutOne DEF TypeOK
  <2>2. Len(pending) \in Nat /\ i \in Nat /\ 1 <= i /\ i <= Len(pending)
    BY LenProperties DEF TypeOK
  <2>3. ASSUME NEW j \in 1 .. Len(pending')
        PROVE  \E k \in 1 .. Len(pending) :
                  k # i /\ pending'[j] = pending[k] /\ k = IF j < i THEN j ELSE j + 1
    BY <2>1, <2>2
  <2>4. ASSUME NEW k \in 1 .. Len(pending), k # i
        PROVE  \E j \in 1 .. Len(pending') : pending'[j] = pending[k]
    <3>1. CASE k < i
      <4>1. k \in 1 .. Len(pending')
        BY <2>1, <2>2, <3>1
      <4>. QED
        BY <2>1, <3>1, <4>1
    <3>2. CASE ~(k < i)
      <4>1. k - 1 \in 1 .. Len(pending') /\ ~(k - 1 < i) /\ (k - 1) + 1 = k
        BY <2>1, <2>2, <2>4, <3>2
      <4>2. pending'[k - 1] = pending[k]
        BY <2>1, <4>1
      <4>. QED
        BY <4>1, <4>2
    <3>. QED
      BY <3>1, <3>2
  <2>5. \A k \in 1 .. Len(pending) : pending[k] = r <=> k = i
    BY <1>2 DEF MirrorInv, MirrorWellFormed
  <2>6. MirrorInOrder'
    <3>1. ASSUME NEW j \in 1 .. Len(pending'), NEW l \in 1 .. Len(pending'), j < l
          PROVE  pending'[j] < pending'[l]
      <4>1. PICK k \in 1 .. Len(pending) :
               pending'[j] = pending[k] /\ k = IF j < i THEN j ELSE j + 1
        BY <2>3
      <4>2. PICK m \in 1 .. Len(pending) :
               pending'[l] = pending[m] /\ m = IF l < i THEN l ELSE l + 1
        BY <2>3
      <4>3. k < m
        BY <2>2, <3>1, <4>1, <4>2
      <4>. QED
        BY <4>1, <4>2, <4>3 DEF MirrorInOrder
    <3>. QED
      BY <3>1 DEF MirrorInOrder
  <2>7. ASSUME NEW x
        PROVE  InPending(x)' <=> InPending(x) /\ x # r
    BY <2>3, <2>4, <2>5 DEF InPending
  <2>. QED
    BY <2>6, <2>7
<1>. QED
  BY <1>1, <1>2 DEF Dequeue

\* Whom a handler that moves on in a cancellation concerns.
LEMMA CancellerMoves ==
    ASSUME TypeOK, NEW q \in Requests, NEW r, req[q].review = r, NEW m, Become(q, m),
           m.review = r \/ m.step \notin CancelSteps
    PROVE  /\ req'[q] = m /\ \A p \in Requests : p # q => req'[p] = req[p]
           /\ \A x : x # r => (BeingCancelled(x)' <=> BeingCancelled(x))
           /\ m.step \in CancelSteps => BeingCancelled(r)'
<1>1. req'[q] = m /\ \A p \in Requests : p # q => req'[p] = req[p]
  BY DEF Become, TypeOK, Clients
<1>. QED
  BY <1>1 DEF BeingCancelled, CancelSteps

\* A handler that takes its review out of the scheduler, reads it or writes it
\* keeps hold of it as long as the review is active.
LEMMA CancelKeepsHand ==
    ASSUME Known, Alone, NEW q \in Requests, NEW r \in Reviews, req[q].review = r,
           NEW m, Become(q, m), m.review = r \/ m.step \notin CancelSteps,
           req[q].step \in {"cancel", "joined", "cancelling"},
           m.step \notin {"extending", "extendingAgain"},
           UNCHANGED <<proc, worker, current, exec>>,
           Dequeue(r) \/ pending' = pending,
           ~InPending(r)',
           \A a \in Actors : ~stale'[a],
           \A x \in Reviews : x # r => state'[x] = state[x],
           state'[r] # "ABSENT",
           state'[r] \in {"QUEUED", "REVIEWING"} => m.step \in CancelSteps,
           m.step = "joining" => m.review = current /\ exec \in {"created", "calling"},
           cancelled' = cancelled \/ (cancelled' /\ m.step = "joining")
    PROVE  HandInv'
<1>1. TypeOK /\ MirrorInv /\ HandInv /\ Readings
  BY DEF Known, LedgerInv
<1>2. /\ req'[q] = m /\ \A p \in Requests : p # q => req'[p] = req[p]
      /\ \A x : x # r => (BeingCancelled(x)' <=> BeingCancelled(x))
      /\ m.step \in CancelSteps => BeingCancelled(r)'
  BY <1>1, CancellerMoves
<1>3. state[r] # "ABSENT"
  BY <1>1, RequestsNameRows DEF Clients
<1>4. /\ MirrorInOrder'
      /\ \A x : x # r => (InPending(x)' <=> InPending(x))
  <2>1. CASE Dequeue(r)
    BY <1>1, <2>1, DequeueFacts DEF HandInv
  <2>2. CASE pending' = pending
    BY <1>1, <2>2 DEF HandInv, MirrorInOrder, InPending
  <2>. QED
    BY <2>1, <2>2
<1>5. /\ ~InPending(r)'
      /\ \A x \in Reviews : x # r => state'[x] = state[x]
      /\ state'[r] # "ABSENT"
      /\ state'[r] \in {"QUEUED", "REVIEWING"} => BeingCancelled(r)'
  BY <1>2
<1>6. \A p \in Requests : p # q => (req'[p].step = "joining" <=> req[p].step = "joining")
  BY <1>2
<1>7. NothingStale'
  BY <1>1, <1>2 DEF HandInv, NothingStale
<1>8. IdsInOrder'
  <2>1. \A x \in Reviews : state'[x] = "ABSENT" <=> state[x] = "ABSENT"
    BY <1>3, <1>5
  <2>. QED
    BY <1>1, <2>1 DEF HandInv, IdsInOrder, TypeOK
<1>9. MirrorIsQueued'
  BY <1>1, <1>2, <1>4, <1>5 DEF HandInv, MirrorIsQueued
<1>10. JoinsWait'
  <2>1. \A p \in Requests : req'[p].step = "joining" =>
           req'[p].review = current /\ exec \notin {"none", "done", "aborted"}
    BY <1>1, <1>2 DEF HandInv, JoinsWait
  <2>2. CASE cancelled' = cancelled
    BY <1>1, <1>2, <2>1, <2>2 DEF HandInv, JoinsWait
  <2>3. CASE m.step = "joining"
    BY <1>1, <1>2, <2>1, <2>3 DEF HandInv, JoinsWait
  <2>. QED
    BY <2>2, <2>3
<1>11. QueuedInHand'
  BY <1>1, <1>2, <1>4, <1>5 DEF HandInv, QueuedInHand
<1>12. ReviewingInHand'
  BY <1>1, <1>2, <1>5 DEF HandInv, ReviewingInHand
<1>. QED
  BY <1>4, <1>7, <1>8, <1>9, <1>10, <1>11, <1>12 DEF HandInv

\* What a handler does with a row it has read.
LEMMA AfterReadSteps ==
    ASSUME TypeOK, NEW q \in Requests, NEW n
    PROVE  /\ AfterRead(q, n).step \in {"clearing", "idle", "cancelling"}
           /\ AfterRead(q, n).review = req[q].review \/ AfterRead(q, n).step = "idle"
           /\ state[req[q].review] \in {"QUEUED", "REVIEWING"} =>
                 AfterRead(q, n).step = "cancelling"
<1>1. req[q] \in RequestRecord
  BY DEF TypeOK, Clients
<1>2. CASE state[req[q].review] = "CANCELLED"
  <2>1. AfterRead(q, n) = [req[q] EXCEPT !.step = "clearing"]
    BY <1>2 DEF AfterRead
  <2>2. [req[q] EXCEPT !.step = "clearing"].step = "clearing"
        /\ [req[q] EXCEPT !.step = "clearing"].review = req[q].review
    BY <1>1 DEF RequestRecord
  <2>. QED
    BY <1>2, <2>1, <2>2
<1>3. CASE state[req[q].review] = "EXPIRED"
  <2>1. AfterRead(q, n) = IdleRequest
    BY <1>3 DEF AfterRead
  <2>. QED
    BY <1>3, <2>1 DEF IdleRequest
<1>4. CASE state[req[q].review] \notin {"CANCELLED", "EXPIRED"}
  <2>1. AfterRead(q, n) = [req[q] EXCEPT !.step = "cancelling", !.tries = n]
    BY <1>4 DEF AfterRead
  <2>2. [req[q] EXCEPT !.step = "cancelling", !.tries = n].step = "cancelling"
        /\ [req[q] EXCEPT !.step = "cancelling", !.tries = n].review = req[q].review
    BY <1>1 DEF RequestRecord
  <2>. QED
    BY <1>4, <2>1, <2>2
<1>. QED
  BY <1>2, <1>3, <1>4

\* DELETE /reviews/{id}, from the removal to the last save.
LEMMA CancellingHandlers ==
    ASSUME Known, Alone, NEW q \in Requests, CancelStep(q)
    PROVE  HandInv'
<1>1. TypeOK /\ MirrorInv /\ HandInv /\ Readings
  BY DEF Known, LedgerInv
<1>2. req[q] \in RequestRecord /\ q \in Actors /\ q # Runner
  BY <1>1, ActorsAssumption DEF TypeOK, Clients, Actors
<1>0. req[q].step \in {"cancel", "joined", "cancelling"} =>
         \E r \in Reviews : r = req[q].review /\ state[r] # "ABSENT"
  BY <1>1, RequestsNameRows DEF Clients
<1>3. CASE CancelRemove(q)
  <2>0. PICK r \in Reviews : r = req[q].review /\ state[r] # "ABSENT"
    BY <1>0, <1>3 DEF CancelRemove
  <2> DEFINE m == IF current # r THEN AfterRead(q, 1)
                  ELSE [req[q] EXCEPT !.step = IF Cancellable(r)
                                               THEN "joining" ELSE "joined"]
  <2>1. /\ Become(q, m) /\ req[q].step = "cancel" /\ Dequeue(r)
        /\ cancelled' = (cancelled \/ Cancellable(r))
        /\ UNCHANGED <<state, stale, proc, worker, current, exec>>
    BY <1>3, <2>0 DEF CancelRemove, ledger
  <2>2. /\ m.review = r \/ m.step \notin CancelSteps
        /\ m.step \notin {"extending", "extendingAgain"}
        /\ state[r] \in {"QUEUED", "REVIEWING"} => m.step \in CancelSteps
        /\ m.step = "joining" =>
              m.review = current /\ exec \in {"created", "calling"}
        /\ Cancellable(r) => m.step = "joining"
    <3>1. CASE current # r
      <4>1. m = AfterRead(q, 1)
        BY <3>1
      <4>. QED
        BY <1>1, <2>0, <3>1, <4>1, AfterReadSteps DEF Cancellable, CancelSteps
    <3>2. CASE current = r /\ Cancellable(r)
      <4>1. m = [req[q] EXCEPT !.step = "joining"]
        BY <3>2
      <4>2. m.step = "joining" /\ m.review = r
        BY <1>2, <2>0, <4>1 DEF RequestRecord
      <4>. QED
        BY <3>2, <4>2 DEF Cancellable, CancelSteps
    <3>3. CASE current = r /\ ~Cancellable(r)
      <4>1. m = [req[q] EXCEPT !.step = "joined"]
        BY <3>3
      <4>2. m.step = "joined" /\ m.review = r
        BY <1>2, <2>0, <4>1 DEF RequestRecord
      <4>. QED
        BY <3>3, <4>2 DEF CancelSteps
    <3>. QED
      BY <3>1, <3>2, <3>3
  <2>3. ~InPending(r)'
    BY <1>1, <2>1, DequeueFacts DEF HandInv
  <2>4. /\ \A a \in Actors : ~stale'[a]
        /\ \A x \in Reviews : x # r => state'[x] = state[x]
        /\ state'[r] # "ABSENT"
    BY <1>1, <2>0, <2>1 DEF HandInv, NothingStale
  <2> HIDE DEF m
  <2>5. cancelled' = cancelled \/ (cancelled' /\ m.step = "joining")
    <3>1. CASE Cancellable(r)
      BY <2>1, <2>2, <3>1
    <3>2. CASE ~Cancellable(r)
      BY <1>1, <2>1, <3>2 DEF TypeOK
    <3>. QED
      BY <3>1, <3>2
  <2>. QED
    BY <2>0, <2>1, <2>2, <2>3, <2>4, <2>5, CancelKeepsHand
<1>4. CASE CancelRead(q)
  <2>0. PICK r \in Reviews : r = req[q].review /\ state[r] # "ABSENT"
    BY <1>0, <1>4 DEF CancelRead
  <2> DEFINE m == AfterRead(q, 1)
  <2>1. /\ Become(q, m) /\ req[q].step = "joined"
        /\ UNCHANGED <<state, stale, proc, worker, pending, current, exec, cancelled>>
    BY <1>4 DEF CancelRead, ledger, scheduler, execution
  <2>2. /\ m.review = r \/ m.step \notin CancelSteps
        /\ m.step \notin {"extending", "extendingAgain", "joining"}
        /\ state[r] \in {"QUEUED", "REVIEWING"} => m.step \in CancelSteps
    BY <1>1, <2>0, AfterReadSteps DEF CancelSteps
  <2>4. ~InPending(r)'
    BY <1>1, <2>0, <2>1 DEF HandInv, MirrorIsQueued, BeingCancelled, InPending
  <2>5. \A a \in Actors : ~stale'[a]
    BY <1>1, <2>0, <2>1 DEF HandInv, NothingStale
  <2> HIDE DEF m
  <2>. QED
    BY <2>0, <2>1, <2>2, <2>4, <2>5, CancelKeepsHand
<1>5. CASE CancelSave(q)
  <2>0. PICK r \in Reviews : r = req[q].review /\ state[r] # "ABSENT"
    BY <1>0, <1>5 DEF CancelSave
  <2> DEFINE m == [req[q] EXCEPT !.step = "clearing"]
  <2>1. /\ Become(q, m) /\ req[q].step = "cancelling"
        /\ state' = [state EXCEPT ![r] = "CANCELLED"]
        /\ UNCHANGED <<proc, worker, pending, current, exec, cancelled>>
    BY <1>5, <2>0 DEF CancelSave, scheduler, execution
  <2>2. m.review = r /\ m.step = "clearing"
    BY <1>2, <2>0 DEF RequestRecord
  <2>4. ~InPending(r)'
    BY <1>1, <2>0, <2>1 DEF HandInv, MirrorIsQueued, BeingCancelled, InPending
  <2>5. \A a \in Actors : ~stale'[a]
    BY <1>1, <1>2, <1>5, SaveHarmsNobody
    DEF CancelSave, HandlerHoldsLoop, HandInv, Readings
  <2>6. /\ \A x \in Reviews : x # r => state'[x] = state[x]
        /\ state'[r] = "CANCELLED"
    BY <1>1, <2>0, <2>1 DEF TypeOK
  <2> HIDE DEF m
  <2>. QED
    BY <2>0, <2>1, <2>2, <2>4, <2>5, <2>6, CancelKeepsHand
<1>6. ~CancelConflict(q)
  BY <1>1, <1>2 DEF CancelConflict, HandInv, NothingStale
<1>7. CASE CancelClear(q)
  <2>1. /\ Become(q, IdleRequest) /\ req[q].step = "clearing"
        /\ UNCHANGED <<state, scheduler, execution, stale>>
    BY <1>7 DEF CancelClear
  <2>2. /\ \A x : BeingCancelled(x)' <=> BeingCancelled(x)
        /\ \A p \in Requests : req'[p].step = "joining" <=> req[p].step = "joining"
        /\ \A p \in Requests : req'[p].step = "joining" => req'[p] = req[p]
    BY <1>1, <2>1, OtherRequests DEF CancelSteps, IdleRequest
  <2>3. \A p \in Requests : req'[p].step \notin {"extending", "extendingAgain"}
    BY <1>1, <2>1 DEF Become, HandInv, NothingStale, TypeOK, Clients, IdleRequest
  <2>. QED
    BY <1>1, <2>1, <2>2, <2>3
    DEF HandInv, NothingStale, IdsInOrder, MirrorIsQueued, MirrorInOrder, JoinsWait,
        QueuedInHand, ReviewingInHand, InPending, scheduler, execution
<1>. QED
  BY <1>3, <1>4, <1>5, <1>6, <1>7 DEF CancelStep

-----------------------------------------------------------------------------
(* The steps of the execution task.                                         *)

\* An execution keeps everything in hand if it does not let go of its own review.
LEMMA ExecutionKeepsHand ==
    ASSUME Known, NEW r \in Reviews, current = r, exec \notin {"none", "done", "aborted"},
           UNCHANGED <<proc, worker, pending, current, cancelled>>,
           \/ req' = req /\ exec' \notin {"none", "done", "aborted"}
           \/ \E how \in {"done", "aborted"} : EndExecution(how),
           \A a \in Actors : ~stale'[a],
           \A x \in Reviews : x # r => state'[x] = state[x],
           state'[r] # "ABSENT",
           proc # "down" /\ worker = "running" /\ state'[r] = "QUEUED" =>
              \/ exec' \in {"created", "loaded"} \/ BeingCancelled(r)
              \/ proc = "stopping" /\ exec' = "aborted",
           proc = "up" /\ state'[r] = "REVIEWING" =>
              exec' \notin {"created", "loaded", "done", "aborted"} \/ BeingCancelled(r)
    PROVE  HandInv'
<1>1. TypeOK /\ MirrorInv /\ HandInv /\ Readings
  BY DEF Known, LedgerInv
<1>2. /\ \A x : BeingCancelled(x)' <=> BeingCancelled(x)
      /\ \A p \in Requests : req'[p].step = "joining" =>
            req'[p] = req[p] /\ exec' \notin {"none", "done", "aborted"}
      /\ \A p \in Requests : req'[p].step \notin {"extending", "extendingAgain"}
      /\ exec' \in {"done", "aborted"} \/ req' = req
      /\ exec' # "none"
  <2>1. CASE req' = req /\ exec' \notin {"none", "done", "aborted"}
    BY <1>1, <2>1 DEF BeingCancelled, HandInv, NothingStale
  <2>2. ASSUME NEW how \in {"done", "aborted"}, EndExecution(how)
        PROVE  <1>2!1 /\ <1>2!2 /\ <1>2!3 /\ <1>2!4 /\ <1>2!5
    <3>1. /\ \A x : BeingCancelled(x)' <=> BeingCancelled(x)
          /\ \A p \in Requests : req'[p].step # "joining"
          /\ \A p \in Requests :
                req'[p].step \in {"extending", "extendingAgain"} => req'[p].step = req[p].step
      BY <1>1, <2>2, EndedExecution
    <3>2. exec' = how
      BY <2>2 DEF EndExecution
    <3>. QED
      BY <1>1, <3>1, <3>2 DEF HandInv, NothingStale
  <2>. QED
    BY <2>1, <2>2
<1>3. \A x : InPending(x)' <=> InPending(x)
  BY DEF InPending
<1>4. ~InPending(r)
  BY <1>1, ReviewIds DEF MirrorInv, MirrorWellFormed
<1>5. NothingStale'
  BY <1>2 DEF NothingStale
<1>6. IdsInOrder'
  <2>1. \A x \in Reviews : state'[x] = "ABSENT" <=> state[x] = "ABSENT"
    BY <1>1, ReviewIds DEF HandInv, IdsInOrder
  <2>. QED
    BY <1>1, <2>1 DEF HandInv, IdsInOrder, TypeOK
<1>7. MirrorIsQueued'
  BY <1>1, <1>2, <1>3, <1>4 DEF HandInv, MirrorIsQueued
<1>8. MirrorInOrder'
  BY <1>1 DEF HandInv, MirrorInOrder
<1>9. JoinsWait'
  BY <1>1, <1>2 DEF HandInv, JoinsWait
<1>10. QueuedInHand'
  BY <1>1, <1>2, <1>3 DEF HandInv, QueuedInHand
<1>11. ReviewingInHand'
  BY <1>1, <1>2 DEF HandInv, ReviewingInHand
<1>. QED
  BY <1>5, <1>6, <1>7, <1>8, <1>9, <1>10, <1>11 DEF HandInv

\* What a serving process cancels, a handler waits for.
LEMMA CancelledIsBeingCancelled ==
    ASSUME JoinsWait, proc = "up", cancelled, exec \notin {"done", "aborted"},
           NEW r, current = r
    PROVE  BeingCancelled(r)
BY DEF JoinsWait, BeingCancelled

\* Each step of execute_review.
LEMMA ExecutionSteps ==
    ASSUME Known, Alone, Execute
    PROVE  HandInv'
<1>1. TypeOK /\ MirrorInv /\ HandInv /\ Readings /\ NothingStale /\ JoinsWait
  BY DEF Known, LedgerInv, HandInv
<1>2. Runner \in Actors
  BY DEF Actors
<1>3. exec # "none"
  BY DEF Execute, ExecAbort, ExecRead, ExecStart, ExecStartConflict, ProgressRead,
         ProgressSave, ProgressConflict, ExecCancelled, ExecAnswer, ExecFinish,
         ExecFinishConflict
<1>4. PICK r \in Reviews : current = r /\ state[r] # "ABSENT"
  BY <1>1, <1>3, ReviewIds DEF TypeOK, HandInv, IdsInOrder
<1>5. UNCHANGED <<proc, worker, pending, current, cancelled>>
  BY DEF Execute, ExecAbort, ExecRead, ExecStart, ExecStartConflict, ProgressRead,
         ProgressSave, ProgressConflict, ExecCancelled, ExecAnswer, ExecFinish,
         ExecFinishConflict, scheduler
<1>6. ~(ExecStartConflict \/ ProgressConflict \/ ExecFinishConflict)
  BY <1>1, <1>2 DEF NothingStale, ExecStartConflict, ProgressConflict, ExecFinishConflict
<1>7. \A a \in Actors : ~stale'[a]
  <2>1. CASE UNCHANGED stale
    BY <1>1, <2>1 DEF NothingStale
  <2>2. CASE ExecHoldsLoop /\ Save(Runner, {current})
    BY <1>1, <1>2, <2>2, SaveHarmsNobody DEF Readings
  <2>. QED
    BY <1>6, <2>1, <2>2
    DEF Execute, ExecAbort, ExecRead, ExecStart, ProgressRead, ProgressSave, ExecCancelled,
        ExecAnswer, ExecFinish, ExecHoldsLoop
<1>8. CASE ExecAbort
  <2>1. /\ exec = "created" /\ cancelled /\ EndExecution("aborted") /\ exec' = "aborted"
        /\ state' = state
    BY <1>8 DEF ExecAbort, EndExecution, ledger
  <2>2. proc = "up" => BeingCancelled(r)
    BY <1>1, <1>4, <2>1, CancelledIsBeingCancelled
  <2>3. proc \in {"up", "stopping", "down"}
    BY <1>1 DEF TypeOK
  <2>. QED
    BY <1>4, <1>5, <1>7, <2>1, <2>2, <2>3, ExecutionKeepsHand
<1>9. CASE ExecRead
  <2>1. exec = "created" /\ state' = state
    BY <1>9 DEF ExecRead, ledger
  <2>2. proc = "up" /\ state[r] = "REVIEWING" => BeingCancelled(r)
    BY <1>1, <1>4, <2>1 DEF HandInv, ReviewingInHand
  <2>3. CASE state[r] = "QUEUED"
    <3>1. exec' = "loaded" /\ req' = req
      BY <1>4, <1>9, <2>3 DEF ExecRead
    <3>. QED
      BY <1>4, <1>5, <1>7, <2>1, <2>2, <2>3, <3>1, ExecutionKeepsHand
  <2>4. CASE state[r] # "QUEUED"
    <3>1. EndExecution("done")
      BY <1>4, <1>9, <2>4 DEF ExecRead
    <3>. QED
      BY <1>4, <1>5, <1>7, <2>1, <2>2, <2>4, <3>1, ExecutionKeepsHand
  <2>. QED
    BY <2>3, <2>4
<1>10. CASE ExecStart
  <2>1. exec = "loaded"
    BY <1>10 DEF ExecStart
  <2>2. \/ /\ state' = [state EXCEPT ![r] = "REVIEWING"]
           /\ exec' = "calling" /\ req' = req
        \/ state' = [state EXCEPT ![r] = "FAILED"] /\ EndExecution("done")
    BY <1>4, <1>10 DEF ExecStart
  <2>3. /\ \A x \in Reviews : x # r => state'[x] = state[x]
        /\ \/ state'[r] = "REVIEWING" /\ exec' = "calling" /\ req' = req
           \/ state'[r] = "FAILED" /\ EndExecution("done")
    BY <1>1, <1>4, <2>2 DEF TypeOK
  <2>. QED
    BY <1>4, <1>5, <1>7, <2>1, <2>3, ExecutionKeepsHand
<1>11. CASE ProgressRead \/ ProgressSave
  <2>1. /\ exec \in {"calling", "recording", "recordingAgain"}
        /\ exec' \in {"recording", "calling"} /\ state' = state /\ req' = req
    BY <1>11 DEF ProgressRead, ProgressSave, ledger
  <2>2. state[r] = "REVIEWING"
    BY <1>1, <1>4, <2>1 DEF Readings, ExecutionReadsTrue, ExecutionOwnsReview
  <2>. QED
    BY <1>4, <1>5, <1>7, <2>1, <2>2, ExecutionKeepsHand
<1>12. CASE ExecCancelled
  <2>1. /\ exec = "calling" /\ cancelled /\ EndExecution("done") /\ state' = state
    BY <1>12 DEF ExecCancelled, ledger
  <2>2. proc = "up" => BeingCancelled(r)
    BY <1>1, <1>4, <2>1, CancelledIsBeingCancelled
  <2>3. state[r] = "REVIEWING"
    BY <1>1, <1>4, <2>1 DEF Readings, ExecutionReadsTrue, ExecutionOwnsReview
  <2>. QED
    BY <1>4, <1>5, <1>7, <2>1, <2>2, <2>3, ExecutionKeepsHand
<1>13. ASSUME NEW o \in Outcomes, ExecAnswer(o)
       PROVE  HandInv'
  <2>1. exec = "calling" /\ state' = state
    BY <1>13 DEF ExecAnswer, ledger
  <2>2. state[r] = "REVIEWING"
    BY <1>1, <1>4, <2>1 DEF Readings, ExecutionReadsTrue, ExecutionOwnsReview
  <2>3. exec' = "answered" /\ req' = req
    BY <1>4, <1>13, <2>2 DEF ExecAnswer
  <2>. QED
    BY <1>4, <1>5, <1>7, <2>1, <2>2, <2>3, ExecutionKeepsHand
<1>14. CASE ExecFinish
  <2>1. /\ exec = "answered" /\ EndExecution("done")
        /\ \E last \in {"COMPLETED", "FAILED"} : state' = [state EXCEPT ![r] = last]
    BY <1>4, <1>14 DEF ExecFinish
  <2>2. /\ \A x \in Reviews : x # r => state'[x] = state[x]
        /\ state'[r] \in {"COMPLETED", "FAILED"}
    BY <1>1, <1>4, <2>1 DEF TypeOK
  <2>. QED
    BY <1>4, <1>5, <1>7, <2>1, <2>2, ExecutionKeepsHand
<1>. QED
  BY <1>6, <1>8, <1>9, <1>10, <1>11, <1>12, <1>13, <1>14 DEF Execute

-----------------------------------------------------------------------------
(* The worker and the process.                                              *)

\* What the worker takes from the mirror is QUEUED and the oldest.
LEMMA HeadFacts ==
    ASSUME TypeOK, MirrorInv, HandInv, Dispatch
    PROVE  /\ exec = "none" /\ ~cancelled /\ \A q \in Requests : req[q].step # "joining"
           /\ Head(pending) \in Reviews /\ state[Head(pending)] = "QUEUED"
           /\ current' = Head(pending) /\ exec' = "created"
           /\ \A x : InPending(x) => x = Head(pending) \/ (Head(pending) < x /\ InPending(x)')
           /\ \A x : InPending(x)' => InPending(x)
           /\ MirrorInOrder'
<1>1. exec = "none" /\ ~cancelled /\ \A q \in Requests : req[q].step # "joining"
  <2>1. exec = "none"
    BY ReviewIds DEF TypeOK, Dispatch
  <2>. QED
    BY <2>1 DEF HandInv, JoinsWait
<1>2. pending \in Seq(Reviews) /\ pending # <<>> /\ pending' = Tail(pending)
  BY DEF TypeOK, Dispatch
<1>3. /\ Len(pending) \in Nat /\ Len(pending') = Len(pending) - 1
      /\ Head(pending) \in Reviews /\ Head(pending) = pending[1]
      /\ \A i \in 1 .. Len(pending') : pending'[i] = pending[i + 1]
  BY <1>2, HeadTailProperties, LenProperties
<1>4. 1 \in 1 .. Len(pending)
  BY <1>2, <1>3, EmptySeq
<1>5. \A i \in 1 .. Len(pending) : 
         \/ i = 1
         \/ i - 1 \in 1 .. Len(pending') /\ 1 < i /\ pending'[i - 1] = pending[i]
  <2>1. TAKE i \in 1 .. Len(pending)
  <2>2. CASE i # 1
    <3>1. i - 1 \in 1 .. Len(pending') /\ 1 < i /\ (i - 1) + 1 = i
      BY <1>3, <2>2
    <3>. QED
      BY <1>3, <3>1
  <2>. QED
    BY <2>2
<1>6. \A i \in 1 .. Len(pending') : i + 1 \in 1 .. Len(pending)
  BY <1>3
<1>7. state[Head(pending)] = "QUEUED"
  BY <1>3, <1>4 DEF HandInv, MirrorIsQueued, InPending
<1>8. current' = Head(pending) /\ exec' = "created"
  BY <1>7 DEF Dispatch
<1>9. \A x : InPending(x) => x = Head(pending) \/ (Head(pending) < x /\ InPending(x)')
  BY <1>3, <1>4, <1>5 DEF InPending, HandInv, MirrorInOrder
<1>10. \A x : InPending(x)' => InPending(x)
  BY <1>3, <1>6 DEF InPending
<1>11. MirrorInOrder'
  <2>1. ASSUME NEW i \in 1 .. Len(pending'), NEW j \in 1 .. Len(pending'), i < j
        PROVE  pending'[i] < pending'[j]
    <3>1. pending[i + 1] < pending[j + 1]
      BY <1>6, <2>1 DEF HandInv, MirrorInOrder
    <3>. QED
      BY <1>3, <3>1
  <2>. QED
    BY <2>1 DEF MirrorInOrder
<1>. QED
  BY <1>1, <1>3, <1>7, <1>8, <1>9, <1>10, <1>11

\* The worker takes the oldest review and goes on to the next one.
LEMMA WorkerKeepsHand ==
    ASSUME Known, Dispatch \/ WorkerResume
    PROVE  HandInv'
<1>1. TypeOK /\ MirrorInv /\ HandInv
  BY DEF Known, LedgerInv
<1>2. UNCHANGED <<state, proc, req, stale>>
  BY DEF Dispatch, WorkerResume, ledger
<1>3. \A x : BeingCancelled(x)' <=> BeingCancelled(x)
  BY <1>2 DEF BeingCancelled
<1>4. NothingStale'
  BY <1>1, <1>2 DEF HandInv, NothingStale
<1>5. CASE Dispatch
  <2>1. /\ exec = "none" /\ ~cancelled /\ \A q \in Requests : req[q].step # "joining"
        /\ Head(pending) \in Reviews /\ state[Head(pending)] = "QUEUED"
        /\ current' = Head(pending) /\ exec' = "created"
        /\ \A x : InPending(x) => x = Head(pending) \/ InPending(x)'
        /\ \A x : InPending(x)' => InPending(x)
        /\ MirrorInOrder'
    BY <1>1, <1>5, HeadFacts
  <2>2. worker' = worker /\ cancelled' = cancelled /\ current = NoReview
    BY <1>5 DEF Dispatch
  <2>3. IdsInOrder'
    BY <1>1, <1>2, <2>1 DEF HandInv, IdsInOrder
  <2>4. MirrorIsQueued'
    BY <1>1, <1>2, <1>3, <2>1 DEF HandInv, MirrorIsQueued
  <2>5. JoinsWait'
    BY <1>1, <1>2, <2>1, <2>2 DEF HandInv, JoinsWait
  <2>6. QueuedInHand'
    BY <1>1, <1>2, <1>3, <2>1, <2>2, ReviewIds DEF HandInv, QueuedInHand
  <2>7. ReviewingInHand'
    BY <1>1, <1>2, <1>3, <2>1, <2>2, ReviewIds DEF HandInv, ReviewingInHand
  <2>. QED
    BY <1>4, <2>1, <2>3, <2>4, <2>5, <2>6, <2>7 DEF HandInv
<1>6. CASE WorkerResume
  <2>1. /\ exec \in {"done", "aborted"} /\ exec' = "none" /\ current' = NoReview
        /\ ~cancelled' /\ pending' = pending
        /\ worker' = IF WorkerStops THEN "ended" ELSE worker
    BY <1>6 DEF WorkerResume
  <2>2. \A x : InPending(x)' <=> InPending(x)
    BY <2>1 DEF InPending
  <2>3. IdsInOrder'
    BY <1>1, <1>2, <2>1 DEF HandInv, IdsInOrder
  <2>4. MirrorIsQueued'
    BY <1>1, <1>2, <1>3, <2>2 DEF HandInv, MirrorIsQueued
  <2>5. MirrorInOrder'
    BY <1>1, <2>1 DEF HandInv, MirrorInOrder
  <2>6. JoinsWait'
    BY <1>1, <1>2, <2>1 DEF HandInv, JoinsWait, WorkerStops
  <2>7. QueuedInHand'
    BY <1>1, <1>2, <1>3, <2>1, <2>2 DEF HandInv, QueuedInHand, WorkerStops
  <2>8. ReviewingInHand'
    BY <1>1, <1>2, <1>3, <2>1 DEF HandInv, ReviewingInHand
  <2>. QED
    BY <1>4, <2>3, <2>4, <2>5, <2>6, <2>7, <2>8 DEF HandInv
<1>. QED
  BY <1>5, <1>6

\* Start-up enqueues exactly the rows it leaves QUEUED, oldest first.
LEMMA StartupFacts ==
    ASSUME NEW n \in Capacities, Startup(n)
    PROVE  /\ MirrorInOrder'
           /\ \A x \in Reviews : InPending(x)' <=> state'[x] = "QUEUED"
           /\ \A x \in Reviews : state'[x] # "REVIEWING"
           /\ \A x \in Reviews : state'[x] = "ABSENT" <=> state[x] = "ABSENT"
<1> DEFINE kept == Queued \ Overflow(n)
           c == Cardinality(kept)
<1>1. kept \in SUBSET Reviews /\ IsFiniteSet(kept) /\ c \in Nat
  BY RowsAreFinite DEF Queued
<1>2. PICK order \in [1 .. c -> kept] :
         /\ \A i, j \in DOMAIN order : i < j => order[i] < order[j]
         /\ pending' = order
  BY DEF Startup
<1>3. /\ \A x \in Reviews : state'[x] = "QUEUED" <=> x \in kept
      /\ \A x \in Reviews : state'[x] # "REVIEWING"
      /\ \A x \in Reviews : state'[x] = "ABSENT" <=> state[x] = "ABSENT"
  BY DEF Startup, Reviewing, Overflow, Queued
<1>4. /\ Len(pending') = c
      /\ \A i, j \in 1 .. Len(pending') : pending'[i] = pending'[j] => i = j
  BY StartupKeepsPlaces
<1> HIDE DEF kept, c
<1>5. DOMAIN order = 1 .. c /\ \A i \in 1 .. c : order[i] \in kept
  BY <1>2
<1>6. MirrorInOrder'
  BY <1>2, <1>4, <1>5 DEF MirrorInOrder
<1>7. order \in Surjection(1 .. c, kept)
  <2>1. order \in Injection(1 .. c, kept)
    BY <1>2, <1>4 DEF Injection, IsInjective
  <2>2. Cardinality(1 .. c) = c
    BY <1>1, FS_Interval
  <2>3. Cardinality(1 .. c) = Cardinality(kept)
    BY <2>2 DEF c
  <2>. QED
    BY <1>1, <2>1, <2>3, FS_Injection
<1>8. \A x \in Reviews : InPending(x)' <=> x \in kept
  <2>1. \A x \in kept : \E i \in 1 .. c : order[i] = x
    BY <1>7 DEF Surjection
  <2>. QED
    BY <1>2, <1>4, <1>5, <2>1 DEF InPending
<1>. QED
  BY <1>3, <1>6, <1>8

\* Recovery takes every QUEUED row in hand and leaves none REVIEWING.
LEMMA StartupKeepsHand ==
    ASSUME Known, NEW n \in Capacities, Startup(n)
    PROVE  HandInv'
<1>1. TypeOK /\ MirrorInv /\ HandInv /\ Readings
  BY DEF Known, LedgerInv
<1>2. /\ exec = "none" /\ ~cancelled /\ current = NoReview
      /\ \A q \in Requests : req[q].step = "idle"
  BY <1>1 DEF Startup, MirrorInv, HandInv, JoinsWait, Readings, DownIsQuiet, IdleRequest,
              Clients
<1>3. /\ UNCHANGED <<exec, cancelled, current, req, stale>>
      /\ proc' = "up" /\ worker' = "running"
  BY DEF Startup, execution
<1>4. /\ MirrorInOrder'
      /\ \A x \in Reviews : InPending(x)' <=> state'[x] = "QUEUED"
      /\ \A x \in Reviews : state'[x] # "REVIEWING"
      /\ \A x \in Reviews : state'[x] = "ABSENT" <=> state[x] = "ABSENT"
  BY StartupFacts
<1>5. NothingStale'
  BY <1>1, <1>3 DEF HandInv, NothingStale
<1>6. IdsInOrder'
  BY <1>1, <1>2, <1>3, <1>4 DEF HandInv, IdsInOrder
<1>7. MirrorIsQueued'
  BY <1>2, <1>3, <1>4 DEF MirrorIsQueued, BeingCancelled
<1>8. JoinsWait'
  BY <1>2, <1>3 DEF JoinsWait
<1>9. QueuedInHand' /\ ReviewingInHand'
  BY <1>4 DEF QueuedInHand, ReviewingInHand
<1>. QED
  BY <1>4, <1>5, <1>6, <1>7, <1>8, <1>9 DEF HandInv

\* A process that is gone has nothing in hand, and one that is told to stop
\* keeps what its worker will still take.
LEMMA StoppingKeepsHand ==
    ASSUME Known, Alone, ShutdownBegin \/ ShutdownEnd \/ Crash \/ Kill
    PROVE  HandInv'
<1>1. TypeOK /\ HandInv
  BY DEF Known, LedgerInv
<1>2. CASE ShutdownBegin
  <2>1. /\ \A q \in Requests : req[q].step = "idle"
        /\ UNCHANGED <<state, pending, current, exec, req, stale>>
        /\ proc = "up" /\ proc' = "stopping"
        /\ worker' = "running" => exec \notin {"none", "done", "aborted"}
        /\ exec = "none" => cancelled' = cancelled
    BY <1>1, <1>2 DEF ShutdownBegin, Clients, ledger, TypeOK
  <2>2. worker = "running"
    BY <1>1, <2>1 DEF HandInv, JoinsWait
  <2>. QED
    BY <1>1, <2>1, <2>2
    DEF HandInv, NothingStale, IdsInOrder, MirrorIsQueued, MirrorInOrder, JoinsWait,
        QueuedInHand, ReviewingInHand, InPending, BeingCancelled
<1>3. CASE ShutdownEnd \/ Crash \/ Kill
  <2>1. Halt /\ \A x \in Reviews : state'[x] = "ABSENT" <=> state[x] = "ABSENT"
    BY <1>3 DEF ShutdownEnd, Crash, Kill, Reviewing, ledger
  <2>2. /\ proc' = "down" /\ pending' = <<>> /\ current' = NoReview
        /\ exec' = "none" /\ ~cancelled'
        /\ \A q \in Requests : req'[q].step = "idle"
        /\ \A a \in Actors : ~stale'[a]
    BY <2>1 DEF Halt, Clients, IdleRequest
  <2>3. Len(pending') = 0 /\ \A x : ~InPending(x)'
    BY <2>2 DEF InPending
  <2>4. MirrorInOrder' /\ MirrorIsQueued'
    BY <2>3 DEF MirrorInOrder, MirrorIsQueued
  <2>5. NothingStale' /\ IdsInOrder' /\ JoinsWait'
    BY <1>1, <2>1, <2>2 DEF HandInv, NothingStale, IdsInOrder, JoinsWait
  <2>6. QueuedInHand' /\ ReviewingInHand'
    BY <2>2 DEF QueuedInHand, ReviewingInHand
  <2>. QED
    BY <2>4, <2>5, <2>6 DEF HandInv
<1>. QED
  BY <1>2, <1>3

-----------------------------------------------------------------------------
(* The three properties.                                                    *)

\* A fresh process has nothing to take in hand.
LEMMA InitHand == Init => HandInv
<1>. SUFFICES ASSUME Init PROVE HandInv
  OBVIOUS
<1>1. /\ \A x \in Reviews : state[x] = "ABSENT"
      /\ \A q \in Requests : req[q].step = "idle"
      /\ Len(pending) = 0
  BY DEF Init, Lifecycle!LifecycleInit, Clients, IdleRequest
<1>. QED
  BY <1>1 DEF Init, HandInv, NothingStale, IdsInOrder, MirrorIsQueued, MirrorInOrder,
              JoinsWait, QueuedInHand, ReviewingInHand, InPending

\* Every step keeps what is in hand.
LEMMA NextHand ==
    ASSUME Known, Alone, [Next]_vars
    PROVE  HandInv'
<1>1. ASSUME NEW q \in Requests,
             \/ StartConflict(q) \/ RetryReject(q)
             \/ \E s \in Sessions : StartRead(q, s)
             \/ \E r \in Reviews : RetryResolve(q, r) \/ CancelResolve(q, r)
      PROVE  HandInv'
  BY <1>1, ReadingHandlers
<1>2. ASSUME NEW q \in Requests, StartCommit(q) \/ RetryCommit(q)
      PROVE  HandInv'
  BY <1>2, AcceptingHandlers
<1>3. ASSUME NEW q \in Requests, CancelStep(q)
      PROVE  HandInv'
  BY <1>3, CancellingHandlers
<1>4. CASE Execute
  BY <1>4, ExecutionSteps
<1>5. CASE Dispatch \/ WorkerResume
  BY <1>5, WorkerKeepsHand
<1>6. ASSUME NEW n \in Capacities, Startup(n)
      PROVE  HandInv'
  BY <1>6, StartupKeepsHand
<1>7. CASE ShutdownBegin \/ ShutdownEnd \/ Crash \/ Kill
  BY <1>7, StoppingKeepsHand
<1>8. ~Extend /\ ~\E r \in Reviews : Replay(r)
  BY DEF Alone, Extend, Replay
<1>9. CASE UNCHANGED vars
  BY <1>9 DEF Known, HandInv, NothingStale, IdsInOrder, MirrorIsQueued, MirrorInOrder,
              JoinsWait, QueuedInHand, ReviewingInHand, InPending, BeingCancelled, vars,
              ledger, scheduler, execution
<1>. QED
  BY <1>1, <1>2, <1>3, <1>4, <1>5, <1>6, <1>7, <1>8, <1>9 DEF Next, Start, Retry, Cancel

\* All that is known holds in every state.
LEMMA KnownInvariance == Alone => (Spec => []Known)
<1>. SUFFICES ASSUME Alone PROVE Spec => []Known
  OBVIOUS
<1>1. Init => Known
  <2>. SUFFICES ASSUME Init PROVE PlacesInv
    BY InitLedgerInv, InitMirror, InitHand DEF Known
  <2>1. Queued = {} /\ Cardinality(Queued) = 0
    BY FS_EmptySet DEF Init, Lifecycle!LifecycleInit, Queued
  <2>. QED
    BY <2>1, BoundsAssumption, InitTypeOK DEF PlacesInv, QueuedWithinCapacity, Init, Clients,
                                              IdleRequest
<1>2. Known /\ [Next]_vars => Known'
  <2>1. LedgerInv /\ [Next]_vars => LedgerInv'
    BY NextTypeOK, NextReadings, NextFollowsLifecycle, LifecycleKeepsOneActive DEF LedgerInv
  <2>. QED
    BY <2>1, NextMirror, NextPlaces, NextHand DEF Known
<1>. QED
  BY <1>1, <1>2, PTL DEF Spec

\* Without threads and lapsed keys, a serving process has every active review in
\* hand, whatever is started, retried, cancelled, lost and recovered.
THEOREM ActiveStaysInHand == Alone => (Spec => []ActiveIsInHand)
<1>. SUFFICES ASSUME Alone PROVE Spec => []ActiveIsInHand
  OBVIOUS
<1>1. Known => ActiveIsInHand
  BY DEF Known, HandInv, JoinsWait, QueuedInHand, ReviewingInHand, ActiveIsInHand
<1>. QED
  BY KnownInvariance, <1>1, PTL

\* Only the handlers of starts and retries add rows.
LEMMA RowsAreAccepted ==
    ASSUME Known, Alone, Next, NEW x \in Reviews, state[x] = "ABSENT", state'[x] # "ABSENT"
    PROVE  \E q \in Requests : StartCommit(q) \/ RetryCommit(q)
<1>1. TypeOK /\ HandInv /\ Readings
  BY DEF Known, LedgerInv
<1>2. ASSUME NEW q \in Requests,
             \/ StartConflict(q) \/ RetryReject(q) \/ CancelStep(q)
             \/ \E s \in Sessions : StartRead(q, s)
             \/ \E r \in Reviews : RetryResolve(q, r) \/ CancelResolve(q, r)
      PROVE  FALSE
  <2>1. CASE CancelSave(q)
    <3>1. state[req[q].review] # "ABSENT"
      BY <1>1, <2>1, RequestsNameRows DEF CancelSave, Clients
    <3>. QED
      BY <1>1, <2>1, <3>1 DEF CancelSave, TypeOK
  <2>2. CASE ~CancelSave(q)
    BY <1>2, <2>2 DEF StartConflict, RetryReject, CancelStep, StartRead, RetryResolve,
                      CancelResolve, CancelRemove, CancelRead, CancelConflict, CancelClear,
                      ledger
  <2>. QED
    BY <2>1, <2>2
<1>3. CASE Execute
  <2>1. UNCHANGED state \/ (exec # "none" /\ \E to : state' = [state EXCEPT ![current] = to])
    BY <1>3 DEF Execute, ExecAbort, ExecRead, ExecStart, ExecStartConflict, ProgressRead,
                ProgressSave, ProgressConflict, ExecCancelled, ExecAnswer, ExecFinish,
                ExecFinishConflict, ledger
  <2>2. exec # "none" => state[current] # "ABSENT"
    BY <1>1, ReviewIds DEF TypeOK, HandInv, IdsInOrder
  <2>. QED
    BY <1>1, <2>1, <2>2 DEF TypeOK
<1>4. CASE \/ Dispatch \/ WorkerResume \/ ShutdownBegin \/ ShutdownEnd \/ Crash \/ Kill
           \/ \E n \in Capacities : Startup(n)
  BY <1>4 DEF Dispatch, WorkerResume, ShutdownBegin, ShutdownEnd, Crash, Kill, Startup,
              Reviewing, Overflow, Queued, ledger
<1>5. ~Extend /\ ~\E r \in Reviews : Replay(r)
  BY DEF Alone, Extend, Replay
<1>. QED
  BY <1>2, <1>3, <1>4, <1>5 DEF Next, Start, Retry, Cancel

\* An accepted review always finds its place in the mirror.
THEOREM AcceptedFindsPlace == Alone => (Spec => AcceptedIsMirrored)
<1>. SUFFICES ASSUME Alone PROVE Spec => AcceptedIsMirrored
  OBVIOUS
<1>1. ASSUME Known, Next, NEW x \in Reviews, state[x] = "ABSENT", state'[x] # "ABSENT"
      PROVE  \E i \in 1 .. Len(pending') : pending'[i] = x
  <2>1. TypeOK /\ MirrorInv /\ HandInv /\ Readings /\ PlacesInv
    BY <1>1 DEF Known, LedgerInv
  <2>2. PICK q \in Requests : StartCommit(q) \/ RetryCommit(q)
    BY <1>1, RowsAreAccepted
  <2>3. Cardinality(Queued) < capacity
    BY <2>1, <2>2 DEF StartCommit, RetryCommit, RetryAllowed, Admits, PlacesInv
  <2>4. PICK r \in Reviews :
           IsNextId(r) /\ \E s, expired : /\ Accept(r, s, expired)
                                         /\ \A y \in expired : state[y] # "ABSENT"
    <3>1. CASE StartCommit(q)
      <4>1. \A y \in Unexpired(req[q].session) : state[y] # "ABSENT"
        BY <2>1, <3>1, SessionsAssumption
        DEF StartCommit, Unexpired, OfSession, Readings, RequestsReadTrue, RowsAreOwned
      <4>. QED
        BY <3>1, <4>1 DEF StartCommit
    <3>2. CASE RetryCommit(q)
      BY <3>2 DEF RetryCommit
    <3>. QED
      BY <2>2, <3>1, <3>2
  <2>5. x = r /\ pending' = Append(pending, r)
    <3>1. PICK s, expired : Accept(r, s, expired) /\ \A y \in expired : state[y] # "ABSENT"
      BY <2>4
    <3>2. x = r
      BY <1>1, <3>1 DEF Accept
    <3>. QED
      BY <2>1, <2>3, <2>4, <3>1, <3>2, AcceptedHasPlace
  <2>6. Len(pending) + 1 \in 1 .. Len(pending') /\ pending'[Len(pending) + 1] = r
    BY <2>1, <2>5, AppendedEntry
  <2>. QED
    BY <2>5, <2>6
<1>2. Known /\ [Next]_vars =>
        [\A r \in Reviews : state[r] = "ABSENT" /\ state'[r] # "ABSENT" =>
            \E i \in 1 .. Len(pending') : pending'[i] = r]_vars
  BY <1>1
<1>. QED
  BY KnownInvariance, <1>2, PTL DEF AcceptedIsMirrored, Spec

\* Reviews start in the order in which they were accepted.
THEOREM StartsAreInOrder == Alone => (Spec => StartsInOrder)
<1>. SUFFICES ASSUME Alone PROVE Spec => StartsInOrder
  OBVIOUS
<1>1. ASSUME Next, exec = "none", exec' = "created"
      PROVE  Dispatch
  BY <1>1 DEF Next, Start, Retry, Cancel, CancelStep, Extend, ExtendStep, Execute,
              StartRead, StartCommit, StartConflict, Replay, RetryResolve, RetryCommit,
              RetryReject, CancelResolve, CancelRemove, CancelRead, CancelSave,
              CancelConflict, CancelClear, ExtendRead, ExtendSave, ExtendReread, ExtendFail,
              WorkerResume, ExecAbort, ExecRead, ExecStart, ExecStartConflict,
              ProgressRead, ProgressSave, ProgressConflict, ExecCancelled, ExecAnswer,
              ExecFinish, ExecFinishConflict, Startup, ShutdownBegin, ShutdownEnd, Crash,
              Kill, Halt, execution
<1>2. ASSUME Known, Dispatch, NEW r \in Queued, r < current'
      PROVE  BeingCancelled(r)
  <2>1. TypeOK /\ MirrorInv /\ HandInv
    BY <1>2 DEF Known, LedgerInv
  <2>2. /\ r \in Reviews /\ r \in Nat /\ state[r] = "QUEUED" /\ r # NoReview
        /\ current = NoReview /\ worker = "running" /\ proc # "down"
    BY <1>2, ReviewIds DEF Queued, Dispatch
  <2>3. InPending(r) \/ BeingCancelled(r)
    BY <2>1, <2>2 DEF HandInv, QueuedInHand
  <2>4. /\ current' = Head(pending) /\ Head(pending) \in Nat
        /\ InPending(r) => r = Head(pending) \/ Head(pending) < r
    BY <1>2, <2>1, HeadFacts, ReviewIds
  <2>. QED
    BY <1>2, <2>2, <2>3, <2>4
<1>3. Known /\ [Next]_vars =>
        [exec = "none" /\ exec' = "created" =>
            \A r \in Queued : r < current' => BeingCancelled(r)]_vars
  BY <1>1, <1>2
<1>. QED
  BY KnownInvariance, <1>3, PTL DEF StartsInOrder, Spec

=============================================================================
