--------------------------- MODULE FifoGateProofs ---------------------------
(***************************************************************************)
(* What holds of FifoGate for every number of requests, slots and places.  *)
(***************************************************************************)
EXTENDS FifoGate, TLAPS, FiniteSetTheorems, SequenceTheorems

\* A sequence without its i-th element: the others keep their order.
LEMMA RemoveAtProperties ==
    ASSUME NEW S, NEW s \in Seq(S), NEW i \in 1 .. Len(s)
    PROVE  /\ RemoveAt(s, i) \in Seq(S) /\ Len(RemoveAt(s, i)) = Len(s) - 1
           /\ \A j \in 1 .. Len(s) - 1 :
                 RemoveAt(s, i)[j] = IF j < i THEN s[j] ELSE s[j + 1]
<1> DEFINE u == SubSeq(s, 1, i - 1)
           v == SubSeq(s, i + 1, Len(s))
           t == RemoveAt(s, i)
<1>1. i \in Nat /\ Len(s) \in Nat /\ 1 <= i /\ i <= Len(s)
  BY LenProperties
<1>2. \A j \in 1 .. Len(s) : s[j] \in S
  BY ElementOfSeq
<1>3. /\ u \in Seq(S) /\ Len(u) = i - 1
      /\ \A j \in 1 .. i - 1 : u[j] = s[j]
  BY <1>1, <1>2, SubSeqProperties
<1>4. /\ v \in Seq(S) /\ Len(v) = Len(s) - i
      /\ \A j \in 1 .. Len(s) - i : v[j] = s[i + j]
  BY <1>1, <1>2, SubSeqProperties
<1>5. t = u \o v
  BY DEF RemoveAt
<1> HIDE DEF u, v, t
<1>6. /\ t \in Seq(S) /\ Len(t) = Len(u) + Len(v)
      /\ \A j \in 1 .. Len(u) + Len(v) :
            t[j] = IF j <= Len(u) THEN u[j] ELSE v[j - Len(u)]
  BY <1>3, <1>4, <1>5, ConcatProperties
<1>7. Len(u) + Len(v) = Len(s) - 1
  BY <1>1, <1>3, <1>4
<1>8. ASSUME NEW j \in 1 .. Len(s) - 1
      PROVE  t[j] = IF j < i THEN s[j] ELSE s[j + 1]
  <2>0. t[j] = IF j <= i - 1 THEN u[j] ELSE v[j - (i - 1)]
    BY <1>3, <1>6, <1>7
  <2>1. CASE j < i
    <3>1. j <= i - 1 /\ j \in 1 .. i - 1
      BY <1>1, <2>1
    <3>. QED  BY <1>3, <2>0, <2>1, <3>1
  <2>2. CASE j >= i
    <3> DEFINE n == j - (i - 1)
    <3>1. ~(j <= i - 1) /\ n \in 1 .. Len(s) - i /\ i + n = j + 1 /\ ~(j < i)
      BY <1>1, <2>2
    <3> HIDE DEF n
    <3>2. v[n] = s[i + n]
      BY <1>4, <3>1
    <3>3. t[j] = v[n]
      BY <2>0, <3>1 DEF n
    <3>. QED  BY <3>1, <3>2, <3>3
  <2>. QED  BY <1>1, <2>1, <2>2
<1>. QED  BY <1>6, <1>7, <1>8 DEF t

\* The requests in the body can be counted.
LEMMA HoldersAreFinite == IsFiniteSet(Holders) /\ Cardinality(Holders) \in Nat
BY ClientsAssumption, FS_Subset, FS_CardinalityType DEF Holders

\* A request that enters the body is counted once.
LEMMA OneHolderMore ==
    ASSUME TypeOK, NEW c \in Clients, pc[c] # "holding", Goto(c, "holding")
    PROVE  /\ Holders' = Holders \cup {c}
           /\ Cardinality(Holders') = Cardinality(Holders) + 1
<1>1. Holders' = Holders \cup {c} /\ c \notin Holders
  BY DEF TypeOK, Goto, Holders
<1>. QED  BY <1>1, HoldersAreFinite, FS_AddElement

\* A request that leaves the body is uncounted once.
LEMMA OneHolderLess ==
    ASSUME TypeOK, NEW c \in Clients, pc[c] = "holding", Goto(c, "out")
    PROVE  /\ Holders' = Holders \ {c}
           /\ Cardinality(Holders') = Cardinality(Holders) - 1
<1>1. Holders' = Holders \ {c} /\ c \in Holders
  BY DEF TypeOK, Goto, Holders
<1>. QED  BY <1>1, HoldersAreFinite, FS_RemoveElement

\* Other moves leave the body as it is.
LEMMA SameHolders ==
    ASSUME TypeOK, NEW c \in Clients, NEW p, pc[c] # "holding", p # "holding",
           Goto(c, p)
    PROVE  Holders' = Holders
BY DEF TypeOK, Goto, Holders

-----------------------------------------------------------------------------
(* The invariant                                                            *)

\* A new gate is well formed.
LEMMA InitGateInv == Init => GateInv
<1> SUFFICES ASSUME Init PROVE GateInv
  OBVIOUS
<1>1. Holders = {}
  BY DEF Init, Holders
<1>2. TypeOK /\ WaitersAreQueued
  BY PolicyAssumption DEF Init, TypeOK, Places, WaitersAreQueued
<1>3. SlotsAreCounted
  BY <1>1, FS_EmptySet, PolicyAssumption DEF Init, SlotsAreCounted
<1>. QED  BY <1>2, <1>3 DEF GateInv

\* The places in the queue stay those of the waiting requests, once each.
LEMMA NextWaitersAreQueued ==
    ASSUME GateInv, NEW c \in Clients,
           \/ Enter(c) \/ Wait(c) \/ Refuse(c) \/ Admit(c) \/ SleepAgain(c)
           \/ TimeOut(c) \/ BeCancelled(c) \/ Release(c)
    PROVE  WaitersAreQueued' /\ TypeOK'
<1> USE DEF GateInv, TypeOK, WaitersAreQueued, Goto
<1>0. Len(waiters) \in Nat /\ \A i \in 1 .. Len(waiters) : waiters[i] \in Clients
  BY LenProperties, ElementOfSeq
<1>1. CASE Enter(c)
  BY <1>1 DEF Enter, Places
<1>2. CASE Wait(c)
  <2>1. /\ waiters' \in Seq(Clients) /\ Len(waiters') = Len(waiters) + 1
        /\ \A i \in 1 .. Len(waiters) : waiters'[i] = waiters[i]
        /\ waiters'[Len(waiters) + 1] = c
    BY <1>2, AppendProperties DEF Wait
  <2>2. \A i \in 1 .. Len(waiters) : waiters[i] # c
    BY <1>2 DEF Wait
  <2>3. Len(waiters') <= QueueCapacity
    BY <1>0, <1>2, <2>1, PolicyAssumption DEF Wait, RoomToWait
  <2>4. \A i, j \in 1 .. Len(waiters') : waiters'[i] = waiters'[j] => i = j
    BY <1>0, <2>1, <2>2
  <2>5. pc' = [pc EXCEPT ![c] = "waiting"] /\ notified' = notified /\ active' = active
    BY <1>2 DEF Wait
  <2>6. \A x \in Clients :
           pc'[x] = "waiting" <=> \E i \in 1 .. Len(waiters') : waiters'[i] = x
    <3>1. ASSUME NEW x \in Clients, x # c
          PROVE  (\E i \in 1 .. Len(waiters') : waiters'[i] = x)
                    <=> \E i \in 1 .. Len(waiters) : waiters[i] = x
      BY <1>0, <2>1, <3>1
    <3>2. Len(waiters') \in 1 .. Len(waiters') /\ waiters'[Len(waiters')] = c
      BY <1>0, <2>1
    <3>. QED  BY <2>5, <3>1, <3>2
  <2>. QED  BY <2>1, <2>3, <2>4, <2>5, <2>6 DEF Places
<1>3. CASE Refuse(c)
  BY <1>3 DEF Refuse, Places
<1>4. CASE Admit(c)
  <2>1. waiters # <<>> /\ Head(waiters) = c /\ waiters' = Tail(waiters)
    BY <1>4 DEF Admit, MyTurn
  <2>2. /\ waiters' \in Seq(Clients) /\ Len(waiters') = Len(waiters) - 1
        /\ \A i \in 1 .. Len(waiters') : waiters'[i] = waiters[i + 1]
        /\ Len(waiters) > 0 /\ waiters[1] = c
    BY <1>0, <2>1, HeadTailProperties, EmptySeq
  <2>3. \A i \in 1 .. Len(waiters') : waiters'[i] # c
    BY <1>0, <2>2
  <2>4. Len(waiters') <= QueueCapacity
    BY <1>0, <2>2, PolicyAssumption
  <2>5. \A i, j \in 1 .. Len(waiters') : waiters'[i] = waiters'[j] => i = j
    BY <1>0, <2>2
  <2>6. /\ pc' = [pc EXCEPT ![c] = "holding"] /\ notified' = notified \ {c}
        /\ active' = active + 1
    BY <1>4 DEF Admit
  <2>7. ASSUME NEW x \in Clients, x # c
        PROVE  (\E i \in 1 .. Len(waiters) : waiters[i] = x)
                  <=> \E i \in 1 .. Len(waiters') : waiters'[i] = x
    <3>1. ASSUME NEW i \in 1 .. Len(waiters), waiters[i] = x
          PROVE  i - 1 \in 1 .. Len(waiters') /\ waiters'[i - 1] = x
      BY <1>0, <2>2, <2>7, <3>1
    <3>2. ASSUME NEW i \in 1 .. Len(waiters'), waiters'[i] = x
          PROVE  i + 1 \in 1 .. Len(waiters) /\ waiters[i + 1] = x
      BY <1>0, <2>2, <3>2
    <3>. QED  BY <3>1, <3>2
  <2>8. \A x \in Clients :
           pc'[x] = "waiting" <=> \E i \in 1 .. Len(waiters') : waiters'[i] = x
    BY <2>3, <2>6, <2>7
  <2>9. TypeOK'
    BY <2>2, <2>6 DEF Places
  <2>10. \A x \in notified' : pc'[x] = "waiting"
    BY <2>6
  <2>. QED  BY <2>2, <2>4, <2>5, <2>8, <2>9, <2>10
<1>5. CASE SleepAgain(c)
  BY <1>5 DEF SleepAgain
<1>6. ASSUME NEW p \in {"out", "refused"}, GiveUp(c, p)
      PROVE  WaitersAreQueued' /\ TypeOK'
  <2>1. PICK k \in 1 .. Len(waiters) :
           /\ waiters[k] = c
           /\ waiters' = RemoveAt(waiters, k)
    BY <1>6 DEF GiveUp
  <2>2. /\ waiters' \in Seq(Clients) /\ Len(waiters') = Len(waiters) - 1
        /\ \A j \in 1 .. Len(waiters') :
              waiters'[j] = IF j < k THEN waiters[j] ELSE waiters[j + 1]
    <3>1. /\ RemoveAt(waiters, k) \in Seq(Clients)
          /\ Len(RemoveAt(waiters, k)) = Len(waiters) - 1
          /\ \A j \in 1 .. Len(waiters) - 1 :
                RemoveAt(waiters, k)[j] = IF j < k THEN waiters[j] ELSE waiters[j + 1]
      <4>1. waiters \in Seq(Clients)
        OBVIOUS
      <4> HIDE DEF GateInv, TypeOK, WaitersAreQueued, Goto
      <4>. QED  BY <4>1, RemoveAtProperties, Zenon
    <3>2. waiters' = RemoveAt(waiters, k) /\ Len(waiters') = Len(waiters) - 1
      BY <2>1, <3>1
    <3> HIDE DEF GateInv, TypeOK, WaitersAreQueued, Goto
    <3>. QED  BY <3>1, <3>2
  <2>3. \A j \in 1 .. Len(waiters') : waiters'[j] # c
    BY <1>0, <2>1, <2>2
  <2>4. \A i, j \in 1 .. Len(waiters') : waiters'[i] = waiters'[j] => i = j
    BY <1>0, <2>1, <2>2
  <2>5. /\ pc' = [pc EXCEPT ![c] = p] /\ active' = active
        /\ notified' = {x \in Clients : pc[x] = "waiting"} \ {c}
    BY <1>6 DEF GiveUp, NotifyAll
  <2>6. ASSUME NEW x \in Clients, x # c
        PROVE  (\E i \in 1 .. Len(waiters) : waiters[i] = x)
                  <=> \E i \in 1 .. Len(waiters') : waiters'[i] = x
    <3>1. ASSUME NEW i \in 1 .. Len(waiters), waiters[i] = x
          PROVE  \E j \in 1 .. Len(waiters') : waiters'[j] = x
      <4>1. CASE i < k
        <5>1. i \in 1 .. Len(waiters')
          BY <1>0, <2>2, <4>1
        <5>2. waiters'[i] = x
          BY <2>2, <3>1, <4>1, <5>1
        <5>. QED  BY <5>1, <5>2
      <4>2. CASE i > k
        <5>1. i - 1 \in 1 .. Len(waiters') /\ ~(i - 1 < k) /\ (i - 1) + 1 = i
          BY <1>0, <2>1, <2>2, <4>2
        <5>2. waiters'[i - 1] = waiters[(i - 1) + 1]
          BY <2>2, <5>1
        <5>. QED  BY <3>1, <5>1, <5>2
      <4>3. CASE i = k
        BY <2>1, <2>6, <3>1, <4>3
      <4>. QED  BY <1>0, <4>1, <4>2, <4>3
    <3>2. ASSUME NEW j \in 1 .. Len(waiters'), waiters'[j] = x
          PROVE  \E i \in 1 .. Len(waiters) : waiters[i] = x
      BY <1>0, <2>1, <2>2, <3>2
    <3>. QED  BY <3>1, <3>2
  <2>7. \A x \in Clients :
           pc'[x] = "waiting" <=> \E i \in 1 .. Len(waiters') : waiters'[i] = x
    BY <2>3, <2>5, <2>6
  <2>8. Len(waiters') <= QueueCapacity
    BY <1>0, <2>2, PolicyAssumption
  <2>. QED  BY <2>2, <2>4, <2>5, <2>7, <2>8 DEF Places
<1>7. CASE Release(c)
  <2>1. active - 1 \in Nat
    <3>1. Holders' = Holders \ {c} /\ c \in Holders
      BY <1>7 DEF Release, Holders
    <3>2. Cardinality(Holders) # 0
      BY <3>1, HoldersAreFinite, FS_EmptySet
    <3>. QED  BY <3>2, HoldersAreFinite DEF SlotsAreCounted
  <2>. QED  BY <1>7, <2>1 DEF Release, NotifyAll, SlotsLeft, Places
<1>. QED  BY <1>1, <1>2, <1>3, <1>4, <1>5, <1>6, <1>7 DEF TimeOut, BeCancelled

\* The counter stays the number of requests in the body.
LEMMA NextSlotsAreCounted ==
    ASSUME GateInv, NEW c \in Clients,
           \/ Enter(c) \/ Wait(c) \/ Refuse(c) \/ Admit(c) \/ SleepAgain(c)
           \/ TimeOut(c) \/ BeCancelled(c) \/ Release(c)
    PROVE  SlotsAreCounted'
<1> USE DEF GateInv, SlotsAreCounted
<1>1. CASE Enter(c)
  BY <1>1, OneHolderMore, HoldersAreFinite, PolicyAssumption DEF Enter, FreeAtOnce
<1>2. CASE Admit(c)
  <2>1. pc[c] = "waiting"
    BY <1>2 DEF Admit, WaitersAreQueued
  <2>. QED  BY <1>2, <2>1, OneHolderMore, HoldersAreFinite, PolicyAssumption
            DEF Admit, MyTurn
<1>3. CASE Release(c)
  BY <1>3, OneHolderLess, HoldersAreFinite, PolicyAssumption DEF Release, SlotsLeft
<1>4. CASE Wait(c)
  BY <1>4, SameHolders DEF Wait
<1>5. CASE Refuse(c)
  BY <1>5, SameHolders DEF Refuse
<1>6. CASE SleepAgain(c)
  BY <1>6 DEF SleepAgain, Holders
<1>7. CASE TimeOut(c)
  BY <1>7, SameHolders DEF TimeOut, GiveUp
<1>8. CASE BeCancelled(c)
  BY <1>8, SameHolders DEF BeCancelled, GiveUp
<1>. QED  BY <1>1, <1>2, <1>3, <1>4, <1>5, <1>6, <1>7, <1>8

\* Every step keeps the gate well formed.
LEMMA NextGateInv == GateInv /\ [Next]_vars => GateInv'
<1> SUFFICES ASSUME GateInv, [Next]_vars PROVE GateInv'
  OBVIOUS
<1>1. CASE Next
  BY <1>1, NextWaitersAreQueued, NextSlotsAreCounted DEF Next, GateInv
<1>2. CASE UNCHANGED vars
  BY <1>2 DEF vars, GateInv, TypeOK, SlotsAreCounted, WaitersAreQueued, Holders
<1>. QED  BY <1>1, <1>2

\* No path through timeout, cancellation or error loses a slot or a place.
THEOREM GateInvariance == Spec => []GateInv
BY InitGateInv, NextGateInv, PTL DEF Spec

-----------------------------------------------------------------------------
(* Wake-ups                                                                 *)

\* With one slot, a step that leaves a free slot and a waiter has notified it.
LEMMA NextNoLostWakeUp ==
    ASSUME Concurrency = 1, GateInv, GateInv', NoLostWakeUp, [Next]_vars
    PROVE  NoLostWakeUp'
<1> SUFFICES ASSUME waiters' # <<>>, active' < Concurrency
             PROVE  Head(waiters') \in notified'
  BY DEF NoLostWakeUp
<1>0. /\ active \in Nat /\ active' = 0 /\ waiters' \in Seq(Clients)
      /\ Len(waiters') > 0 /\ Head(waiters') = waiters'[1]
  BY LenProperties, EmptySeq, HeadTailProperties DEF GateInv, TypeOK
<1>1. pc'[Head(waiters')] = "waiting" /\ Head(waiters') \in Clients
  BY <1>0, ElementOfSeq, LenProperties DEF GateInv, WaitersAreQueued
<1>2. ASSUME NEW c \in Clients, Enter(c) \/ Admit(c)
      PROVE  FALSE
  BY <1>0, <1>2 DEF Enter, Admit
<1>3. ASSUME NEW c \in Clients, Wait(c)
      PROVE  Head(waiters') \in notified'
  <2>1. waiters # <<>> /\ active < Concurrency
    BY <1>0, <1>3 DEF Wait, FreeAtOnce
  <2>2. Head(waiters') = Head(waiters)
    BY <1>3, <2>1, AppendProperties, LenProperties, EmptySeq
       DEF Wait, GateInv, TypeOK
  <2>. QED  BY <1>3, <2>1, <2>2 DEF Wait, NoLostWakeUp
<1>4. ASSUME NEW c \in Clients, Refuse(c)
      PROVE  Head(waiters') \in notified'
  BY <1>4 DEF Refuse, NoLostWakeUp
<1>5. ASSUME NEW c \in Clients, SleepAgain(c)
      PROVE  Head(waiters') \in notified'
  BY <1>5 DEF SleepAgain, MyTurn, NoLostWakeUp
<1>6. ASSUME NEW c \in Clients, NEW p \in {"out", "refused"}, GiveUp(c, p)
      PROVE  Head(waiters') \in notified'
  BY <1>1, <1>6 DEF GiveUp, Goto, NotifyAll, GateInv, TypeOK
<1>7. ASSUME NEW c \in Clients, Release(c)
      PROVE  Head(waiters') \in notified'
  BY <1>1, <1>7 DEF Release, Goto, NotifyAll, GateInv, TypeOK
<1>8. CASE UNCHANGED vars
  BY <1>8 DEF vars, NoLostWakeUp
<1>. QED  BY <1>2, <1>3, <1>4, <1>5, <1>6, <1>7, <1>8
          DEF Next, TimeOut, BeCancelled

\* As deployed, with one slot, no wake-up is lost, whatever the order in which
\* the notified tasks run.
THEOREM WakeUpsArrive == Concurrency = 1 => (Spec => []NoLostWakeUp)
<1> SUFFICES ASSUME Concurrency = 1 PROVE Spec => []NoLostWakeUp
  OBVIOUS
<1>1. Init => NoLostWakeUp
  BY DEF Init, NoLostWakeUp
<1>2. GateInv /\ GateInv' /\ NoLostWakeUp /\ [Next]_vars => NoLostWakeUp'
  BY NextNoLostWakeUp
<1>. QED  BY <1>1, <1>2, GateInvariance, PTL DEF Spec

-----------------------------------------------------------------------------
(* The gate implements the resource                                         *)

\* Every step of the gate is a step of the resource, or leaves it alone.
LEMMA NextServesInOrder ==
    GateInv /\ [Next]_vars => [Resource!ResourceNext]_(Resource!resource)
<1> SUFFICES ASSUME GateInv, [Next]_vars
             PROVE  \/ Resource!ResourceNext
                    \/ Holders' = Holders /\ waiters' = waiters
  BY DEF Resource!resource
<1> USE DEF GateInv
<1>0. \A c \in Clients : c \in Holders <=> pc[c] = "holding"
  BY DEF Holders
<1>1. \A c \in Clients : Resource!Queued(c) <=> pc[c] = "waiting"
  BY DEF Resource!Queued, WaitersAreQueued
<1>2. Resource!FreeSlot <=> active < Concurrency
  <2>1. Resource!Cardinality(Holders) = Cardinality(Holders)
    BY DEF Resource!Cardinality, Cardinality
  <2>. QED  BY <2>1 DEF Resource!FreeSlot, SlotsAreCounted
<1>3. ASSUME NEW c \in Clients, Enter(c)
      PROVE  Resource!TakeSlot(c)
  BY <1>0, <1>1, <1>2, <1>3, OneHolderMore
     DEF Enter, FreeAtOnce, Resource!TakeSlot, Resource!Outside
<1>4. ASSUME NEW c \in Clients, Wait(c)
      PROVE  Resource!JoinQueue(c)
  BY <1>0, <1>1, <1>4, SameHolders
     DEF Wait, RoomToWait, Resource!JoinQueue, Resource!Outside
<1>5. ASSUME NEW c \in Clients, Refuse(c)
      PROVE  Holders' = Holders /\ waiters' = waiters
  BY <1>5, SameHolders DEF Refuse
<1>6. ASSUME NEW c \in Clients, Admit(c)
      PROVE  Resource!ServeFirst
  <2>1. pc[c] = "waiting"
    BY <1>6 DEF Admit, WaitersAreQueued
  <2>. QED  BY <1>2, <1>6, <2>1, OneHolderMore DEF Admit, MyTurn, Resource!ServeFirst
<1>7. ASSUME NEW c \in Clients, SleepAgain(c)
      PROVE  Holders' = Holders /\ waiters' = waiters
  BY <1>7 DEF SleepAgain, Holders
<1>8. ASSUME NEW c \in Clients, NEW p \in {"out", "refused"}, GiveUp(c, p)
      PROVE  Resource!LeaveQueue(c)
  BY <1>8, SameHolders DEF GiveUp, RemoveAt, Resource!LeaveQueue, Resource!RemoveAt
<1>9. ASSUME NEW c \in Clients, Release(c)
      PROVE  Resource!GiveBack(c)
  BY <1>0, <1>9, OneHolderLess DEF Release, Resource!GiveBack
<1>10. CASE UNCHANGED vars
  BY <1>10 DEF vars, Holders
<1>. QED  BY <1>3, <1>4, <1>5, <1>6, <1>7, <1>8, <1>9, <1>10
          DEF Next, TimeOut, BeCancelled, Resource!ResourceNext

\* The gate implements a bounded resource that serves in the order of arrival.
THEOREM GateRefinement == Spec => ServesInOrder
<1>1. Init => Resource!ResourceInit
  BY DEF Init, Resource!ResourceInit, Holders
<1>. QED  BY <1>1, NextServesInOrder, GateInvariance, PTL
          DEF Spec, ServesInOrder, Resource!ResourceSpec

=============================================================================
