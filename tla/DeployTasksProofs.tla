------------------------- MODULE DeployTasksProofs -------------------------
(***************************************************************************)
(* What the deployment tasks promise of the Pods, the binding, the secrets *)
(* and the files, for any operators, any number of Pods and keys and any   *)
(* number of processes that stop: first what a step may write (the lemmas  *)
(* in -Run and -Step), then what a task holds at each of its steps (Shaped,*)
(* NumbersFit), that it works alone (Alone), that what it remembers is what*)
(* is there (Fits), and what follows from these.                           *)
(***************************************************************************)
EXTENDS DeployTasks, FiniteSetTheorems, TLAPS

-----------------------------------------------------------------------------
(* The types of what a task holds.                                          *)

PodsOfKinds == [Kinds -> 0 .. MaxPods]
KeysOfKinds == [Kinds -> 0 .. MaxKeys]
PodKeys == [Kinds -> [1 .. MaxPods -> 0 .. MaxKeys]]
Snapshots == [podKey : PodKeys, binding : PodsOfKinds,
              secret : KeysOfKinds, file : KeysOfKinds, stacks : SUBSET Stacks]

Steps == {"idle", "lock", "unlink", "keys", "foundation", "address", "pods", "sync",
          "bind", "service", "install", "record", "discover", "stage", "promote",
          "reapply", "discard", "file", "retire", "undoSecret", "undoBinding",
          "undoReapply", "undoPods", "deleteRecorded", "deleteNamed",
          "destroyStacks", "clear", "blank", "bootstrap", "purge"}

Runs ==
    [task : Held \cup {"none"}, step : Steps, target : SUBSET Kinds, left : SUBSET Kinds,
     values : KeysOfKinds, recorded : PodsOfKinds, found : PodsOfKinds,
     candidate : PodsOfKinds, previous : PodsOfKinds, boundBefore : PodsOfKinds,
     keyBefore : 0 .. MaxKeys, newStacks : SUBSET {"Service", "Foundation"},
     changed : BOOLEAN, promoted : BOOLEAN, unread : BOOLEAN,
     before : {<<>>} \cup Snapshots]

Typed ==
    /\ TypeOK /\ op \in [Operators -> Runs] /\ drawn \in KeysOfKinds
    /\ applied \in [Kinds -> [pod : 0 .. MaxPods, key : 0 .. MaxKeys]]

\* Which task runs and what it found when it took the lock.
SameTask(s, r) == /\ s.task = r.task /\ s.target = r.target
                  /\ s.recorded = r.recorded /\ s.before = r.before
SameKeys(s, r) == s.values = r.values /\ s.keyBefore = r.keyBefore
SamePods(s, r) == /\ s.found = r.found /\ s.candidate = r.candidate
                  /\ s.previous = r.previous
SameMarks(s, r) == /\ s.boundBefore = r.boundBefore /\ s.newStacks = r.newStacks
                   /\ s.changed = r.changed /\ s.promoted = r.promoted
                   /\ s.unread = r.unread

\* All of a run but how far it is.
Kept(s, r) == SameTask(s, r) /\ SameKeys(s, r) /\ SamePods(s, r) /\ SameMarks(s, r)

-----------------------------------------------------------------------------
(* What the helpers return.                                                 *)

LEMMA KindsInOrder ==
    \A K \in SUBSET Kinds : /\ First(K) \in Kinds /\ Last(K) \in Kinds
                            /\ K # {} => First(K) \in K /\ Last(K) \in K
  BY DEF First, Last, Kinds

LEMMA BlankIsTyped ==
    /\ NoTask \in Runs /\ None \in PodsOfKinds /\ None \in KeysOfKinds
    /\ [k \in Kinds |-> NotApplied] \in [Kinds -> [pod : 0 .. MaxPods, key : 0 .. MaxKeys]]
<1>1. None \in PodsOfKinds /\ None \in KeysOfKinds
  BY BoundsAssumption DEF None, PodsOfKinds, KeysOfKinds
<1>2. NoTask \in Runs
  BY <1>1, BoundsAssumption DEF NoTask, Runs, Steps, Held
<1>. QED
  BY <1>1, <1>2, BoundsAssumption DEF NotApplied

\* Of the Pods of a kind, a task finds one that exists, or none.
LEMMA CurrentIsAlive ==
    ASSUME NEW k \in Kinds
    PROVE  IF Alive(k) = {} THEN Current(k) = 0 ELSE Current(k) \in Alive(k)
  BY DEF Current

LEMMA CurrentIsTyped ==
    \A k \in Kinds : Current(k) \in 0 .. MaxPods
  BY CurrentIsAlive, BoundsAssumption DEF Alive

LEMMA AliveIsFinite ==
    \A k \in Kinds : IsFiniteSet(Alive(k)) /\ Cardinality(Alive(k)) \in Nat
<1>. SUFFICES ASSUME NEW k \in Kinds
              PROVE  IsFiniteSet(Alive(k)) /\ Cardinality(Alive(k)) \in Nat
  OBVIOUS
<1>1. IsFiniteSet(1 .. MaxPods)
  BY FS_Interval, BoundsAssumption
<1>2. Alive(k) \in SUBSET (1 .. MaxPods)
  BY DEF Alive
<1>. QED
  BY <1>1, <1>2, FS_Subset, FS_CardinalityType

\* Two Pods of a kind are what status calls an error.
LEMMA OnePodIsCurrent ==
    ASSUME NEW k \in Kinds, ~Ambiguous(k)
    PROVE  Alive(k) \subseteq {Current(k)}
<1>. SUFFICES ASSUME NEW p \in Alive(k), p # Current(k) PROVE FALSE
  OBVIOUS
<1>1. Current(k) \in Alive(k)
  BY CurrentIsAlive
<1>2. IsFiniteSet({p}) /\ Cardinality({p}) = 1
  BY FS_Singleton
<1>3. IsFiniteSet({p} \cup {Current(k)}) /\ Cardinality({p} \cup {Current(k)}) = 2
  BY <1>2, FS_AddElement
<1>4. {p} \cup {Current(k)} \in SUBSET Alive(k)
  BY <1>1
<1>5. Cardinality({p} \cup {Current(k)}) <= Cardinality(Alive(k))
  BY <1>4, AliveIsFinite, FS_Subset
<1>. QED
  BY <1>3, <1>5, AliveIsFinite DEF Ambiguous

\* As many Pods as before, or fewer.
LEMMA FewerPods ==
    ASSUME NEW k \in Kinds, Alive(k)' \subseteq Alive(k)
    PROVE  Cardinality(Alive(k)') <= Cardinality(Alive(k))
  BY AliveIsFinite, FS_Subset

LEMMA OnePodMore ==
    ASSUME NEW k \in Kinds, NEW p, Alive(k)' \subseteq Alive(k) \cup {p}
    PROVE  Cardinality(Alive(k)') <= Cardinality(Alive(k)) + 1
<1>0. IsFiniteSet(Alive(k)) /\ Cardinality(Alive(k)) \in Nat
  BY AliveIsFinite
<1>. DEFINE n == Cardinality(Alive(k))
<1>1. /\ IsFiniteSet(Alive(k) \cup {p})
      /\ Cardinality(Alive(k) \cup {p}) \in {n, n + 1}
  BY <1>0, FS_AddElement
<1>2. IsFiniteSet(Alive(k)') /\ Cardinality(Alive(k)') <= Cardinality(Alive(k) \cup {p})
  BY <1>1, FS_Subset
<1>3. Cardinality(Alive(k)') \in Nat /\ Cardinality(Alive(k) \cup {p}) \in Nat
  BY <1>1, <1>2, FS_CardinalityType
<1>. QED
  BY <1>0, <1>1, <1>2, <1>3

-----------------------------------------------------------------------------
(* Steps of a run.                                                          *)

LEMMA BecomeRun ==
    ASSUME op \in [Operators -> Runs], NEW o \in Operators, NEW r, Become(o, r)
    PROVE  /\ op'[o] = r /\ \A x \in Operators \ {o} : op'[x] = op[x]
           /\ r \in Runs => op' \in [Operators -> Runs]
  BY DEF Become

LEMMA GoOverRun ==
    ASSUME op \in [Operators -> Runs], NEW o \in Operators, NEW step, NEW K,
           GoOver(o, step, K)
    PROVE  /\ Kept(op'[o], op[o]) /\ op'[o].step = step /\ op'[o].left = K
           /\ \A x \in Operators \ {o} : op'[x] = op[x]
           /\ step \in Steps /\ K \in SUBSET Kinds => op' \in [Operators -> Runs]
<1>. DEFINE r == [op[o] EXCEPT !.step = step, !.left = K]
<1>1. Become(o, r)
  BY DEF GoOver
<1>2. Kept(r, op[o]) /\ r.step = step /\ r.left = K
  BY DEF Runs, Kept, SameTask, SameKeys, SamePods, SameMarks
<1>3. step \in Steps /\ K \in SUBSET Kinds => r \in Runs
  BY DEF Runs
<1>. HIDE DEF r
<1>. QED
  BY <1>1, <1>2, <1>3, BecomeRun

LEMMA GoRun ==
    ASSUME op \in [Operators -> Runs], NEW o \in Operators, NEW step, Go(o, step)
    PROVE  /\ Kept(op'[o], op[o]) /\ op'[o].step = step /\ op'[o].left = op[o].left
           /\ \A x \in Operators \ {o} : op'[x] = op[x]
           /\ step \in Steps => op' \in [Operators -> Runs]
<1>. DEFINE r == [op[o] EXCEPT !.step = step]
<1>1. Become(o, r)
  BY DEF Go
<1>2. Kept(r, op[o]) /\ r.step = step /\ r.left = op[o].left
  BY DEF Runs, Kept, SameTask, SameKeys, SamePods, SameMarks
<1>3. step \in Steps => r \in Runs
  BY DEF Runs
<1>. HIDE DEF r
<1>. QED
  BY <1>1, <1>2, <1>3, BecomeRun

LEMMA ReleaseRun ==
    ASSUME op \in [Operators -> Runs], NEW o \in Operators, Release(o)
    PROVE  /\ op'[o] = NoTask /\ lock' = Nobody
           /\ \A x \in Operators \ {o} : op'[x] = op[x]
           /\ op' \in [Operators -> Runs]
  BY BecomeRun, BlankIsTyped DEF Release

LEMMA HavePodRun ==
    ASSUME op \in [Operators -> Runs], NEW o \in Operators, NEW k, NEW r \in Runs,
           HavePod(o, k, r)
    PROVE  /\ Kept(op'[o], r)
           /\ op'[o].left = IF op[o].left \ {k} = {} /\ op[o].task = "ensure" THEN Kinds
                            ELSE op[o].left \ {k}
           /\ op'[o].step = IF op[o].left \ {k} = {} THEN NextAfterPods(op[o].task)
                            ELSE "pods"
           /\ \A x \in Operators \ {o} : op'[x] = op[x]
           /\ op' \in [Operators -> Runs]
<1>. DEFINE left == IF op[o].left \ {k} = {} /\ op[o].task = "ensure" THEN Kinds
                    ELSE op[o].left \ {k}
            step == IF op[o].left \ {k} = {} THEN NextAfterPods(op[o].task) ELSE "pods"
            s == [r EXCEPT !.left = left, !.step = step]
<1>1. Become(o, s)
  BY DEF HavePod
<1>2. op[o].left \in SUBSET Kinds
  BY DEF Runs
<1>3. left \in SUBSET Kinds /\ step \in Steps
  BY <1>2 DEF NextAfterPods, Steps
<1>. HIDE DEF left, step
<1>4. Kept(s, r) /\ s.left = left /\ s.step = step
  BY DEF Runs, Kept, SameTask, SameKeys, SamePods, SameMarks
<1>5. s \in Runs
  BY <1>3 DEF Runs
<1>. HIDE DEF s
<1>6. /\ op'[o] = s /\ \A x \in Operators \ {o} : op'[x] = op[x]
      /\ op' \in [Operators -> Runs]
  BY <1>1, <1>5, BecomeRun
<1>. QED
  BY <1>4, <1>6 DEF left, step

LEMMA ReusePodRun ==
    ASSUME op \in [Operators -> Runs], NEW o \in Operators, ReusePod(o)
    PROVE  LET k == First(op[o].left)  r == op[o]  s == op'[o] IN
           /\ r.task = "ensure" /\ r.step = "pods" /\ Cardinality(Alive(k)) = 1
           /\ podKey[k][Current(k)] = r.values[k]
           /\ SameTask(s, r) /\ SameKeys(s, r) /\ SameMarks(s, r)
           /\ s.found = [r.found EXCEPT ![k] = Current(k)]
           /\ s.candidate = r.candidate /\ s.previous = r.previous
           /\ s.left = IF r.left \ {k} = {} THEN Kinds ELSE r.left \ {k}
           /\ s.step = IF r.left \ {k} = {} THEN "sync" ELSE "pods"
           /\ \A x \in Operators \ {o} : op'[x] = op[x]
           /\ op' \in [Operators -> Runs]
<1>. DEFINE k == First(op[o].left)  t == [op[o] EXCEPT !.found[k] = Current(k)]
<1>1. k \in Kinds
  BY KindsInOrder DEF Runs
<1>2. op[o].found \in PodsOfKinds
  BY DEF Runs
<1>3. [op[o].found EXCEPT ![k] = Current(k)] \in PodsOfKinds
  BY <1>1, <1>2, CurrentIsTyped DEF PodsOfKinds
<1>4. t \in Runs
  BY <1>3 DEF Runs
<1>7. /\ SameTask(t, op[o]) /\ SameKeys(t, op[o]) /\ SameMarks(t, op[o])
      /\ t.found = [op[o].found EXCEPT ![k] = Current(k)]
      /\ t.candidate = op[o].candidate /\ t.previous = op[o].previous
  BY DEF Runs, SameTask, SameKeys, SameMarks
<1>5. HavePod(o, k, t) /\ AtStep(o, "ensure", "pods") /\ Cardinality(Alive(k)) = 1
      /\ podKey[k][Current(k)] = op[o].values[k]
  BY DEF ReusePod
<1>. HIDE DEF k, t
<1>6. /\ Kept(op'[o], t)
      /\ op'[o].left = IF op[o].left \ {k} = {} THEN Kinds ELSE op[o].left \ {k}
      /\ op'[o].step = IF op[o].left \ {k} = {} THEN "sync" ELSE "pods"
      /\ \A x \in Operators \ {o} : op'[x] = op[x]
      /\ op' \in [Operators -> Runs]
  BY <1>4, <1>5, HavePodRun DEF AtStep, NextAfterPods
<1>. QED
  BY <1>5, <1>6, <1>7 DEF k, AtStep, Kept, SameTask, SameKeys, SamePods, SameMarks

LEMMA CreatePodRun ==
    ASSUME op \in [Operators -> Runs], made \in PodsOfKinds, NEW o \in Operators,
           CreatePod(o)
    PROVE  LET k == First(op[o].left)  p == made[k] + 1  r == op[o]  s == op'[o] IN
           /\ r.step = "pods" /\ p \in 1 .. MaxPods /\ r.values[k] # 0
           /\ IF r.task = "ensure" THEN Alive(k) = {} ELSE ~Ambiguous(k)
           /\ SameTask(s, r) /\ SameKeys(s, r) /\ SameMarks(s, r)
           /\ s.found = r.found /\ s.candidate = [r.candidate EXCEPT ![k] = p]
           /\ s.previous = [r.previous EXCEPT ![k] = Current(k)]
           /\ s.left = IF r.left \ {k} = {} /\ r.task = "ensure" THEN Kinds ELSE r.left \ {k}
           /\ s.step = IF r.left \ {k} = {} THEN NextAfterPods(r.task) ELSE "pods"
           /\ \A x \in Operators \ {o} : op'[x] = op[x]
           /\ op' \in [Operators -> Runs]
<1>. DEFINE k == First(op[o].left)  p == made[k] + 1
            t == [op[o] EXCEPT !.candidate[k] = p, !.previous[k] = Current(k)]
<1>1. k \in Kinds
  BY KindsInOrder DEF Runs
<1>2. op[o].candidate \in PodsOfKinds /\ op[o].previous \in PodsOfKinds
  BY DEF Runs
<1>3. p \in 1 .. MaxPods
  BY <1>1, BoundsAssumption DEF CreatePod, PodsOfKinds
<1>4. HavePod(o, k, t) /\ op[o].step = "pods" /\ op[o].values[k] # 0
      /\ IF op[o].task = "ensure" THEN Alive(k) = {} ELSE ~Ambiguous(k)
  BY DEF CreatePod
<1>. HIDE DEF k, p
<1>5. /\ [op[o].candidate EXCEPT ![k] = p] \in PodsOfKinds
      /\ [op[o].previous EXCEPT ![k] = Current(k)] \in PodsOfKinds
  BY <1>1, <1>2, <1>3, CurrentIsTyped DEF PodsOfKinds
<1>6. t \in Runs
  BY <1>5 DEF Runs
<1>8. /\ SameTask(t, op[o]) /\ SameKeys(t, op[o]) /\ SameMarks(t, op[o])
      /\ t.found = op[o].found /\ t.candidate = [op[o].candidate EXCEPT ![k] = p]
      /\ t.previous = [op[o].previous EXCEPT ![k] = Current(k)]
  BY DEF Runs, SameTask, SameKeys, SameMarks
<1>. HIDE DEF t
<1>7. /\ Kept(op'[o], t)
      /\ op'[o].left = IF op[o].left \ {k} = {} /\ op[o].task = "ensure" THEN Kinds
                       ELSE op[o].left \ {k}
      /\ op'[o].step = IF op[o].left \ {k} = {} THEN NextAfterPods(op[o].task) ELSE "pods"
      /\ \A x \in Operators \ {o} : op'[x] = op[x]
      /\ op' \in [Operators -> Runs]
  BY <1>4, <1>6, HavePodRun
<1>. QED
  BY <1>3, <1>4, <1>7, <1>8 DEF k, p, Kept, SameTask, SameKeys, SamePods, SameMarks

LEMMA LoadRun ==
    ASSUME Typed, NEW o \in Operators, NEW task \in Held,
           NEW target \in SUBSET Kinds, Load(o, task, target)
    PROVE  LET s == op'[o] IN
           /\ op[o].step = "idle" /\ s.step = "lock"
           /\ s.task = task /\ s.target = target /\ s.values = file
           /\ s.recorded = resources /\ s.before = <<>> /\ SamePods(s, NoTask)
           /\ SameMarks(s, NoTask)
           /\ \A x \in Operators \ {o} : op'[x] = op[x]
           /\ op' \in [Operators -> Runs]
<1>. DEFINE t == [NoTask EXCEPT !.task = task, !.step = "lock", !.target = target,
                                !.values = file, !.recorded = resources]
<1>1. Become(o, t) /\ op[o].step = "idle"
  BY DEF Load, Idle
<1>2. file \in KeysOfKinds /\ resources \in PodsOfKinds
  BY DEF Typed, TypeOK, KeysOfKinds, PodsOfKinds
<1>3. t \in Runs
  BY <1>2, BlankIsTyped DEF Runs, Steps
<1>4. /\ t.step = "lock" /\ t.task = task /\ t.target = target /\ t.values = file
      /\ t.recorded = resources /\ t.before = <<>> /\ SamePods(t, NoTask)
      /\ SameMarks(t, NoTask)
  BY DEF NoTask, SamePods, SameMarks
<1>. HIDE DEF t
<1>. QED
  BY <1>1, <1>3, <1>4, BecomeRun DEF Typed

LEMMA LockRun ==
    ASSUME Typed, NEW o \in Operators, Lock(o), op[o].task \in Held
    PROVE  LET r == op[o]  s == op'[o] IN
           /\ r.step = "lock"
           /\ \/ /\ lock = Nobody /\ lock' = o
                 /\ s.task = r.task /\ s.target = r.target /\ s.recorded = r.recorded
                 /\ SameKeys(s, r) /\ SamePods(s, r) /\ SameMarks(s, r)
                 /\ s.step = FirstStep(r.task)
                 /\ s.left = IF r.task \in {"sync", "destroy"} THEN Kinds ELSE {}
                 /\ s.before \in Snapshots
                 /\ s.before.podKey = podKey /\ s.before.binding = binding
                 /\ s.before.secret = secret /\ s.before.file = file
                 /\ s.before.stacks = stacks
                 /\ r.values # file \/ r.recorded # resources => "oldValues" \in mishaps'
              \/ lock # Nobody /\ lock' = lock /\ s = NoTask
           /\ mishaps \subseteq mishaps' /\ mishaps' \subseteq mishaps \cup {"oldValues"}
           /\ \A x \in Operators \ {o} : op'[x] = op[x]
           /\ op' \in [Operators -> Runs]
<1>. DEFINE now == [podKey |-> podKey, binding |-> binding,
                    secret |-> secret, file |-> file, stacks |-> stacks]
            step == FirstStep(op[o].task)
            left == IF op[o].task \in {"sync", "destroy"} THEN Kinds ELSE {}
            t == [op[o] EXCEPT !.step = step, !.left = left, !.before = now]
<1>1. now \in Snapshots
  BY DEF Typed, TypeOK, Snapshots, PodKeys, KeysOfKinds, PodsOfKinds
<1>2. step \in Steps /\ left \in SUBSET Kinds
  BY DEF FirstStep, Steps, Held
<1>3. /\ op[o].step = "lock"
      /\ mishaps \subseteq mishaps' /\ mishaps' \subseteq mishaps \cup {"oldValues"}
  BY DEF Lock
<1>4. CASE lock = Nobody
  <2>1. Become(o, t) /\ lock' = o
    BY <1>4 DEF Lock, Free
  <2>2. op[o].values # file \/ op[o].recorded # resources => "oldValues" \in mishaps'
    BY <1>4 DEF Lock, Free
  <2>3. /\ now.podKey = podKey /\ now.binding = binding
        /\ now.secret = secret /\ now.file = file /\ now.stacks = stacks
    OBVIOUS
  <2>. HIDE DEF now, step, left
  <2>7. op[o] \in Runs
    BY DEF Typed
  <2>4. t \in Runs
    BY <1>1, <1>2, <2>7 DEF Runs
  <2>5. /\ t.task = op[o].task /\ t.target = op[o].target /\ t.recorded = op[o].recorded
        /\ SameKeys(t, op[o]) /\ SamePods(t, op[o]) /\ SameMarks(t, op[o])
        /\ t.step = step /\ t.left = left /\ t.before = now
    BY DEF Typed, Runs, SameKeys, SamePods, SameMarks
  <2>. HIDE DEF t
  <2>6. /\ op'[o] = t /\ \A x \in Operators \ {o} : op'[x] = op[x]
        /\ op' \in [Operators -> Runs]
    BY <2>1, <2>4, BecomeRun DEF Typed
  <2>. QED
    BY <1>1, <1>3, <1>4, <2>1, <2>2, <2>3, <2>5, <2>6 DEF step, left
<1>5. CASE lock # Nobody
  <2>1. Become(o, NoTask) /\ lock' = lock
    BY <1>5 DEF Lock, Free
  <2>. QED
    BY <1>3, <1>5, <2>1, BecomeRun, BlankIsTyped DEF Typed
<1>. QED
  BY <1>4, <1>5

LEMMA DiscoverRun ==
    ASSUME Typed, NEW o \in Operators, Discover(o)
    PROVE  LET r == op[o]  s == op'[o] IN
           /\ r.step = "discover" /\ \A k \in Kinds : ~Ambiguous(k)
           /\ SameTask(s, r) /\ SameKeys(s, r) /\ SameMarks(s, r)
           /\ s.found = [k \in Kinds |-> Current(k)]
           /\ s.candidate = r.candidate /\ s.previous = r.previous
           /\ s.step = IF r.task = "replace" THEN "pods" ELSE "stage"
           /\ s.left = IF r.task = "replace" THEN r.target ELSE r.left
           /\ \A x \in Operators \ {o} : op'[x] = op[x]
           /\ op' \in [Operators -> Runs] /\ resources' \in PodsOfKinds
<1>. DEFINE found == [k \in Kinds |-> Current(k)]
            t == [op[o] EXCEPT !.step = "pods", !.left = op[o].target, !.found = found]
            u == [op[o] EXCEPT !.step = "stage", !.found = found]
<1>1. found \in PodsOfKinds
  BY CurrentIsTyped DEF PodsOfKinds
<1>6. op[o] \in Runs
  BY DEF Typed
<1>7. op[o].target \in SUBSET Kinds
  BY <1>6 DEF Runs
<1>2. op[o].step = "discover" /\ \A k \in Kinds : ~Ambiguous(k)
  BY DEF Discover
<1>3. resources' \in PodsOfKinds
  BY DEF Discover, Typed, TypeOK, PodsOfKinds, Runs
<1>4. CASE op[o].task = "replace"
  <2>1. Become(o, t)
    BY <1>4 DEF Discover
  <2>. HIDE DEF found
  <2>2. t \in Runs
    BY <1>1, <1>6, <1>7 DEF Runs, Steps
  <2>3. /\ SameTask(t, op[o]) /\ SameKeys(t, op[o]) /\ SameMarks(t, op[o])
        /\ t.found = found /\ t.candidate = op[o].candidate
        /\ t.previous = op[o].previous /\ t.step = "pods" /\ t.left = op[o].target
    BY DEF Typed, Runs, SameTask, SameKeys, SameMarks
  <2>. HIDE DEF t
  <2>. QED
    BY <1>2, <1>3, <1>4, <2>1, <2>2, <2>3, BecomeRun DEF Typed, found
<1>5. CASE op[o].task # "replace"
  <2>1. Become(o, u)
    BY <1>5 DEF Discover
  <2>. HIDE DEF found
  <2>2. u \in Runs
    BY <1>1, <1>6, <1>7 DEF Runs, Steps
  <2>3. /\ SameTask(u, op[o]) /\ SameKeys(u, op[o]) /\ SameMarks(u, op[o])
        /\ u.found = found /\ u.candidate = op[o].candidate
        /\ u.previous = op[o].previous /\ u.step = "stage" /\ u.left = op[o].left
    BY DEF Typed, Runs, SameTask, SameKeys, SameMarks
  <2>. HIDE DEF u
  <2>. QED
    BY <1>2, <1>3, <1>5, <2>1, <2>2, <2>3, BecomeRun DEF Typed, found
<1>. QED
  BY <1>4, <1>5

LEMMA DrawKeysRun ==
    ASSUME Typed, NEW o \in Operators, DrawKeys(o)
    PROVE  LET r == op[o]  s == op'[o]  new(k) == r.values[k] = 0 IN
           /\ r.task = "ensure" /\ r.step = "keys"
           /\ SameTask(s, r) /\ SamePods(s, r) /\ SameMarks(s, r)
           /\ s.step = "foundation" /\ s.left = r.left
           /\ s.values = [k \in Kinds |-> IF new(k) THEN drawn[k] + 1 ELSE r.values[k]]
           /\ file' = [k \in Kinds |-> IF new(k) THEN drawn[k] + 1 ELSE file[k]]
           /\ \A x \in Operators \ {o} : op'[x] = op[x]
           /\ op' \in [Operators -> Runs] /\ resources' \in PodsOfKinds
           /\ file' \in KeysOfKinds /\ drawn' \in KeysOfKinds
<1>. DEFINE r == op[o]  new(k) == r.values[k] = 0
            values == [k \in Kinds |-> IF new(k) THEN drawn[k] + 1 ELSE r.values[k]]
            t == [r EXCEPT !.step = "foundation", !.values = values]
<1>1. r \in Runs /\ r.values \in KeysOfKinds /\ r.recorded \in PodsOfKinds
      /\ file \in KeysOfKinds /\ drawn \in KeysOfKinds
  BY DEF Typed, TypeOK, Runs, KeysOfKinds
<1>2. \A k \in Kinds : new(k) => drawn[k] + 1 \in 0 .. MaxKeys
  BY <1>1, BoundsAssumption DEF DrawKeys, KeysOfKinds
<1>3. values \in KeysOfKinds
  BY <1>1, <1>2 DEF KeysOfKinds
<1>4. /\ file' = [k \in Kinds |-> IF new(k) THEN drawn[k] + 1 ELSE file[k]]
      /\ drawn' = [k \in Kinds |-> IF new(k) THEN drawn[k] + 1 ELSE drawn[k]]
      /\ resources' = r.recorded /\ r.task = "ensure" /\ r.step = "keys"
  BY DEF DrawKeys, AtStep
<1>5. file' \in KeysOfKinds /\ drawn' \in KeysOfKinds /\ resources' \in PodsOfKinds
  BY <1>1, <1>2, <1>4 DEF KeysOfKinds
<1>6. Become(o, t)
  <2>1. t = [r EXCEPT !.step = "foundation",
                      !.values = [k \in Kinds |-> IF new(k) THEN drawn[k] + 1 ELSE @[k]]]
    BY <1>1 DEF Runs
  <2>. QED
    BY <2>1 DEF DrawKeys
<1>. HIDE DEF values
<1>7. t \in Runs
  BY <1>1, <1>3 DEF Runs, Steps
<1>8. /\ SameTask(t, r) /\ SamePods(t, r) /\ SameMarks(t, r)
      /\ t.step = "foundation" /\ t.left = r.left /\ t.values = values
  BY <1>1 DEF Runs, SameTask, SamePods, SameMarks
<1>. HIDE DEF t
<1>9. op'[o] = t /\ \A x \in Operators \ {o} : op'[x] = op[x]
  BY <1>6, BecomeRun DEF Typed
<1>10. op' \in [Operators -> Runs]
  BY <1>6, <1>7, BecomeRun DEF Typed
<1>. QED
  BY <1>4, <1>5, <1>8, <1>9, <1>10 DEF values

\* A call that fails is taken for one that finds nothing.
LEMMA MisreadRun ==
    ASSUME NEW o, Misread(o)
    PROVE  mishaps' = mishaps \cup {"misread"}
  BY DEF Misread

LEMMA DeployStackRun ==
    ASSUME Typed, NEW o \in Operators, DeployStack(o)
    PROVE  LET r == op[o]  s == op'[o]  name == StackOf(r.step) IN
           /\ r.step \in {"foundation", "service"} /\ Deployable(name)
           /\ name \in {"Service", "Foundation"} /\ stacks' = stacks \cup {name}
           /\ SameTask(s, r) /\ SameKeys(s, r) /\ SamePods(s, r)
           /\ s.step = IF r.step = "service" THEN "install" ELSE "address"
           /\ s.left = r.left /\ s.boundBefore = r.boundBefore
           /\ s.changed = r.changed /\ s.promoted = r.promoted /\ s.unread = r.unread
           /\ s.newStacks \in {r.newStacks \cup ({name} \ stacks), r.newStacks \cup {name}}
           /\ \/ s.newStacks = r.newStacks \cup ({name} \ stacks) /\ mishaps' = mishaps
              \/ mishaps' = mishaps \cup {"misread"}
           /\ \A x \in Operators \ {o} : op'[x] = op[x]
           /\ op' \in [Operators -> Runs]
<1>. DEFINE r == op[o]  name == StackOf(r.step)
            step == IF r.step = "service" THEN "install" ELSE "address"
<1>1. r \in Runs
  BY DEF Typed
<1>2. /\ r.step \in {"foundation", "service"} /\ Deployable(name)
      /\ stacks' = stacks \cup {name}
  BY DEF DeployStack
<1>3. name \in {"Service", "Foundation"} /\ (name = "Service" <=> r.step = "service")
  BY <1>2 DEF StackOf
<1>10. PICK found \in {{name} \ stacks, {name}} :
         /\ IF found = {name} \ stacks THEN UNCHANGED <<faults, mishaps>> ELSE Misread(o)
         /\ Become(o, [r EXCEPT
              !.step = IF name = "Service" THEN "install" ELSE "address",
              !.newStacks = @ \cup found])
  BY DEF DeployStack
<1>. DEFINE new == r.newStacks \cup found
            t == [r EXCEPT !.step = step, !.newStacks = new]
<1>4. r.newStacks \in SUBSET {"Service", "Foundation"} /\ found \in SUBSET {name}
  BY <1>1, <1>10 DEF Runs
<1>5. new \in SUBSET {"Service", "Foundation"} /\ step \in Steps
  BY <1>3, <1>4 DEF Steps
<1>6. Become(o, t)
  <2>1. t = [r EXCEPT !.step = IF name = "Service" THEN "install" ELSE "address",
                      !.newStacks = @ \cup found]
    BY <1>1, <1>3 DEF Runs
  <2>. QED
    BY <1>10, <2>1
<1>11. /\ new \in {r.newStacks \cup ({name} \ stacks), r.newStacks \cup {name}}
       /\ \/ new = r.newStacks \cup ({name} \ stacks) /\ mishaps' = mishaps
          \/ mishaps' = mishaps \cup {"misread"}
  BY <1>10, MisreadRun
<1>. HIDE DEF new, step
<1>7. t \in Runs
  BY <1>1, <1>5 DEF Runs
<1>8. /\ SameTask(t, r) /\ SameKeys(t, r) /\ SamePods(t, r)
      /\ t.step = step /\ t.left = r.left /\ t.boundBefore = r.boundBefore
      /\ t.changed = r.changed /\ t.promoted = r.promoted /\ t.unread = r.unread
      /\ t.newStacks = new
  BY <1>1 DEF Runs, SameTask, SameKeys, SamePods
<1>. HIDE DEF t
<1>9. /\ op'[o] = t /\ \A x \in Operators \ {o} : op'[x] = op[x]
      /\ op' \in [Operators -> Runs]
  BY <1>6, <1>7, BecomeRun DEF Typed
<1>. QED
  BY <1>2, <1>3, <1>8, <1>9, <1>11 DEF step

LEMMA AddressRun ==
    ASSUME Typed, NEW o \in Operators, Address(o)
    PROVE  LET r == op[o]  s == op'[o] IN
           /\ r.step = "address" /\ s.step = "pods" /\ s.left = Kinds
           /\ SameTask(s, r) /\ SameKeys(s, r) /\ SamePods(s, r)
           /\ s.boundBefore = IF s.unread THEN None ELSE binding
           /\ s.newStacks = r.newStacks
           /\ s.changed = r.changed /\ s.promoted = r.promoted
           /\ \/ ~s.unread /\ mishaps' = mishaps
              \/ mishaps' = mishaps \cup {"misread"}
           /\ \A x \in Operators \ {o} : op'[x] = op[x]
           /\ op' \in [Operators -> Runs]
<1>. DEFINE r == op[o]
<1>1. r \in Runs /\ binding \in PodsOfKinds
  BY DEF Typed, TypeOK, PodsOfKinds
<1>5. PICK unread \in BOOLEAN :
         /\ IF unread THEN Misread(o) ELSE UNCHANGED <<faults, mishaps>>
         /\ Become(o, [r EXCEPT
              !.step = "pods", !.left = Kinds, !.unread = unread,
              !.boundBefore = IF unread THEN None ELSE binding])
  BY DEF Address
<1>. DEFINE bound == IF unread THEN None ELSE binding
            t == [r EXCEPT !.step = "pods", !.left = Kinds, !.unread = unread,
                           !.boundBefore = bound]
<1>2. Become(o, t) /\ r.step = "address"
  BY <1>5 DEF Address
<1>6. bound \in PodsOfKinds
  BY <1>1, BlankIsTyped
<1>7. \/ ~unread /\ mishaps' = mishaps
      \/ mishaps' = mishaps \cup {"misread"}
  BY <1>5, MisreadRun
<1>. HIDE DEF bound
<1>3. t \in Runs
  BY <1>1, <1>5, <1>6 DEF Runs, Steps
<1>4. /\ t.step = "pods" /\ t.left = Kinds
      /\ SameTask(t, r) /\ SameKeys(t, r) /\ SamePods(t, r)
      /\ t.boundBefore = bound /\ t.newStacks = r.newStacks
      /\ t.changed = r.changed /\ t.promoted = r.promoted /\ t.unread = unread
  BY <1>1 DEF Runs, SameTask, SameKeys, SamePods
<1>. HIDE DEF t
<1>8. /\ op'[o] = t /\ \A x \in Operators \ {o} : op'[x] = op[x]
      /\ op' \in [Operators -> Runs]
  BY <1>2, <1>3, BecomeRun DEF Typed
<1>. QED
  BY <1>2, <1>4, <1>7, <1>8 DEF bound

LEMMA StageRun ==
    ASSUME Typed, NEW o \in Operators, Stage(o)
    PROVE  LET r == op[o]  s == op'[o]  k == First(r.target) IN
           /\ r.step = "stage" /\ s.step = "pods" /\ s.left = r.target
           /\ secret[k] # 0
           /\ SameTask(s, r) /\ SamePods(s, r) /\ SameMarks(s, r)
           /\ s.values = [r.values EXCEPT ![k] = drawn[k] + 1] /\ s.keyBefore = secret[k]
           /\ \A x \in Operators \ {o} : op'[x] = op[x]
           /\ op' \in [Operators -> Runs] /\ drawn' \in KeysOfKinds
           /\ drawn[k] + 1 \in 1 .. MaxKeys
<1>. DEFINE r == op[o]  k == First(r.target)
            values == [r.values EXCEPT ![k] = drawn[k] + 1]
            t == [r EXCEPT !.step = "pods", !.left = r.target, !.values = values,
                           !.keyBefore = secret[k]]
<1>1. r \in Runs /\ r.values \in KeysOfKinds /\ r.target \in SUBSET Kinds
      /\ secret \in KeysOfKinds /\ drawn \in KeysOfKinds
  BY DEF Typed, TypeOK, Runs, KeysOfKinds
<1>2. k \in Kinds
  BY <1>1, KindsInOrder
<1>3. /\ r.step = "stage" /\ secret[k] # 0 /\ drawn[k] < MaxKeys
      /\ drawn' = [drawn EXCEPT ![k] = @ + 1]
  BY DEF Stage
<1>4. drawn[k] + 1 \in 1 .. MaxKeys /\ secret[k] \in 0 .. MaxKeys
  BY <1>1, <1>2, <1>3, BoundsAssumption DEF KeysOfKinds
<1>5. values \in KeysOfKinds /\ drawn' \in KeysOfKinds
  BY <1>1, <1>2, <1>3, <1>4 DEF KeysOfKinds
<1>6. Become(o, t)
  <2>1. t = [r EXCEPT !.step = "pods", !.left = r.target,
                      !.values[k] = drawn[k] + 1, !.keyBefore = secret[k]]
    BY <1>1 DEF Runs
  <2>. QED
    BY <2>1 DEF Stage
<1>. HIDE DEF values, k
<1>7. t \in Runs
  BY <1>1, <1>4, <1>5 DEF Runs, Steps
<1>8. /\ SameTask(t, r) /\ SamePods(t, r) /\ SameMarks(t, r)
      /\ t.step = "pods" /\ t.left = r.target /\ t.values = values
      /\ t.keyBefore = secret[k]
  BY <1>1 DEF Runs, SameTask, SamePods, SameMarks
<1>. HIDE DEF t
<1>9. /\ op'[o] = t /\ \A x \in Operators \ {o} : op'[x] = op[x]
      /\ op' \in [Operators -> Runs]
  BY <1>6, <1>7, BecomeRun DEF Typed
<1>. QED
  BY <1>3, <1>4, <1>5, <1>8, <1>9 DEF values, k

LEMMA PromoteRun ==
    ASSUME Typed, NEW o \in Operators, Promote(o)
    PROVE  LET r == op[o]  s == op'[o] IN
           /\ r.step = "promote" /\ s.step = "bind" /\ s.left = r.left
           /\ SameTask(s, r) /\ SameKeys(s, r) /\ SamePods(s, r)
           /\ s.boundBefore = r.boundBefore /\ s.newStacks = r.newStacks
           /\ s.changed = r.changed /\ s.promoted /\ s.unread = r.unread
           /\ \A x \in Operators \ {o} : op'[x] = op[x]
           /\ op' \in [Operators -> Runs]
<1>. DEFINE r == op[o]  t == [r EXCEPT !.step = "bind", !.promoted = TRUE]
<1>1. r \in Runs
  BY DEF Typed
<1>2. Become(o, t) /\ r.step = "promote"
  BY DEF Promote
<1>3. t \in Runs
  BY <1>1 DEF Runs, Steps
<1>4. /\ t.step = "bind" /\ t.left = r.left
      /\ SameTask(t, r) /\ SameKeys(t, r) /\ SamePods(t, r)
      /\ t.boundBefore = r.boundBefore /\ t.newStacks = r.newStacks
      /\ t.changed = r.changed /\ t.promoted /\ t.unread = r.unread
  BY <1>1 DEF Runs, SameTask, SameKeys, SamePods
<1>. HIDE DEF t
<1>. QED
  BY <1>2, <1>3, <1>4, BecomeRun DEF Typed

LEMMA ChosenIsTyped ==
    ASSUME NEW o \in Operators, op[o] \in Runs
    PROVE  Chosen(o) \in PodsOfKinds
  BY DEF Chosen, Runs, PodsOfKinds

LEMMA BindRun ==
    ASSUME Typed, NEW o \in Operators, Bind(o)
    PROVE  LET r == op[o]  s == op'[o] IN
           /\ r.step = "bind" /\ binding' = Chosen(o) /\ binding' \in PodsOfKinds
           /\ \A k \in Kinds : Chosen(o)[k] # 0
           /\ s.step = IF r.task = "ensure" THEN "service" ELSE "reapply"
           /\ SameTask(s, r) /\ SameKeys(s, r) /\ SamePods(s, r)
           /\ s.boundBefore = r.boundBefore /\ s.newStacks = r.newStacks
           /\ s.changed /\ s.promoted = r.promoted /\ s.unread = r.unread
           /\ s.left = r.left
           /\ \A x \in Operators \ {o} : op'[x] = op[x]
           /\ op' \in [Operators -> Runs]
<1>. DEFINE r == op[o]  step == IF r.task = "ensure" THEN "service" ELSE "reapply"
            t == [r EXCEPT !.changed = TRUE, !.step = step]
<1>1. r \in Runs
  BY DEF Typed
<1>2. /\ Become(o, t) /\ r.step = "bind" /\ binding' = Chosen(o)
      /\ \A k \in Kinds : Chosen(o)[k] # 0
  BY DEF Bind
<1>3. step \in Steps
  BY DEF Steps
<1>. HIDE DEF step
<1>4. t \in Runs
  BY <1>1, <1>3 DEF Runs
<1>5. /\ t.step = step /\ t.left = r.left
      /\ SameTask(t, r) /\ SameKeys(t, r) /\ SamePods(t, r)
      /\ t.boundBefore = r.boundBefore /\ t.newStacks = r.newStacks
      /\ t.changed /\ t.promoted = r.promoted /\ t.unread = r.unread
  BY <1>1 DEF Runs, SameTask, SameKeys, SamePods
<1>. HIDE DEF t
<1>6. /\ op'[o] = t /\ \A x \in Operators \ {o} : op'[x] = op[x]
      /\ op' \in [Operators -> Runs]
  BY <1>2, <1>4, BecomeRun DEF Typed
<1>. QED
  BY <1>1, <1>2, <1>5, <1>6, ChosenIsTyped DEF step

\* What "except" does with the run: it ends or starts to compensate.
LEMMA RaiseRun ==
    ASSUME Typed, NEW o \in Operators, Raise(o)
    PROVE  LET r == op[o]  s == op'[o] IN
           /\ \/ Unguarded(o) /\ s = NoTask /\ lock' = Nobody
              \/ ~Unguarded(o) /\ Committed(o) /\ s = NoTask /\ lock' = Nobody
              \/ /\ ~Unguarded(o) /\ ~Committed(o) /\ Kept(s, r) /\ lock' = lock
                 /\ s.step = IF r.task = "rotate" THEN "undoSecret" ELSE "undoBinding"
                 /\ s.left = {k \in Kinds : r.candidate[k] # 0}
           /\ \A x \in Operators \ {o} : op'[x] = op[x]
           /\ op' \in [Operators -> Runs] /\ resources' \in PodsOfKinds
<1>1. op \in [Operators -> Runs] /\ op[o] \in Runs /\ resources \in PodsOfKinds
  BY DEF Typed, TypeOK, PodsOfKinds
<1>2. CASE Unguarded(o)
  BY <1>1, <1>2, ReleaseRun DEF Raise
<1>3. CASE ~Unguarded(o) /\ Committed(o)
  <2>1. Release(o) /\ resources' = [k \in Kinds |-> IF op[o].task = "replace" THEN Chosen(o)[k]
                                                    ELSE resources[k]]
    BY <1>3 DEF Raise, Report
  <2>2. resources' \in PodsOfKinds
    BY <1>1, <2>1, ChosenIsTyped DEF PodsOfKinds
  <2>. QED
    BY <1>1, <1>3, <2>1, <2>2, ReleaseRun
<1>4. CASE ~Unguarded(o) /\ ~Committed(o)
  <2>1. GoOver(o, IF op[o].task = "rotate" THEN "undoSecret" ELSE "undoBinding",
               {k \in Kinds : op[o].candidate[k] # 0})
        /\ lock' = lock /\ resources' = resources
    BY <1>4 DEF Raise, Undo
  <2>2. (IF op[o].task = "rotate" THEN "undoSecret" ELSE "undoBinding") \in Steps
    BY DEF Steps
  <2>. QED
    BY <1>1, <1>4, <2>1, <2>2, GoOverRun
<1>. QED
  BY <1>2, <1>3, <1>4

\* Whoever unlinks the lock asks for it again, or ends when it was gone.
LEMMA UnlinkRun ==
    ASSUME op \in [Operators -> Runs], NEW o \in Operators, Unlink(o)
    PROVE  /\ op[o].step = "unlink" /\ lock' = Nobody
           /\ \/ op'[o] = NoTask /\ lock = Nobody
              \/ Kept(op'[o], op[o]) /\ op'[o].step = "lock"
           /\ \A x \in Operators \ {o} : op'[x] = op[x]
           /\ op' \in [Operators -> Runs]
<1>1. op[o].step = "unlink" /\ lock' = Nobody /\ "lock" \in Steps
  BY DEF Unlink, Steps
<1>2. CASE lock = Nobody
  BY <1>1, <1>2, BecomeRun, BlankIsTyped DEF Unlink
<1>3. CASE lock # Nobody
  BY <1>1, <1>3, GoRun DEF Unlink
<1>. QED
  BY <1>2, <1>3

\* What goes with the stacks that are destroyed.
LEMMA DestroyRun ==
    ASSUME Typed, NEW gone, Destroy(gone)
    PROVE  /\ stacks' = stacks \ gone /\ stacks' \in SUBSET Stacks
           /\ binding' = binding \/ (binding' = None /\ "Foundation" \in gone)
           /\ binding' \in PodsOfKinds
           /\ applied' \in [Kinds -> [pod : 0 .. MaxPods, key : 0 .. MaxKeys]]
           /\ \A k \in Kinds : applied'[k] \in {applied[k], NotApplied}
<1>1. /\ stacks \in SUBSET Stacks /\ binding \in PodsOfKinds
      /\ applied \in [Kinds -> [pod : 0 .. MaxPods, key : 0 .. MaxKeys]]
  BY DEF Typed, TypeOK, PodsOfKinds
<1>. QED
  BY <1>1, BlankIsTyped DEF Destroy

\* The secrets that could not be dropped are what they were.
LEMMA DropSecretsRun ==
    ASSUME Typed, NEW kept, DropSecrets(kept)
    PROVE  secret' \in KeysOfKinds /\ \A k \in Kinds : secret'[k] \in {secret[k], 0}
<1>1. secret \in KeysOfKinds
  BY DEF Typed, TypeOK, KeysOfKinds
<1>. QED
  BY <1>1, BoundsAssumption DEF DropSecrets, KeysOfKinds

-----------------------------------------------------------------------------
(* The types are kept.                                                      *)

LEMMA DeleteRun ==
    ASSUME podKey \in PodKeys, NEW k \in Kinds, NEW p, Delete(k, p)
    PROVE  /\ podKey' \in PodKeys
           /\ \A i \in Kinds, q \in 1 .. MaxPods :
                podKey'[i][q] = IF i = k /\ q = p THEN 0 ELSE podKey[i][q]
<1>0. podKey[k] \in [1 .. MaxPods -> 0 .. MaxKeys] /\ 0 \in 0 .. MaxKeys
  BY BoundsAssumption DEF PodKeys
<1>1. [podKey[k] EXCEPT ![p] = 0] \in [1 .. MaxPods -> 0 .. MaxKeys]
  BY <1>0
<1>2. podKey' = [podKey EXCEPT ![k] = [podKey[k] EXCEPT ![p] = 0]]
  BY DEF Delete, PodKeys
<1>. QED
  BY <1>1, <1>2 DEF PodKeys

LEMMA DeleteIfAnyRun ==
    ASSUME podKey \in PodKeys, NEW k \in Kinds, NEW p, DeleteIfAny(k, p)
    PROVE  /\ podKey' \in PodKeys
           /\ \A i \in Kinds, q \in 1 .. MaxPods :
                podKey'[i][q] = IF i = k /\ q = p THEN 0 ELSE podKey[i][q]
<1>1. CASE p = 0
  BY <1>1, BoundsAssumption DEF DeleteIfAny, PodKeys
<1>2. CASE p # 0
  BY <1>2, DeleteRun DEF DeleteIfAny
<1>. QED
  BY <1>1, <1>2

\* A new Pod, kept or left behind.
Creates(o, k) ==
    /\ made[k] < MaxPods /\ op[o].values[k] # 0
    /\ IF op[o].task = "ensure" THEN Alive(k) = {} ELSE ~Ambiguous(k)
    /\ made' = [made EXCEPT ![k] = made[k] + 1]
    /\ podKey' = [podKey EXCEPT ![k] = [@ EXCEPT ![made[k] + 1] = op[o].values[k]]]

LEMMA CreatesRun ==
    ASSUME Typed, NEW o \in Operators, NEW k \in Kinds, Creates(o, k)
    PROVE  /\ podKey' \in PodKeys /\ made' \in PodsOfKinds /\ made[k] + 1 \in 1 .. MaxPods
           /\ \A i \in Kinds : made'[i] = IF i = k THEN made[k] + 1 ELSE made[i]
           /\ \A i \in Kinds, q \in 1 .. MaxPods :
                podKey'[i][q] = IF i = k /\ q = made[k] + 1 THEN op[o].values[k]
                                ELSE podKey[i][q]
<1>0. podKey \in PodKeys /\ made \in PodsOfKinds /\ op[o] \in Runs
  BY DEF Typed, TypeOK, PodKeys, PodsOfKinds
<1>1. podKey \in PodKeys /\ made \in PodsOfKinds /\ op[o].values[k] \in 0 .. MaxKeys
  BY <1>0 DEF KeysOfKinds, Runs
<1>2. made[k] \in 0 .. MaxPods /\ made[k] < MaxPods
  BY <1>1 DEF Creates, PodsOfKinds
<1>3. made[k] + 1 \in 1 .. MaxPods
  BY <1>2, BoundsAssumption
<1>4. made' \in PodsOfKinds /\ \A i \in Kinds : made'[i] = IF i = k THEN made[k] + 1 ELSE made[i]
  BY <1>1, <1>3 DEF Creates, PodsOfKinds
<1>. DEFINE p == made[k] + 1
<1>5. podKey' = [podKey EXCEPT ![k] = [podKey[k] EXCEPT ![p] = op[o].values[k]]]
  BY <1>1 DEF Creates, PodKeys
<1>. HIDE DEF p
<1>6. [podKey[k] EXCEPT ![p] = op[o].values[k]] \in [1 .. MaxPods -> 0 .. MaxKeys]
  BY <1>1 DEF PodKeys
<1>7. podKey' \in PodKeys
  BY <1>1, <1>5, <1>6 DEF PodKeys
<1>8. \A i \in Kinds, q \in 1 .. MaxPods :
         podKey'[i][q] = IF i = k /\ q = p THEN op[o].values[k] ELSE podKey[i][q]
  BY <1>1, <1>5 DEF PodKeys
<1>. QED
  BY <1>3, <1>4, <1>7, <1>8 DEF p

LEMMA CreatesPod ==
    ASSUME NEW o, CreatePod(o) \/ CandidateStays(o)
    PROVE  Creates(o, First(op[o].left))
  BY DEF CreatePod, CandidateStays, Creates

\* A task that has begun is one of those that take the lock.
Begun == \A o \in Operators : op[o].step \notin {"idle"} => op[o].task \in Held

LEMMA NextTyped ==
    ASSUME Typed, Begun, [Next]_vars
    PROVE  Typed'
<1>. USE BoundsAssumption
<1>. DEFINE Sets == /\ podKey \in PodKeys /\ made \in PodsOfKinds /\ drawn \in KeysOfKinds
                    /\ secret \in KeysOfKinds /\ file \in KeysOfKinds
                    /\ binding \in PodsOfKinds /\ resources \in PodsOfKinds
                    /\ stacks \in SUBSET Stacks
                    /\ lock \in Operators \cup {Nobody, "dead", "old"}
                    /\ op \in [Operators -> Runs]
                    /\ applied \in [Kinds -> [pod : 0 .. MaxPods, key : 0 .. MaxKeys]]
<1>1. Typed <=> Sets
  BY DEF Typed, TypeOK, PodKeys, PodsOfKinds, KeysOfKinds
<1>2. Typed' <=> Sets'
  BY DEF Typed, TypeOK, PodKeys, PodsOfKinds, KeysOfKinds
<1>3. SUFFICES Sets'
  BY <1>2
<1>4. Sets
  BY <1>1
<1>5. Containers \in [Kinds -> [pod : 0 .. MaxPods, key : 0 .. MaxKeys]]
  BY <1>4 DEF Containers, PodsOfKinds, KeysOfKinds
<1>6. ASSUME NEW o \in Operators, Begin(o) PROVE Sets'
  <2>1. ASSUME NEW task \in Held, NEW target \in SUBSET Kinds, Load(o, task, target)
        PROVE  Sets'
    BY <1>4, <2>1, LoadRun DEF Load, pods, cloud, local
  <2>2. ASSUME Lock(o) PROVE Sets'
    <3>1. op[o].step = "lock"
      BY <2>2 DEF Lock
    <3>2. op[o].task \in Held
      BY <3>1 DEF Begun
    <3>3. lock' \in {lock, o} /\ op' \in [Operators -> Runs]
      BY <2>2, <3>2, LockRun
    <3>. QED
      BY <1>4, <2>2, <3>3 DEF Lock, pods, cloud, local
  <2>3. ASSUME FindOld(o) PROVE Sets'
    BY <1>4, <2>3, GoRun DEF FindOld, pods, cloud, local, Steps
  <2>4. ASSUME Unlink(o) PROVE Sets'
    BY <1>4, <2>4, UnlinkRun DEF Unlink, pods, cloud, local
  <2>. QED
    BY <1>6, <2>1, <2>2, <2>3, <2>4 DEF Begin, Held, Kinds
<1>7. ASSUME NEW o \in Operators, Apply(o) PROVE Sets'
  <2>. DEFINE r == op[o]
  <2>0. /\ r \in Runs /\ r.left \in SUBSET Kinds /\ r.target \in SUBSET Kinds
        /\ r.values \in KeysOfKinds /\ First(r.left) \in Kinds /\ Last(r.left) \in Kinds
        /\ First(r.target) \in Kinds /\ r.recorded \in PodsOfKinds
        /\ \A k \in Kinds : /\ r.left \ {k} \in SUBSET Kinds /\ r.values[k] \in 0 .. MaxKeys
    BY <1>4, KindsInOrder DEF Runs, KeysOfKinds
  <2>1. CASE DrawKeys(o)
    BY <1>4, <2>1, DrawKeysRun DEF DrawKeys, pods, cloud
  <2>2. CASE DeployStack(o)
    BY <1>4, <2>2, DeployStackRun DEF DeployStack, pods, local, Stacks
  <2>3. CASE Address(o)
    BY <1>4, <2>3, AddressRun DEF Address, pods, cloud, local
  <2>4. CASE Discover(o)
    BY <1>4, <2>4, DiscoverRun DEF Discover, pods, cloud
  <2>5. CASE Stage(o)
    BY <1>4, <2>5, StageRun DEF Stage, pods, cloud
  <2>6. CASE ReusePod(o)
    <3>1. op' \in [Operators -> Runs]
      BY <1>4, <2>6, ReusePodRun
    <3>. QED
      BY <1>4, <2>6, <3>1 DEF ReusePod, pods, cloud, local
  <2>7. CASE CreatePod(o)
    <3>1. op' \in [Operators -> Runs]
      BY <1>4, <2>7, CreatePodRun
    <3>2. podKey' \in PodKeys /\ made' \in PodsOfKinds
      BY <2>0, <2>7, CreatesPod, CreatesRun
    <3>. QED
      BY <1>4, <2>7, <3>1, <3>2 DEF CreatePod, cloud, local
  <2>8. CASE SyncSecret(o)
    <3>1. secret' \in KeysOfKinds
      BY <1>4, <2>0, <2>8 DEF SyncSecret, KeysOfKinds
    <3>2. op' \in [Operators -> Runs] /\ lock' \in {lock, Nobody}
      BY <1>4, <2>0, <2>8, GoOverRun, ReleaseRun DEF SyncSecret, Steps
    <3>. QED
      BY <1>4, <2>8, <3>1, <3>2 DEF SyncSecret, pods, local
  <2>9. CASE Promote(o)
    <3>1. secret' \in KeysOfKinds
      BY <1>4, <2>0, <2>9 DEF Promote, KeysOfKinds
    <3>. QED
      BY <1>4, <2>9, <3>1, PromoteRun DEF Promote, pods, local
  <2>10. CASE Bind(o)
    BY <1>4, <2>10, BindRun DEF Bind, pods, local
  <2>11. CASE Reapply(o)
    <3>1. op' \in [Operators -> Runs]
      BY <1>4, <2>0, <2>11, GoOverRun, GoRun DEF Reapply, Steps
    <3>. QED
      BY <1>4, <1>5, <2>11, <3>1 DEF Reapply, pods, local
  <2>12. CASE Pass(o)
    <3>1. op' \in [Operators -> Runs]
      BY <1>4, <2>12, GoRun DEF Pass, Steps
    <3>. QED
      BY <1>4, <2>12, <3>1 DEF Pass, pods, cloud, local
  <2>13. CASE KeepKey(o)
    <3>1. file' \in KeysOfKinds
      BY <1>4, <2>0, <2>13 DEF KeepKey, KeysOfKinds
    <3>. QED
      BY <1>4, <2>13, <3>1, GoRun DEF KeepKey, pods, cloud, Steps
  <2>14. CASE Record(o)
    <3>1. Chosen(o) \in PodsOfKinds
      BY <2>0, ChosenIsTyped
    <3>2. resources' \in PodsOfKinds
      BY <2>0, <2>14, <3>1 DEF Record, PodsOfKinds
    <3>3. op' \in [Operators -> Runs] /\ lock' \in {lock, Nobody}
      BY <1>4, <2>0, <2>14, GoOverRun, ReleaseRun DEF Record, Steps
    <3>. QED
      BY <1>4, <2>14, <3>2, <3>3 DEF Record, pods, cloud
  <2>15. CASE Retire(o)
    <3>1. podKey' \in PodKeys
      BY <1>4, <2>0, <2>15, DeleteIfAnyRun DEF Retire
    <3>2. op' \in [Operators -> Runs] /\ lock' \in {lock, Nobody}
      BY <1>4, <2>0, <2>15, GoOverRun, ReleaseRun DEF Retire, Steps
    <3>. QED
      BY <1>4, <2>15, <3>1, <3>2 DEF Retire, cloud, local
  <2>16. CASE DeleteRecorded(o)
    <3>1. podKey' \in PodKeys
      BY <1>4, <2>0, <2>16, DeleteIfAnyRun DEF DeleteRecorded
    <3>2. op' \in [Operators -> Runs]
      BY <1>4, <2>0, <2>16, GoOverRun DEF DeleteRecorded, Steps
    <3>. QED
      BY <1>4, <2>16, <3>1, <3>2 DEF DeleteRecorded, cloud, local
  <2>17. CASE DeleteNamed(o)
    <3>1. podKey' \in PodKeys
      BY <1>4, <2>0, <2>17, DeleteIfAnyRun DEF DeleteNamed
    <3>2. op' \in [Operators -> Runs]
      BY <1>4, <2>0, <2>17, GoOverRun DEF DeleteNamed, Steps
    <3>. QED
      BY <1>4, <2>17, <3>1, <3>2 DEF DeleteNamed, cloud, local
  <2>18. CASE DestroyStacks(o)
    <3>1. op' \in [Operators -> Runs]
      BY <1>4, <2>18, GoRun DEF DestroyStacks, Steps
    <3>2. Destroy({"Service", "Foundation"})
      BY <2>18 DEF DestroyStacks
    <3>. QED
      BY <1>4, <2>18, <3>1, <3>2, DestroyRun DEF DestroyStacks, pods, local
  <2>19. CASE Clear(o)
    <3>1. op' \in [Operators -> Runs]
      BY <1>4, <2>19, GoRun DEF Clear, Steps
    <3>2. secret' \in KeysOfKinds
      BY <2>19, DropSecretsRun DEF Clear
    <3>. QED
      BY <1>4, <2>19, <3>1, <3>2 DEF Clear, pods, local
  <2>20. CASE Blank(o)
    <3>1. op' \in [Operators -> Runs] /\ lock' = Nobody
      BY <1>4, <2>20, ReleaseRun DEF Blank
    <3>. QED
      BY <1>4, <2>20, <3>1, BlankIsTyped DEF Blank, pods, cloud
  <2>21. CASE Bootstrap(o)
    <3>1. op' \in [Operators -> Runs] /\ lock' = Nobody
      BY <1>4, <2>21, ReleaseRun DEF Bootstrap
    <3>. QED
      BY <1>4, <2>21, <3>1 DEF Bootstrap, pods, local, Stacks
  <2>22. CASE Purge(o)
    <3>1. op' \in [Operators -> Runs] /\ lock' = Nobody
      BY <1>4, <2>22, ReleaseRun DEF Purge
    <3>2. Destroy(WithDependents("Access")) \/ UNCHANGED <<stacks, binding, applied>>
      BY <2>22 DEF Purge
    <3>3. /\ stacks' \in SUBSET Stacks /\ binding' \in PodsOfKinds
          /\ applied' \in [Kinds -> [pod : 0 .. MaxPods, key : 0 .. MaxKeys]]
      BY <1>4, <3>2, DestroyRun
    <3>. QED
      BY <1>4, <2>22, <3>1, <3>3 DEF Purge, pods, local
  <2>. QED
    BY <1>7, <2>1, <2>2, <2>3, <2>4, <2>5, <2>6, <2>7, <2>8, <2>9, <2>10, <2>11, <2>12,
       <2>13, <2>14, <2>15, <2>16, <2>17, <2>18, <2>19, <2>20, <2>21, <2>22 DEF Apply
<1>8. ASSUME NEW o \in Operators, Raise(o)
      PROVE  /\ op' \in [Operators -> Runs] /\ resources' \in PodsOfKinds
             /\ lock' \in {lock, Nobody}
  BY <1>8, RaiseRun
<1>9. ASSUME NEW o \in Operators, Refused(o) PROVE Sets'
  <2>1. Refuse(o)
    BY <1>9 DEF Refused, PodRefused, DiscoverRefused, NotDeployable, NoSecret,
                BindRefused, NoRelease, DeleteRefused
  <2>. QED
    BY <1>4, <1>8, <2>1 DEF Refuse, pods, cloud, counts
<1>10. ASSUME NEW o \in Operators, Compensate(o) PROVE Sets'
  <2>. DEFINE r == op[o]
  <2>0. /\ r \in Runs /\ r.left \in SUBSET Kinds /\ r.found \in PodsOfKinds
        /\ First(r.target) \in Kinds /\ Last(r.left) \in Kinds
        /\ r.keyBefore \in 0 .. MaxKeys /\ r.boundBefore \in PodsOfKinds
        /\ \A k \in Kinds : r.left \ {k} \in SUBSET Kinds
    BY <1>4, KindsInOrder DEF Runs
  <2>1. CASE UndoSecret(o)
    <3>1. secret' \in KeysOfKinds
      BY <1>4, <2>0, <2>1 DEF UndoSecret, KeysOfKinds
    <3>. QED
      BY <1>4, <2>1, <3>1, GoRun DEF UndoSecret, pods, local, Steps
  <2>2. CASE UndoBinding(o)
    <3>1. binding' \in {binding, r.boundBefore, r.found}
      BY <2>2 DEF UndoBinding
    <3>2. op' \in [Operators -> Runs]
      BY <1>4, <2>2, GoRun DEF UndoBinding, NextUndo, Steps
    <3>. QED
      BY <1>4, <2>0, <2>2, <3>1, <3>2 DEF UndoBinding, pods, local
  <2>3. CASE UndoReapply(o)
    <3>1. op' \in [Operators -> Runs]
      BY <1>4, <2>3, GoRun DEF UndoReapply, Steps
    <3>. QED
      BY <1>4, <1>5, <2>3, <3>1 DEF UndoReapply, pods, local
  <2>4. CASE UndoPods(o)
    <3>1. podKey' \in PodKeys
      BY <1>4, <2>0, <2>4, DeleteRun DEF UndoPods
    <3>2. op' \in [Operators -> Runs]
      BY <1>4, <2>0, <2>4, GoOverRun DEF UndoPods, Steps
    <3>. QED
      BY <1>4, <2>4, <3>1, <3>2 DEF UndoPods, cloud, local
  <2>5. CASE UndoStacks(o)
    <3>1. op' \in [Operators -> Runs] /\ lock' = Nobody
      BY <1>4, <2>5, ReleaseRun DEF UndoStacks
    <3>2. /\ binding' \in PodsOfKinds /\ secret' \in KeysOfKinds /\ stacks' \in SUBSET Stacks
          /\ applied' \in [Kinds -> [pod : 0 .. MaxPods, key : 0 .. MaxKeys]]
      <4>1. \E gone : Destroy(gone)
        BY <2>5 DEF UndoStacks
      <4>2. secret' = secret \/ \E kept : DropSecrets(kept)
        BY <2>5 DEF UndoStacks
      <4>. QED
        BY <1>4, <4>1, <4>2, DestroyRun, DropSecretsRun
    <3>. QED
      BY <1>4, <2>5, <3>1, <3>2 DEF UndoStacks, pods, local
  <2>6. CASE UndoEnds(o)
    <3>1. op' \in [Operators -> Runs] /\ lock' = Nobody
      BY <1>4, <2>6, ReleaseRun DEF UndoEnds
    <3>. QED
      BY <1>4, <2>6, <3>1 DEF UndoEnds, pods, cloud, local
  <2>. QED
    BY <1>10, <2>1, <2>2, <2>3, <2>4, <2>5, <2>6 DEF Compensate
<1>11. ASSUME NEW o \in Operators, Faults(o) PROVE Sets'
  <2>. DEFINE r == op[o]
  <2>0. r \in Runs /\ r.left \in SUBSET Kinds /\ First(r.left) \in Kinds
    BY <1>4, KindsInOrder DEF Runs
  <2>1. CASE CallFails(o)
    BY <1>4, <1>8, <2>1 DEF CallFails, pods, cloud
  <2>2. CASE CandidateStays(o)
    <3>1. podKey' \in PodKeys /\ made' \in PodsOfKinds
      BY <2>0, <2>2, CreatesPod, CreatesRun
    <3>. QED
      BY <1>4, <1>8, <2>2, <3>1 DEF CandidateStays, cloud
  <2>3. CASE ReapplyFails(o)
    BY <1>4, <1>5, <1>8, <2>3 DEF ReapplyFails, pods
  <2>4. CASE UndoFails(o)
    <3>1. r.left \ {Last(r.left)} \in SUBSET Kinds
      BY <2>0
    <3>. DEFINE step == CASE r.step = "undoSecret" -> "undoBinding" [] OTHER -> "undoPods"
                left == IF r.step = "undoPods" THEN r.left \ {Last(r.left)} ELSE r.left
    <3>3. GoOver(o, step, left)
      BY <2>4 DEF UndoFails
    <3>4. step \in Steps /\ left \in SUBSET Kinds
      BY <2>0, <3>1 DEF Steps
    <3>. HIDE DEF step, left
    <3>2. op' \in [Operators -> Runs]
      BY <1>4, <3>3, <3>4, GoOverRun
    <3>. QED
      BY <1>4, <2>4, <3>2 DEF UndoFails, pods, cloud, local
  <2>5. CASE Interrupt(o)
    <3>1. op' \in [Operators -> Runs] /\ lock' = Nobody
      BY <1>4, <2>5, ReleaseRun DEF Interrupt
    <3>. QED
      BY <1>4, <2>5, <3>1 DEF Interrupt, pods, cloud, local
  <2>6. CASE Kill(o)
    <3>1. op' \in [Operators -> Runs]
      BY <1>4, <2>6, BecomeRun, BlankIsTyped DEF Kill
    <3>. QED
      BY <1>4, <2>6, <3>1 DEF Kill, pods, cloud, local
  <2>. QED
    BY <1>11, <2>1, <2>2, <2>3, <2>4, <2>5, <2>6 DEF Faults
<1>12. CASE LockAges
  BY <1>4, <1>12 DEF LockAges, pods, cloud, local
<1>13. CASE DeployRelease
  BY <1>4, <1>5, <1>13 DEF DeployRelease, pods, local
<1>14. CASE UNCHANGED vars
  BY <1>4, <1>14 DEF vars, pods, cloud, local
<1>. QED
  BY <1>6, <1>7, <1>9, <1>10, <1>11, <1>12, <1>13, <1>14 DEF Next

-----------------------------------------------------------------------------
(* The inductive invariant: what a task holds at each of its steps.         *)

Undoing == {"undoSecret", "undoBinding", "undoReapply", "undoPods"}
Switching == {"ensure", "replace", "rotate"}
Waiting == {"lock", "unlink"}

\* The steps of each task under the lock.
Located(r) ==
    /\ r.step = "idle" => r = NoTask
    /\ r.step # "idle" => r.task \in Held
    /\ r.step \in Waiting =>
         SamePods(r, NoTask) /\ SameMarks(r, NoTask) /\ r.before = <<>>
    /\ r.step \notin {"idle"} \cup Waiting =>
         /\ r.before \in Snapshots
         /\ r.task = "ensure" =>
              r.step \in {"keys", "foundation", "address", "pods", "sync", "bind",
                          "service", "install", "record", "undoBinding", "undoPods"}
         /\ r.task = "replace" =>
              r.step \in {"discover", "pods", "bind", "reapply", "retire", "record",
                          "undoBinding", "undoReapply", "undoPods"}
         /\ r.task = "rotate" =>
              r.step \in {"discover", "stage", "pods", "promote", "bind", "reapply",
                          "discard", "file", "record", "retire"} \cup Undoing
         /\ r.task = "destroy" =>
              r.step \in {"deleteRecorded", "deleteNamed", "destroyStacks", "clear",
                          "blank"}
         /\ r.task \in {"sync", "bootstrap", "purge"} => r.step = r.task

\* What a task is about, and what it knows to have changed.
Marked(r) ==
    /\ r.task \in {"replace", "rotate"} => r.target # {}
    /\ r.task = "rotate" => \E k \in Kinds : r.target = {k}
    /\ r.task # "ensure" => r.newStacks = {}
    /\ r.task \notin Switching => r.candidate = None /\ ~r.changed
    /\ r.task # "rotate" => ~r.promoted
    /\ r.step \in {"reapply", "discard", "file", "retire", "service", "install",
                   "record"} => r.changed
    /\ r.step \in {"keys", "foundation", "address", "discover", "stage", "pods", "sync",
                   "promote", "bind"} => ~r.changed
    /\ r.step \in {"discover", "stage", "pods", "promote"} => ~r.promoted
    /\ r.task = "rotate" /\ r.step \in {"bind", "reapply", "discard", "file", "record",
                                        "retire"} => r.promoted

\* The kinds that are left at a step.
Lefts(r) ==
    /\ r.step \in {"pods", "sync", "retire", "deleteNamed", "deleteRecorded"} =>
         r.left # {}
    /\ r.step \in {"pods", "retire"} /\ r.task # "ensure" => r.left \subseteq r.target
    /\ r.step \in Undoing => \A k \in r.left : r.candidate[k] # 0
    /\ r.step \in Undoing \ {"undoPods"} =>
         \A k \in Kinds : r.candidate[k] # 0 => k \in r.left

\* Which kinds have a candidate already, or a Pod that was found.
Candidates(r) ==
    \A k \in Kinds :
      /\ r.task # "ensure" /\ r.candidate[k] # 0 => k \in r.target
      /\ r.step \in {"keys", "foundation", "address", "discover", "stage"} =>
           r.candidate[k] = 0
      /\ r.task = "ensure" => r.candidate[k] = 0 \/ r.found[k] = 0
      /\ r.task = "ensure" /\ r.step \in {"keys", "foundation", "address"} =>
           r.found[k] = 0
      /\ r.step = "pods" /\ k \in r.left =>
           r.candidate[k] = 0 /\ (r.task = "ensure" => r.found[k] = 0)
      /\ r.task \in {"replace", "rotate"} /\ k \in r.target /\ r.candidate[k] = 0 =>
           /\ r.step \notin {"promote", "bind", "reapply", "discard", "file", "record",
                             "retire"}
           /\ r.step = "pods" => k \in r.left
      /\ r.changed => r.candidate[k] # 0 \/ r.found[k] # 0

Shape(r) == Located(r) /\ Marked(r) /\ Lefts(r) /\ Candidates(r)

\* Pods are numbered as they are created: what a task names was there before its
\* candidates.
StoresNumbered ==
    \A k \in Kinds : /\ binding[k] <= made[k] /\ applied[k].pod <= made[k]
                     /\ \A p \in 1 .. MaxPods : podKey[k][p] # 0 => p <= made[k]

Numbered(r, n) ==
    \A k \in Kinds :
      /\ r.found[k] <= n[k] /\ r.candidate[k] <= n[k] /\ r.boundBefore[k] <= n[k]
      /\ r.step \notin {"idle"} \cup Waiting =>
           /\ r.before.binding[k] <= n[k]
           /\ \A p \in 1 .. MaxPods : r.before.podKey[k][p] # 0 => p <= n[k]
      /\ r.candidate[k] # 0 =>
           /\ r.found[k] < r.candidate[k] /\ r.previous[k] < r.candidate[k]
           /\ r.boundBefore[k] < r.candidate[k]
           /\ r.before.binding[k] < r.candidate[k]
           /\ r.before.podKey[k][r.candidate[k]] = 0

NumbersFit == StoresNumbered /\ \A o \in Operators : Numbered(op[o], made)

-----------------------------------------------------------------------------
(* Where a task is and what it holds there.                                 *)

LEMMA NoTaskFits ==
    Shape(NoTask)
  BY DEF Shape, Located, Marked, Lefts, Candidates, NoTask, Waiting, Undoing, Switching,
         None, Held

\* A run that only gets on has to be where its task can be.
LEMMA BeginFits ==
    ASSUME Typed, NEW o \in Operators, Shape(op[o]), Begin(o)
    PROVE  Shape(op'[o])
<1>. USE DEF Waiting, Undoing, Switching, Held
<1>0. op[o] \in Runs /\ op \in [Operators -> Runs]
  BY DEF Typed
<1>1. ASSUME NEW task \in Held, NEW target \in SUBSET Kinds, Load(o, task, target),
             task \in {"replace", "rotate"} => target # {},
             task = "rotate" => \E k \in Kinds : target = {k}
      PROVE  Shape(op'[o])
  <2>. DEFINE s == op'[o]
  <2>1. /\ s.step = "lock" /\ s.task = task /\ s.target = target /\ s.before = <<>>
        /\ SamePods(s, NoTask) /\ SameMarks(s, NoTask)
    BY <1>1, LoadRun
  <2>2. s.candidate = None /\ s.found = None /\ s.newStacks = {} /\ ~s.changed /\ ~s.promoted
    BY <2>1 DEF SamePods, SameMarks, NoTask
  <2>. HIDE DEF s
  <2>. QED
    BY <1>1, <2>1, <2>2 DEF Shape, Located, Marked, Lefts, Candidates, None, s
<1>2. ASSUME Lock(o) PROVE Shape(op'[o])
  <2>. DEFINE r == op[o]  s == op'[o]
  <2>1. r.step = "lock"
    BY <1>2 DEF Lock
  <2>2. /\ r.task \in Held /\ SamePods(r, NoTask) /\ SameMarks(r, NoTask)
    BY <2>1 DEF Shape, Located
  <2>3. r.candidate = None /\ r.found = None /\ r.newStacks = {} /\ ~r.changed /\ ~r.promoted
    BY <2>2 DEF SamePods, SameMarks, NoTask
  <2>4. CASE s = NoTask
    BY <2>4, NoTaskFits
  <2>5. CASE s # NoTask
    <3>1. /\ s.task = r.task /\ s.target = r.target
          /\ SamePods(s, r) /\ SameMarks(s, r)
          /\ s.step = FirstStep(r.task)
          /\ s.left = IF r.task \in {"sync", "destroy"} THEN Kinds ELSE {}
          /\ s.before \in Snapshots
      BY <1>2, <2>2, <2>5, LockRun
    <3>2. /\ s.candidate = None /\ s.found = None /\ s.newStacks = {}
          /\ ~s.changed /\ ~s.promoted
      BY <2>3, <3>1 DEF SamePods, SameMarks
    <3>3. /\ s.task = "ensure" => s.step = "keys"
          /\ s.task \in {"replace", "rotate"} => s.step = "discover"
          /\ s.task = "destroy" => s.step = "deleteRecorded"
          /\ s.task \in {"sync", "bootstrap", "purge"} => s.step = s.task
      BY <2>2, <3>1 DEF FirstStep
    <3>4. Marked(r)
      BY DEF Shape
    <3>. HIDE DEF s, r
    <3>. QED
      BY <2>2, <3>1, <3>2, <3>3, <3>4
      DEF Shape, Located, Marked, Lefts, Candidates, None, s, Kinds
  <2>. QED
    BY <2>4, <2>5
<1>3. ASSUME FindOld(o) \/ Unlink(o) PROVE Shape(op'[o])
  <2>. DEFINE r == op[o]  s == op'[o]
  <2>1. \/ s = NoTask
        \/ Kept(s, r) /\ r.step \in {"lock", "unlink"} /\ s.step \in {"lock", "unlink"}
    BY <1>0, <1>3, GoRun, UnlinkRun DEF FindOld
  <2>2. Shape(r)
    OBVIOUS
  <2>. HIDE DEF r, s
  <2>. QED
    BY <2>1, <2>2, NoTaskFits
    DEF Shape, Located, Marked, Lefts, Candidates, Kept, SameTask, SamePods, SameMarks, s
<1>. QED
  BY <1>1, <1>2, <1>3 DEF Begin, Kinds

LEMMA RaiseFits ==
    ASSUME Typed, NEW o \in Operators, Shape(op[o]), Raise(o),
           op[o].step \notin {"idle"} \cup Waiting \cup Undoing
    PROVE  Shape(op'[o])
<1>. USE DEF Waiting, Undoing, Switching, Held
<1>. DEFINE r == op[o]  s == op'[o]
<1>1. CASE s = NoTask
  BY <1>1, NoTaskFits
<1>2. CASE s # NoTask
  <2>1. /\ ~Unguarded(o) /\ Kept(s, r)
        /\ s.step = IF r.task = "rotate" THEN "undoSecret" ELSE "undoBinding"
        /\ s.left = {k \in Kinds : r.candidate[k] # 0}
    BY <1>2, RaiseRun
  <2>2. r.task \in Switching
    BY <2>1 DEF Unguarded, Shape, Located
  <2>3. Shape(r) /\ r.step \notin {"idle"} \cup Waiting \cup Undoing
    OBVIOUS
  <2>. HIDE DEF r, s
  <2>4. Located(s)
    BY <2>1, <2>2, <2>3 DEF Shape, Located, Kept, SameTask
  <2>5. Marked(s)
    BY <2>1, <2>2, <2>3 DEF Shape, Marked, Kept, SameTask, SamePods, SameMarks
  <2>6. Lefts(s)
    BY <2>1, <2>2 DEF Lefts, Kept, SamePods
  <2>7. Candidates(s)
    BY <2>1, <2>2, <2>3 DEF Shape, Candidates, Kept, SameTask, SamePods, SameMarks
  <2>. QED
    BY <2>4, <2>5, <2>6, <2>7 DEF Shape, s
<1>. QED
  BY <1>1, <1>2

LEMMA ApplyFits ==
    ASSUME Typed, NEW o \in Operators, Shape(op[o]), Apply(o)
    PROVE  Shape(op'[o])
<1>. USE DEF Waiting, Undoing, Switching, Held
<1>. DEFINE r == op[o]  s == op'[o]
<1>0. /\ op \in [Operators -> Runs] /\ r \in Runs /\ r.left \in SUBSET Kinds
      /\ r.target \in SUBSET Kinds
      /\ r.left # {} => First(r.left) \in r.left
      /\ First(r.left) \in Kinds /\ r.found \in PodsOfKinds /\ r.candidate \in PodsOfKinds
  BY KindsInOrder DEF Typed, Runs
<1>b. r.left # {} => First(r.left) \in r.left /\ First(r.left) \in Kinds
  BY <1>0
<1>a. Shape(r)
  OBVIOUS
<1>1. CASE DrawKeys(o)
  <2>1. /\ r.task = "ensure" /\ r.step = "keys"
        /\ SameTask(s, r) /\ SamePods(s, r) /\ SameMarks(s, r)
        /\ s.step = "foundation" /\ s.left = r.left
    BY <1>0, <1>1, DrawKeysRun
  <2>. HIDE DEF r, s
  <2>. QED
    BY <1>0, <1>a, <2>1
       DEF Shape, Located, Marked, Lefts, Candidates, Kept, SameTask, SameKeys,
           SamePods, SameMarks, s
<1>2. CASE DeployStack(o)
  <2>1. /\ r.step \in {"foundation", "service"}
        /\ SameTask(s, r) /\ SameKeys(s, r) /\ SamePods(s, r)
        /\ s.step = IF r.step = "service" THEN "install" ELSE "address"
        /\ s.left = r.left /\ s.changed = r.changed /\ s.promoted = r.promoted
    BY <1>0, <1>2, DeployStackRun
  <2>. HIDE DEF r, s
  <2>. QED
    BY <1>0, <1>a, <2>1
       DEF Shape, Located, Marked, Lefts, Candidates, Kept, SameTask, SameKeys,
           SamePods, SameMarks, s
<1>3. CASE Address(o)
  <2>1. /\ r.step = "address" /\ s.step = "pods" /\ s.left = Kinds
        /\ SameTask(s, r) /\ SameKeys(s, r) /\ SamePods(s, r)
        /\ s.newStacks = r.newStacks
        /\ s.changed = r.changed /\ s.promoted = r.promoted
    BY <1>0, <1>3, AddressRun
  <2>. HIDE DEF r, s
  <2>. QED
    BY <1>0, <1>a, <2>1
       DEF Shape, Located, Marked, Lefts, Candidates, Kept, SameTask, SameKeys,
           SamePods, SameMarks, s, Kinds
<1>4. CASE Discover(o)
  <2>1. /\ r.step = "discover"
        /\ SameTask(s, r) /\ SameKeys(s, r) /\ SameMarks(s, r)
        /\ s.candidate = r.candidate
        /\ s.step = IF r.task = "replace" THEN "pods" ELSE "stage"
        /\ s.left = IF r.task = "replace" THEN r.target ELSE r.left
    BY <1>0, <1>4, DiscoverRun
  <2>. HIDE DEF r, s
  <2>. QED
    BY <1>0, <1>a, <2>1
       DEF Shape, Located, Marked, Lefts, Candidates, Kept, SameTask, SameKeys,
           SamePods, SameMarks, s
<1>5. CASE Stage(o)
  <2>1. /\ r.step = "stage" /\ s.step = "pods" /\ s.left = r.target
        /\ SameTask(s, r) /\ SamePods(s, r) /\ SameMarks(s, r)
    BY <1>0, <1>5, StageRun
  <2>. HIDE DEF r, s
  <2>. QED
    BY <1>0, <1>a, <2>1
       DEF Shape, Located, Marked, Lefts, Candidates, Kept, SameTask, SameKeys,
           SamePods, SameMarks, s
<1>6. CASE ReusePod(o)
  <2>. DEFINE k == First(r.left)  p == Current(k)
  <2>1. /\ r.task = "ensure" /\ r.step = "pods"
        /\ SameTask(s, r) /\ SameKeys(s, r) /\ SameMarks(s, r)
        /\ s.found = [r.found EXCEPT ![k] = p] /\ s.candidate = r.candidate
        /\ s.left = IF r.left \ {k} = {} THEN Kinds ELSE r.left \ {k}
        /\ s.step = IF r.left \ {k} = {} THEN "sync" ELSE "pods"
    BY <1>0, <1>6, ReusePodRun
  <2>9. r.left # {}
    BY <1>a, <2>1 DEF Shape, Lefts
  <2>2. k \in r.left /\ k \in Kinds
    BY <1>b, <2>9
  <2>. HIDE DEF r, s, k, p
  <2>3. \A i \in Kinds : i # k => s.found[i] = r.found[i]
    BY <1>0, <2>1, <2>2 DEF PodsOfKinds
  <2>4. Located(s) /\ Marked(s)
    BY <1>0, <1>a, <2>1 DEF Shape, Located, Marked, SameTask, SameMarks
  <2>5. Lefts(s)
    BY <1>0, <1>a, <2>1 DEF Shape, Lefts, SameTask, Kinds
  <2>6. Candidates(s)
    BY <1>0, <1>a, <2>1, <2>2, <2>3 DEF Shape, Marked, Candidates, SameTask, SameMarks
  <2>. QED
    BY <2>4, <2>5, <2>6 DEF Shape, s
<1>7. CASE CreatePod(o)
  <2>. DEFINE k == First(r.left)  p == made[k] + 1
  <2>1. /\ r.step = "pods" /\ p \in 1 .. MaxPods
        /\ SameTask(s, r) /\ SameKeys(s, r) /\ SameMarks(s, r)
        /\ s.found = r.found /\ s.candidate = [r.candidate EXCEPT ![k] = p]
        /\ s.left = IF r.left \ {k} = {} /\ r.task = "ensure" THEN Kinds ELSE r.left \ {k}
        /\ s.step = IF r.left \ {k} = {} THEN NextAfterPods(r.task) ELSE "pods"
    BY <1>0, <1>7, CreatePodRun DEF Typed, TypeOK, PodsOfKinds
  <2>10. r.left # {}
    BY <1>a, <2>1 DEF Shape, Lefts
  <2>2. k \in r.left /\ k \in Kinds /\ r.task \in Switching
    BY <1>a, <1>b, <2>1, <2>10 DEF Shape, Located
  <2>. HIDE DEF k
  <2>7. p # 0
    BY <2>1, BoundsAssumption
  <2>. HIDE DEF r, s, p
  <2>3. s.candidate[k] # 0 /\ \A i \in Kinds : i # k => s.candidate[i] = r.candidate[i]
    BY <1>0, <2>1, <2>2, <2>7 DEF PodsOfKinds
  <2>8. \/ s.step = "pods" /\ s.left = r.left \ {k} /\ s.left # {}
        \/ /\ r.left \ {k} = {}
           /\ r.task = "ensure" => s.left = Kinds /\ s.step = "sync"
           /\ r.task = "replace" => s.step = "bind"
           /\ r.task = "rotate" => s.step = "promote"
    BY <2>1 DEF NextAfterPods
  <2>4. Located(s) /\ Marked(s)
    BY <1>0, <1>a, <2>1, <2>2, <2>8 DEF Shape, Located, Marked, SameTask, SameMarks
  <2>5. Lefts(s)
    BY <1>0, <1>a, <2>1, <2>2, <2>8 DEF Shape, Lefts, SameTask, Kinds
  <2>9. r.task # "ensure" => k \in r.target
    BY <1>a, <2>1, <2>2 DEF Shape, Lefts
  <2>6. Candidates(s)
    BY <1>0, <1>a, <2>1, <2>2, <2>3, <2>8, <2>9
    DEF Shape, Lefts, Marked, Candidates, SameTask, SameMarks
  <2>. QED
    BY <2>4, <2>5, <2>6 DEF Shape, s
<1>8. CASE SyncSecret(o)
  <2>1. \/ s = NoTask
        \/ /\ r.step = "sync" /\ Kept(s, r)
           /\ \/ s.step = "sync" /\ s.left = r.left \ {First(r.left)} /\ s.left # {}
              \/ r.task = "ensure" /\ s.step = "bind" /\ s.left = {}
    BY <1>0, <1>8, GoOverRun, ReleaseRun DEF SyncSecret
  <2>. HIDE DEF r, s
  <2>. QED
    BY <1>0, <1>a, <2>1, NoTaskFits
       DEF Shape, Located, Marked, Lefts, Candidates, Kept, SameTask, SameKeys,
           SamePods, SameMarks, s
<1>9. CASE Promote(o)
  <2>1. /\ r.step = "promote" /\ s.step = "bind" /\ s.left = r.left
        /\ SameTask(s, r) /\ SameKeys(s, r) /\ SamePods(s, r)
        /\ s.newStacks = r.newStacks /\ s.changed = r.changed /\ s.promoted
    BY <1>0, <1>9, PromoteRun
  <2>. HIDE DEF r, s
  <2>. QED
    BY <1>0, <1>a, <2>1
       DEF Shape, Located, Marked, Lefts, Candidates, Kept, SameTask, SameKeys,
           SamePods, SameMarks, s
<1>10. CASE Bind(o)
  <2>1. /\ r.step = "bind" /\ \A k \in Kinds : Chosen(o)[k] # 0
        /\ s.step = IF r.task = "ensure" THEN "service" ELSE "reapply"
        /\ SameTask(s, r) /\ SameKeys(s, r) /\ SamePods(s, r)
        /\ s.newStacks = r.newStacks /\ s.changed /\ s.promoted = r.promoted
        /\ s.left = r.left
    BY <1>0, <1>10, BindRun
  <2>2. \A k \in Kinds : r.candidate[k] # 0 \/ r.found[k] # 0
    BY <2>1 DEF Chosen
  <2>. HIDE DEF r, s
  <2>. QED
    BY <1>0, <1>a, <2>1, <2>2
       DEF Shape, Located, Marked, Lefts, Candidates, Kept, SameTask, SameKeys,
           SamePods, SameMarks, s
<1>11. CASE Reapply(o)
  <2>1. /\ r.step = "reapply" /\ Kept(s, r)
        /\ s.step = IF r.task = "replace" THEN "retire" ELSE "discard"
        /\ s.left = IF r.task = "replace" THEN r.target ELSE r.left
    BY <1>0, <1>11, GoOverRun, GoRun DEF Reapply
  <2>. HIDE DEF r, s
  <2>. QED
    BY <1>0, <1>a, <2>1
       DEF Shape, Located, Marked, Lefts, Candidates, Kept, SameTask, SameKeys,
           SamePods, SameMarks, s
<1>12. CASE Pass(o)
  <2>1. /\ r.step \in {"discard", "install"} /\ Kept(s, r) /\ s.left = r.left
        /\ s.step = IF r.step = "discard" THEN "file" ELSE "record"
    BY <1>0, <1>12, GoRun DEF Pass
  <2>. HIDE DEF r, s
  <2>. QED
    BY <1>0, <1>a, <2>1
       DEF Shape, Located, Marked, Lefts, Candidates, Kept, SameTask, SameKeys,
           SamePods, SameMarks, s
<1>13. CASE KeepKey(o)
  <2>1. r.step = "file" /\ Kept(s, r) /\ s.left = r.left /\ s.step = "record"
    BY <1>0, <1>13, GoRun DEF KeepKey
  <2>. HIDE DEF r, s
  <2>. QED
    BY <1>0, <1>a, <2>1
       DEF Shape, Located, Marked, Lefts, Candidates, Kept, SameTask, SameKeys,
           SamePods, SameMarks, s
<1>14. CASE Record(o)
  <2>1. \/ s = NoTask
        \/ /\ r.step = "record" /\ r.task = "rotate" /\ Kept(s, r)
           /\ s.step = "retire" /\ s.left = r.target
    BY <1>0, <1>14, GoOverRun, ReleaseRun DEF Record
  <2>. HIDE DEF r, s
  <2>. QED
    BY <1>0, <1>a, <2>1, NoTaskFits
       DEF Shape, Located, Marked, Lefts, Candidates, Kept, SameTask, SameKeys,
           SamePods, SameMarks, s
<1>15. CASE Retire(o)
  <2>1. \/ s = NoTask
        \/ /\ r.step = "retire" /\ Kept(s, r)
           /\ \/ /\ s.step = "retire" /\ s.left = r.left \ {First(r.left)}
                 /\ s.left # {}
              \/ r.task = "replace" /\ s.step = "record" /\ s.left = {}
    BY <1>0, <1>15, GoOverRun, ReleaseRun DEF Retire
  <2>. HIDE DEF r, s
  <2>. QED
    BY <1>0, <1>a, <2>1, NoTaskFits
       DEF Shape, Located, Marked, Lefts, Candidates, Kept, SameTask, SameKeys,
           SamePods, SameMarks, s
<1>16. CASE DeleteRecorded(o)
  <2>1. \/ s = NoTask
        \/ /\ r.step = "deleteRecorded" /\ Kept(s, r)
           /\ \/ s.step = "deleteNamed" /\ s.left = Kinds
              \/ s.step = "deleteRecorded" /\ s.left # {}
    BY <1>0, <1>16, GoOverRun, ReleaseRun DEF DeleteRecorded
  <2>. HIDE DEF r, s
  <2>2. Kinds # {}
    BY DEF Kinds
  <2>. QED
    BY <1>0, <1>a, <2>1, <2>2, NoTaskFits
       DEF Shape, Located, Marked, Lefts, Candidates, Kept, SameTask, SameKeys,
           SamePods, SameMarks, s
<1>17. CASE DeleteNamed(o)
  <2>1. \/ s = NoTask
        \/ /\ r.step = "deleteNamed" /\ Kept(s, r)
           /\ \/ s.step = "destroyStacks" /\ s.left = {}
              \/ s.step = "deleteNamed" /\ s.left # {}
    BY <1>0, <1>17, GoOverRun, ReleaseRun DEF DeleteNamed
  <2>. HIDE DEF r, s
  <2>. QED
    BY <1>0, <1>a, <2>1, NoTaskFits
       DEF Shape, Located, Marked, Lefts, Candidates, Kept, SameTask, SameKeys,
           SamePods, SameMarks, s
<1>18. CASE DestroyStacks(o)
  <2>1. r.step = "destroyStacks" /\ Kept(s, r) /\ s.left = r.left /\ s.step = "clear"
    BY <1>0, <1>18, GoRun DEF DestroyStacks
  <2>. HIDE DEF r, s
  <2>. QED
    BY <1>0, <1>a, <2>1
       DEF Shape, Located, Marked, Lefts, Candidates, Kept, SameTask, SameKeys,
           SamePods, SameMarks, s
<1>19. CASE Clear(o)
  <2>1. r.step = "clear" /\ Kept(s, r) /\ s.left = r.left /\ s.step = "blank"
    BY <1>0, <1>19, GoRun DEF Clear
  <2>. HIDE DEF r, s
  <2>. QED
    BY <1>0, <1>a, <2>1
       DEF Shape, Located, Marked, Lefts, Candidates, Kept, SameTask, SameKeys,
           SamePods, SameMarks, s
<1>20. CASE Blank(o)
  BY <1>0, <1>20, ReleaseRun, NoTaskFits DEF Blank
<1>21. CASE Bootstrap(o)
  BY <1>0, <1>21, ReleaseRun, NoTaskFits DEF Bootstrap
<1>22. CASE Purge(o)
  BY <1>0, <1>22, ReleaseRun, NoTaskFits DEF Purge
<1>. QED
  BY <1>1, <1>2, <1>3, <1>4, <1>5, <1>6, <1>7, <1>8, <1>9, <1>10, <1>11, <1>12,
     <1>13, <1>14, <1>15, <1>16, <1>17, <1>18, <1>19, <1>20, <1>21, <1>22 DEF Apply

LEMMA CompensateFits ==
    ASSUME Typed, NEW o \in Operators, Shape(op[o]),
           Compensate(o) \/ UndoFails(o)
    PROVE  Shape(op'[o])
<1>. USE DEF Waiting, Undoing, Switching, Held
<1>. DEFINE r == op[o]  s == op'[o]
<1>0. op \in [Operators -> Runs] /\ Shape(r)
  BY DEF Typed
<1>1. CASE UndoStacks(o) \/ UndoEnds(o)
  BY <1>0, <1>1, ReleaseRun, NoTaskFits DEF UndoStacks, UndoEnds
<1>2. CASE UndoSecret(o)
  <2>1. /\ r.step = "undoSecret" /\ Kept(s, r) /\ s.left = r.left
        /\ s.step = "undoBinding"
    BY <1>0, <1>2, GoRun DEF UndoSecret
  <2>. HIDE DEF r, s
  <2>. QED
    BY <1>0, <2>1 DEF Shape, Located, Marked, Lefts, Candidates, Kept, SameTask, SameKeys,
                      SamePods, SameMarks, s
<1>3. CASE UndoBinding(o)
  <2>1. /\ r.step = "undoBinding" /\ Kept(s, r) /\ s.left = r.left
        /\ s.step = IF ~Restores(o) \/ r.task = "ensure" THEN "undoPods"
                    ELSE "undoReapply"
    BY <1>0, <1>3, GoRun DEF UndoBinding, NextUndo
  <2>. HIDE DEF r, s
  <2>. QED
    BY <1>0, <2>1 DEF Shape, Located, Marked, Lefts, Candidates, Kept, SameTask, SameKeys,
                      SamePods, SameMarks, s
<1>4. CASE UndoReapply(o)
  <2>1. /\ r.step = "undoReapply" /\ Kept(s, r) /\ s.left = r.left
        /\ s.step = "undoPods"
    BY <1>0, <1>4, GoRun DEF UndoReapply
  <2>. HIDE DEF r, s
  <2>. QED
    BY <1>0, <2>1 DEF Shape, Located, Marked, Lefts, Candidates, Kept, SameTask, SameKeys,
                      SamePods, SameMarks, s
<1>5. CASE UndoPods(o)
  <2>1. /\ r.step = "undoPods" /\ Kept(s, r) /\ s.left \subseteq r.left
        /\ s.step = "undoPods"
    BY <1>0, <1>5, GoOverRun DEF UndoPods
  <2>. HIDE DEF r, s
  <2>. QED
    BY <1>0, <2>1 DEF Shape, Located, Marked, Lefts, Candidates, Kept, SameTask, SameKeys,
                      SamePods, SameMarks, s
<1>6. CASE UndoFails(o)
  <2>. DEFINE step == CASE r.step = "undoSecret" -> "undoBinding" [] OTHER -> "undoPods"
              left == IF r.step = "undoPods" THEN r.left \ {Last(r.left)} ELSE r.left
  <2>1. GoOver(o, step, left) /\ r.step \in Undoing
    BY <1>6 DEF UndoFails
  <2>2. /\ left \subseteq r.left
        /\ r.step # "undoPods" => left = r.left
        /\ step = IF r.step = "undoSecret" THEN "undoBinding" ELSE "undoPods"
    OBVIOUS
  <2>. HIDE DEF step, left
  <2>3. Kept(s, r) /\ s.left = left /\ s.step = step
    BY <1>0, <2>1, GoOverRun
  <2>4. r.step # "undoPods" => s.left = r.left
    BY <2>2, <2>3
  <2>. HIDE DEF r, s
  <2>5. Located(s) /\ Marked(s)
    BY <1>0, <2>1, <2>2, <2>3
    DEF Shape, Located, Marked, Kept, SameTask, SamePods, SameMarks
  <2>6. Lefts(s)
    BY <1>0, <2>1, <2>2, <2>3, <2>4 DEF Shape, Lefts, Kept, SameTask, SamePods
  <2>7. Candidates(s)
    BY <1>0, <2>1, <2>2, <2>3 DEF Shape, Candidates, Kept, SameTask, SamePods, SameMarks
  <2>. QED
    BY <2>5, <2>6, <2>7 DEF Shape, s
<1>. QED
  BY <1>1, <1>2, <1>3, <1>4, <1>5, <1>6 DEF Compensate

\* A raise comes from a step of the task proper.
LEMMA RaisesInStep ==
    ASSUME Typed, NEW o \in Operators,
           Refused(o) \/ CallFails(o) \/ CandidateStays(o) \/ ReapplyFails(o)
    PROVE  Raise(o) /\ op[o].step \notin {"idle"} \cup Waiting \cup Undoing
<1>1. CASE Refused(o)
  BY <1>1 DEF Refused, PodRefused, DiscoverRefused, NotDeployable, NoSecret, BindRefused,
              NoRelease, DeleteRefused, Refuse, Waiting, Undoing
<1>2. CASE CallFails(o)
  BY <1>2, FailingAssumption DEF CallFails, Calls, Waiting, Undoing
<1>3. CASE CandidateStays(o) \/ ReapplyFails(o)
  BY <1>3 DEF CandidateStays, ReapplyFails, Waiting, Undoing
<1>. QED
  BY <1>1, <1>2, <1>3

LEMMA ActFits ==
    ASSUME Typed, NEW o \in Operators, Shape(op[o]),
           Begin(o) \/ Apply(o) \/ Refused(o) \/ Compensate(o) \/ Faults(o)
    PROVE  Shape(op'[o])
<1>1. CASE Interrupt(o) \/ Kill(o)
  <2>1. op'[o] = NoTask
    BY <1>1, ReleaseRun, BecomeRun DEF Interrupt, Kill, Typed
  <2>. QED
    BY <2>1, NoTaskFits
<1>. QED
  BY <1>1, BeginFits, ApplyFits, CompensateFits, RaisesInStep, RaiseFits DEF Faults

\* An actor changes its own run only.
LEMMA OthersKept ==
    ASSUME Typed, Begun, NEW o \in Operators,
           Begin(o) \/ Apply(o) \/ Refused(o) \/ Compensate(o) \/ Faults(o)
    PROVE  \A x \in Operators \ {o} : op'[x] = op[x]
<1>0. op \in [Operators -> Runs]
  BY DEF Typed
<1>1. CASE Begin(o)
  <2>1. CASE Lock(o)
    BY <2>1, LockRun DEF Lock, Begun
  <2>2. CASE FindOld(o) \/ Unlink(o)
    BY <1>0, <2>2, GoRun, UnlinkRun DEF FindOld
  <2>. QED
    BY <1>0, <1>1, <2>1, <2>2, BecomeRun DEF Begin, Load
<1>2. CASE Apply(o)
  <2>1. CASE \/ DrawKeys(o) \/ DeployStack(o) \/ Address(o) \/ Discover(o) \/ Stage(o)
             \/ Promote(o) \/ Bind(o)
    BY <1>0, <2>1, BecomeRun
    DEF DrawKeys, DeployStack, Address, Discover, Stage, Promote, Bind
  <2>2. CASE ReusePod(o) \/ CreatePod(o)
    BY <1>0, <2>2, BecomeRun DEF ReusePod, CreatePod, HavePod
  <2>3. CASE \/ SyncSecret(o) \/ Reapply(o) \/ Record(o) \/ Retire(o) \/ DeleteRecorded(o)
             \/ DeleteNamed(o)
    BY <1>0, <2>3, GoOverRun, GoRun, ReleaseRun
    DEF SyncSecret, Reapply, Record, Retire, DeleteRecorded, DeleteNamed
  <2>4. CASE \/ Pass(o) \/ KeepKey(o) \/ DestroyStacks(o) \/ Clear(o) \/ Blank(o)
             \/ Bootstrap(o) \/ Purge(o)
    BY <1>0, <2>4, GoRun, ReleaseRun
    DEF Pass, KeepKey, DestroyStacks, Clear, Blank, Bootstrap, Purge
  <2>. QED
    BY <1>2, <2>1, <2>2, <2>3, <2>4 DEF Apply
<1>3. CASE Compensate(o)
  BY <1>0, <1>3, GoRun, GoOverRun, ReleaseRun
  DEF Compensate, UndoSecret, UndoBinding, UndoReapply, UndoPods, UndoStacks, UndoEnds
<1>4. CASE Raise(o)
  BY <1>4, RaiseRun
<1>5. CASE UndoFails(o) \/ Interrupt(o) \/ Kill(o)
  BY <1>0, <1>5, GoOverRun, ReleaseRun, BecomeRun DEF UndoFails, Interrupt, Kill
<1>. QED
  BY <1>1, <1>2, <1>3, <1>4, <1>5, RaisesInStep DEF Faults

Acts(o) == Begin(o) \/ Apply(o) \/ Refused(o) \/ Compensate(o) \/ Faults(o)
Shaped == Typed /\ \A o \in Operators : Shape(op[o])

LEMMA ShapedBegun ==
    Shaped => Begun
  BY DEF Shaped, Shape, Located, Begun

LEMMA NextShaped ==
    ASSUME Shaped, [Next]_vars
    PROVE  Shaped'
<1>1. Typed'
  BY NextTyped, ShapedBegun DEF Shaped
<1>2. ASSUME NEW o \in Operators, Acts(o)
      PROVE  \A x \in Operators : Shape(op'[x])
  <2>1. Shape(op'[o])
    BY <1>2, ActFits DEF Shaped, Acts
  <2>2. \A x \in Operators \ {o} : op'[x] = op[x]
    BY <1>2, OthersKept, ShapedBegun DEF Shaped, Acts
  <2>. QED
    BY <2>1, <2>2 DEF Shaped
<1>3. CASE op' = op
  BY <1>1, <1>3 DEF Shaped
<1>4. CASE \E o \in Operators : Acts(o)
  BY <1>1, <1>2, <1>4 DEF Shaped
<1>. QED
  BY <1>3, <1>4 DEF Next, Acts, LockAges, DeployRelease, vars

LEMMA InitShaped ==
    ASSUME Init
    PROVE  Shaped
<1>. USE BoundsAssumption
<1>1. /\ podKey \in [Kinds -> [1 .. MaxPods -> 0 .. MaxKeys]] /\ made = None
      /\ secret = None /\ binding = None /\ file = None /\ drawn = None
      /\ resources = None /\ stacks \in SUBSET Stacks /\ lock = Nobody
      /\ applied = [k \in Kinds |-> NotApplied] /\ op = [o \in Operators |-> NoTask]
  BY DEF Init, Stacks
<1>2. Typed
  BY <1>1, BlankIsTyped DEF Typed, TypeOK, PodsOfKinds, KeysOfKinds
<1>. QED
  BY <1>1, <1>2, NoTaskFits DEF Shaped

-----------------------------------------------------------------------------
(* Which steps change what.                                                 *)

Tasked(o) == op[o].step \notin {"idle"} \cup Waiting

LEMMA WorkingAreTasked ==
    \A o \in Operators : o \in Working <=> Tasked(o)
  BY DEF Working, Tasked, Waiting

\* The steps outside the lock.
LEMMA BeginStep ==
    ASSUME Shaped, NEW o \in Operators, Begin(o)
    PROVE  /\ UNCHANGED <<pods, cloud, file, drawn, resources>>
           /\ ~Tasked(o) /\ mishaps \subseteq mishaps'
           /\ op[o].step # "idle" => SamePods(op[o], NoTask) /\ SameMarks(op[o], NoTask)
           /\ \/ op'[o].step \in {"idle"} \cup Waiting
              \/ Lock(o) /\ Free /\ op'[o] # NoTask
<1>0. Typed /\ op \in [Operators -> Runs]
  BY DEF Shaped, Typed
<1>1. op[o].step # "idle" =>
        /\ op[o].step \in Waiting
        /\ op[o].task \in Held /\ SamePods(op[o], NoTask) /\ SameMarks(op[o], NoTask)
  BY DEF Begin, Load, Idle, Lock, FindOld, Unlink, Shaped, Shape, Located, Waiting
<1>2. ASSUME NEW task \in Held, NEW target \in SUBSET Kinds, Load(o, task, target)
      PROVE  /\ UNCHANGED <<pods, cloud, file, drawn, resources>> /\ mishaps' = mishaps
             /\ op[o].step = "idle" /\ op'[o].step = "lock"
  BY <1>0, <1>2, LoadRun DEF Load, local
<1>3. ASSUME Lock(o)
      PROVE  /\ UNCHANGED <<pods, cloud, file, drawn, resources>> /\ mishaps \subseteq mishaps'
             /\ op[o].step = "lock" /\ (op'[o] = NoTask \/ (Free /\ op'[o] # NoTask))
  <2>1. /\ UNCHANGED <<pods, cloud, file, drawn, resources>> /\ mishaps \subseteq mishaps'
        /\ op[o].step = "lock"
    BY <1>3 DEF Lock, local
  <2>2. op'[o] = NoTask \/ Free
    BY <1>0, <1>1, <1>3, <2>1, LockRun DEF Free
  <2>. QED
    BY <2>1, <2>2
<1>4. ASSUME FindOld(o) \/ Unlink(o)
      PROVE  /\ UNCHANGED <<pods, cloud, file, drawn, resources>> /\ mishaps \subseteq mishaps'
             /\ op'[o].step \in {"idle"} \cup Waiting /\ op[o].step \in Waiting
  <2>1. CASE FindOld(o)
    BY <1>0, <2>1, GoRun DEF FindOld, local, Waiting
  <2>2. CASE Unlink(o)
    <3>1. /\ UNCHANGED <<pods, cloud, local>> /\ mishaps \subseteq mishaps'
          /\ op[o].step = "unlink"
      BY <2>2 DEF Unlink
    <3>2. op'[o] = NoTask \/ op'[o].step = "lock"
      BY <1>0, <2>2, UnlinkRun
    <3>. QED
      BY <3>1, <3>2 DEF local, Waiting, NoTask
  <2>. QED
    BY <1>4, <2>1, <2>2
<1>5. Load(o, "ensure", {}) \/ Load(o, "sync", {}) \/ Load(o, "destroy", {})
      \/ Load(o, "bootstrap", {}) \/ Load(o, "purge", {})
      \/ (\E target \in (SUBSET Kinds) \ {{}} : Load(o, "replace", target))
      \/ (\E k \in Kinds : Load(o, "rotate", {k}))
      => \E task \in Held, target \in SUBSET Kinds : Load(o, task, target)
  BY DEF Held, Kinds
<1>6. NoTask.step = "idle"
  BY DEF NoTask
<1>. QED
  BY <1>1, <1>2, <1>3, <1>4, <1>5, <1>6 DEF Begin, Tasked, Waiting

LEMMA ActStepFrame ==
    ASSUME Shaped, NEW o \in Operators,
           Apply(o) \/ Refused(o) \/ Compensate(o) \/ Faults(o)
    PROVE  /\ Tasked(o) /\ mishaps \subseteq mishaps'
           /\ \/ UNCHANGED <<podKey, made>>
              \/ CreatePod(o) \/ CandidateStays(o) \/ Retire(o) \/ UndoPods(o)
              \/ DeleteRecorded(o) \/ DeleteNamed(o)
           /\ binding' = binding \/ Bind(o) \/ UndoBinding(o) \/ UndoStacks(o)
              \/ DestroyStacks(o)
           /\ secret' = secret \/ SyncSecret(o) \/ Promote(o) \/ UndoSecret(o)
              \/ UndoStacks(o) \/ Clear(o)
           /\ file' = file \/ DrawKeys(o) \/ KeepKey(o) \/ Blank(o)
           /\ applied' = applied \/ Reapply(o) \/ ReapplyFails(o) \/ UndoReapply(o)
              \/ UndoStacks(o) \/ DestroyStacks(o) \/ Purge(o)
           /\ stacks' = stacks \/ DeployStack(o) \/ UndoStacks(o) \/ DestroyStacks(o)
              \/ Bootstrap(o) \/ Purge(o)
<1>1. CASE Apply(o)
  <2>1. CASE DeployStack(o) \/ Address(o)
    <3>1. mishaps \subseteq mishaps'
      BY <2>1, MisreadRun DEF DeployStack, Address
    <3>. QED
      BY <2>1, <3>1 DEF DeployStack, Address, Tasked, Waiting, pods, cloud, local
  <2>2. CASE DestroyStacks(o) \/ Clear(o) \/ Blank(o)
    <3>1. mishaps \subseteq mishaps'
      BY <2>2 DEF DestroyStacks, Clear, Blank, GivesUp
    <3>. QED
      BY <2>2, <3>1 DEF DestroyStacks, Clear, Blank, Tasked, Waiting, pods, cloud, local
  <2>3. CASE Purge(o)
    <3>1. mishaps \subseteq mishaps'
      BY <2>3, MisreadRun DEF Purge
    <3>2. binding' = binding
      BY <2>3 DEF Purge, Destroy, WithDependents
    <3>. QED
      BY <2>3, <3>1, <3>2 DEF Purge, Tasked, Waiting, pods, local
  <2>. QED
    BY <1>1, <2>1, <2>2, <2>3
    DEF Apply, Tasked, Waiting, AtStep, DrawKeys, Discover, Stage, ReusePod, CreatePod,
        SyncSecret, Promote, Bind, Reapply, Pass, KeepKey, Record, Retire, DeleteRecorded,
        DeleteNamed, Bootstrap, pods, cloud, local
<1>2. CASE Refused(o)
  <2>1. Refuse(o) /\ Tasked(o)
    BY <1>2, RaisesInStep
    DEF Refused, PodRefused, DiscoverRefused, NotDeployable, NoSecret, BindRefused,
        NoRelease, DeleteRefused, Tasked, Shaped
  <2>. QED
    BY <2>1 DEF Refuse, HalfDestroyed, pods, cloud
<1>3. CASE Compensate(o)
  <2>1. CASE UndoStacks(o)
    <3>1. mishaps \subseteq mishaps'
      BY <2>1 DEF UndoStacks, GivesUp
    <3>. QED
      BY <2>1, <3>1 DEF UndoStacks, Tasked, Waiting, pods, local
  <2>. QED
    BY <1>3, <2>1 DEF Compensate, Tasked, Waiting, UndoSecret, UndoBinding, UndoReapply,
       UndoPods, UndoEnds, pods, cloud, local
<1>4. CASE Faults(o)
  <2>1. CASE CallFails(o)
    BY <2>1, RaisesInStep DEF CallFails, HalfDestroyed, Tasked, pods, cloud, Shaped
  <2>2. CASE CandidateStays(o)
    BY <2>2, RaisesInStep DEF CandidateStays, Tasked, cloud, Shaped
  <2>3. CASE ReapplyFails(o)
    BY <2>3, RaisesInStep DEF ReapplyFails, Tasked, pods, Shaped
  <2>4. CASE UndoFails(o)
    BY <2>4 DEF UndoFails, GivesUp, Tasked, Waiting, pods, cloud, local
  <2>5. CASE Interrupt(o) \/ Kill(o)
    BY <2>5, WorkingAreTasked DEF Interrupt, Kill, pods, cloud, local
  <2>. QED
    BY <1>4, <2>1, <2>2, <2>3, <2>4, <2>5 DEF Faults
<1>. QED
  BY <1>1, <1>2, <1>3, <1>4

\* What a task under the lock keeps in memory, and which steps change it.
LEMMA RunStep ==
    ASSUME Shaped, NEW o \in Operators,
           Apply(o) \/ Refused(o) \/ Compensate(o) \/ Faults(o), op'[o] # NoTask
    PROVE  LET r == op[o]  s == op'[o] IN
           /\ SameTask(s, r)
           /\ SameKeys(s, r) \/ DrawKeys(o) \/ Stage(o)
           /\ SamePods(s, r) \/ Discover(o) \/ ReusePod(o) \/ CreatePod(o)
           /\ SameMarks(s, r) \/ DeployStack(o) \/ Address(o) \/ Promote(o) \/ Bind(o)
<1>0. Typed /\ op \in [Operators -> Runs]
  BY DEF Shaped, Typed
<1>. DEFINE r == op[o]  s == op'[o]
<1>1. CASE DrawKeys(o) \/ Stage(o)
  BY <1>0, <1>1, DrawKeysRun, StageRun
<1>2. CASE Discover(o) \/ ReusePod(o) \/ CreatePod(o)
  BY <1>0, <1>2, DiscoverRun, ReusePodRun, CreatePodRun DEF Typed, TypeOK, PodsOfKinds
<1>3. CASE DeployStack(o) \/ Address(o) \/ Promote(o) \/ Bind(o)
  BY <1>0, <1>3, DeployStackRun, AddressRun, PromoteRun, BindRun
<1>4. ASSUME Kept(s, r)
      PROVE  SameTask(s, r) /\ SameKeys(s, r) /\ SamePods(s, r) /\ SameMarks(s, r)
  BY <1>4 DEF Kept
<1>5. CASE \/ SyncSecret(o) \/ Reapply(o) \/ Record(o) \/ Retire(o) \/ DeleteRecorded(o)
           \/ DeleteNamed(o)
  <2>1. Kept(s, r)
    BY <1>0, <1>5, GoOverRun, GoRun, ReleaseRun
    DEF SyncSecret, Reapply, Record, Retire, DeleteRecorded, DeleteNamed
  <2>. QED
    BY <1>4, <2>1
<1>6. CASE \/ Pass(o) \/ KeepKey(o) \/ DestroyStacks(o) \/ Clear(o) \/ Blank(o)
           \/ Bootstrap(o) \/ Purge(o)
  <2>1. Kept(s, r)
    BY <1>0, <1>6, GoRun, ReleaseRun
    DEF Pass, KeepKey, DestroyStacks, Clear, Blank, Bootstrap, Purge
  <2>. QED
    BY <1>4, <2>1
<1>7. CASE Compensate(o)
  <2>1. Kept(s, r)
    BY <1>0, <1>7, GoRun, GoOverRun, ReleaseRun
    DEF Compensate, UndoSecret, UndoBinding, UndoReapply, UndoPods, UndoStacks, UndoEnds
  <2>. QED
    BY <1>4, <2>1
<1>8. CASE Raise(o)
  <2>1. Kept(s, r)
    BY <1>0, <1>8, RaiseRun
  <2>. QED
    BY <1>4, <2>1
<1>9. CASE UndoFails(o) \/ Interrupt(o) \/ Kill(o)
  <2>1. Kept(s, r)
    BY <1>0, <1>9, GoOverRun, ReleaseRun, BecomeRun DEF UndoFails, Interrupt, Kill
  <2>. QED
    BY <1>4, <2>1
<1>. QED
  BY <1>0, <1>1, <1>2, <1>3, <1>5, <1>6, <1>7, <1>8, <1>9, RaisesInStep DEF Apply, Faults

-----------------------------------------------------------------------------
(* Pods are numbered in the order of their creation.                        *)

LEMMA StoresTyped ==
    ASSUME Typed
    PROVE  /\ made \in PodsOfKinds /\ binding \in PodsOfKinds /\ podKey \in PodKeys
           /\ secret \in KeysOfKinds /\ file \in KeysOfKinds
           /\ \A k \in Kinds : /\ made[k] \in Nat /\ binding[k] \in Nat /\ applied[k].pod \in Nat
                               /\ applied[k].key \in Nat /\ secret[k] \in Nat /\ file[k] \in Nat
                               /\ \A p \in 1 .. MaxPods : podKey[k][p] \in Nat
<1>. USE BoundsAssumption
<1>1. /\ made \in PodsOfKinds /\ binding \in PodsOfKinds /\ podKey \in PodKeys
      /\ secret \in KeysOfKinds /\ file \in KeysOfKinds
  BY DEF Typed, TypeOK, PodsOfKinds, PodKeys, KeysOfKinds
<1>2. \A k \in Kinds : made[k] \in Nat /\ binding[k] \in Nat /\ secret[k] \in Nat /\ file[k] \in Nat
  BY <1>1 DEF PodsOfKinds, KeysOfKinds
<1>3. \A k \in Kinds : applied[k].pod \in Nat /\ applied[k].key \in Nat
  BY DEF Typed
<1>4. ASSUME NEW k \in Kinds, NEW p \in 1 .. MaxPods PROVE podKey[k][p] \in Nat
  <2>1. podKey[k] \in [1 .. MaxPods -> 0 .. MaxKeys]
    BY <1>1 DEF PodKeys
  <2>2. podKey[k][p] \in 0 .. MaxKeys
    BY <2>1
  <2>. QED
    BY <2>2
<1>. QED
  BY <1>1, <1>2, <1>3, <1>4

LEMMA RunTyped ==
    ASSUME NEW r \in Runs
    PROVE  /\ r.found \in PodsOfKinds /\ r.candidate \in PodsOfKinds
           /\ r.previous \in PodsOfKinds /\ r.boundBefore \in PodsOfKinds
           /\ r.values \in KeysOfKinds /\ r.left \in SUBSET Kinds /\ r.target \in SUBSET Kinds
           /\ \A k \in Kinds : /\ r.found[k] \in Nat /\ r.candidate[k] \in Nat
                               /\ r.previous[k] \in Nat /\ r.boundBefore[k] \in Nat
                               /\ r.values[k] \in Nat
<1>1. /\ r.found \in PodsOfKinds /\ r.candidate \in PodsOfKinds
      /\ r.previous \in PodsOfKinds /\ r.boundBefore \in PodsOfKinds
      /\ r.values \in KeysOfKinds /\ r.left \in SUBSET Kinds /\ r.target \in SUBSET Kinds
  BY DEF Runs
<1>2. ASSUME NEW f, f \in PodsOfKinds \/ f \in KeysOfKinds, NEW k \in Kinds
      PROVE  f[k] \in Nat
  BY <1>2, BoundsAssumption DEF PodsOfKinds, KeysOfKinds
<1>. QED
  BY <1>1, <1>2

LEMMA CurrentIsNumbered ==
    ASSUME Typed, StoresNumbered, NEW k \in Kinds
    PROVE  Current(k) <= made[k] /\ Current(k) \in Nat
<1>1. CASE Alive(k) = {}
  BY <1>1, CurrentIsAlive, StoresTyped
<1>2. CASE Alive(k) # {}
  <2>1. Current(k) \in 1 .. MaxPods /\ podKey[k][Current(k)] # 0
    BY <1>2, CurrentIsAlive DEF Alive
  <2>. QED
    BY <2>1, BoundsAssumption DEF StoresNumbered
<1>. QED
  BY <1>1, <1>2

\* Pods come one at a time, numbered on, and others only go.
LEMMA PodsStep ==
    ASSUME Shaped, NEW o \in Operators, Acts(o)
    PROVE  \/ UNCHANGED <<podKey, made>>
           \/ /\ Creates(o, First(op[o].left)) /\ op[o].step = "pods"
              /\ CreatePod(o) \/ CandidateStays(o)
           \/ /\ made' = made
              /\ Retire(o) \/ UndoPods(o) \/ DeleteRecorded(o) \/ DeleteNamed(o)
              /\ \A k \in Kinds, p \in 1 .. MaxPods : podKey'[k][p] \in {0, podKey[k][p]}
<1>1. CASE Begin(o)
  BY <1>1, BeginStep DEF pods
<1>2. CASE CreatePod(o) \/ CandidateStays(o)
  BY <1>2, CreatesPod DEF CreatePod, CandidateStays
<1>3. CASE Retire(o) \/ UndoPods(o) \/ DeleteRecorded(o) \/ DeleteNamed(o)
  <2>1. podKey \in PodKeys /\ First(op[o].left) \in Kinds /\ Last(op[o].left) \in Kinds
    BY StoresTyped, RunTyped, KindsInOrder DEF Shaped, Typed
  <2>2. made' = made
    BY <1>3 DEF Retire, UndoPods, DeleteRecorded, DeleteNamed
  <2>3. \E k \in Kinds : \E p : DeleteIfAny(k, p) \/ Delete(k, p)
    BY <1>3, <2>1 DEF Retire, UndoPods, DeleteRecorded, DeleteNamed
  <2>4. \A k \in Kinds, p \in 1 .. MaxPods : podKey'[k][p] \in {0, podKey[k][p]}
    BY <2>1, <2>3, DeleteRun, DeleteIfAnyRun
  <2>. QED
    BY <1>3, <2>2, <2>4
<1>. QED
  BY <1>1, <1>2, <1>3, ActStepFrame DEF Acts

LEMMA MadeGrows ==
    ASSUME Shaped, NEW o \in Operators, Acts(o), NEW k \in Kinds
    PROVE  made[k] <= made'[k] /\ made'[k] \in Nat /\ made[k] \in Nat
<1>1. made[k] \in Nat /\ First(op[o].left) \in Kinds
  BY StoresTyped, RunTyped, KindsInOrder DEF Shaped, Typed
<1>2. CASE made' = made
  BY <1>1, <1>2
<1>3. CASE Creates(o, First(op[o].left))
  <2>1. made'[k] \in {made[k], made[k] + 1}
    BY <1>1, <1>3, CreatesRun DEF Shaped
  <2>. QED
    BY <1>1, <2>1
<1>. QED
  BY <1>2, <1>3, PodsStep

LEMMA StoresNumberedKept ==
    ASSUME Shaped, NumbersFit, NEW o \in Operators, Acts(o)
    PROVE  StoresNumbered'
<1>0. Typed
  BY DEF Shaped
<1>. USE DEF Acts
<1>1. \A k \in Kinds : /\ made[k] <= made'[k] /\ made'[k] \in Nat /\ made[k] \in Nat
                       /\ binding[k] <= made[k] /\ applied[k].pod <= made[k]
                       /\ binding[k] \in Nat /\ applied[k].pod \in Nat
  BY <1>0, MadeGrows, StoresTyped DEF NumbersFit, StoresNumbered
<1>2. ASSUME NEW k \in Kinds PROVE binding'[k] <= made[k] /\ binding'[k] \in Nat
  <2>1. /\ op[o].found[k] <= made[k] /\ op[o].candidate[k] <= made[k]
        /\ op[o].boundBefore[k] <= made[k] /\ op[o].found[k] \in Nat
        /\ op[o].candidate[k] \in Nat /\ op[o].boundBefore[k] \in Nat
    BY <1>0, RunTyped DEF NumbersFit, Numbered, Typed
  <2>2. Chosen(o)[k] \in {op[o].found[k], op[o].candidate[k]} /\ None[k] = 0
    BY DEF Chosen, None
  <2>3. binding'[k] \in {binding[k], Chosen(o)[k], op[o].boundBefore[k], op[o].found[k], None[k]}
    <3>1. CASE Begin(o)
      BY <3>1, BeginStep DEF cloud
    <3>2. CASE ~Begin(o)
      BY <3>2, ActStepFrame DEF Bind, UndoBinding, UndoStacks, DestroyStacks, Destroy
    <3>. QED
      BY <3>1, <3>2
  <2>. QED
    BY <1>1, <2>1, <2>2, <2>3
<1>3. ASSUME NEW k \in Kinds PROVE applied'[k].pod <= made[k] /\ applied'[k].pod \in Nat
  <2>1. Containers[k].pod = binding[k] /\ [i \in Kinds |-> NotApplied][k].pod = 0
    BY DEF Containers, NotApplied
  <2>2. applied'[k].pod \in {applied[k].pod, binding[k], 0}
    <3>1. CASE Begin(o)
      BY <3>1, BeginStep DEF cloud
    <3>2. CASE ~Begin(o)
      BY <2>1, <3>2, ActStepFrame
      DEF Reapply, ReapplyFails, UndoReapply, UndoStacks, DestroyStacks, Purge, Destroy
    <3>. QED
      BY <3>1, <3>2
  <2>. QED
    BY <1>1, <2>2
<1>4. ASSUME NEW k \in Kinds, NEW p \in 1 .. MaxPods, podKey'[k][p] # 0
      PROVE  p <= made'[k]
  <2>1. podKey[k][p] # 0 => p <= made[k]
    BY DEF NumbersFit, StoresNumbered
  <2>2. p \in Nat /\ made[k] <= made'[k] /\ made[k] \in Nat /\ made'[k] \in Nat
    BY <1>1, BoundsAssumption
  <2>3. CASE podKey'[k][p] \in {0, podKey[k][p]}
    BY <1>4, <2>1, <2>2, <2>3
  <2>4. CASE Creates(o, First(op[o].left))
    <3>1. First(op[o].left) \in Kinds
      BY <1>0, RunTyped, KindsInOrder DEF Typed
    <3>2. podKey'[k][p] = podKey[k][p] \/ p = made'[k]
      BY <1>0, <2>4, <3>1, CreatesRun
    <3>. QED
      BY <1>4, <2>1, <2>2, <3>2
  <2>. QED
    BY <2>3, <2>4, PodsStep
<1>. QED
  <2>. SUFFICES ASSUME NEW k \in Kinds
                PROVE  /\ binding'[k] <= made'[k] /\ applied'[k].pod <= made'[k]
                       /\ \A p \in 1 .. MaxPods : podKey'[k][p] # 0 => p <= made'[k]
    BY DEF StoresNumbered
  <2>. QED
    BY <1>1, <1>2, <1>3, <1>4

LEMMA QuietRun ==
    ASSUME NEW r, Shape(r), r.step \in {"idle"} \cup Waiting
    PROVE  /\ SamePods(r, NoTask) /\ SameMarks(r, NoTask)
           /\ \A k \in Kinds : /\ r.found[k] = 0 /\ r.candidate[k] = 0 /\ r.boundBefore[k] = 0
<1>1. SamePods(r, NoTask) /\ SameMarks(r, NoTask)
  BY DEF Shape, Located, SamePods, SameMarks
<1>. QED
  BY <1>1 DEF SamePods, SameMarks, NoTask, None

LEMMA RunNumberedKept ==
    ASSUME Shaped, NumbersFit, NEW o \in Operators, Acts(o), Shape(op'[o]), op'[o] \in Runs
    PROVE  Numbered(op'[o], made')
<1>. DEFINE r == op[o]  s == op'[o]
<1>0. Typed /\ r \in Runs /\ Shape(r) /\ Numbered(r, made) /\ StoresNumbered
  BY DEF Shaped, Typed, NumbersFit
<1>1. \A k \in Kinds : made[k] <= made'[k] /\ made'[k] \in Nat /\ made[k] \in Nat
  BY MadeGrows
<1>2. CASE s.step \in {"idle"} \cup Waiting
  <2>1. \A k \in Kinds : /\ s.found[k] = 0 /\ s.candidate[k] = 0 /\ s.boundBefore[k] = 0
    BY <1>2, QuietRun
  <2>. HIDE DEF s
  <2>. QED
    BY <1>1, <1>2, <2>1 DEF Numbered, s
<1>3. CASE Lock(o) /\ s.step \notin {"idle"} \cup Waiting
  <2>1. r.step \in Waiting /\ r.task \in Held
    BY <1>0, <1>3 DEF Lock, Waiting, Shape, Located
  <2>2. s # NoTask
    BY <1>3 DEF NoTask
  <2>3. SamePods(s, r) /\ SameMarks(s, r) /\ s.before.binding = binding /\ s.before.podKey = podKey
    BY <1>0, <1>3, <2>1, <2>2, LockRun
  <2>4. \A k \in Kinds : /\ r.found[k] = 0 /\ r.candidate[k] = 0 /\ r.boundBefore[k] = 0
    BY <1>0, <2>1, QuietRun
  <2>5. made' = made
    BY <1>3 DEF Lock, pods
  <2>. HIDE DEF r, s
  <2>6. Numbered(s, made)
    BY <1>0, <1>1, <2>3, <2>4, <2>5 DEF Numbered, StoresNumbered, SamePods, SameMarks
  <2>. QED
    BY <2>5, <2>6 DEF Numbered, s
<1>4. CASE ~Begin(o) /\ s.step \notin {"idle"} \cup Waiting
  <2>1. s # NoTask
    BY <1>4 DEF NoTask
  <2>2. /\ SameTask(s, r)
        /\ SamePods(s, r) \/ Discover(o) \/ ReusePod(o) \/ CreatePod(o)
        /\ SameMarks(s, r) \/ DeployStack(o) \/ Address(o) \/ Promote(o) \/ Bind(o)
    BY <1>4, <2>1, RunStep DEF Acts
  <2>3. Tasked(o)
    BY <1>4, ActStepFrame DEF Acts
  <2>4. s.before = r.before
    BY <2>2 DEF SameTask
  <2>5. \A k \in Kinds : /\ r.found[k] <= made[k] /\ r.candidate[k] <= made[k]
                         /\ r.boundBefore[k] <= made[k] /\ r.before.binding[k] <= made[k]
                         /\ \A p \in 1 .. MaxPods : r.before.podKey[k][p] # 0 => p <= made[k]
                         /\ r.found[k] \in Nat /\ r.candidate[k] \in Nat
                         /\ r.boundBefore[k] \in Nat /\ r.previous[k] \in Nat
    BY <1>0, <2>3, RunTyped DEF Numbered, Tasked
  <2>6. \A k \in Kinds : r.before.binding[k] \in Nat /\ binding[k] \in Nat /\ binding[k] <= made[k]
    <3>1. r.before \in Snapshots
      BY <1>0, <2>3 DEF Tasked, Shape, Located
    <3>2. r.before.binding \in PodsOfKinds
      BY <3>1 DEF Snapshots
    <3>. QED
      BY <1>0, <3>2, BoundsAssumption, StoresTyped DEF PodsOfKinds, StoresNumbered
  <2>7. \A k \in Kinds : r.candidate[k] # 0 =>
           /\ r.found[k] < r.candidate[k] /\ r.previous[k] < r.candidate[k]
           /\ r.boundBefore[k] < r.candidate[k] /\ r.before.binding[k] < r.candidate[k]
           /\ r.before.podKey[k][r.candidate[k]] = 0
    BY <1>0 DEF Numbered
  <2>8. \/ s.boundBefore = r.boundBefore
        \/ s.boundBefore \in {binding, None} /\ \A k \in Kinds : s.candidate[k] = 0
    <3>1. CASE SameMarks(s, r)
      BY <3>1 DEF SameMarks
    <3>2. CASE DeployStack(o) \/ Promote(o) \/ Bind(o)
      BY <1>0, <3>2, DeployStackRun, PromoteRun, BindRun
    <3>3. CASE Address(o)
      <4>1. s.boundBefore \in {binding, None} /\ SamePods(s, r) /\ r.step = "address"
        BY <1>0, <3>3, AddressRun
      <4>. HIDE DEF r, s
      <4>. QED
        BY <1>0, <4>1 DEF SamePods, Shape, Candidates
    <3>. QED
      BY <2>2, <3>1, <3>2, <3>3
  <2>9. /\ \/ \A k \in Kinds : s.found[k] = r.found[k]
           \/ \A k \in Kinds : /\ s.found[k] <= made[k] /\ s.found[k] \in Nat
                               /\ s.found[k] # r.found[k] => s.candidate[k] = 0
        /\ \A k \in Kinds : \/ s.candidate[k] = r.candidate[k] /\ s.previous[k] = r.previous[k]
                            \/ /\ s.candidate[k] = made[k] + 1 /\ made'[k] = made[k] + 1
                               /\ s.candidate[k] \in 1 .. MaxPods
                               /\ s.found[k] = r.found[k] /\ s.previous[k] <= made[k]
                               /\ s.previous[k] \in Nat
    <3>1. CASE SamePods(s, r)
      BY <3>1 DEF SamePods
    <3>2. CASE Discover(o)
      <4>1. /\ s.found = [k \in Kinds |-> Current(k)] /\ r.step = "discover"
            /\ s.candidate = r.candidate /\ s.previous = r.previous
        BY <1>0, <3>2, DiscoverRun
      <4>2. \A k \in Kinds : s.candidate[k] = 0
        BY <1>0, <4>1 DEF Shape, Candidates
      <4>3. \A k \in Kinds : s.found[k] <= made[k] /\ s.found[k] \in Nat
        BY <1>0, <4>1, CurrentIsNumbered
      <4>. QED
        BY <4>1, <4>2, <4>3
    <3>3. CASE ReusePod(o)
      <4>. DEFINE k == First(r.left)
      <4>1. /\ s.found = [r.found EXCEPT ![k] = Current(k)] /\ r.step = "pods"
            /\ s.candidate = r.candidate /\ s.previous = r.previous
        BY <1>0, <3>3, ReusePodRun DEF Typed
      <4>2. k \in Kinds /\ k \in r.left
        <5>1. r.left # {} /\ r.left \in SUBSET Kinds
          BY <1>0, <4>1, RunTyped DEF Shape, Lefts
        <5>. QED
          BY <5>1, KindsInOrder
      <4>. HIDE DEF k
      <4>3. s.candidate[k] = 0
        BY <1>0, <4>1, <4>2 DEF Shape, Candidates
      <4>4. \A i \in Kinds : s.found[i] = IF i = k THEN Current(k) ELSE r.found[i]
        BY <1>0, <4>1, <4>2, RunTyped DEF PodsOfKinds
      <4>5. Current(k) <= made[k] /\ Current(k) \in Nat
        BY <1>0, <4>2, CurrentIsNumbered
      <4>. QED
        BY <2>5, <4>1, <4>3, <4>4, <4>5
    <3>4. CASE CreatePod(o)
      <4>. DEFINE k == First(r.left)
      <4>1. /\ s.found = r.found /\ s.candidate = [r.candidate EXCEPT ![k] = made[k] + 1]
            /\ s.previous = [r.previous EXCEPT ![k] = Current(k)]
            /\ made[k] + 1 \in 1 .. MaxPods
        BY <1>0, <3>4, CreatePodRun, StoresTyped DEF Typed
      <4>2. k \in Kinds
        BY <1>0, RunTyped, KindsInOrder
      <4>3. made'[k] = made[k] + 1
        BY <1>0, <3>4, <4>2, CreatesPod, CreatesRun
      <4>. HIDE DEF k
      <4>4. \A i \in Kinds : /\ s.candidate[i] = IF i = k THEN made[k] + 1 ELSE r.candidate[i]
                             /\ s.previous[i] = IF i = k THEN Current(k) ELSE r.previous[i]
        BY <1>0, <4>1, <4>2, RunTyped DEF PodsOfKinds
      <4>5. Current(k) <= made[k] /\ Current(k) \in Nat
        BY <1>0, <4>2, CurrentIsNumbered
      <4>. QED
        BY <4>1, <4>2, <4>3, <4>4, <4>5
    <3>. QED
      BY <2>2, <3>1, <3>2, <3>3, <3>4
  <2>. HIDE DEF r, s
  <2>10. ASSUME NEW k \in Kinds
         PROVE  /\ s.found[k] <= made'[k] /\ s.candidate[k] <= made'[k]
                /\ s.boundBefore[k] <= made'[k] /\ s.before.binding[k] <= made'[k]
                /\ \A p \in 1 .. MaxPods : s.before.podKey[k][p] # 0 => p <= made'[k]
    <3>1. s.found[k] <= made[k] /\ s.found[k] \in Nat
      BY <2>5, <2>9
    <3>2. s.candidate[k] <= made'[k]
      BY <1>1, <2>5, <2>9
    <3>3. s.boundBefore[k] <= made[k] /\ s.boundBefore[k] \in Nat
      <4>1. None[k] = 0 /\ 0 <= made[k]
        BY <1>1 DEF None
      <4>2. s.boundBefore[k] \in {r.boundBefore[k], binding[k], None[k]}
        BY <2>8
      <4>. QED
        BY <2>5, <2>6, <4>1, <4>2
    <3>4. \A p \in 1 .. MaxPods : p \in Nat
      BY BoundsAssumption
    <3>. QED
      BY <1>1, <2>4, <2>5, <2>6, <3>1, <3>2, <3>3, <3>4
  <2>11. ASSUME NEW k \in Kinds, s.candidate[k] # 0
         PROVE  /\ s.found[k] < s.candidate[k] /\ s.previous[k] < s.candidate[k]
                /\ s.boundBefore[k] < s.candidate[k]
                /\ s.before.binding[k] < s.candidate[k]
                /\ s.before.podKey[k][s.candidate[k]] = 0
    <3>1. s.boundBefore = r.boundBefore
      BY <2>8, <2>11
    <3>2. s.found[k] = r.found[k]
      BY <2>9, <2>11
    <3>3. CASE s.candidate[k] = r.candidate[k] /\ s.previous[k] = r.previous[k]
      BY <2>4, <2>7, <2>11, <3>1, <3>2, <3>3
    <3>4. CASE s.candidate[k] = made[k] + 1 /\ s.candidate[k] \in 1 .. MaxPods
               /\ s.previous[k] <= made[k] /\ s.previous[k] \in Nat
      <4>1. ~(made[k] + 1 <= made[k]) /\ \A n \in Nat : n <= made[k] => n < made[k] + 1
        BY <1>1
      <4>2. s.before.podKey[k][s.candidate[k]] = 0
        BY <2>4, <2>5, <3>4, <4>1
      <4>. QED
        BY <2>4, <2>5, <2>6, <3>1, <3>2, <3>4, <4>1, <4>2
    <3>. QED
      BY <2>9, <3>3, <3>4
  <2>. QED
    BY <2>10, <2>11 DEF Numbered, s
<1>. QED
  BY <1>2, <1>3, <1>4, BeginStep DEF Acts

LEMMA NextNumbers ==
    ASSUME Shaped, NumbersFit, Shaped', [Next]_vars
    PROVE  NumbersFit'
<1>1. ASSUME NEW o \in Operators, Acts(o) PROVE NumbersFit'
  <2>1. StoresNumbered'
    BY <1>1, StoresNumberedKept
  <2>2. Shape(op'[o]) /\ op'[o] \in Runs
    BY DEF Shaped, Typed
  <2>3. Numbered(op'[o], made')
    BY <1>1, <2>2, RunNumberedKept
  <2>4. ASSUME NEW x \in Operators \ {o} PROVE Numbered(op'[x], made')
    <3>1. op'[x] = op[x] /\ op[x] \in Runs
      BY <1>1, OthersKept, ShapedBegun DEF Shaped, Typed, Acts
    <3>2. Numbered(op[x], made)
      BY DEF NumbersFit
    <3>3. \A k \in Kinds : made[k] <= made'[k] /\ made'[k] \in Nat /\ made[k] \in Nat
      BY <1>1, MadeGrows
    <3>. DEFINE r == op[x]
    <3>4. \A k \in Kinds : r.found[k] \in Nat /\ r.candidate[k] \in Nat /\ r.boundBefore[k] \in Nat
      BY <3>1, RunTyped
    <3>5. r.step \notin {"idle"} \cup Waiting => \A k \in Kinds : r.before.binding[k] \in Nat
      <4>1. SUFFICES ASSUME r.step \notin {"idle"} \cup Waiting, NEW k \in Kinds
                     PROVE  r.before.binding[k] \in Nat
        OBVIOUS
      <4>2. r.before \in Snapshots
        BY <4>1 DEF Shaped, Shape, Located
      <4>. QED
        BY <4>2, BoundsAssumption DEF Snapshots, PodsOfKinds
    <3>6. \A p \in 1 .. MaxPods : p \in Nat
      BY BoundsAssumption
    <3>7. Numbered(r, made)
      BY <3>2
    <3>8. op'[x] = r
      BY <3>1
    <3>. HIDE DEF r
    <3>. QED
      BY <3>3, <3>4, <3>5, <3>6, <3>7, <3>8 DEF Numbered
  <2>. QED
    BY <2>1, <2>3, <2>4 DEF NumbersFit
<1>2. CASE UNCHANGED <<podKey, made, binding, op>> /\ (applied' = applied \/ applied' = Containers)
  <2>1. \A k \in Kinds : Containers[k].pod = binding[k]
    BY DEF Containers
  <2>. QED
    BY <1>2, <2>1 DEF NumbersFit, StoresNumbered, Numbered
<1>. QED
  BY <1>1, <1>2 DEF Next, Acts, LockAges, DeployRelease, vars, pods, cloud

LEMMA InitNumbers ==
    ASSUME Init
    PROVE  NumbersFit
<1>1. /\ podKey = [k \in Kinds |-> [p \in 1 .. MaxPods |-> 0]] /\ made = None /\ binding = None
      /\ applied = [k \in Kinds |-> NotApplied] /\ op = [o \in Operators |-> NoTask]
  BY DEF Init
<1>. QED
  BY <1>1 DEF NumbersFit, StoresNumbered, Numbered, NoTask, None, NotApplied

-----------------------------------------------------------------------------
(* Few Pods, and stacks on a bootstrap.                                     *)

LEMMA NextFewPods ==
    ASSUME Shaped, AtMostTwoPods, [Next]_vars
    PROVE  AtMostTwoPods'
<1>1. ASSUME NEW o \in Operators, Acts(o), NEW k \in Kinds
      PROVE  Cardinality(Alive(k)') <= 2
  <2>0. Cardinality(Alive(k)) <= 2 /\ Cardinality(Alive(k)) \in Nat
    BY AliveIsFinite DEF AtMostTwoPods
  <2>1. CASE podKey' = podKey
    <3>1. Alive(k)' = Alive(k)
      BY <2>1 DEF Alive
    <3>. QED
      BY <2>0, <3>1
  <2>2. CASE \A i \in Kinds, p \in 1 .. MaxPods : podKey'[i][p] \in {0, podKey[i][p]}
    <3>1. Alive(k)' \subseteq Alive(k)
      BY <2>2 DEF Alive
    <3>2. Cardinality(Alive(k)') <= Cardinality(Alive(k)) /\ IsFiniteSet(Alive(k)')
      BY <3>1, FewerPods, AliveIsFinite, FS_Subset
    <3>3. Cardinality(Alive(k)') \in Nat
      BY <3>2, FS_CardinalityType
    <3>. QED
      BY <2>0, <3>2, <3>3
  <2>3. CASE Creates(o, First(op[o].left))
    <3>. DEFINE i == First(op[o].left)  p == made[i] + 1
    <3>1. i \in Kinds
      BY RunTyped, KindsInOrder DEF Shaped, Typed
    <3>2. \A j \in Kinds, q \in 1 .. MaxPods :
            podKey'[j][q] = IF j = i /\ q = p THEN op[o].values[i] ELSE podKey[j][q]
      BY <2>3, <3>1, CreatesRun DEF Shaped
    <3>3. CASE k # i
      <4>1. Alive(k)' = Alive(k)
        BY <3>2, <3>3 DEF Alive
      <4>. QED
        BY <2>0, <4>1
    <3>4. CASE k = i
      <4>1. Alive(k) = {} \/ ~Ambiguous(k)
        BY <2>3, <3>4 DEF Creates
      <4>2. ~Ambiguous(k)
        BY <4>1, FS_EmptySet DEF Ambiguous
      <4>3. Alive(k)' \subseteq Alive(k) \cup {p}
        BY <3>2 DEF Alive
      <4>. HIDE DEF p
      <4>4. Cardinality(Alive(k)') <= Cardinality(Alive(k)) + 1 /\ Cardinality(Alive(k)) <= 1
        BY <2>0, <4>2, <4>3, OnePodMore DEF Ambiguous
      <4>5. IsFiniteSet(Alive(k)')
        <5>1. IsFiniteSet(Alive(k) \cup {p})
          BY AliveIsFinite, FS_AddElement
        <5>. QED
          BY <4>3, <5>1, FS_Subset
      <4>6. Cardinality(Alive(k)') \in Nat
        BY <4>5, FS_CardinalityType
      <4>. QED
        BY <2>0, <4>4, <4>6
    <3>. QED
      BY <3>3, <3>4
  <2>. QED
    BY <1>1, <2>1, <2>2, <2>3, PodsStep
<1>2. CASE podKey' = podKey
  BY <1>2 DEF AtMostTwoPods, Alive
<1>. QED
  BY <1>1, <1>2 DEF Next, Acts, LockAges, DeployRelease, vars, pods, AtMostTwoPods

\* What could not be read counts as absent, also when it is a stack to be kept.
Bootstrapped == Without({"misread"}) => StacksAreBootstrapped

LEMMA MishapsStay ==
    ASSUME Shaped, [Next]_vars
    PROVE  mishaps \subseteq mishaps'
  BY BeginStep, ActStepFrame DEF Next, LockAges, DeployRelease, vars

LEMMA UndoneStacks ==
    ASSUME Shaped, NEW o \in Operators, UndoStacks(o)
    PROVE  \E gone \in SUBSET {"Service", "Foundation"} :
             /\ Destroy(gone) /\ gone \subseteq op[o].newStacks \cup {"Service"}
             /\ gone # {} => "Service" \in gone
             /\ op[o].newStacks # {}
<1>1. op[o].newStacks \in SUBSET {"Service", "Foundation"}
  BY DEF Shaped, Typed, Runs
<1>2. PICK stay \in SUBSET op[o].newStacks :
         Destroy(UNION {WithDependents(s) : s \in op[o].newStacks \ stay})
  BY DEF UndoStacks
<1>3. \A s \in op[o].newStacks : WithDependents(s) = {s, "Service"}
  BY DEF WithDependents
<1>4. /\ UNION {WithDependents(s) : s \in op[o].newStacks \ stay}
           \subseteq op[o].newStacks \cup {"Service"}
      /\ op[o].newStacks # {}
  BY <1>3 DEF UndoStacks
<1>5. ASSUME UNION {WithDependents(s) : s \in op[o].newStacks \ stay} # {}
      PROVE  "Service" \in UNION {WithDependents(s) : s \in op[o].newStacks \ stay}
  BY <1>3, <1>5
<1>. QED
  BY <1>1, <1>2, <1>4, <1>5

LEMMA NextStacks ==
    ASSUME Shaped, Bootstrapped, [Next]_vars
    PROVE  Bootstrapped'
<1>. SUFFICES ASSUME "misread" \notin mishaps'
              PROVE  StacksAreBootstrapped'
  BY DEF Bootstrapped, Without
<1>0. StacksAreBootstrapped
  BY MishapsStay DEF Bootstrapped, Without
<1>1. CASE stacks' = stacks
  BY <1>0, <1>1 DEF StacksAreBootstrapped
<1>2. ASSUME NEW o \in Operators, DeployStack(o)
      PROVE  StacksAreBootstrapped'
  BY <1>0, <1>2 DEF DeployStack, Deployable, StacksAreBootstrapped
<1>3. ASSUME NEW o \in Operators, UndoStacks(o)
      PROVE  StacksAreBootstrapped'
  BY <1>0, <1>3, UndoneStacks DEF Destroy, StacksAreBootstrapped
<1>4. ASSUME NEW o \in Operators, DestroyStacks(o) \/ Bootstrap(o)
      PROVE  StacksAreBootstrapped'
  BY <1>0, <1>4 DEF DestroyStacks, Destroy, Bootstrap, StacksAreBootstrapped
<1>6. ASSUME NEW o \in Operators, Purge(o)
      PROVE  StacksAreBootstrapped'
  <2>1. stacks' = stacks \/ (MayPurge /\ Destroy(WithDependents("Access")))
    BY <1>6, MisreadRun DEF Purge
  <2>. QED
    BY <1>0, <2>1 DEF MayPurge, Destroy, StacksAreBootstrapped
<1>5. ASSUME NEW o \in Operators, Begin(o) PROVE stacks' = stacks
  BY <1>5, BeginStep DEF cloud
<1>. QED
  BY <1>1, <1>2, <1>3, <1>4, <1>5, <1>6, ActStepFrame
  DEF Next, LockAges, DeployRelease, vars, cloud

-----------------------------------------------------------------------------
(* One task at a time.                                                      *)

\* Who works has the lock, or has had it for more than six hours, and works alone.
Alone ==
    Without({"twoHolders"}) =>
      \A o \in Operators : Tasked(o) =>
        lock \in {o, "old"} /\ \A x \in Operators : Tasked(x) => x = o

LEMMA LockMarks ==
    \A o \in Operators : o # Nobody /\ o # "dead" /\ o # "old"
  BY OperatorsAssumption

\* A step under the lock that does not end the task leaves the lock alone.
LEMMA LockStep ==
    ASSUME Shaped, NEW o \in Operators, Acts(o)
    PROVE  \/ lock' = lock
           \/ lock' = Nobody /\ op'[o] = NoTask
           \/ Kill(o) /\ op'[o] = NoTask /\ lock' = IF lock = o THEN "dead" ELSE lock
           \/ Lock(o) /\ lock = Nobody /\ lock' = o
           \/ Unlink(o) /\ lock' = Nobody
<1>0. Typed /\ op \in [Operators -> Runs]
  BY DEF Shaped, Typed
<1>1. CASE Begin(o)
  BY <1>1 DEF Begin, Load, Lock, Free, FindOld, Unlink
<1>2. CASE Release(o)
  BY <1>0, <1>2, ReleaseRun
<1>3. CASE Raise(o)
  BY <1>0, <1>3, RaiseRun
<1>4. CASE Kill(o)
  BY <1>0, <1>4, BecomeRun DEF Kill
<1>5. CASE Apply(o)
  BY <1>2, <1>5
  DEF Apply, DrawKeys, DeployStack, Address, Discover, Stage, ReusePod, CreatePod,
      SyncSecret, Promote, Bind, Reapply, Pass, KeepKey, Record, Retire, DeleteRecorded,
      DeleteNamed, DestroyStacks, Clear, Blank, Bootstrap, Purge
<1>6. CASE Compensate(o)
  BY <1>2, <1>6
  DEF Compensate, UndoSecret, UndoBinding, UndoReapply, UndoPods, UndoStacks, UndoEnds
<1>7. CASE UndoFails(o) \/ Interrupt(o)
  BY <1>2, <1>7 DEF UndoFails, Interrupt
<1>. QED
  BY <1>0, <1>1, <1>3, <1>4, <1>5, <1>6, <1>7, RaisesInStep DEF Acts, Faults

LEMMA NextAlone ==
    ASSUME Shaped, Alone, Shaped', [Next]_vars
    PROVE  Alone'
<1>0. mishaps \subseteq mishaps'
  BY MishapsStay
<1>. DEFINE Only(x) == lock' \in {x, "old"} /\ \A y \in Operators : Tasked(y)' => y = x
<1>1. SUFFICES ASSUME Without({"twoHolders"})', NEW x \in Operators, Tasked(x)'
               PROVE  Only(x)
  BY DEF Alone
<1>2. \A o \in Operators : Tasked(o) =>
         lock \in {o, "old"} /\ \A y \in Operators : Tasked(y) => y = o
  BY <1>0, <1>1 DEF Alone, Without
<1>3. op'[x] # NoTask
  <2>1. NoTask.step = "idle"
    BY DEF NoTask
  <2>. QED
    BY <1>1, <2>1 DEF Tasked
<1>4. ASSUME NEW o \in Operators, Acts(o) PROVE Only(x)
  <2>0. \A y \in Operators \ {o} : Tasked(y)' => Tasked(y)
    <3>1. \A y \in Operators \ {o} : op'[y] = op[y]
      BY <1>4, OthersKept, ShapedBegun DEF Acts, Shaped
    <3>. QED
      BY <3>1 DEF Tasked
  <2>1. CASE o = x /\ Tasked(x)
    <3>1. ~Unlink(x) /\ ~Lock(x)
      BY <2>1 DEF Tasked, Unlink, Lock, Waiting
    <3>2. lock' = lock
      BY <1>3, <1>4, <2>1, <3>1, LockStep
    <3>. QED
      BY <1>2, <2>0, <2>1, <3>2
  <2>2. CASE o = x /\ ~Tasked(x)
    <3>1. Begin(x)
      BY <1>4, <2>2, ActStepFrame DEF Acts
    <3>2. Lock(x) /\ Free
      BY <1>1, <3>1, BeginStep DEF Tasked
    <3>3. lock = Nobody /\ lock' = x
      BY <3>2 DEF Lock, Free
    <3>4. \A y \in Operators : ~Tasked(y)
      BY <1>2, <3>3, LockMarks, OperatorsAssumption DEF Nobody
    <3>. QED
      BY <2>0, <2>2, <3>3, <3>4
  <2>3. CASE o # x
    <3>1. Tasked(x) /\ ~Tasked(o) /\ lock \in {x, "old"} /\ x \in Working
      <4>1. Tasked(x)
        BY <1>1, <2>0, <2>3
      <4>. QED
        BY <1>2, <2>3, <4>1, WorkingAreTasked
    <3>2. Begin(o)
      BY <1>4, <3>1, ActStepFrame DEF Acts
    <3>3. lock # Nobody
      BY <3>1, LockMarks DEF Nobody
    <3>4. ~Unlink(o)
      BY <1>1, <3>1 DEF Unlink, Without
    <3>5. lock' = lock
      BY <3>2, <3>3, <3>4 DEF Begin, Load, Lock, Free, FindOld
    <3>6. ~Tasked(o)'
      BY <3>2, <3>3, BeginStep DEF Tasked, Free
    <3>. QED
      BY <1>2, <2>0, <3>1, <3>5, <3>6
  <2>. QED
    BY <2>1, <2>2, <2>3
<1>5. CASE op' = op
  <2>1. \A y \in Operators : Tasked(y)' <=> Tasked(y)
    BY <1>5 DEF Tasked
  <2>2. lock \in {x, "old"} /\ \A y \in Operators : Tasked(y)' => y = x
    BY <1>1, <1>2, <2>1
  <2>3. CASE LockAges
    BY <2>2, <2>3 DEF LockAges
  <2>4. CASE DeployRelease \/ UNCHANGED vars
    BY <2>2, <2>4 DEF DeployRelease, vars
  <2>5. CASE \E o \in Operators : Acts(o)
    BY <1>4, <2>5
  <2>. QED
    BY <2>3, <2>4, <2>5 DEF Next, Acts
<1>. QED
  BY <1>4, <1>5 DEF Next, Acts, LockAges, DeployRelease, vars

LEMMA OneWorks ==
    ASSUME Alone
    PROVE  Without({"twoHolders"}) => Cardinality(Working) <= 1
<1>1. SUFFICES ASSUME Without({"twoHolders"}) PROVE Cardinality(Working) <= 1
  OBVIOUS
<1>2. CASE Working = {}
  BY <1>2, FS_EmptySet
<1>3. CASE Working # {}
  <2>1. PICK o \in Operators : Working \in SUBSET {o}
    BY <1>1, <1>3, WorkingAreTasked DEF Alone, Working
  <2>2. IsFiniteSet({o}) /\ Cardinality({o}) = 1
    BY FS_Singleton
  <2>. QED
    BY <2>1, <2>2, FS_Subset
<1>. QED
  BY <1>2, <1>3

-----------------------------------------------------------------------------
(* How a task under the lock goes on.                                       *)

\* Where a compensation goes, and what it still has to delete.
Undoes(o) ==
    LET r == op[o]  s == op'[o] IN
    /\ Kept(s, r) /\ r.step \in Undoing /\ s.step \in Undoing
    /\ r.step = "undoSecret" => s.step = "undoBinding"
    /\ r.step = "undoBinding" => s.step \in {"undoReapply", "undoPods"}
    /\ r.step \in {"undoReapply", "undoPods"} => s.step = "undoPods"
    /\ r.step # "undoPods" => s.left = r.left
    /\ r.step = "undoPods" => s.left = r.left \ {Last(r.left)}
    /\ UNCHANGED file

LEMMA CompensateRun ==
    ASSUME Shaped, NEW o \in Operators, Compensate(o) \/ UndoFails(o), op'[o] # NoTask
    PROVE  Undoes(o)
<1>0. op \in [Operators -> Runs]
  BY DEF Shaped, Typed
<1>1. CASE UndoStacks(o) \/ UndoEnds(o)
  BY <1>0, <1>1, ReleaseRun DEF UndoStacks, UndoEnds
<1>2. CASE UndoSecret(o) \/ UndoBinding(o) \/ UndoReapply(o)
  BY <1>0, <1>2, GoRun
  DEF UndoSecret, UndoBinding, UndoReapply, NextUndo, Undoes, Undoing, local
<1>3. CASE UndoPods(o)
  BY <1>0, <1>3, GoOverRun DEF UndoPods, Undoes, Undoing, local
<1>4. CASE UndoFails(o)
  <2>. DEFINE r == op[o]
              step == CASE r.step = "undoSecret" -> "undoBinding" [] OTHER -> "undoPods"
              left == IF r.step = "undoPods" THEN r.left \ {Last(r.left)} ELSE r.left
  <2>1. GoOver(o, step, left) /\ r.step \in Undoing /\ file' = file
    BY <1>4 DEF UndoFails, Undoing, local
  <2>2. step = IF r.step = "undoSecret" THEN "undoBinding" ELSE "undoPods"
    OBVIOUS
  <2>. HIDE DEF step
  <2>3. Kept(op'[o], r) /\ op'[o].left = left /\ op'[o].step = step
    BY <1>0, <2>1, GoOverRun
  <2>. QED
    BY <2>1, <2>2, <2>3 DEF Undoes, Undoing
<1>. QED
  BY <1>1, <1>2, <1>3, <1>4 DEF Compensate

\* A raise that is compensated.
Raises(o) ==
    LET r == op[o]  s == op'[o] IN
    /\ r.task \in {"ensure", "replace", "rotate"}
    /\ ~Unguarded(o) /\ ~Committed(o) /\ Kept(s, r)
    /\ r.step \notin {"idle"} \cup Waiting \cup Undoing
    /\ s.step = IF r.task = "rotate" THEN "undoSecret" ELSE "undoBinding"
    /\ s.left = {k \in Kinds : r.candidate[k] # 0}
    /\ \/ CallFails(o) /\ op[o].step \in Calls
       \/ CandidateStays(o) \/ ReapplyFails(o) \/ Refused(o)
    /\ UNCHANGED <<file, secret, binding>>

LEMMA RaisesRun ==
    ASSUME Shaped, NEW o \in Operators, op'[o] # NoTask,
           Refused(o) \/ CallFails(o) \/ CandidateStays(o) \/ ReapplyFails(o)
    PROVE  Raises(o)
<1>1. Raise(o) /\ op[o].step \notin {"idle"} \cup Waiting \cup Undoing
  BY RaisesInStep DEF Shaped
<1>2. op[o].task \in Held
  BY <1>1 DEF Shaped, Shape, Located
<1>3. UNCHANGED <<file, secret, binding>>
  <2>1. CASE Refused(o)
    BY <2>1
    DEF Refused, PodRefused, DiscoverRefused, NotDeployable, NoSecret, BindRefused,
        NoRelease, DeleteRefused, Refuse, cloud
  <2>. QED
    BY <2>1 DEF CallFails, CandidateStays, ReapplyFails, cloud
<1>4. CallFails(o) => op[o].step \in Calls
  BY FailingAssumption DEF CallFails
<1>5. /\ ~Unguarded(o) /\ ~Committed(o) /\ Kept(op'[o], op[o])
      /\ op'[o].step = IF op[o].task = "rotate" THEN "undoSecret" ELSE "undoBinding"
      /\ op'[o].left = {k \in Kinds : op[o].candidate[k] # 0}
  BY <1>1, RaiseRun DEF Shaped
<1>. QED
  BY <1>1, <1>2, <1>3, <1>4, <1>5 DEF Raises, Unguarded, Held

\* The steps of the task proper: none of them leads into the compensation.
LEMMA ApplyRun ==
    ASSUME Shaped, NEW o \in Operators, Apply(o), op'[o] # NoTask
    PROVE  op[o].step \notin Undoing /\ op'[o].step \notin Undoing
<1>. USE DEF Undoing
<1>0. Typed /\ op \in [Operators -> Runs] /\ made \in PodsOfKinds
  BY StoresTyped DEF Shaped, Typed
<1>1. CASE \/ DrawKeys(o) \/ DeployStack(o) \/ Address(o) \/ Discover(o) \/ Stage(o)
           \/ Promote(o) \/ Bind(o)
  <2>1. CASE DrawKeys(o) \/ Address(o) \/ Stage(o) \/ Promote(o)
    BY <1>0, <2>1, DrawKeysRun, AddressRun, StageRun, PromoteRun
  <2>2. CASE DeployStack(o)
    BY <1>0, <2>2, DeployStackRun
  <2>3. CASE Discover(o)
    BY <1>0, <2>3, DiscoverRun
  <2>4. CASE Bind(o)
    BY <1>0, <2>4, BindRun
  <2>. QED
    BY <1>1, <2>1, <2>2, <2>3, <2>4
<1>2. CASE ReusePod(o)
  BY <1>0, <1>2, ReusePodRun
<1>3. CASE CreatePod(o)
  <2>1. /\ op[o].step = "pods"
        /\ op'[o].step \in {NextAfterPods(op[o].task), "pods"}
    BY <1>0, <1>3, CreatePodRun
  <2>. QED
    BY <2>1 DEF NextAfterPods
<1>4. CASE SyncSecret(o) \/ Reapply(o) \/ Record(o)
  BY <1>0, <1>4, GoOverRun, GoRun, ReleaseRun DEF SyncSecret, Reapply, Record
<1>5. CASE Retire(o) \/ DeleteRecorded(o) \/ DeleteNamed(o)
  BY <1>0, <1>5, GoOverRun, ReleaseRun DEF Retire, DeleteRecorded, DeleteNamed
<1>6. CASE \/ Pass(o) \/ KeepKey(o) \/ DestroyStacks(o) \/ Clear(o) \/ Blank(o)
           \/ Bootstrap(o) \/ Purge(o)
  BY <1>0, <1>6, GoRun, ReleaseRun
  DEF Pass, KeepKey, DestroyStacks, Clear, Blank, Bootstrap, Purge
<1>. QED
  BY <1>1, <1>2, <1>3, <1>4, <1>5, <1>6 DEF Apply

LEMMA GoesOn ==
    ASSUME Shaped, NEW o \in Operators, op'[o] # NoTask,
           Apply(o) \/ Refused(o) \/ Compensate(o) \/ Faults(o)
    PROVE  \/ Apply(o) /\ op[o].step \notin Undoing /\ op'[o].step \notin Undoing
           \/ Raises(o)
           \/ (Compensate(o) \/ UndoFails(o)) /\ Undoes(o)
<1>1. CASE Interrupt(o) \/ Kill(o)
  BY <1>1, ReleaseRun, BecomeRun DEF Interrupt, Kill, Shaped, Typed
<1>. QED
  BY <1>1, ApplyRun, RaisesRun, CompensateRun DEF Faults

\* What a task that took the lock has found.
Fresh(o) ==
    LET s == op'[o] IN
    /\ SamePods(s, NoTask) /\ SameMarks(s, NoTask) /\ s.step = FirstStep(s.task)
    /\ s.task \in Held
    /\ s.left = IF s.task \in {"sync", "destroy"} THEN Kinds ELSE {}
    /\ s.before.podKey = podKey /\ s.before.binding = binding
    /\ s.before.secret = secret /\ s.before.file = file /\ s.before.stacks = stacks
    /\ UNCHANGED <<podKey, binding, secret, file, stacks>>

\* While one task holds the lock, nobody else touches what it works with.
LEMMA LoneStep ==
    ASSUME Shaped, Alone, Shaped', [Next]_vars, Without({"twoHolders"})',
           NEW x \in Operators, Tasked(x)'
    PROVE  /\ mishaps \subseteq mishaps'
           /\ \/ /\ Tasked(x) /\ op'[x] = op[x]
                 /\ UNCHANGED <<podKey, binding, secret, file, stacks>>
              \/ Fresh(x)
              \/ /\ Tasked(x) /\ op'[x] # NoTask
                 /\ Apply(x) \/ Refused(x) \/ Compensate(x) \/ Faults(x)
<1>0. mishaps \subseteq mishaps'
  BY MishapsStay
<1>1. \A o \in Operators : Tasked(o) => \A y \in Operators : Tasked(y) => y = o
  BY <1>0 DEF Alone, Without
<1>2. op'[x] # NoTask
  <2>1. NoTask.step = "idle"
    BY DEF NoTask
  <2>. QED
    BY <2>1 DEF Tasked
<1>3. ASSUME NEW o \in Operators, Acts(o), o # x
      PROVE  Tasked(x) /\ op'[x] = op[x] /\ UNCHANGED <<podKey, binding, secret, file, stacks>>
  <2>1. op'[x] = op[x]
    BY <1>3, OthersKept, ShapedBegun DEF Acts, Shaped
  <2>2. Tasked(x) /\ ~Tasked(o)
    BY <1>1, <1>3, <2>1 DEF Tasked
  <2>3. Begin(o)
    BY <1>3, <2>2, ActStepFrame DEF Acts
  <2>. QED
    BY <2>1, <2>2, <2>3, BeginStep DEF pods, cloud
<1>4. ASSUME Begin(x) PROVE Fresh(x)
  <2>1. /\ Lock(x) /\ Free /\ UNCHANGED <<podKey, binding, secret, file, stacks>>
        /\ op[x].step = "lock"
        /\ SamePods(op[x], NoTask) /\ SameMarks(op[x], NoTask)
    BY <1>4, BeginStep DEF Tasked, pods, cloud, Lock
  <2>2. op[x].task \in Held
    BY <2>1 DEF Shaped, Shape, Located
  <2>. QED
    BY <1>2, <2>1, <2>2, LockRun DEF Fresh, Shaped, SamePods, SameMarks
<1>5. ASSUME Apply(x) \/ Refused(x) \/ Compensate(x) \/ Faults(x)
      PROVE  Tasked(x) /\ op'[x] # NoTask
  BY <1>2, <1>5, ActStepFrame
<1>6. CASE LockAges \/ DeployRelease \/ UNCHANGED vars
  BY <1>6 DEF LockAges, DeployRelease, vars, pods, cloud, local, Tasked
<1>. QED
  BY <1>0, <1>3, <1>4, <1>5, <1>6 DEF Next, Acts

-----------------------------------------------------------------------------
(* destroy comes to the stacks when every Pod is gone.                      *)

DestroyFit(o) ==
    /\ op[o].step = "deleteNamed" => \A k \in Kinds \ op[o].left : Alive(k) = {}
    /\ op[o].step \in {"destroyStacks", "clear", "blank"} => \A k \in Kinds : Alive(k) = {}

LEMMA DestroyFitKept ==
    ASSUME Shaped, NEW o \in Operators, DestroyFit(o), Shaped', op'[o] # NoTask,
           Apply(o) \/ Refused(o) \/ Compensate(o) \/ Faults(o)
    PROVE  DestroyFit(o)'
<1>0. op \in [Operators -> Runs] /\ podKey \in PodKeys
  BY StoresTyped DEF Shaped, Typed
<1>. DEFINE r == op[o]  s == op'[o]
<1>1. SUFFICES ASSUME s.step \in {"deleteNamed", "destroyStacks", "clear", "blank"}
               PROVE  DestroyFit(o)'
  BY DEF DestroyFit
<1>2. r.task = "destroy"
  <2>1. s.step \notin {"idle"} \cup Waiting \cup Undoing
    BY <1>1 DEF Waiting, Undoing
  <2>2. s.task = "destroy"
    BY <1>1, <2>1 DEF Shaped, Shape, Located, Held
  <2>. QED
    BY <2>2, RunStep DEF SameTask
<1>3. r.step \in {"deleteRecorded", "deleteNamed", "destroyStacks", "clear", "blank"}
  <2>1. Tasked(o)
    BY ActStepFrame
  <2>. QED
    BY <1>2, <2>1 DEF Shaped, Shape, Located, Tasked
<1>4. Apply(o)
  BY <1>1, GoesOn DEF Raises, Undoes, Undoing
<1>5. CASE DeleteRecorded(o)
  <2>1. s.step = "deleteNamed" => s.left = Kinds
    BY <1>0, <1>5, GoOverRun DEF DeleteRecorded
  <2>2. s.step \in {"deleteNamed", "deleteRecorded"}
    BY <1>0, <1>5, GoOverRun DEF DeleteRecorded
  <2>. QED
    BY <2>1, <2>2 DEF DestroyFit
<1>6. CASE DeleteNamed(o)
  <2>1. Last(r.left) \in Kinds /\ r.left \in SUBSET Kinds
    BY RunTyped, KindsInOrder DEF Shaped, Typed
  <2>2. PICK k \in Kinds :
           /\ r.step = "deleteNamed" /\ ~Ambiguous(k) /\ DeleteIfAny(k, Current(k))
           /\ IF r.left \ {k} = {} THEN s.step = "destroyStacks"
              ELSE s.step = "deleteNamed" /\ s.left = r.left \ {k}
    BY <1>0, <1>6, <2>1, GoOverRun DEF DeleteNamed
  <2>3. \A i \in Kinds, q \in 1 .. MaxPods :
          podKey'[i][q] = IF i = k /\ q = Current(k) THEN 0 ELSE podKey[i][q]
    BY <1>0, <2>2, DeleteIfAnyRun
  <2>4. Alive(k) \subseteq {Current(k)}
    BY <2>2, OnePodIsCurrent
  <2>5. Alive(k)' = {}
    <3>1. ASSUME NEW p \in 1 .. MaxPods, podKey'[k][p] # 0 PROVE FALSE
      <4>1. p # Current(k) /\ podKey[k][p] # 0
        BY <2>3, <3>1
      <4>2. p \in Alive(k)
        BY <4>1 DEF Alive
      <4>. QED
        BY <2>4, <4>1, <4>2
    <3>. QED
      BY <3>1 DEF Alive
  <2>6. ASSUME NEW i \in Kinds, Alive(i) = {} PROVE Alive(i)' = {}
    BY <2>3, <2>6 DEF Alive
  <2>. QED
    <3>1. r.step = "deleteNamed" /\ \A i \in Kinds \ r.left : Alive(i)' = {}
      BY <2>2, <2>6 DEF DestroyFit
    <3>. QED
      BY <2>1, <2>2, <2>5, <3>1 DEF DestroyFit
<1>7. CASE DestroyStacks(o) \/ Clear(o)
  <2>1. r.step \in {"destroyStacks", "clear"} /\ podKey' = podKey
    BY <1>7 DEF DestroyStacks, Clear, pods
  <2>2. s.step \notin {"deleteNamed"}
    BY <1>0, <1>7, GoRun DEF DestroyStacks, Clear
  <2>. QED
    BY <2>1, <2>2 DEF DestroyFit, Alive
<1>9. ~Blank(o)
  BY <1>0, ReleaseRun DEF Blank
<1>8. Apply(o) /\ r.step \in {"deleteRecorded", "deleteNamed", "destroyStacks", "clear", "blank"}
      => DeleteRecorded(o) \/ DeleteNamed(o) \/ DestroyStacks(o) \/ Clear(o) \/ Blank(o)
  BY DEF Apply, DrawKeys, DeployStack, Address, Discover, Stage, ReusePod, CreatePod,
         AtStep, SyncSecret, Promote, Bind, Reapply, Pass, KeepKey, Record, Retire,
         Bootstrap, Purge
<1>. QED
  BY <1>3, <1>4, <1>5, <1>6, <1>7, <1>8, <1>9

-----------------------------------------------------------------------------
(* What the binding names, step by step.                                    *)

Undone(r) == r.step \in {"undoReapply", "undoPods"}

BindingFits(o) ==
    LET r == op[o] IN
    r.task \in Switching =>
    /\ ~Undone(r) /\ ~r.changed => binding = r.before.binding
    /\ ~Undone(r) /\ r.changed => binding = Chosen(o)
    /\ Undone(r) => \/ "undoFailed" \in mishaps \/ NoPairBefore(o)
                    \/ binding = r.before.binding
                    \/ r.task = "ensure" /\ "misread" \in mishaps
                    \/ r.task # "ensure" /\ binding = r.found
    /\ r.task = "ensure" /\ (r.changed \/ r.step \in {"pods", "sync", "bind"}) =>
         IF r.unread THEN "misread" \in mishaps ELSE r.boundBefore = r.before.binding
    /\ "Foundation" \in r.newStacks => "misread" \in mishaps \/ r.before.binding = None

\* What a task found and created it does not change any more once it has switched.
LEMMA SwitchedRun ==
    ASSUME Shaped, NEW o \in Operators, op'[o] # NoTask,
           Apply(o) \/ Refused(o) \/ Compensate(o) \/ Faults(o)
    PROVE  LET r == op[o]  s == op'[o] IN
           /\ r.changed => SamePods(s, r) /\ Chosen(o)' = Chosen(o)
           /\ r.step \in Undoing => SamePods(s, r)
           /\ r.changed => s.changed
           /\ s.changed => r.changed \/ Bind(o)
           /\ r.promoted => s.promoted
           /\ s.promoted => r.promoted \/ Promote(o)
<1>0. Typed
  BY DEF Shaped
<1>. DEFINE r == op[o]  s == op'[o]
<1>1. r.changed \/ r.step \in Undoing => SamePods(s, r)
  <2>1. Discover(o) \/ ReusePod(o) \/ CreatePod(o) => r.step \in {"discover", "pods"}
    BY DEF Discover, ReusePod, CreatePod, AtStep
  <2>2. r.step \in {"discover", "pods"} => ~r.changed /\ r.step \notin Undoing
    BY DEF Shaped, Shape, Marked, Undoing
  <2>. QED
    BY <2>1, <2>2, RunStep
<1>2. SamePods(s, r) => Chosen(o)' = Chosen(o)
  BY DEF SamePods, Chosen
<1>3. \/ SameMarks(s, r)
      \/ s.changed = r.changed /\ s.promoted = r.promoted
      \/ Promote(o) /\ s.changed = r.changed /\ s.promoted
      \/ Bind(o) /\ s.changed /\ s.promoted = r.promoted
  BY <1>0, RunStep, DeployStackRun, AddressRun, PromoteRun, BindRun
<1>. QED
  BY <1>1, <1>2, <1>3 DEF SameMarks

LEMMA BindingFitsKept ==
    ASSUME Shaped, NEW o \in Operators, BindingFits(o), Shaped', op'[o] # NoTask,
           Apply(o) \/ Refused(o) \/ Compensate(o) \/ Faults(o)
    PROVE  BindingFits(o)'
<1>0. Typed /\ Tasked(o) /\ op \in [Operators -> Runs] /\ mishaps \subseteq mishaps'
  BY ActStepFrame DEF Shaped, Typed
<1>. DEFINE r == op[o]  s == op'[o]
<1>1. SameTask(s, r)
  BY RunStep
<1>2. SUFFICES ASSUME r.task \in Switching PROVE BindingFits(o)'
  BY <1>1 DEF BindingFits, SameTask
<1>3. /\ ~Undone(r) /\ ~r.changed => binding = r.before.binding
      /\ ~Undone(r) /\ r.changed => binding = Chosen(o)
      /\ Undone(r) => \/ "undoFailed" \in mishaps \/ NoPairBefore(o)
                      \/ binding = r.before.binding
                      \/ r.task = "ensure" /\ "misread" \in mishaps
                      \/ r.task # "ensure" /\ binding = r.found
      /\ r.task = "ensure" /\ (r.changed \/ r.step \in {"pods", "sync", "bind"}) =>
           IF r.unread THEN "misread" \in mishaps ELSE r.boundBefore = r.before.binding
      /\ "Foundation" \in r.newStacks => "misread" \in mishaps \/ r.before.binding = None
  BY <1>2 DEF BindingFits
<1>4. binding' = binding \/ Bind(o) \/ UndoBinding(o)
  <2>1. ~UndoStacks(o)
    BY <1>0, ReleaseRun DEF UndoStacks
  <2>2. ~DestroyStacks(o)
    <3>1. Located(r) /\ r.step \notin {"idle"} \cup Waiting
      BY <1>0 DEF Shaped, Shape, Tasked
    <3>2. r.step # "destroyStacks"
      BY <1>2, <3>1 DEF Located, Switching, Undoing
    <3>. QED
      BY <3>2 DEF DestroyStacks
  <2>. QED
    BY <2>1, <2>2, ActStepFrame
<1>5. Undone(r) => Undone(s) /\ ~UndoBinding(o)
  BY GoesOn DEF Undone, Undoing, Raises, Undoes, UndoBinding
<1>6. UndoBinding(o) => Undone(s)
  <2>1. ASSUME UndoBinding(o) PROVE r.step \in Undoing /\ r.step = "undoBinding"
    BY <2>1 DEF UndoBinding, Undoing
  <2>2. ASSUME UndoBinding(o), Undoes(o) PROVE Undone(s)
    BY <2>1, <2>2 DEF Undoes, Undone
  <2>. QED
    BY <2>1, <2>2, GoesOn DEF Raises
<1>7. /\ r.changed => SamePods(s, r) /\ Chosen(o)' = Chosen(o)
      /\ r.step \in Undoing => SamePods(s, r)
      /\ r.changed => s.changed
      /\ s.changed => r.changed \/ Bind(o)
  BY SwitchedRun
<1>8. ASSUME Bind(o)
      PROVE  /\ binding' = Chosen(o)' /\ r.step = "bind" /\ ~Undone(r) /\ s.changed
             /\ ~Undone(s) /\ s.boundBefore = r.boundBefore /\ s.newStacks = r.newStacks
             /\ s.unread = r.unread
  <2>1. SamePods(s, r) => Chosen(o)' = Chosen(o)
    BY DEF SamePods, Chosen
  <2>. QED
    BY <1>0, <1>8, <2>1, BindRun DEF Undone
<1>9. ~Undone(s) /\ ~s.changed => binding' = s.before.binding
  BY <1>1, <1>3, <1>4, <1>5, <1>6, <1>7, <1>8 DEF SameTask
<1>10. ~Undone(s) /\ s.changed => binding' = Chosen(o)'
  BY <1>3, <1>4, <1>5, <1>6, <1>7, <1>8
<1>11. ASSUME Undone(s)
       PROVE  \/ "undoFailed" \in mishaps' \/ NoPairBefore(o)'
              \/ binding' = s.before.binding
              \/ s.task = "ensure" /\ "misread" \in mishaps'
              \/ s.task # "ensure" /\ binding' = s.found
  <2>1. SamePods(s, r) => NoPairBefore(o)' = NoPairBefore(o)
    BY <1>1 DEF SamePods, SameTask, NoPairBefore
  <2>2. CASE Undone(r)
    <3>1. SamePods(s, r) /\ binding' = binding
      BY <1>4, <1>5, <1>7, <1>8, <2>2 DEF Undone, Undoing
    <3>. QED
      BY <1>0, <1>1, <1>3, <2>1, <2>2, <3>1 DEF SamePods, SameTask
  <2>3. CASE ~Undone(r)
    <3>1. Undoes(o) /\ (Compensate(o) \/ UndoFails(o)) /\ r.step = "undoBinding" /\ SamePods(s, r)
      <4>1. ~(Apply(o) /\ s.step \notin Undoing) /\ ~Raises(o)
        BY <1>11 DEF Undone, Undoing, Raises
      <4>2. (Compensate(o) \/ UndoFails(o)) /\ Undoes(o)
        BY <4>1, GoesOn
      <4>. QED
        BY <1>11, <2>3, <4>2 DEF Undoes, Undone, Undoing, Kept
    <3>2. UndoBinding(o) \/ UndoFails(o)
      BY <3>1 DEF Compensate, UndoSecret, UndoReapply, UndoPods, UndoStacks, UndoEnds
    <3>3. CASE UndoFails(o)
      BY <3>3 DEF UndoFails, GivesUp
    <3>4. CASE UndoBinding(o) /\ ~Restores(o)
      <4>1. binding' = binding
        BY <3>4 DEF UndoBinding
      <4>2. ~r.changed \/ NoPairBefore(o) \/ (r.task = "ensure" /\ r.changed /\ r.unread)
        BY <1>2, <3>4 DEF Restores, NoPairBefore, Switching
      <4>. QED
        BY <1>0, <1>1, <1>3, <2>1, <2>3, <3>1, <4>1, <4>2 DEF SameTask
    <3>5. CASE UndoBinding(o) /\ Restores(o)
      <4>1. binding' = IF r.task = "ensure" THEN r.boundBefore ELSE r.found
        BY <3>5 DEF UndoBinding
      <4>2. r.task = "ensure" => r.changed /\ ~r.unread
        BY <3>5 DEF Restores
      <4>. QED
        BY <1>0, <1>1, <1>3, <3>1, <4>1, <4>2 DEF SameTask, SamePods
    <3>. QED
      BY <3>2, <3>3, <3>4, <3>5
  <2>. QED
    BY <2>2, <2>3
<1>12. /\ s.task = "ensure" /\ (s.changed \/ s.step \in {"pods", "sync", "bind"}) =>
            IF s.unread THEN "misread" \in mishaps' ELSE s.boundBefore = s.before.binding
       /\ "Foundation" \in s.newStacks => "misread" \in mishaps' \/ s.before.binding = None
  <2>0. s.task = r.task /\ s.before = r.before
    BY <1>1 DEF SameTask
  <2>1. CASE Address(o)
    <3>1. /\ r.step = "address" /\ s.newStacks = r.newStacks
          /\ IF s.unread THEN "misread" \in mishaps' ELSE s.boundBefore = binding
      BY <1>0, <2>1, AddressRun
    <3>2. ~r.changed /\ ~Undone(r)
      BY <3>1 DEF Shaped, Shape, Marked, Undone
    <3>. QED
      BY <1>0, <1>3, <2>0, <3>1, <3>2
  <2>2. CASE DeployStack(o)
    <3>1. /\ r.step \in {"foundation", "service"} /\ Deployable(StackOf(r.step))
          /\ s.step \in {"install", "address"} /\ s.boundBefore = r.boundBefore
          /\ s.changed = r.changed /\ s.unread = r.unread
          /\ \/ "misread" \in mishaps'
             \/ s.newStacks = r.newStacks \cup ({StackOf(r.step)} \ stacks)
      BY <1>0, <2>2, DeployStackRun
    <3>2. ASSUME "Foundation" \notin r.newStacks, "Foundation" \in s.newStacks
          PROVE  "misread" \in mishaps' \/ s.before.binding = None
      <4>0. SUFFICES ASSUME "misread" \notin mishaps' PROVE s.before.binding = None
        OBVIOUS
      <4>1. StackOf(r.step) = "Foundation" /\ "Foundation" \notin stacks
        BY <3>1, <3>2, <4>0
      <4>2. r.step = "foundation" /\ binding = None
        BY <3>1, <4>1 DEF StackOf, Deployable
      <4>3. ~r.changed /\ ~Undone(r)
        BY <4>2 DEF Shaped, Shape, Marked, Undone
      <4>. QED
        BY <1>3, <2>0, <4>2, <4>3
    <3>. QED
      BY <1>0, <1>3, <2>0, <3>1, <3>2
  <2>3. CASE Bind(o)
    BY <1>0, <1>3, <1>8, <2>0, <2>3
  <2>4. CASE SameMarks(s, r) \/ Promote(o)
    <3>1. /\ s.boundBefore = r.boundBefore /\ s.changed = r.changed /\ s.newStacks = r.newStacks
          /\ s.unread = r.unread
      BY <1>0, <2>4, PromoteRun DEF SameMarks
    <3>2. ASSUME s.task = "ensure", s.step \in {"pods", "sync", "bind"}
          PROVE  r.step \in {"pods", "sync", "bind"} \/ Address(o)
      <4>1. Apply(o)
        BY <3>2, GoesOn DEF Raises, Undoes, Undoing
      <4>2. CASE Discover(o) \/ Stage(o) \/ Promote(o)
        <5>1. r.step \in {"discover", "stage", "promote"}
          BY <4>2 DEF Discover, Stage, Promote
        <5>. QED
          BY <1>0, <2>0, <3>2, <5>1 DEF Shaped, Shape, Located, Tasked, Waiting
      <4>3. CASE DrawKeys(o) \/ DeployStack(o)
        BY <1>0, <3>2, <4>3, DrawKeysRun, DeployStackRun
      <4>4. CASE ReusePod(o) \/ CreatePod(o) \/ SyncSecret(o) \/ Bind(o)
        BY <4>4 DEF ReusePod, CreatePod, SyncSecret, Bind, AtStep
      <4>5. CASE \/ Reapply(o) \/ Pass(o) \/ KeepKey(o) \/ Record(o) \/ Retire(o)
        BY <1>0, <3>2, <4>5, GoRun, GoOverRun, ReleaseRun
        DEF Reapply, Pass, KeepKey, Record, Retire
      <4>6. CASE \/ DeleteRecorded(o) \/ DeleteNamed(o) \/ DestroyStacks(o)
                 \/ Clear(o) \/ Blank(o) \/ Bootstrap(o) \/ Purge(o)
        BY <1>0, <3>2, <4>6, GoRun, GoOverRun, ReleaseRun
        DEF DeleteRecorded, DeleteNamed, DestroyStacks, Clear, Blank, Bootstrap, Purge
      <4>. QED
        BY <4>1, <4>2, <4>3, <4>4, <4>5, <4>6 DEF Apply
    <3>. QED
      BY <1>0, <1>3, <2>0, <2>1, <3>1, <3>2
  <2>. QED
    BY <2>1, <2>2, <2>3, <2>4, RunStep
<1>. HIDE DEF r, s
<1>. QED
  BY <1>9, <1>10, <1>11, <1>12 DEF BindingFits, r, s

LEMMA BindingFitsFresh ==
    ASSUME NEW o \in Operators, Fresh(o)
    PROVE  BindingFits(o)'
<1>1. /\ ~op'[o].changed /\ op'[o].newStacks = {} /\ binding' = op'[o].before.binding
      /\ op'[o].step = FirstStep(op'[o].task) /\ op'[o].task \in Held
  BY DEF Fresh, SameMarks, NoTask
<1>2. op'[o].step \in {"keys", "discover", "sync", "deleteRecorded", "bootstrap", "purge"}
      /\ (op'[o].task = "ensure" => op'[o].step = "keys")
  BY <1>1 DEF FirstStep, Held
<1>. QED
  BY <1>1, <1>2 DEF BindingFits, Undone

-----------------------------------------------------------------------------
(* Which Pods there are besides those a task found.                         *)

Retired(r) == \/ r.step = "retire"
              \/ r.task = "replace" /\ r.step = "record"

PodFits(o, k, p) ==
    LET r == op[o] IN
    \/ "candidateLeft" \in mishaps
    \/ podKey[k][p] = r.before.podKey[k][p]
    \/ /\ p = r.candidate[k]
       /\ r.step = "undoPods" => k \in r.left \/ "undoFailed" \in mishaps

PodsFit(o) ==
    op[o].task \in Switching /\ ~Retired(op[o]) =>
        \A k \in Kinds, p \in 1 .. MaxPods : PodFits(o, k, p)

LEMMA RetiredRun ==
    ASSUME Shaped, NEW o \in Operators, op'[o] # NoTask, Retired(op[o]), Shaped',
           Apply(o) \/ Refused(o) \/ Compensate(o) \/ Faults(o)
    PROVE  Retired(op'[o])
<1>0. op \in [Operators -> Runs]
  BY DEF Shaped, Typed
<1>1. ~Raises(o)
  <2>1. ASSUME Raises(o) PROVE Committed(o)
    <3>1. Located(op[o]) /\ op[o].step \notin {"idle"} \cup Waiting
      BY <2>1 DEF Raises, Shaped, Shape
    <3>2. op[o].task \in {"ensure", "replace", "rotate"}
      BY <2>1 DEF Raises
    <3>3. op[o].task = "replace" \/ (op[o].task = "rotate" /\ op[o].step = "retire")
      BY <3>1, <3>2 DEF Located, Retired
    <3>. QED
      BY <3>3 DEF Committed, AtStep, Retired
  <2>. QED
    BY <2>1 DEF Raises
<1>2. ~Undoes(o)
  BY DEF Undoes, Undoing, Retired
<1>3. Apply(o)
  BY <1>1, <1>2, GoesOn
<1>4. Record(o) \/ Retire(o)
  BY <1>3 DEF Retired, Apply, DrawKeys, DeployStack, Address, Discover, Stage, ReusePod,
     CreatePod, AtStep, SyncSecret, Promote, Bind, Reapply, Pass, KeepKey, Record, Retire,
     DeleteRecorded, DeleteNamed, DestroyStacks, Clear, Blank, Bootstrap, Purge
<1>5. CASE Record(o)
  BY <1>0, <1>5, GoOverRun, ReleaseRun DEF Record, Retired
<1>6. CASE Retire(o)
  <2>0. \/ \E K : GoOver(o, "retire", K)
        \/ op[o].task = "replace" /\ GoOver(o, "record", {})
        \/ Release(o)
    BY <1>6 DEF Retire
  <2>1. \/ op'[o].step = "retire"
        \/ op[o].task = "replace" /\ op'[o].step = "record"
    BY <1>0, <2>0, GoOverRun, ReleaseRun
  <2>2. op'[o].task = op[o].task
    BY RunStep DEF SameTask
  <2>. QED
    BY <2>1, <2>2 DEF Retired
<1>. QED
  BY <1>4, <1>5, <1>6

\* What the compensation still has to delete when it comes to the Pods.
LEMMA ToUndoPods ==
    ASSUME Shaped, NEW o \in Operators, op'[o] # NoTask, Shaped',
           Apply(o) \/ Refused(o) \/ Compensate(o) \/ Faults(o),
           op'[o].step = "undoPods", NEW k \in Kinds, op[o].candidate[k] # 0,
           op[o].step # "undoPods"
    PROVE  k \in op'[o].left
<1>1. Undoes(o)
  BY GoesOn DEF Raises, Undoing
<1>2. op[o].step \in Undoing \ {"undoPods"} /\ op'[o].left = op[o].left
  BY <1>1 DEF Undoes
<1>. QED
  BY <1>2 DEF Shaped, Shape, Lefts

LEMMA PodsFitKept ==
    ASSUME Shaped, NumbersFit, NEW o \in Operators, PodsFit(o), Shaped', op'[o] # NoTask,
           Apply(o) \/ Refused(o) \/ Compensate(o) \/ Faults(o)
    PROVE  PodsFit(o)'
<1>0. /\ Typed /\ Tasked(o) /\ op \in [Operators -> Runs] /\ mishaps \subseteq mishaps'
      /\ podKey \in PodKeys /\ made \in PodsOfKinds
  BY ActStepFrame, StoresTyped DEF Shaped, Typed
<1>. DEFINE r == op[o]  s == op'[o]
<1>1. SameTask(s, r)
  BY RunStep
<1>2. SUFFICES ASSUME s.task \in Switching, ~Retired(s), NEW k \in Kinds, NEW p \in 1 .. MaxPods
               PROVE  PodFits(o, k, p)'
  BY DEF PodsFit
<1>3. r.task \in Switching /\ ~Retired(r) /\ s.before = r.before
  BY <1>1, <1>2, RetiredRun DEF SameTask
<1>4. \/ "candidateLeft" \in mishaps
      \/ podKey[k][p] = r.before.podKey[k][p]
      \/ /\ p = r.candidate[k]
         /\ r.step = "undoPods" => k \in r.left \/ "undoFailed" \in mishaps
  BY <1>3 DEF PodsFit, PodFits
<1>5. p # 0
  BY BoundsAssumption
<1>6. CASE CandidateStays(o)
  BY <1>6 DEF CandidateStays, PodFits
<1>7. CASE CreatePod(o)
  <2>. DEFINE c == First(r.left)
  <2>1. c \in Kinds /\ r.left \in SUBSET Kinds
    BY <1>0, RunTyped, KindsInOrder
  <2>2. /\ r.step = "pods" /\ s.candidate = [r.candidate EXCEPT ![c] = made[c] + 1]
        /\ s.step \in {"pods", NextAfterPods(r.task)}
    BY <1>0, <1>7, CreatePodRun
  <2>3. s.candidate[k] = IF k = c THEN made[c] + 1 ELSE r.candidate[k]
    BY <1>0, <2>1, <2>2, RunTyped DEF PodsOfKinds
  <2>4. podKey'[k][p] = IF k = c /\ p = made[c] + 1 THEN r.values[c] ELSE podKey[k][p]
    BY <1>0, <1>7, <2>1, CreatesPod, CreatesRun
  <2>5. r.candidate[c] = 0
    <3>1. c \in r.left
      BY <2>1, <2>2, KindsInOrder DEF Shaped, Shape, Lefts
    <3>. HIDE DEF c
    <3>. QED
      BY <2>1, <2>2, <3>1 DEF Shaped, Shape, Candidates
  <2>6. s.step # "undoPods"
    BY <2>2 DEF NextAfterPods
  <2>. HIDE DEF c
  <2>7. \/ "candidateLeft" \in mishaps' \/ podKey'[k][p] = s.before.podKey[k][p]
        \/ p = s.candidate[k]
    BY <1>0, <1>3, <1>4, <1>5, <2>3, <2>4, <2>5
  <2>. QED
    BY <2>6, <2>7 DEF PodFits
<1>8. CASE UndoPods(o)
  <2>1. /\ Delete(Last(r.left), r.candidate[Last(r.left)]) /\ r.step = "undoPods" /\ r.left # {}
        /\ s.left = r.left \ {Last(r.left)} /\ s.step = "undoPods" /\ SamePods(s, r)
    BY <1>0, <1>8, GoOverRun DEF UndoPods, Kept
  <2>2. PICK c \in r.left : c = Last(r.left) /\ c \in Kinds
    BY <1>0, <2>1, RunTyped, KindsInOrder
  <2>3. podKey'[k][p] = IF k = c /\ p = r.candidate[c] THEN 0 ELSE podKey[k][p]
    BY <1>0, <2>1, <2>2, DeleteRun
  <2>4. r.candidate[c] # 0
    BY <2>1, <2>2 DEF Shaped, Shape, Lefts, Undoing
  <2>5. r.before.podKey[c][r.candidate[c]] = 0
    BY <2>2, <2>4 DEF NumbersFit, Numbered
  <2>6. \/ "candidateLeft" \in mishaps' \/ podKey'[k][p] = s.before.podKey[k][p]
        \/ p = s.candidate[k] /\ (k \in s.left \/ "undoFailed" \in mishaps')
    BY <1>0, <1>3, <1>4, <2>1, <2>2, <2>3, <2>5 DEF SamePods
  <2>. QED
    BY <2>6 DEF PodFits
<1>9. CASE podKey' = podKey /\ ~CreatePod(o) /\ ~UndoPods(o)
  <2>1. CASE s.candidate[k] = r.candidate[k]
    <3>1. CASE "candidateLeft" \in mishaps \/ podKey[k][p] = r.before.podKey[k][p]
      BY <1>0, <1>3, <1>9, <3>1 DEF PodFits
    <3>2. CASE /\ p = r.candidate[k]
               /\ r.step = "undoPods" => k \in r.left \/ "undoFailed" \in mishaps
      <4>1. SUFFICES ASSUME s.step = "undoPods" PROVE k \in s.left \/ "undoFailed" \in mishaps'
        BY <2>1, <3>2 DEF PodFits
      <4>2. CASE r.step # "undoPods"
        BY <1>5, <3>2, <4>1, <4>2, ToUndoPods
      <4>3. CASE r.step = "undoPods"
        <5>1. UndoFails(o) \/ UndoPods(o)
          <6>1. Compensate(o) \/ UndoFails(o)
            BY <4>3, GoesOn DEF Undoing, Raises
          <6>2. ~UndoStacks(o) /\ ~UndoEnds(o)
            BY <1>0, ReleaseRun DEF UndoStacks, UndoEnds
          <6>. QED
            BY <4>3, <6>1, <6>2 DEF Compensate, UndoSecret, UndoBinding, UndoReapply
        <5>2. CASE UndoFails(o)
          BY <5>2 DEF UndoFails, GivesUp
        <5>. QED
          BY <1>9, <5>1, <5>2
      <4>. QED
        BY <4>2, <4>3
    <3>. QED
      BY <1>4, <3>1, <3>2
  <2>2. s.candidate = r.candidate
    <3>1. CASE Discover(o)
      BY <1>0, <3>1, DiscoverRun
    <3>2. CASE ReusePod(o)
      BY <1>0, <3>2, ReusePodRun
    <3>. QED
      BY <1>9, <3>1, <3>2, RunStep DEF SamePods
  <2>. QED
    BY <2>1, <2>2
<1>10. ~Retire(o) /\ ~DeleteRecorded(o) /\ ~DeleteNamed(o)
  <2>1. r.step \notin {"deleteRecorded", "deleteNamed"}
    BY <1>0, <1>3 DEF Shaped, Shape, Located, Tasked, Switching, Undoing
  <2>. QED
    BY <1>3, <2>1 DEF Retire, DeleteRecorded, DeleteNamed, Retired
<1>. QED
  BY <1>6, <1>7, <1>8, <1>9, <1>10, ActStepFrame

LEMMA PodsFitFresh ==
    ASSUME NEW o \in Operators, Fresh(o)
    PROVE  PodsFit(o)'
  BY DEF Fresh, PodsFit, PodFits

-----------------------------------------------------------------------------
(* What the secrets and the file hold, step by step.                        *)

Restored(r) == r.step \in {"undoBinding", "undoReapply", "undoPods"}

KeysFit(o) ==
    LET r == op[o]  t == First(r.target) IN
    /\ r.task = "replace" => secret = r.before.secret /\ file = r.before.file
    /\ r.task = "rotate" =>
         /\ r.step \notin {"record", "retire"} => file = r.before.file
         /\ r.step \notin {"discover", "stage"} => r.keyBefore = r.before.secret[t]
         /\ ~r.promoted => secret = r.before.secret
         /\ r.promoted /\ ~Restored(r) => secret = [r.before.secret EXCEPT ![t] = r.values[t]]
         /\ r.promoted /\ Restored(r) =>
              secret = r.before.secret \/ "undoFailed" \in mishaps

LEMMA KeysFitKept ==
    ASSUME Shaped, NEW o \in Operators, KeysFit(o), Shaped', op'[o] # NoTask,
           Apply(o) \/ Refused(o) \/ Compensate(o) \/ Faults(o)
    PROVE  KeysFit(o)'
<1>0. /\ Typed /\ Tasked(o) /\ op \in [Operators -> Runs] /\ mishaps \subseteq mishaps'
  BY ActStepFrame DEF Shaped, Typed
<1>. DEFINE r == op[o]  s == op'[o]  t == First(r.target)
<1>1. s.task = r.task /\ s.target = r.target /\ s.before = r.before
  BY RunStep DEF SameTask
<1>2. Located(r) /\ Marked(r) /\ r.step \notin {"idle"} \cup Waiting
  BY <1>0 DEF Shaped, Shape, Tasked
<1>3. ~UndoStacks(o) /\ ~Blank(o)
  BY <1>0, ReleaseRun DEF UndoStacks, Blank
<1>4. secret' = secret \/ SyncSecret(o) \/ Promote(o) \/ UndoSecret(o) \/ Clear(o)
  BY <1>3, ActStepFrame
<1>5. file' = file \/ DrawKeys(o) \/ KeepKey(o)
  BY <1>3, ActStepFrame
<1>6. r.task \in {"replace", "rotate"} => ~SyncSecret(o) /\ ~DrawKeys(o) /\ ~Clear(o)
  BY <1>2 DEF Located, SyncSecret, DrawKeys, Clear, AtStep, Undoing
<1>7. r.task = "replace" => ~Promote(o) /\ ~UndoSecret(o) /\ ~KeepKey(o)
  BY <1>2 DEF Located, Promote, UndoSecret, KeepKey
<1>8. CASE r.task # "rotate"
  BY <1>1, <1>4, <1>5, <1>6, <1>7, <1>8 DEF KeysFit
<1>9. CASE r.task = "rotate"
  <2>1. /\ r.step \notin {"record", "retire"} => file = r.before.file
        /\ r.step \notin {"discover", "stage"} => r.keyBefore = r.before.secret[t]
        /\ ~r.promoted => secret = r.before.secret
        /\ r.promoted /\ ~Restored(r) => secret = [r.before.secret EXCEPT ![t] = r.values[t]]
        /\ r.promoted /\ Restored(r) => secret = r.before.secret \/ "undoFailed" \in mishaps
    BY <1>9 DEF KeysFit
  <2>2. SameKeys(s, r) \/ Stage(o)
    BY <1>6, <1>9, RunStep
  <2>3. Stage(o) => /\ r.step = "stage" /\ s.step = "pods" /\ s.keyBefore = secret[t]
                    /\ ~r.promoted /\ ~s.promoted
    <3>1. Stage(o) => r.step = "stage" /\ s.step = "pods" /\ s.keyBefore = secret[t]
      BY <1>0, StageRun
    <3>2. Stage(o) => SameMarks(s, r)
      BY <1>0, StageRun
    <3>. QED
      BY <1>2, <3>1, <3>2 DEF Marked, SameMarks
  <2>4. /\ r.promoted => s.promoted
        /\ s.promoted => r.promoted \/ Promote(o)
    BY SwitchedRun
  <2>5. Promote(o) => /\ secret' = [secret EXCEPT ![t] = r.values[t]] /\ SameKeys(s, r)
                      /\ r.step = "promote" /\ s.step = "bind" /\ ~r.promoted /\ s.promoted
    BY <1>0, <1>2, PromoteRun DEF Promote, Marked
  <2>6. s.step \notin {"record", "retire"} => file' = s.before.file
    <3>1. SUFFICES ASSUME s.step \notin {"record", "retire"} PROVE file' = s.before.file
      OBVIOUS
    <3>2. r.step \notin {"record", "retire"}
      <4>1. CASE r.step = "retire"
        BY <3>1, <4>1, <1>1, <1>9, RetiredRun DEF Retired
      <4>2. CASE r.step = "record"
        <5>1. Apply(o)
          BY <1>9, <4>2, GoesOn
          DEF Raises, Calls, CandidateStays, ReapplyFails, Refused, PodRefused,
              DiscoverRefused, NotDeployable, NoSecret, BindRefused, NoRelease,
              DeleteRefused, Undoes, Undoing
        <5>2. Record(o)
          BY <4>2, <5>1
          DEF Apply, DrawKeys, DeployStack, Address, Discover, Stage, ReusePod, CreatePod,
              AtStep, SyncSecret, Promote, Bind, Reapply, Pass, KeepKey, Retire,
              DeleteRecorded, DeleteNamed, DestroyStacks, Clear, Blank, Bootstrap, Purge
        <5>. QED
          BY <1>0, <1>9, <3>1, <5>2, GoOverRun DEF Record
      <4>. QED
        BY <4>1, <4>2
    <3>3. ~KeepKey(o)
      BY <1>0, <3>1, GoRun DEF KeepKey
    <3>. QED
      BY <1>1, <1>5, <1>6, <1>9, <2>1, <3>2, <3>3
  <2>7. s.step \notin {"discover", "stage"} => s.keyBefore = s.before.secret[t]
    <3>1. ASSUME s.step \notin {"discover", "stage"}, r.step \in {"discover", "stage"}
          PROVE  Stage(o)
      <4>1. Apply(o)
        BY <3>1, GoesOn DEF Raises, Unguarded, Undoes, Undoing
      <4>2. Discover(o) \/ Stage(o)
        BY <3>1, <4>1
        DEF Apply, DrawKeys, DeployStack, Address, ReusePod, CreatePod, AtStep,
            SyncSecret, Promote, Bind, Reapply, Pass, KeepKey, Retire, DeleteRecorded,
            DeleteNamed, DestroyStacks, Clear, Blank, Bootstrap, Purge, Record
      <4>. QED
        BY <1>0, <1>9, <3>1, <4>2, DiscoverRun
    <3>2. Stage(o) => s.keyBefore = s.before.secret[t]
      BY <1>1, <2>1, <2>3
    <3>. QED
      BY <1>1, <2>1, <2>2, <3>1, <3>2 DEF SameKeys
  <2>8. ~s.promoted => secret' = s.before.secret
    <3>1. ~s.promoted /\ UndoSecret(o) => secret' = secret
      BY <2>4 DEF UndoSecret
    <3>. QED
      BY <1>1, <1>4, <1>6, <1>9, <2>1, <2>4, <2>5, <3>1
  <2>9. s.promoted /\ ~Restored(s) => secret' = [s.before.secret EXCEPT ![t] = s.values[t]]
    <3>1. SUFFICES ASSUME s.promoted, ~Restored(s)
                   PROVE  secret' = [s.before.secret EXCEPT ![t] = s.values[t]]
      OBVIOUS
    <3>2. CASE Promote(o)
      <4>1. /\ secret' = [secret EXCEPT ![t] = r.values[t]] /\ s.values = r.values
            /\ secret = s.before.secret
        BY <1>1, <2>1, <2>5, <3>2 DEF SameKeys
      <4>. HIDE DEF r, s, t
      <4>. QED
        BY <4>1
    <3>3. CASE ~Promote(o)
      <4>1. r.promoted /\ SameKeys(s, r)
        BY <2>2, <2>3, <2>4, <3>1, <3>3
      <4>2. ~Restored(r) /\ ~UndoSecret(o)
        <5>1. CASE Undoes(o)
          BY <3>1, <5>1 DEF Undoes, Restored, Undoing
        <5>. QED
          BY <5>1, GoesOn DEF Raises, Restored, Undoing, UndoSecret
      <4>. QED
        BY <1>1, <1>4, <1>6, <1>9, <2>1, <3>3, <4>1, <4>2 DEF SameKeys
    <3>. QED
      BY <3>2, <3>3
  <2>10. s.promoted /\ Restored(s) => secret' = s.before.secret \/ "undoFailed" \in mishaps'
    <3>1. SUFFICES ASSUME s.promoted, Restored(s)
                   PROVE  secret' = s.before.secret \/ "undoFailed" \in mishaps'
      OBVIOUS
    <3>2. ~Promote(o)
      BY <2>5, <3>1 DEF Restored
    <3>3. r.promoted
      BY <2>4, <3>1, <3>2
    <3>4. (Compensate(o) \/ UndoFails(o)) /\ Undoes(o)
      BY <1>9, <3>1, GoesOn DEF Raises, Restored, Undoing
    <3>5. CASE Restored(r)
      <4>1. ~UndoSecret(o)
        BY <3>5 DEF UndoSecret, Restored
      <4>. QED
        BY <1>0, <1>1, <1>4, <1>6, <1>9, <2>1, <3>2, <3>3, <3>5, <4>1
    <3>6. CASE UndoFails(o)
      BY <3>6 DEF UndoFails, GivesUp
    <3>7. CASE ~Restored(r) /\ ~UndoFails(o)
      <4>1. UndoSecret(o)
        BY <3>4, <3>7
        DEF Compensate, UndoBinding, UndoReapply, UndoPods, UndoStacks, UndoEnds, Restored
      <4>2. r.step = "undoSecret" /\ secret' = [secret EXCEPT ![t] = r.keyBefore]
        BY <3>3, <4>1 DEF UndoSecret
      <4>3. secret = [r.before.secret EXCEPT ![t] = r.values[t]] /\ r.keyBefore = r.before.secret[t]
        BY <2>1, <3>3, <3>7, <4>2
      <4>4. r.before.secret \in KeysOfKinds
        BY <1>2 DEF Located, Snapshots
      <4>. HIDE DEF r, t
      <4>. QED
        BY <1>1, <4>2, <4>3, <4>4 DEF KeysOfKinds
    <3>. QED
      BY <3>5, <3>6, <3>7
  <2>. HIDE DEF r, s
  <2>. QED
    BY <1>1, <1>9, <2>6, <2>7, <2>8, <2>9, <2>10 DEF KeysFit, s
<1>. QED
  BY <1>8, <1>9

LEMMA KeysFitFresh ==
    ASSUME NEW o \in Operators, Fresh(o)
    PROVE  KeysFit(o)'
<1>1. ~op'[o].promoted
  BY DEF Fresh, SameMarks, NoTask
<1>2. op'[o].task = "rotate" => op'[o].step = "discover"
  BY DEF Fresh, FirstStep
<1>. QED
  BY <1>1, <1>2 DEF Fresh, KeysFit

-----------------------------------------------------------------------------
(* Which stacks stand.                                                      *)

\* The service is deployed on a foundation, and destroyed with it.
OnFoundation(S) == "Service" \in S => "Foundation" \in S
Founded == Without({"twoHolders"}) => OnFoundation(stacks)

StacksFit(o) ==
    LET r == op[o] IN
    r.task \in Switching =>
    /\ r.before.stacks \subseteq stacks /\ OnFoundation(r.before.stacks)
    /\ "misread" \in mishaps \/ r.newStacks \cap r.before.stacks = {}
    /\ r.task = "ensure" /\ r.step \notin {"keys", "foundation"} \cup Undoing =>
         "Foundation" \in stacks

LEMMA StacksGrow ==
    ASSUME Shaped, NEW o \in Operators, op[o].task \in Switching, op'[o] # NoTask,
           Apply(o) \/ Refused(o) \/ Compensate(o) \/ Faults(o)
    PROVE  stacks' = stacks \/ (DeployStack(o) /\ stacks' = stacks \cup {StackOf(op[o].step)})
<1>0. Typed /\ Tasked(o)
  BY ActStepFrame DEF Shaped
<1>1. ~UndoStacks(o)
  BY <1>0, ReleaseRun DEF UndoStacks, Typed
<1>2. op[o].step \notin {"destroyStacks", "bootstrap", "purge"}
  BY <1>0 DEF Shaped, Shape, Located, Tasked, Switching, Undoing
<1>. QED
  BY <1>1, <1>2, ActStepFrame DEF DestroyStacks, Bootstrap, Purge, DeployStack

LEMMA StacksFitKept ==
    ASSUME Shaped, NEW o \in Operators, StacksFit(o), Shaped', op'[o] # NoTask,
           Apply(o) \/ Refused(o) \/ Compensate(o) \/ Faults(o)
    PROVE  StacksFit(o)'
<1>0. /\ Typed /\ Tasked(o) /\ op \in [Operators -> Runs] /\ mishaps \subseteq mishaps'
  BY ActStepFrame DEF Shaped, Typed
<1>. DEFINE r == op[o]  s == op'[o]
<1>1. s.task = r.task /\ s.before = r.before
  BY RunStep DEF SameTask
<1>2. SUFFICES ASSUME r.task \in Switching PROVE StacksFit(o)'
  BY <1>1 DEF StacksFit
<1>3. /\ r.before.stacks \subseteq stacks /\ OnFoundation(r.before.stacks)
      /\ "misread" \in mishaps \/ r.newStacks \cap r.before.stacks = {}
      /\ r.task = "ensure" /\ r.step \notin {"keys", "foundation"} \cup Undoing =>
           "Foundation" \in stacks
  BY <1>2 DEF StacksFit
<1>4. stacks \subseteq stacks'
  BY <1>2, StacksGrow
<1>5. "misread" \in mishaps' \/ s.newStacks \cap s.before.stacks = {}
  <2>1. CASE DeployStack(o)
    <3>1. \/ "misread" \in mishaps'
          \/ s.newStacks = r.newStacks \cup ({StackOf(r.step)} \ stacks)
      BY <1>0, <2>1, DeployStackRun
    <3>. QED
      BY <1>0, <1>1, <1>3, <3>1
  <2>2. CASE ~DeployStack(o)
    <3>1. s.newStacks = r.newStacks
      BY <1>0, <2>2, RunStep, AddressRun, PromoteRun, BindRun DEF SameMarks
    <3>. QED
      BY <1>0, <1>1, <1>3, <3>1
  <2>. QED
    BY <2>1, <2>2
<1>6. ASSUME r.task = "ensure", s.step \notin {"keys", "foundation"} \cup Undoing
      PROVE  "Foundation" \in stacks'
  <2>1. Apply(o) /\ r.step \notin Undoing
    BY <1>6, GoesOn DEF Raises, Undoes, Undoing
  <2>2. CASE r.step \notin {"keys", "foundation"}
    BY <1>3, <1>4, <1>6, <2>1, <2>2
  <2>3. CASE r.step \in {"keys", "foundation"}
    <3>1. DrawKeys(o) \/ DeployStack(o)
      BY <2>1, <2>3 DEF Apply, Address, Discover, Stage, ReusePod, CreatePod, AtStep,
         SyncSecret, Promote, Bind, Reapply, Pass, KeepKey, Record, Retire,
         DeleteRecorded, DeleteNamed, DestroyStacks, Clear, Blank, Bootstrap, Purge
    <3>2. ~DrawKeys(o)
      BY <1>0, <1>6, DrawKeysRun
    <3>3. r.step = "foundation" /\ stacks' = stacks \cup {StackOf(r.step)}
      BY <2>3, <3>1, <3>2 DEF DeployStack
    <3>. QED
      BY <3>3 DEF StackOf
  <2>. QED
    BY <2>2, <2>3
<1>. HIDE DEF r, s
<1>. QED
  BY <1>1, <1>3, <1>4, <1>5, <1>6 DEF StacksFit, r, s

LEMMA StacksFitFresh ==
    ASSUME NEW o \in Operators, Fresh(o), OnFoundation(stacks)
    PROVE  StacksFit(o)'
<1>1. /\ op'[o].before.stacks = stacks /\ stacks' = stacks /\ op'[o].newStacks = {}
      /\ op'[o].task = "ensure" => op'[o].step = "keys"
  BY DEF Fresh, SameMarks, NoTask, FirstStep
<1>. QED
  BY <1>1 DEF StacksFit

-----------------------------------------------------------------------------
(* The inductive invariant, and what follows from it.                       *)

Fits(o) == DestroyFit(o) /\ BindingFits(o) /\ PodsFit(o) /\ KeysFit(o) /\ StacksFit(o)

WorkFits == Without({"twoHolders"}) => \A o \in Operators : Tasked(o) => Fits(o)

DeployInvariant ==
    /\ Shaped /\ NumbersFit
    /\ AtMostTwoPods /\ Bootstrapped /\ Founded
    /\ Alone /\ WorkFits
    /\ stops \in Nat

LEMMA FitsFresh ==
    ASSUME NEW o \in Operators, Fresh(o), OnFoundation(stacks)
    PROVE  Fits(o)'
<1>1. op'[o].step \notin {"deleteNamed", "destroyStacks", "clear", "blank"}
  BY DEF Fresh, FirstStep, Held
<1>. QED
  BY <1>1, BindingFitsFresh, PodsFitFresh, KeysFitFresh, StacksFitFresh
  DEF Fits, DestroyFit

\* What fits a task fits it when somebody else moves.
LEMMA FitsElsewhere ==
    ASSUME NEW o \in Operators, Fits(o), op'[o] = op[o], mishaps \subseteq mishaps',
           UNCHANGED <<podKey, binding, secret, file, stacks>>
    PROVE  Fits(o)'
<1>1. DestroyFit(o)'
  BY DEF Fits, DestroyFit, Alive
<1>2. BindingFits(o)'
  <2>1. Chosen(o)' = Chosen(o) /\ NoPairBefore(o)' = NoPairBefore(o)
    BY DEF Chosen, NoPairBefore
  <2>. QED
    BY <2>1 DEF Fits, BindingFits
<1>3. PodsFit(o)'
  BY DEF Fits, PodsFit, PodFits
<1>4. KeysFit(o)'
  BY DEF Fits, KeysFit
<1>5. StacksFit(o)'
  BY DEF Fits, StacksFit
<1>. QED
  BY <1>1, <1>2, <1>3, <1>4, <1>5 DEF Fits

LEMMA NextWorkFits ==
    ASSUME Shaped, NumbersFit, Alone, Founded, WorkFits, Shaped', [Next]_vars
    PROVE  WorkFits'
<1>1. SUFFICES ASSUME Without({"twoHolders"})', NEW x \in Operators, Tasked(x)'
               PROVE  Fits(x)'
  BY DEF WorkFits
<1>2. Without({"twoHolders"})
  BY <1>1, MishapsStay DEF Without
<1>3. (Tasked(x) => Fits(x)) /\ OnFoundation(stacks)
  BY <1>2 DEF WorkFits, Founded
<1>4. CASE Tasked(x) /\ op'[x] = op[x] /\ UNCHANGED <<podKey, binding, secret, file, stacks>>
  BY <1>3, <1>4, FitsElsewhere, MishapsStay
<1>5. CASE /\ Tasked(x) /\ op'[x] # NoTask
           /\ Apply(x) \/ Refused(x) \/ Compensate(x) \/ Faults(x)
  BY <1>3, <1>5, DestroyFitKept, BindingFitsKept, PodsFitKept, KeysFitKept,
     StacksFitKept DEF Fits
<1>. QED
  BY <1>1, <1>3, <1>4, <1>5, LoneStep, FitsFresh

LEMMA NextFounded ==
    ASSUME Shaped, Founded, WorkFits, [Next]_vars
    PROVE  Founded'
<1>1. SUFFICES ASSUME Without({"twoHolders"})' PROVE OnFoundation(stacks')
  BY DEF Founded, OnFoundation
<1>2. Without({"twoHolders"}) /\ OnFoundation(stacks)
  BY <1>1, MishapsStay DEF Without, Founded
<1>3. CASE stacks' = stacks
  BY <1>2, <1>3
<1>4. ASSUME NEW o \in Operators, DeployStack(o)
      PROVE  OnFoundation(stacks')
  <2>1. stacks' = stacks \cup {StackOf(op[o].step)} /\ op[o].step \in {"foundation", "service"}
    BY <1>4 DEF DeployStack
  <2>2. CASE op[o].step = "foundation"
    BY <2>1, <2>2 DEF StackOf, OnFoundation
  <2>3. CASE op[o].step = "service"
    <3>1. op[o].task = "ensure" /\ Tasked(o)
      BY <2>3 DEF Shaped, Shape, Located, Tasked, Waiting, Held, Undoing
    <3>2. StacksFit(o)
      BY <1>2, <3>1 DEF WorkFits, Fits
    <3>. QED
      BY <2>1, <2>3, <3>1, <3>2 DEF StacksFit, OnFoundation, Switching, Undoing
  <2>. QED
    BY <2>1, <2>2, <2>3
<1>5. ASSUME NEW o \in Operators, UndoStacks(o)
      PROVE  OnFoundation(stacks')
  BY <1>2, <1>5, UndoneStacks DEF Destroy, OnFoundation
<1>6. ASSUME NEW o \in Operators, DestroyStacks(o) \/ Bootstrap(o)
      PROVE  OnFoundation(stacks')
  BY <1>2, <1>6 DEF DestroyStacks, Destroy, Bootstrap, OnFoundation
<1>7. ASSUME NEW o \in Operators, Purge(o)
      PROVE  OnFoundation(stacks')
  <2>1. stacks' = stacks \/ stacks' = stacks \ {"Access", "Service"}
    BY <1>7 DEF Purge, Destroy, WithDependents
  <2>. QED
    BY <1>2, <2>1 DEF OnFoundation
<1>8. ASSUME NEW o \in Operators, Begin(o) PROVE stacks' = stacks
  BY <1>8, BeginStep DEF cloud
<1>. QED
  BY <1>3, <1>4, <1>5, <1>6, <1>7, <1>8, ActStepFrame
  DEF Next, LockAges, DeployRelease, vars, cloud

LEMMA NextCounts ==
    ASSUME Shaped, stops \in Nat, [Next]_vars
    PROVE  stops' \in Nat
<1>1. ASSUME NEW o \in Operators, Acts(o) PROVE stops' \in {stops, stops + 1}
  <2>1. CASE Begin(o)
    BY <2>1 DEF Begin, Load, Lock, FindOld, Unlink, counts
  <2>2. CASE Apply(o)
    BY <2>2
    DEF Apply, DrawKeys, DeployStack, Address, Discover, Stage, ReusePod, CreatePod,
        SyncSecret, Promote, Bind, Reapply, Pass, KeepKey, Record, Retire, DeleteRecorded,
        DeleteNamed, DestroyStacks, Clear, Blank, Bootstrap, Purge, counts
  <2>3. CASE Refused(o)
    BY <2>3 DEF Refused, PodRefused, DiscoverRefused, NotDeployable, NoSecret,
                BindRefused, NoRelease, DeleteRefused, Refuse, counts
  <2>4. CASE Compensate(o)
    BY <2>4 DEF Compensate, UndoSecret, UndoBinding, UndoReapply, UndoPods, UndoStacks,
                UndoEnds, counts
  <2>5. CASE Faults(o)
    BY <2>5
    DEF Faults, CallFails, CandidateStays, ReapplyFails, UndoFails, Interrupt, Kill
  <2>. QED
    BY <1>1, <2>1, <2>2, <2>3, <2>4, <2>5 DEF Acts
<1>2. CASE stops' = stops
  BY <1>2
<1>. QED
  BY <1>1, <1>2 DEF Next, Acts, LockAges, DeployRelease, vars, counts

LEMMA InitInvariant ==
    Init => DeployInvariant
<1>. SUFFICES ASSUME Init PROVE DeployInvariant
  OBVIOUS
<1>1. /\ op = [o \in Operators |-> NoTask] /\ stacks \in {{}, {"Access"}}
      /\ podKey = [k \in Kinds |-> [p \in 1 .. MaxPods |-> 0]]
  BY DEF Init
<1>2. \A o \in Operators : ~Tasked(o)
  BY <1>1 DEF Tasked, NoTask
<1>3. \A k \in Kinds : Alive(k) = {}
  BY <1>1 DEF Alive
<1>4. AtMostTwoPods
  BY <1>3, FS_EmptySet DEF AtMostTwoPods
<1>5. Bootstrapped /\ Founded
  BY <1>1 DEF Bootstrapped, StacksAreBootstrapped, Founded, OnFoundation
<1>6. stops \in Nat
  BY DEF Init
<1>. QED
  BY <1>2, <1>4, <1>5, <1>6, InitShaped, InitNumbers DEF DeployInvariant, Alone, WorkFits

LEMMA NextInvariant ==
    DeployInvariant /\ [Next]_vars => DeployInvariant'
<1>. SUFFICES ASSUME DeployInvariant, [Next]_vars PROVE DeployInvariant'
  OBVIOUS
<1>1. /\ Shaped /\ NumbersFit /\ AtMostTwoPods /\ Bootstrapped /\ Founded
      /\ Alone /\ WorkFits
  BY DEF DeployInvariant
<1>2. Shaped'
  BY <1>1, NextShaped
<1>3. NumbersFit'
  BY <1>1, <1>2, NextNumbers
<1>4. AtMostTwoPods' /\ Bootstrapped' /\ Founded'
  BY <1>1, NextFewPods, NextStacks, NextFounded
<1>5. Alone'
  BY <1>1, <1>2, NextAlone
<1>6. WorkFits'
  BY <1>1, <1>2, NextWorkFits
<1>7. stops' \in Nat
  BY <1>1, NextCounts DEF DeployInvariant
<1>. QED
  BY <1>2, <1>3, <1>4, <1>5, <1>6, <1>7 DEF DeployInvariant

\* The invariant holds of every run of the tasks.
THEOREM DeployInvariantHolds ==
    Spec => []DeployInvariant
<1>. QED
  BY InitInvariant, NextInvariant, PTL DEF Spec

\* The variables keep their types, and the lock file keeps the tasks apart until
\* somebody unlinks it, after six hours, under a task that is still at work.
THEOREM TasksExclude ==
    Spec => []OneTaskAtATime
<1>1. DeployInvariant => OneTaskAtATime
  BY OneWorks DEF DeployInvariant, Shaped, Typed, OneTaskAtATime
<1>. QED
  BY <1>1, DeployInvariantHolds, PTL

\* Pods stay few enough for destroy to tell them apart, destroy has found them all
\* when it comes to the stacks, and no stack outlives its bootstrap unless a read
\* that failed counted as an absent stack.
THEOREM NothingStranded ==
    Spec => []NothingIsStranded
<1>1. ASSUME DeployInvariant, Without({"twoHolders"}), NEW o \in Operators,
             op[o].step \in {"destroyStacks", "clear", "blank"}, NEW k \in Kinds
      PROVE  Alive(k) = {}
  <2>1. Tasked(o)
    BY <1>1 DEF Tasked, Waiting
  <2>2. DestroyFit(o)
    BY <1>1, <2>1 DEF DeployInvariant, WorkFits, Fits
  <2>. QED
    BY <1>1, <2>2 DEF DestroyFit
<1>2. DeployInvariant => NothingIsStranded
  BY <1>1 DEF DeployInvariant, NothingIsStranded, DestroyFindsEveryPod, Bootstrapped
<1>. QED
  BY <1>2, DeployInvariantHolds, PTL

-----------------------------------------------------------------------------
(* Only destroy deletes a Pod that is bound.                                *)

LEMMA DeletedIsUnbound ==
    ASSUME DeployInvariant, NEW o \in Operators, Acts(o), NEW k \in Kinds,
           binding[k] # 0, podKey[k][binding[k]] # podKey'[k][binding[k]],
           op[o].task # "destroy", ~NoPairBefore(o),
           mishaps' \cap {"twoHolders", "undoFailed", "misread"} = {}
    PROVE  FALSE
<1>. DEFINE r == op[o]  b == binding[k]
<1>0. /\ Shaped /\ Typed /\ op \in [Operators -> Runs] /\ podKey \in PodKeys
      /\ made \in PodsOfKinds /\ NumbersFit /\ b \in Nat /\ mishaps \subseteq mishaps'
      /\ b \in 1 .. MaxPods /\ made[k] \in Nat
  <2>1. Shaped /\ Typed /\ op \in [Operators -> Runs] /\ NumbersFit
    BY DEF DeployInvariant, Shaped, Typed
  <2>2. podKey \in PodKeys /\ made \in PodsOfKinds /\ b \in Nat /\ binding \in PodsOfKinds
        /\ made[k] \in Nat
    BY <2>1, StoresTyped
  <2>3. b \in 1 .. MaxPods
    BY <2>2, BoundsAssumption DEF PodsOfKinds
  <2>4. mishaps \subseteq mishaps'
    BY <2>1, BeginStep, ActStepFrame DEF Acts
  <2>. QED
    BY <2>1, <2>2, <2>3, <2>4
<1>1. ~Begin(o)
  BY <1>0, BeginStep DEF pods
<1>2. Tasked(o) /\ Fits(o)
  <2>1. Tasked(o)
    BY <1>0, <1>1, ActStepFrame DEF Acts
  <2>. QED
    BY <1>0, <2>1 DEF DeployInvariant, WorkFits, Without
<1>3. /\ r.found \in PodsOfKinds /\ r.candidate[k] \in Nat /\ r.found[k] \in Nat
      /\ r.previous[k] \in Nat /\ Shape(r) /\ Numbered(r, made)
  BY <1>0, RunTyped DEF Shaped, NumbersFit
<1>4. r.candidate[k] # 0 => /\ r.found[k] # r.candidate[k] /\ r.previous[k] # r.candidate[k]
                            /\ r.before.binding[k] # r.candidate[k]
  <2>1. r.before.binding[k] \in Nat
    <3>1. r.before \in Snapshots
      BY <1>2, <1>3 DEF Shape, Located, Tasked
    <3>. QED
      BY <3>1, BoundsAssumption DEF Snapshots, PodsOfKinds
  <2>2. r.candidate[k] # 0 => /\ r.found[k] < r.candidate[k] /\ r.previous[k] < r.candidate[k]
                              /\ r.before.binding[k] < r.candidate[k]
    BY <1>3 DEF Numbered
  <2>. QED
    BY <1>3, <2>1, <2>2
<1>5. CASE CreatePod(o) \/ CandidateStays(o)
  <2>. DEFINE c == First(r.left)
  <2>1. Creates(o, c) /\ c \in Kinds
    BY <1>0, <1>5, CreatesPod, RunTyped, KindsInOrder
  <2>2. podKey'[k][b] = IF k = c /\ b = made[c] + 1 THEN r.values[c] ELSE podKey[k][b]
    BY <1>0, <2>1, CreatesRun
  <2>3. b <= made[k]
    BY <1>0 DEF NumbersFit, StoresNumbered
  <2>. QED
    BY <1>0, <2>2, <2>3
<1>6. CASE Retire(o)
  <2>. DEFINE c == First(r.left)
              p == IF r.task = "replace" THEN r.previous[c] ELSE r.found[c]
  <2>1. r.step = "retire" /\ DeleteIfAny(c, p)
    BY <1>6 DEF Retire
  <2>2. /\ r.task \in {"replace", "rotate"} /\ r.changed /\ r.left # {} /\ r.left \subseteq r.target
        /\ r.target \in SUBSET Kinds
    <3>1. r.task \in {"replace", "rotate"}
      BY <1>2, <1>3, <2>1 DEF Shape, Located, Tasked, Held
    <3>. QED
      BY <1>0, <1>3, <2>1, <3>1, RunTyped DEF Shape, Marked, Lefts
  <2>3. c \in r.left /\ c \in Kinds /\ c \in r.target
    BY <2>2, KindsInOrder
  <2>4. podKey'[k][b] = IF k = c /\ b = p THEN 0 ELSE podKey[k][b]
    <3>. HIDE DEF c, p
    <3>. QED
      BY <1>0, <2>1, <2>3, DeleteIfAnyRun
  <2>5. k = c /\ b = p
    BY <2>4
  <2>6. r.candidate[k] # 0
    <3>. HIDE DEF c
    <3>. QED
      BY <1>3, <2>1, <2>2, <2>3, <2>5 DEF Shape, Candidates
  <2>7. b = Chosen(o)[k]
    BY <1>2, <2>1, <2>2 DEF Fits, BindingFits, Switching, Undone
  <2>. QED
    BY <1>4, <2>5, <2>6, <2>7 DEF Chosen
<1>7. CASE UndoPods(o)
  <2>. DEFINE c == Last(r.left)
  <2>1. r.step = "undoPods" /\ Delete(c, r.candidate[c]) /\ r.left # {}
    BY <1>7 DEF UndoPods
  <2>2. c \in r.left /\ c \in Kinds
    BY <1>0, <2>1, RunTyped, KindsInOrder
  <2>3. podKey'[k][b] = IF k = c /\ b = r.candidate[c] THEN 0 ELSE podKey[k][b]
    <3>. HIDE DEF c
    <3>. QED
      BY <1>0, <2>1, <2>2, DeleteRun
  <2>4. k = c /\ b = r.candidate[k]
    BY <2>3
  <2>5. r.candidate[k] # 0
    <3>. HIDE DEF c
    <3>. QED
      BY <1>3, <2>1, <2>2, <2>4 DEF Shape, Lefts, Undoing
  <2>6. r.task \in Switching
    BY <1>2, <1>3, <2>1 DEF Shape, Located, Tasked, Held, Switching
  <2>7. binding = r.before.binding \/ binding = r.found
    BY <1>0, <1>2, <2>1, <2>6 DEF Fits, BindingFits, Undone
  <2>. QED
    BY <1>4, <2>4, <2>5, <2>7
<1>8. ~DeleteRecorded(o) /\ ~DeleteNamed(o)
  <2>1. ASSUME r.step \in {"deleteRecorded", "deleteNamed"} PROVE FALSE
    BY <1>2, <1>3, <2>1 DEF Shape, Located, Tasked, Held, Undoing
  <2>. QED
    BY <2>1 DEF DeleteRecorded, DeleteNamed
<1>. QED
  BY <1>0, <1>1, <1>5, <1>6, <1>7, <1>8, ActStepFrame DEF Acts

\* No step of a task but destroy takes away the Pod that the runtime binding names,
\* unless the task had no pair of Pods to go back to, a compensation failed, or the
\* task could not read the binding.
THEOREM BoundPodsStay ==
    Spec => DeletesNoBoundPod
<1>1. ASSUME DeployInvariant, [Next]_vars, NEW k \in Kinds
      PROVE  \/ binding[k] = 0 \/ podKey[k][binding[k]] = podKey'[k][binding[k]]
             \/ \E o \in Operators : op[o].task = "destroy" \/ NoPairBefore(o)
             \/ mishaps' \cap {"twoHolders", "undoFailed", "misread"} # {}
  <2>1. CASE podKey' = podKey
    BY <2>1
  <2>2. CASE \E o \in Operators : Acts(o)
    BY <1>1, <2>2, DeletedIsUnbound
  <2>. QED
    BY <1>1, <2>1, <2>2 DEF Next, Acts, LockAges, DeployRelease, vars, pods
<1>2. DeployInvariant /\ [Next]_vars =>
        [\A k \in Kinds :
           \/ binding[k] = 0 \/ podKey[k][binding[k]] = podKey'[k][binding[k]]
           \/ \E o \in Operators : op[o].task = "destroy" \/ NoPairBefore(o)
           \/ mishaps' \cap {"twoHolders", "undoFailed", "misread"} # {}]_vars
  BY <1>1
<1>. QED
  BY <1>2, DeployInvariantHolds, PTL DEF DeletesNoBoundPod, Spec

-----------------------------------------------------------------------------
(* A task that raises before it has switched leaves things as they were.    *)

LEMMA UndoneIsAsBefore ==
    ASSUME DeployInvariant, [Next]_vars, NEW o \in Operators,
           op[o].step = "undoPods", op'[o] = NoTask, stops' = stops,
           mishaps' \cap {"twoHolders", "undoFailed", "candidateLeft", "misread"} = {}
    PROVE  LET before == op[o].before IN
           /\ podKey' = before.podKey /\ before.stacks \subseteq stacks'
           /\ NoPairBefore(o) \/ binding' \in {before.binding, op[o].found}
           /\ op[o].task # "ensure" => secret' = before.secret /\ file' = before.file
<1>. DEFINE r == op[o]
<1>0. /\ Shaped /\ Typed /\ op \in [Operators -> Runs] /\ podKey \in PodKeys /\ NumbersFit
      /\ mishaps \cap {"twoHolders", "undoFailed", "candidateLeft", "misread"} = {}
  BY StoresTyped, MishapsStay DEF DeployInvariant, Shaped, Typed
<1>1. op[o] # NoTask /\ Tasked(o) /\ Fits(o)
  <2>1. Tasked(o)
    BY DEF Tasked, Waiting
  <2>. QED
    BY <1>0, <2>1 DEF DeployInvariant, WorkFits, Without, NoTask
<1>2. Acts(o)
  <2>1. ASSUME NEW x \in Operators, Acts(x), x # o PROVE op'[o] = op[o]
    BY <1>0, <2>1, OthersKept, ShapedBegun DEF Acts
  <2>. QED
    BY <1>1, <2>1 DEF Next, Acts, LockAges, DeployRelease, vars
<1>3. UndoStacks(o) \/ UndoEnds(o)
  <2>1. ~Begin(o)
    BY <1>0, <1>1, BeginStep
  <2>2. ~Interrupt(o) /\ ~Kill(o)
    <3>1. stops # stops + 1
      BY DEF DeployInvariant
    <3>. QED
      BY <3>1 DEF Interrupt, Kill
  <2>3. ~Refused(o) /\ ~CallFails(o) /\ ~CandidateStays(o) /\ ~ReapplyFails(o)
    BY <1>0, RaisesInStep DEF Undoing
  <2>4. ~Apply(o)
    BY DEF Apply, DrawKeys, DeployStack, Address, Discover, Stage, ReusePod, CreatePod,
           AtStep, SyncSecret, Promote, Bind, Reapply, Pass, KeepKey, Record, Retire,
           DeleteRecorded, DeleteNamed, DestroyStacks, Clear, Blank, Bootstrap, Purge
  <2>5. ~UndoPods(o)
    BY <1>0, GoOverRun DEF UndoPods, NoTask
  <2>6. ~UndoFails(o)
    BY <1>0, GoOverRun DEF UndoFails, NoTask, Undoing
  <2>. QED
    BY <1>2, <2>1, <2>2, <2>3, <2>4, <2>5, <2>6
    DEF Acts, Faults, Compensate, UndoSecret, UndoBinding, UndoReapply
<1>4. r.left = {} /\ podKey' = podKey /\ file' = file
  BY <1>3 DEF UndoStacks, UndoEnds, pods, local
<1>5. /\ r.task \in Switching /\ r.before \in Snapshots
      /\ r.task # "ensure" => r.newStacks = {}
  BY <1>0, <1>1 DEF Shaped, Shape, Located, Marked, Tasked, Held, Switching
<1>6. podKey' = r.before.podKey
  <2>1. r.before.podKey \in PodKeys
    BY <1>5 DEF Snapshots
  <2>2. ASSUME NEW k \in Kinds, NEW p \in 1 .. MaxPods PROVE podKey[k][p] = r.before.podKey[k][p]
    <3>1. PodFits(o, k, p)
      BY <1>1, <1>5 DEF Fits, PodsFit, Retired
    <3>. QED
      BY <1>0, <1>4, <3>1 DEF PodFits
  <2>. DEFINE Keys == 0 .. MaxKeys  Numbers == 1 .. MaxPods
  <2>0. ASSUME NEW f \in [Numbers -> Keys], NEW g \in [Numbers -> Keys],
               \A p \in Numbers : f[p] = g[p]
        PROVE  f = g
    <3>. HIDE DEF Keys, Numbers
    <3>. QED
      BY <2>0
  <2>3. ASSUME NEW f \in PodKeys, NEW g \in PodKeys,
               \A k \in Kinds, p \in 1 .. MaxPods : f[k][p] = g[k][p]
        PROVE  f = g
    <3>1. ASSUME NEW k \in Kinds PROVE f[k] = g[k]
      <4>1. f[k] \in [1 .. MaxPods -> 0 .. MaxKeys] /\ g[k] \in [1 .. MaxPods -> 0 .. MaxKeys]
        BY DEF PodKeys
      <4>. QED
        BY <2>0, <2>3, <4>1
    <3>. QED
      BY <3>1 DEF PodKeys
  <2>. QED
    BY <1>0, <1>4, <2>1, <2>2, <2>3
<1>7. NoPairBefore(o) \/ binding' \in {r.before.binding, r.found}
  <2>1. \/ NoPairBefore(o) \/ binding = r.before.binding
        \/ r.task # "ensure" /\ binding = r.found
    BY <1>0, <1>1, <1>5 DEF Fits, BindingFits, Undone
  <2>2. CASE UndoEnds(o)
    BY <2>1, <2>2 DEF UndoEnds, cloud
  <2>3. CASE UndoStacks(o)
    <3>1. \/ binding' = binding
          \/ binding' = None /\ "Foundation" \in r.newStacks
      BY <1>0, <2>3, UndoneStacks DEF Destroy
    <3>2. "Foundation" \in r.newStacks => r.before.binding = None
      BY <1>0, <1>1, <1>5 DEF Fits, BindingFits
    <3>. QED
      BY <2>1, <3>1, <3>2
  <2>. QED
    BY <1>3, <2>2, <2>3
<1>8. ASSUME r.task # "ensure" PROVE secret' = r.before.secret /\ file' = r.before.file
  <2>1. UndoEnds(o)
    BY <1>3, <1>5, <1>8 DEF UndoStacks
  <2>2. secret' = secret
    BY <2>1 DEF UndoEnds, cloud
  <2>3. secret = r.before.secret /\ file = r.before.file
    BY <1>0, <1>1, <1>5, <1>8 DEF Fits, KeysFit, Restored, Switching
  <2>. QED
    BY <1>4, <2>2, <2>3
<1>9. r.before.stacks \subseteq stacks'
  <2>1. /\ r.before.stacks \subseteq stacks /\ OnFoundation(r.before.stacks)
        /\ r.newStacks \cap r.before.stacks = {}
    BY <1>0, <1>1, <1>5 DEF Fits, StacksFit
  <2>2. CASE UndoEnds(o)
    BY <2>1, <2>2 DEF UndoEnds, cloud
  <2>3. CASE UndoStacks(o)
    <3>1. PICK gone \in SUBSET {"Service", "Foundation"} :
            Destroy(gone) /\ gone \subseteq r.newStacks \cup {"Service"} /\ r.newStacks # {}
      BY <1>0, <2>3, UndoneStacks
    <3>2. r.newStacks \in SUBSET {"Service", "Foundation"}
      BY <1>0 DEF Runs
    <3>3. "Service" \notin r.before.stacks
      BY <2>1, <3>1, <3>2 DEF OnFoundation
    <3>. QED
      BY <2>1, <3>1, <3>3 DEF Destroy
  <2>. QED
    BY <1>3, <2>2, <2>3
<1>. QED
  BY <1>6, <1>7, <1>8, <1>9

\* A task that ends in its compensation leaves the Pods and the binding as it found
\* them and every stack that stood, a replacement or rotation the secrets and the
\* operator's file as well, unless it took what it could not read for absent.
THEOREM FailuresAreUndone ==
    Spec => FailureIsUndone
<1>1. DeployInvariant /\ [Next]_vars =>
        [\A o \in Operators :
           op[o].step = "undoPods" /\ op'[o] = NoTask /\ stops' = stops
           /\ mishaps' \cap {"twoHolders", "undoFailed", "candidateLeft", "misread"} = {}
           => LET before == op[o].before IN
              /\ podKey' = before.podKey /\ before.stacks \subseteq stacks'
              /\ NoPairBefore(o) \/ binding' \in {before.binding, op[o].found}
              /\ op[o].task # "ensure" => secret' = before.secret /\ file' = before.file
         ]_vars
  BY UndoneIsAsBefore
<1>. QED
  BY <1>1, DeployInvariantHolds, PTL DEF FailureIsUndone, Spec
-----------------------------------------------------------------------------
(* Which keys agree while a task runs.                                      *)

\* Nothing happened that the lock and the compensation do not cover.
Clean == Without({"twoHolders", "interrupted", "oldValues", "undoFailed",
                  "candidateLeft", "halfDestroyed"})

OneKey(k) == \A p \in Alive(k) : podKey[k][p] = file[k]
KeyIs(k, p, key) == p \in Alive(k) => podKey[k][p] = key

\* Between tasks: two Pods of a kind are the old and the new one of a rotation whose
\* last deletion failed, and then the binding names the new one.
IdleFits(k) ==
    /\ secret[k] \in {0, file[k]}
    /\ file[k] = 0 => Alive(k) = {}
    /\ Ambiguous(k) \/ OneKey(k)
    /\ KeyIs(k, binding[k], file[k])

AppliedFits(k) == applied[k].key # 0 => KeyIs(k, applied[k].pod, applied[k].key)

CandidateFits(o, k) ==
    LET r == op[o] IN
    r.candidate[k] # 0 /\ (r.step = "undoPods" => k \in r.left) =>
        r.candidate[k] \in Alive(k) /\ podKey[k][r.candidate[k]] = r.values[k]

EnsureFits(o, k) ==
    LET r == op[o] IN
    /\ r.values[k] = file[k] /\ IdleFits(k)
    /\ r.step # "keys" => file[k] # 0
    /\ r.candidate[k] # 0 => Alive(k) \subseteq {r.candidate[k]}
    /\ KeyIs(k, Chosen(o)[k], file[k]) /\ KeyIs(k, r.before.binding[k], file[k])

ReplaceFits(o, k) ==
    LET r == op[o] IN
    /\ r.values[k] = file[k] /\ file[k] # 0
    /\ r.step = "discover" => IdleFits(k)
    /\ r.step # "discover" => secret[k] \in {0, file[k]} /\ OneKey(k)

RotateFits(o, k) ==
    LET r == op[o] IN
    /\ file[k] # 0 /\ CandidateFits(o, k)
    /\ r.step \in {"discover", "stage"} => IdleFits(k)
    /\ r.step # "discover" =>
         /\ KeyIs(k, r.found[k], r.before.file[k])
         /\ Alive(k) \subseteq {r.found[k], r.candidate[k]}
         /\ r.before.secret[k] \in {0, r.before.file[k]}
    /\ k \notin r.target => file[k] = r.before.file[k]
    /\ r.step \in {"record", "retire"} /\ k \in r.target => file[k] = r.values[k]
    /\ r.step = "undoReapply" => ~NoPairBefore(o)

TaskFits(o, k) ==
    LET r == op[o] IN
    /\ r.task \in {"sync", "bootstrap", "purge"} => IdleFits(k)
    /\ r.task = "sync" => r.values[k] = file[k]
    /\ r.task = "destroy" /\ r.step = "blank" => secret[k] = 0
    /\ r.task = "ensure" => EnsureFits(o, k)
    /\ r.task = "replace" => ReplaceFits(o, k)
    /\ r.task = "rotate" => RotateFits(o, k)

\* A task that needs the keys has loaded them.
KeysLoaded ==
    \A o \in Operators : op[o].step \in Waiting /\ op[o].task \in {"replace", "rotate"} =>
        \A k \in Kinds : op[o].values[k] # 0

KeysHold ==
    Clean => \A k \in Kinds :
      /\ (\A o \in Operators : ~Tasked(o)) => IdleFits(k)
      /\ \A o \in Operators : Tasked(o) => TaskFits(o, k)
      /\ Without({"overlap"}) => AppliedFits(k)

\* What keeps the Pods and the keys of a kind.
LEMMA SameStores ==
    ASSUME NEW k \in Kinds, podKey'[k] = podKey[k], file'[k] = file[k]
    PROVE  /\ Alive(k)' = Alive(k) /\ Ambiguous(k)' = Ambiguous(k) /\ OneKey(k)' = OneKey(k)
           /\ \A p, key : KeyIs(k, p, key)' = KeyIs(k, p, key)
           /\ secret'[k] = secret[k] /\ binding'[k] = binding[k] =>
                IdleFits(k)' = IdleFits(k)
<1>1. Alive(k)' = Alive(k)
  BY DEF Alive
<1>2. Ambiguous(k)' = Ambiguous(k) /\ OneKey(k)' = OneKey(k)
  BY <1>1 DEF Ambiguous, OneKey
<1>3. ASSUME NEW p, NEW key PROVE KeyIs(k, p, key)' = KeyIs(k, p, key)
  BY <1>1 DEF KeyIs
<1>4. KeyIs(k, binding[k], file[k])' = (binding'[k] \in Alive(k)' => podKey'[k][binding'[k]] = file'[k])
  BY DEF KeyIs
<1>5. ASSUME secret'[k] = secret[k], binding'[k] = binding[k] PROVE IdleFits(k)' = IdleFits(k)
  <2>1. KeyIs(k, binding[k], file[k])' = KeyIs(k, binding[k], file[k])
    BY <1>1, <1>4, <1>5 DEF KeyIs
  <2>. QED
    BY <1>1, <1>2, <1>5, <2>1 DEF IdleFits
<1>. QED
  BY <1>1, <1>2, <1>3, <1>5

\* When every Pod has the key of the file, nothing else matters.
LEMMA OneKeyIsIdle ==
    ASSUME NEW k \in Kinds, OneKey(k), secret[k] \in {0, file[k]}, file[k] # 0 \/ Alive(k) = {}
    PROVE  IdleFits(k)
  BY DEF OneKey, IdleFits, KeyIs

\* The new Pod of a task, and no other is touched.
LEMMA CreatedPod ==
    ASSUME Shaped, NumbersFit, NEW o \in Operators, CreatePod(o), NEW k \in Kinds
    PROVE  LET r == op[o]  s == op'[o]  c == First(r.left)  p == made[c] + 1 IN
           /\ c \in Kinds /\ c \in r.left /\ r.step = "pods" /\ r.values[c] # 0 /\ p # 0
           /\ r.candidate[c] = 0
           /\ s.step \in {"pods", "sync", "bind", "promote"}
           /\ SameTask(s, r) /\ SameKeys(s, r) /\ s.found = r.found
           /\ UNCHANGED <<binding, secret, file, applied>>
           /\ k # c => podKey'[k] = podKey[k] /\ s.candidate[k] = r.candidate[k]
           /\ k = c => /\ s.candidate[k] = p /\ p \notin Alive(k)
                       /\ r.found[k] # p /\ binding[k] # p /\ applied[k].pod # p
                       /\ r.before.binding[k] # p
                       /\ Alive(k)' = Alive(k) \cup {p}
                       /\ podKey'[k][p] = r.values[k]
                       /\ \A q \in Alive(k) : podKey'[k][q] = podKey[k][q]
<1>. DEFINE r == op[o]  s == op'[o]
<1>0. /\ Typed /\ op \in [Operators -> Runs] /\ made \in PodsOfKinds /\ podKey \in PodKeys
      /\ r.left \in SUBSET Kinds
  BY StoresTyped, RunTyped DEF Shaped, Typed
<1>1. PICK c \in Kinds : c = First(r.left)
  BY <1>0, KindsInOrder
<1>2. /\ r.step = "pods" /\ made[c] + 1 \in 1 .. MaxPods /\ r.values[c] # 0
      /\ SameTask(s, r) /\ SameKeys(s, r) /\ s.found = r.found
      /\ s.candidate = [r.candidate EXCEPT ![c] = made[c] + 1]
      /\ s.step \in {NextAfterPods(r.task), "pods"}
  BY <1>0, <1>1, CreatePodRun
<1>3. s.step \in {"pods", "sync", "bind", "promote"}
  BY <1>2 DEF NextAfterPods
<1>4. c \in r.left /\ r.candidate[c] = 0
  <2>1. c \in r.left
    BY <1>0, <1>1, <1>2, KindsInOrder DEF Shaped, Shape, Lefts
  <2>. QED
    BY <1>2, <2>1 DEF Shaped, Shape, Candidates
<1>5. \A i \in Kinds, q \in 1 .. MaxPods :
        podKey'[i][q] = IF i = c /\ q = made[c] + 1 THEN r.values[c] ELSE podKey[i][q]
  BY <1>0, <1>1, CreatesPod, CreatesRun
<1>6. k # c => podKey'[k] = podKey[k] /\ s.candidate[k] = r.candidate[k]
  <2>1. podKey' = [podKey EXCEPT ![c] = [@ EXCEPT ![made[c] + 1] = r.values[c]]]
    BY <1>1 DEF CreatePod
  <2>. QED
    BY <1>0, <1>2, <2>1, RunTyped DEF PodKeys, PodsOfKinds
<1>7. UNCHANGED <<binding, secret, file, applied>>
  BY DEF CreatePod, cloud, local
<1>8. CASE k = c
  <2>. DEFINE p == made[c] + 1
  <2>1. s.candidate[k] = p
    BY <1>0, <1>2, <1>8, RunTyped DEF PodsOfKinds
  <2>2. made[k] \in Nat /\ r.found[k] \in Nat /\ r.before.binding[k] \in Nat
        /\ r.found[k] <= made[k] /\ r.before.binding[k] <= made[k]
        /\ binding[k] \in Nat /\ binding[k] <= made[k]
        /\ applied[k].pod \in Nat /\ applied[k].pod <= made[k]
    <3>1. r.step \notin {"idle"} \cup Waiting
      BY <1>2 DEF Waiting
    <3>2. r.before \in Snapshots
      BY <3>1 DEF Shaped, Shape, Located
    <3>3. r.before.binding[k] \in Nat
      BY <3>2, BoundsAssumption DEF Snapshots, PodsOfKinds
    <3>4. r.found[k] <= made[k] /\ r.before.binding[k] <= made[k]
      BY <3>1 DEF NumbersFit, Numbered
    <3>5. binding[k] <= made[k] /\ applied[k].pod <= made[k]
      BY DEF NumbersFit, StoresNumbered
    <3>. QED
      BY <1>0, <3>3, <3>4, <3>5, StoresTyped, RunTyped
  <2>3. p \notin Alive(k)
    <3>1. podKey[k][p] # 0 => p <= made[k]
      BY <1>2 DEF NumbersFit, StoresNumbered
    <3>. QED
      BY <1>8, <2>2, <3>1 DEF Alive
  <2>4. p \in 1 .. MaxPods
    BY <1>2
  <2>5. r.found[k] # p /\ binding[k] # p /\ applied[k].pod # p /\ r.before.binding[k] # p /\ p # 0
    BY <1>8, <2>2
  <2>6. podKey'[k][p] = r.values[k] /\ \A q \in Alive(k) : podKey'[k][q] = podKey[k][q]
    BY <1>5, <1>8, <2>3, <2>4 DEF Alive
  <2>7. Alive(k)' = Alive(k) \cup {p}
    <3>1. ASSUME NEW q \in 1 .. MaxPods
          PROVE  podKey'[k][q] # 0 <=> podKey[k][q] # 0 \/ q = p
      BY <1>2, <1>5, <1>8, <3>1
    <3>. QED
      BY <2>4, <3>1 DEF Alive
  <2>. QED
    BY <1>1, <1>2, <1>3, <1>4, <1>7, <1>8, <2>1, <2>3, <2>5, <2>6, <2>7
<1>. QED
  BY <1>0, <1>1, <1>2, <1>3, <1>4, <1>6, <1>7, <1>8, StoresTyped
LEMMA DeletedPod ==
    ASSUME Typed, NEW c \in Kinds, NEW p, DeleteIfAny(c, p) \/ Delete(c, p), NEW k \in Kinds
    PROVE  /\ k # c => podKey'[k] = podKey[k]
           /\ k = c => /\ Alive(k)' = Alive(k) \ {p}
                       /\ \A q \in Alive(k) \ {p} : podKey'[k][q] = podKey[k][q]
<1>1. podKey \in PodKeys
  BY StoresTyped
<1>2. \A i \in Kinds, q \in 1 .. MaxPods :
        podKey'[i][q] = IF i = c /\ q = p THEN 0 ELSE podKey[i][q]
  BY <1>1, DeleteRun, DeleteIfAnyRun
<1>3. k # c => podKey'[k] = podKey[k]
  BY <1>1 DEF DeleteIfAny, Delete, PodKeys
<1>4. k = c => \A q \in 1 .. MaxPods :
        podKey'[k][q] # 0 <=> podKey[k][q] # 0 /\ q # p
  BY <1>2
<1>5. k = c => Alive(k)' = Alive(k) \ {p}
  BY <1>4 DEF Alive
<1>6. k = c => \A q \in Alive(k) \ {p} : podKey'[k][q] = podKey[k][q]
  BY <1>2 DEF Alive
<1>. QED
  BY <1>3, <1>5, <1>6

\* What a step that is nothing special cannot be.
LEMMA CleanStep ==
    ASSUME Shaped, NEW o \in Operators, Clean',
           Apply(o) \/ Refused(o) \/ Compensate(o) \/ Faults(o)
    PROVE  /\ Clean /\ ~CandidateStays(o) /\ ~UndoFails(o) /\ ~Interrupt(o) /\ ~Kill(o)
           /\ op[o].task = "destroy" => ~Refused(o) /\ ~CallFails(o)
<1>1. mishaps \subseteq mishaps'
  BY ActStepFrame
<1>2. Clean
  BY <1>1 DEF Clean, Without
<1>3. ~CandidateStays(o) /\ ~UndoFails(o)
  BY DEF CandidateStays, UndoFails, GivesUp, Clean, Without
<1>4. ~Interrupt(o) /\ ~Kill(o)
  BY DEF Interrupt, Kill, Clean, Without
<1>5. op[o].task = "destroy" => ~CallFails(o) /\ ~Refuse(o)
  BY DEF CallFails, Refuse, HalfDestroyed, Clean, Without
<1>6. Refused(o) => Refuse(o)
  BY DEF Refused, PodRefused, DiscoverRefused, NotDeployable, NoSecret, BindRefused,
         NoRelease, DeleteRefused
<1>. QED
  BY <1>2, <1>3, <1>4, <1>5, <1>6

LEMMA OneKeyNext ==
    ASSUME NEW k \in Kinds, OneKey(k)', secret'[k] \in {0, file'[k]},
           file'[k] # 0 \/ Alive(k)' = {}
    PROVE  IdleFits(k)'
  BY DEF OneKey, IdleFits, KeyIs

-----------------------------------------------------------------------------
(* ensure: the keys fit at every step, whatever becomes of it.              *)

LEMMA EnsureKept ==
    ASSUME Shaped, NumbersFit, Shaped', NEW o \in Operators, Fits(o), op[o].task = "ensure",
           Apply(o) \/ Refused(o) \/ Compensate(o) \/ Faults(o), Clean',
           NEW k \in Kinds, EnsureFits(o, k)
    PROVE  /\ IdleFits(k)'
           /\ op'[o] # NoTask => EnsureFits(o, k)'
<1>. DEFINE r == op[o]  s == op'[o]
<1>0. /\ Typed /\ Tasked(o) /\ op \in [Operators -> Runs] /\ Clean /\ Shape(r)
      /\ ~CandidateStays(o) /\ ~UndoFails(o) /\ ~Interrupt(o) /\ ~Kill(o)
  BY ActStepFrame, CleanStep DEF Shaped, Typed
<1>1. /\ r.values[k] = file[k] /\ IdleFits(k)
      /\ r.step # "keys" => file[k] # 0
      /\ r.candidate[k] # 0 => Alive(k) \subseteq {r.candidate[k]}
      /\ KeyIs(k, Chosen(o)[k], file[k]) /\ KeyIs(k, r.before.binding[k], file[k])
  BY DEF EnsureFits
<1>2. r.step \in {"keys", "foundation", "address", "pods", "sync", "bind",
                  "service", "install", "record", "undoBinding", "undoPods"}
  BY <1>0 DEF Shape, Located, Tasked
<1>3. /\ secret[k] \in {0, file[k]} /\ (file[k] = 0 => Alive(k) = {})
      /\ Ambiguous(k) \/ OneKey(k)
      /\ KeyIs(k, binding[k], file[k])
  BY <1>1 DEF IdleFits
\* What is left to show when the task goes on with the same memory.
<1>4. ASSUME SameTask(s, r), SamePods(s, r), SameKeys(s, r), r.step # "keys",
             file' = file, Alive(k)' \subseteq Alive(k), IdleFits(k)',
             \A q \in Alive(k)' : podKey'[k][q] = podKey[k][q]
      PROVE  EnsureFits(o, k)'
  <2>1. Chosen(o)' = Chosen(o)
    BY <1>4 DEF SamePods, Chosen
  <2>2. /\ s.values = r.values /\ s.before = r.before /\ s.candidate = r.candidate
    BY <1>4 DEF SameTask, SamePods, SameKeys
  <2>3. KeyIs(k, Chosen(o)[k], file[k])' /\ KeyIs(k, op[o].before.binding[k], file[k])'
    BY <1>1, <1>4, <2>1, <2>2 DEF KeyIs
  <2>. HIDE DEF r, s
  <2>. QED
    BY <1>1, <1>4, <2>2, <2>3 DEF EnsureFits, r, s
<1>5. CASE DrawKeys(o)
  <2>1. /\ r.step = "keys" /\ SameTask(s, r) /\ SamePods(s, r) /\ s.step = "foundation"
        /\ s.values = [i \in Kinds |-> IF r.values[i] = 0 THEN drawn[i] + 1 ELSE r.values[i]]
        /\ file' = [i \in Kinds |-> IF r.values[i] = 0 THEN drawn[i] + 1 ELSE file[i]]
    BY <1>0, <1>5, DrawKeysRun
  <2>2. UNCHANGED <<podKey, binding, secret>>
    BY <1>5 DEF DrawKeys, pods, cloud
  <2>3. drawn[k] \in Nat
    BY <1>0, BoundsAssumption DEF Typed, KeysOfKinds
  <2>4. s.values[k] = file'[k] /\ file'[k] # 0 /\ (file'[k] = file[k] \/ file[k] = 0)
    BY <1>1, <2>1, <2>3
  <2>5. Chosen(o)' = Chosen(o) /\ s.candidate = r.candidate /\ s.before = r.before
    BY <2>1 DEF SamePods, SameTask, Chosen
  <2>6. CASE file'[k] = file[k]
    <3>1. /\ Alive(k)' = Alive(k) /\ IdleFits(k)' = IdleFits(k)
          /\ \A p, key : KeyIs(k, p, key)' = KeyIs(k, p, key)
      BY <2>2, <2>6, SameStores
    <3>2. KeyIs(k, Chosen(o)[k], file[k])' /\ KeyIs(k, op[o].before.binding[k], file[k])'
      BY <1>1, <2>2, <2>5, <2>6, <3>1 DEF KeyIs
    <3>. QED
      BY <1>1, <2>4, <2>5, <3>1, <3>2 DEF EnsureFits
  <2>7. CASE file[k] = 0
    <3>1. Alive(k) = {} /\ Alive(k)' = {}
      BY <1>3, <2>2, <2>7 DEF Alive
    <3>2. OneKey(k)' /\ secret'[k] = 0
      BY <1>3, <2>2, <2>7, <3>1 DEF OneKey
    <3>3. IdleFits(k)'
      BY <3>1, <3>2, OneKeyNext
    <3>4. KeyIs(k, Chosen(o)[k], file[k])' /\ KeyIs(k, op[o].before.binding[k], file[k])'
      BY <3>1 DEF KeyIs
    <3>. QED
      BY <2>4, <3>1, <3>3, <3>4 DEF EnsureFits
  <2>. QED
    BY <2>4, <2>6, <2>7
<1>6. CASE CreatePod(o)
  <2>1. PICK c \in Kinds : c = First(r.left)
    BY <1>0, RunTyped, KindsInOrder
  <2>. DEFINE p == made[c] + 1
  <2>2. /\ r.step = "pods" /\ s.step \in {"pods", "sync", "bind", "promote"}
        /\ SameTask(s, r) /\ SameKeys(s, r) /\ s.found = r.found /\ UNCHANGED <<binding, secret, file>>
        /\ k # c => podKey'[k] = podKey[k] /\ s.candidate[k] = r.candidate[k]
        /\ k = c => /\ s.candidate[k] = p
                    /\ Alive(k)' = Alive(k) \cup {p}
                    /\ podKey'[k][p] = r.values[k]
    BY <1>0, <1>6, <2>1, CreatedPod
  <2>3. /\ file[k] # 0 /\ file'[k] = file[k] /\ s.values[k] = file[k] /\ s.before = r.before
        /\ secret'[k] = secret[k] /\ binding'[k] = binding[k]
    BY <1>1, <2>2 DEF SameTask, SameKeys
  <2>4. CASE k # c
    <3>1. /\ Alive(k)' = Alive(k) /\ IdleFits(k)' = IdleFits(k)
          /\ \A q, key : KeyIs(k, q, key)' = KeyIs(k, q, key)
      BY <2>2, <2>3, <2>4, SameStores
    <3>2. Chosen(o)'[k] = Chosen(o)[k] /\ podKey'[k] = podKey[k]
      BY <2>2, <2>4 DEF Chosen
    <3>3. KeyIs(k, Chosen(o)[k], file[k])' /\ KeyIs(k, op[o].before.binding[k], file[k])'
      BY <1>1, <2>3, <3>1, <3>2 DEF KeyIs
    <3>. QED
      BY <1>1, <2>2, <2>3, <2>4, <3>1, <3>3 DEF EnsureFits
  <2>5. CASE k = c
    <3>1. Alive(k) = {}
      BY <1>6, <2>1, <2>5 DEF CreatePod
    <3>2. Alive(k)' = {p} /\ podKey'[k][p] = file'[k]
      BY <1>1, <2>2, <2>3, <2>5, <3>1
    <3>3. OneKey(k)'
      BY <3>2 DEF OneKey
    <3>4. IdleFits(k)'
      BY <1>3, <2>3, <3>3, OneKeyNext
    <3>5. KeyIs(k, Chosen(o)[k], file[k])' /\ KeyIs(k, op[o].before.binding[k], file[k])'
      BY <3>3 DEF KeyIs, OneKey
    <3>. HIDE DEF p
    <3>. QED
      BY <2>2, <2>3, <2>5, <3>2, <3>4, <3>5 DEF EnsureFits
  <2>. QED
    BY <2>4, <2>5
<1>7. CASE UndoPods(o)
  <2>1. /\ Delete(Last(r.left), r.candidate[Last(r.left)]) /\ r.step = "undoPods" /\ r.left # {}
        /\ Kept(s, r) /\ UNCHANGED <<binding, secret, file>>
    BY <1>0, <1>7, GoOverRun DEF UndoPods, cloud, local
  <2>2. PICK c \in r.left : c = Last(r.left) /\ c \in Kinds
    BY <1>0, <2>1, RunTyped, KindsInOrder
  <2>3. r.candidate[c] # 0 /\ r.step # "keys"
    BY <1>0, <2>1, <2>2 DEF Shape, Lefts, Undoing
  <2>4. /\ k # c => podKey'[k] = podKey[k]
        /\ k = c => /\ Alive(k)' = Alive(k) \ {r.candidate[k]}
                    /\ \A q \in Alive(k) \ {r.candidate[k]} : podKey'[k][q] = podKey[k][q]
    BY <1>0, <2>1, <2>2, DeletedPod
  <2>5. CASE k # c
    <3>1. IdleFits(k)' /\ Alive(k)' = Alive(k) /\ podKey'[k] = podKey[k]
      BY <1>1, <2>1, <2>4, <2>5, SameStores
    <3>. QED
      BY <1>4, <2>1, <2>3, <3>1 DEF Kept
  <2>6. CASE k = c
    <3>1. Alive(k)' = {}
      BY <1>1, <2>3, <2>4, <2>6
    <3>2. IdleFits(k)'
      <4>1. OneKey(k)'
        BY <3>1 DEF OneKey
      <4>. QED
        BY <1>3, <2>1, <3>1, <4>1, OneKeyNext
    <3>. QED
      BY <1>4, <2>1, <2>3, <3>1, <3>2 DEF Kept
  <2>. QED
    BY <2>5, <2>6
<1>8. ASSUME podKey' = podKey, file' = file, IdleFits(k)'
      PROVE  s # NoTask => EnsureFits(o, k)'
  <2>1. SUFFICES ASSUME s # NoTask PROVE EnsureFits(o, k)'
    OBVIOUS
  <2>2. r.step # "keys" \/ DrawKeys(o)
    <3>1. r.step = "keys" => Apply(o)
      BY <2>1, GoesOn DEF Raises, Unguarded, Undoes, Undoing
    <3>2. r.step = "keys" /\ Apply(o) => DrawKeys(o)
      BY DEF Apply, DeployStack, Address, Discover, Stage, ReusePod, CreatePod, AtStep,
             SyncSecret, Promote, Bind, Reapply, Pass, KeepKey, Record, Retire,
             DeleteRecorded, DeleteNamed, DestroyStacks, Clear, Blank, Bootstrap, Purge
    <3>. QED
      BY <3>1, <3>2
  <2>3. SameTask(s, r) /\ (SameKeys(s, r) \/ DrawKeys(o) \/ Stage(o))
    BY <2>1, RunStep
  <2>4. ~Stage(o) /\ ~Discover(o)
    BY <1>2 DEF Stage, Discover
  <2>5. Alive(k)' = Alive(k)
    BY <1>8 DEF Alive
  <2>6. CASE SamePods(s, r) /\ ~DrawKeys(o)
    BY <1>4, <1>8, <2>2, <2>3, <2>4, <2>5, <2>6
  <2>7. CASE ReusePod(o)
    <3>1. PICK c \in Kinds : c = First(r.left)
      BY <1>0, RunTyped, KindsInOrder
    <3>2. /\ r.step = "pods" /\ Cardinality(Alive(c)) = 1
          /\ podKey[c][Current(c)] = r.values[c]
          /\ SameTask(s, r) /\ SameKeys(s, r)
          /\ s.found = [r.found EXCEPT ![c] = Current(c)]
          /\ s.candidate = r.candidate
      BY <1>0, <2>7, <3>1, ReusePodRun
    <3>3. s.found[k] = IF k = c THEN Current(k) ELSE r.found[k]
      BY <1>0, <3>2, RunTyped DEF PodsOfKinds
    <3>4. Chosen(o)'[k] = Chosen(o)[k] \/ (k = c /\ Chosen(o)'[k] = Current(k))
      BY <3>2, <3>3 DEF Chosen
    <3>5. k = c => podKey[k][Current(k)] = file[k]
      BY <1>1, <3>2
    <3>6. /\ s.values = r.values /\ s.before = r.before
      BY <3>2 DEF SameTask, SameKeys
    <3>7. KeyIs(k, Chosen(o)[k], file[k])' /\ KeyIs(k, op[o].before.binding[k], file[k])'
      BY <1>1, <1>8, <2>5, <3>4, <3>5, <3>6 DEF KeyIs
    <3>. QED
      BY <1>1, <1>8, <2>5, <3>2, <3>6, <3>7 DEF EnsureFits
  <2>8. ASSUME CreatePod(o) \/ DrawKeys(o) PROVE EnsureFits(o, k)'
    BY <1>5, <1>6, <2>1, <2>8
  <2>. QED
    BY <2>1, <2>4, <2>6, <2>7, <2>8, RunStep
<1>9. CASE podKey' = podKey /\ file' = file
  <2>1. Alive(k)' = Alive(k) /\ Ambiguous(k)' = Ambiguous(k) /\ OneKey(k)' = OneKey(k)
    BY <1>9, SameStores
  <2>2. secret'[k] \in {0, secret[k], file[k]}
    <3>1. ~Promote(o) /\ ~UndoSecret(o) /\ ~Clear(o)
      BY <1>2 DEF Promote, UndoSecret, Clear
    <3>2. SyncSecret(o) => secret'[k] \in {secret[k], file[k]}
      <4>1. secret \in KeysOfKinds
        BY <1>0, StoresTyped
      <4>. QED
        BY <1>1, <4>1 DEF SyncSecret, KeysOfKinds
    <3>3. UndoStacks(o) => secret'[k] \in {0, secret[k]}
      BY <1>0, DropSecretsRun DEF UndoStacks
    <3>. QED
      BY <3>1, <3>2, <3>3, ActStepFrame
  <2>3. binding'[k] \in {0, binding[k], Chosen(o)[k], r.before.binding[k]}
    <3>1. ~DestroyStacks(o)
      BY <1>2 DEF DestroyStacks
    <3>2. Bind(o) => binding'[k] = Chosen(o)[k]
      BY DEF Bind
    <3>3. UndoBinding(o) => binding'[k] \in {binding[k], r.before.binding[k]}
      <4>1. UndoBinding(o) => /\ binding' \in {binding, r.boundBefore}
                              /\ binding' = binding \/ (r.changed /\ ~r.unread)
        BY DEF UndoBinding, Restores
      <4>2. r.changed /\ ~r.unread => r.boundBefore = r.before.binding
        BY DEF Fits, BindingFits, Switching
      <4>. QED
        BY <4>1, <4>2
    <3>4. UndoStacks(o) => binding'[k] \in {0, binding[k]}
      BY <1>0, UndoneStacks DEF Destroy, None
    <3>. QED
      BY <3>1, <3>2, <3>3, <3>4, ActStepFrame
  <2>4. 0 \notin Alive(k)
    BY BoundsAssumption DEF Alive
  <2>5. KeyIs(k, binding[k], file[k])'
    BY <1>1, <1>3, <1>9, <2>1, <2>3, <2>4 DEF KeyIs
  <2>6. IdleFits(k)'
    BY <1>3, <1>9, <2>1, <2>2, <2>5 DEF IdleFits
  <2>. QED
    BY <1>8, <1>9, <2>6
<1>10. /\ ~Retire(o) /\ ~DeleteRecorded(o) /\ ~DeleteNamed(o) /\ ~KeepKey(o)
       /\ ~Clear(o) /\ ~Blank(o)
  BY <1>2 DEF Retire, DeleteRecorded, DeleteNamed, KeepKey, Clear, Blank
<1>11. podKey' = podKey \/ CreatePod(o) \/ UndoPods(o)
  BY <1>0, <1>10, ActStepFrame
<1>12. file' = file \/ DrawKeys(o)
  BY <1>10, ActStepFrame
<1>. QED
  BY <1>5, <1>6, <1>7, <1>9, <1>11, <1>12

-----------------------------------------------------------------------------
(* replace: new Pods get the key of the file.                               *)

\* A task that goes on does not wait for the lock again.
LEMMA StaysTasked ==
    ASSUME Shaped, Shaped', NEW o \in Operators, op'[o] # NoTask,
           Apply(o) \/ Refused(o) \/ Compensate(o) \/ Faults(o)
    PROVE  Tasked(o)'
<1>1. Tasked(o) /\ op'[o].before = op[o].before
  BY ActStepFrame, RunStep DEF SameTask
<1>2. op[o].before \in Snapshots /\ Shape(op'[o])
  BY <1>1 DEF Shaped, Shape, Located, Tasked
<1>3. DOMAIN op'[o].before = {"podKey", "binding", "secret", "file", "stacks"}
  BY <1>1, <1>2 DEF Snapshots
<1>4. op'[o].before # <<>>
  BY <1>3
<1>5. op'[o].step # "idle" /\ op'[o].step \notin Waiting
  BY <1>2, <1>4 DEF Shape, Located
<1>. QED
  BY <1>5 DEF Tasked

\* Pods that are deleted leave the others their keys.
LEMMA FewerPodsOneKey ==
    ASSUME Shaped, NEW o \in Operators, Retire(o) \/ UndoPods(o), NEW k \in Kinds
    PROVE  /\ Alive(k)' \subseteq Alive(k)
           /\ \A q \in Alive(k)' : podKey'[k][q] = podKey[k][q]
<1>. DEFINE r == op[o]
<1>0. Typed /\ r \in Runs
  BY DEF Shaped, Typed
<1>1. PICK d \in Kinds : \E p : DeleteIfAny(d, p) \/ Delete(d, p)
  BY <1>0, RunTyped, KindsInOrder DEF Retire, UndoPods
<1>2. PICK p : DeleteIfAny(d, p) \/ Delete(d, p)
  BY <1>1
<1>3. CASE k = d
  BY <1>0, <1>2, <1>3, DeletedPod
<1>4. CASE k # d
  <2>1. podKey'[k] = podKey[k]
    BY <1>0, <1>2, <1>4, DeletedPod
  <2>. QED
    BY <2>1 DEF Alive
<1>. QED
  BY <1>3, <1>4

LEMMA ReplaceKept ==
    ASSUME Shaped, NumbersFit, Shaped', NEW o \in Operators, op[o].task = "replace",
           Apply(o) \/ Refused(o) \/ Compensate(o) \/ Faults(o), Clean',
           NEW k \in Kinds, ReplaceFits(o, k)
    PROVE  /\ IdleFits(k)'
           /\ op'[o] # NoTask => ReplaceFits(o, k)'
<1>. DEFINE r == op[o]  s == op'[o]
<1>0. /\ Typed /\ Tasked(o) /\ op \in [Operators -> Runs] /\ Clean /\ Shape(r)
      /\ ~CandidateStays(o) /\ ~UndoFails(o) /\ ~Interrupt(o) /\ ~Kill(o)
  BY ActStepFrame, CleanStep DEF Shaped, Typed
<1>1. /\ r.values[k] = file[k] /\ file[k] # 0
      /\ r.step = "discover" => IdleFits(k)
      /\ r.step # "discover" => secret[k] \in {0, file[k]} /\ OneKey(k)
  BY DEF ReplaceFits
<1>2. r.step \in {"discover", "pods", "bind", "reapply", "retire", "record",
                  "undoBinding", "undoReapply", "undoPods"} /\ r.newStacks = {}
  BY <1>0 DEF Shape, Located, Marked, Tasked
<1>3. secret' = secret /\ file' = file
  <2>1. ~SyncSecret(o) /\ ~Promote(o) /\ ~UndoSecret(o) /\ ~UndoStacks(o) /\ ~Clear(o)
        /\ ~Blank(o) /\ ~DrawKeys(o) /\ ~KeepKey(o)
    BY <1>2
    DEF SyncSecret, Promote, UndoSecret, UndoStacks, Clear, Blank, DrawKeys, AtStep,
        KeepKey
  <2>. QED
    BY <2>1, ActStepFrame
<1>4. s # NoTask => s.values = r.values
  <2>1. ~DrawKeys(o) /\ ~Stage(o)
    BY <1>2 DEF DrawKeys, AtStep, Stage
  <2>. QED
    BY <2>1, RunStep DEF SameKeys
<1>5. podKey' = podKey \/ CreatePod(o) \/ Retire(o) \/ UndoPods(o)
  <2>1. ~DeleteRecorded(o) /\ ~DeleteNamed(o)
    BY <1>2 DEF DeleteRecorded, DeleteNamed
  <2>. QED
    BY <1>0, <2>1, ActStepFrame
<1>6. ASSUME OneKey(k)' PROVE secret[k] \in {0, file[k]} =>
             IdleFits(k)' /\ (s # NoTask => ReplaceFits(o, k)')
  <2>1. SUFFICES ASSUME secret[k] \in {0, file[k]}
                 PROVE IdleFits(k)' /\ (s # NoTask => ReplaceFits(o, k)')
    OBVIOUS
  <2>2. IdleFits(k)'
    BY <1>1, <1>3, <1>6, <2>1, OneKeyNext
  <2>. QED
    BY <1>1, <1>3, <1>4, <1>6, <2>1, <2>2 DEF ReplaceFits
<1>7. CASE r.step = "discover"
  <2>1. podKey' = podKey /\ binding' = binding
    <3>1. ~CreatePod(o) /\ ~Retire(o) /\ ~UndoPods(o)
      BY <1>7 DEF CreatePod, Retire, UndoPods
    <3>2. ~Bind(o) /\ ~UndoBinding(o) /\ ~UndoStacks(o) /\ ~DestroyStacks(o)
      BY <1>7 DEF Bind, UndoBinding, UndoStacks, DestroyStacks
    <3>. QED
      BY <1>5, <3>1, <3>2, ActStepFrame
  <2>2. /\ Alive(k)' = Alive(k) /\ IdleFits(k)' = IdleFits(k) /\ OneKey(k)' = OneKey(k)
    BY <1>3, <2>1, SameStores
  <2>3. s # NoTask => Discover(o)
    <3>1. s # NoTask => Apply(o)
      BY <1>7, GoesOn DEF Raises, Unguarded, Undoes, Undoing
    <3>2. Apply(o) => Discover(o)
      BY <1>7
      DEF Apply, DrawKeys, AtStep, DeployStack, Address, Stage, ReusePod, CreatePod,
          SyncSecret, Promote, Bind, Reapply, Pass, KeepKey, Record, Retire,
          DeleteRecorded, DeleteNamed, DestroyStacks, Clear, Blank, Bootstrap, Purge
    <3>. QED
      BY <3>1, <3>2
  <2>4. Discover(o) => OneKey(k)' /\ secret[k] \in {0, file[k]}
    BY <1>1, <1>7, <2>2 DEF Discover, IdleFits
  <2>. QED
    BY <1>1, <1>6, <1>7, <2>2, <2>3, <2>4
<1>8. CASE r.step # "discover"
  <2>1. OneKey(k) /\ secret[k] \in {0, file[k]}
    BY <1>1, <1>8
  <2>2. CASE podKey' = podKey
    BY <1>3, <1>6, <2>1, <2>2, SameStores
  <2>3. CASE Retire(o) \/ UndoPods(o)
    BY <1>3, <1>6, <2>1, <2>3, FewerPodsOneKey DEF OneKey
  <2>4. CASE CreatePod(o)
    <3>1. PICK c \in Kinds : c = First(r.left)
      BY <1>0, RunTyped, KindsInOrder
    <3>. DEFINE p == made[c] + 1
    <3>2. /\ k # c => podKey'[k] = podKey[k]
          /\ k = c => /\ Alive(k)' = Alive(k) \cup {p}
                      /\ podKey'[k][p] = r.values[k]
                      /\ \A q \in Alive(k) : podKey'[k][q] = podKey[k][q]
      BY <1>0, <2>4, <3>1, CreatedPod
    <3>. HIDE DEF p
    <3>3. OneKey(k)'
      <4>1. CASE k = c
        BY <1>1, <1>3, <2>1, <3>2, <4>1 DEF OneKey
      <4>2. CASE k # c
        BY <1>3, <2>1, <3>2, <4>2, SameStores
      <4>. QED
        BY <4>1, <4>2
    <3>. QED
      BY <1>6, <2>1, <3>3
  <2>. QED
    BY <1>5, <2>2, <2>3, <2>4
<1>. QED
  BY <1>7, <1>8

-----------------------------------------------------------------------------
(* rotate: the old Pod keeps the old key, the candidate has the new one.    *)

\* What a rotation is about, and which of its steps are left.
LEMMA RotateSteps ==
    ASSUME Shaped, NEW o \in Operators, op[o].task = "rotate", Tasked(o)
    PROVE  LET r == op[o] IN
           /\ r.step \in {"discover", "stage", "pods", "promote", "bind", "reapply",
                          "discard", "file", "record", "retire"} \cup Undoing
           /\ r.newStacks = {}
           /\ \E t \in Kinds : r.target = {t} /\ First(r.target) = t
           /\ r.step = "retire" => r.left = r.target
<1>. DEFINE r == op[o]
<1>1. Shape(r) /\ r \in Runs
  BY DEF Shaped, Typed
<1>2. PICK t \in Kinds : r.target = {t}
  BY <1>1 DEF Shape, Marked
<1>3. First(r.target) = t
  BY <1>1, <1>2, RunTyped, KindsInOrder
<1>4. r.step = "retire" => r.left = r.target
  BY <1>1, <1>2 DEF Shape, Lefts
<1>5. r.newStacks = {}
  BY <1>1 DEF Shape, Marked
<1>6. r.step \in {"discover", "stage", "pods", "promote", "bind", "reapply",
                  "discard", "file", "record", "retire"} \cup Undoing
  BY <1>1 DEF Shape, Located, Tasked
<1>. QED
  BY <1>2, <1>3, <1>4, <1>5, <1>6

\* A rotation changes the file in one step, and Pods in three.
LEMMA RotateWrites ==
    ASSUME Shaped, NEW o \in Operators, op[o].task = "rotate", Clean',
           Apply(o) \/ Refused(o) \/ Compensate(o) \/ Faults(o)
    PROVE  /\ file' = file \/ KeepKey(o)
           /\ podKey' = podKey \/ CreatePod(o) \/ Retire(o) \/ UndoPods(o)
<1>1. op[o].step \in {"discover", "stage", "pods", "promote", "bind", "reapply", "discard",
                      "file", "record", "retire"} \cup Undoing
  BY ActStepFrame, RotateSteps
<1>2. ~DrawKeys(o) /\ ~Clear(o) /\ ~Blank(o) /\ ~DeleteRecorded(o) /\ ~DeleteNamed(o)
  BY <1>1 DEF DrawKeys, AtStep, Clear, Blank, DeleteRecorded, DeleteNamed, Undoing
<1>. QED
  BY <1>2, ActStepFrame, CleanStep

\* How a rotation ends.
LEMMA RotateEnd ==
    ASSUME Shaped, NumbersFit, NEW o \in Operators, op[o].task = "rotate", Clean',
           Apply(o) \/ Refused(o) \/ Compensate(o) \/ Faults(o), op'[o] = NoTask
    PROVE  \/ Retire(o)
           \/ UndoEnds(o)
           \/ /\ op[o].step \in {"discover", "stage", "retire"}
              /\ UNCHANGED <<podKey, secret, binding, file>>
<1>. DEFINE r == op[o]  s == op'[o]
<1>0. /\ Typed /\ Tasked(o) /\ op \in [Operators -> Runs] /\ s.step = "idle"
      /\ ~CandidateStays(o) /\ ~UndoFails(o) /\ ~Interrupt(o) /\ ~Kill(o)
  BY ActStepFrame, CleanStep DEF Shaped, Typed, NoTask
<1>1. /\ r.step \in {"discover", "stage", "pods", "promote", "bind", "reapply", "discard",
                     "file", "record", "retire"} \cup Undoing
      /\ r.newStacks = {}
  BY <1>0, RotateSteps
<1>2. CASE Apply(o)
  <2>1. ~DrawKeys(o) /\ ~DeployStack(o) /\ ~Address(o) /\ ~ReusePod(o) /\ ~SyncSecret(o)
        /\ ~DeleteRecorded(o) /\ ~DeleteNamed(o) /\ ~DestroyStacks(o) /\ ~Clear(o)
        /\ ~Blank(o) /\ ~Bootstrap(o) /\ ~Purge(o)
    BY <1>1
    DEF DrawKeys, AtStep, DeployStack, Address, ReusePod, SyncSecret, DeleteRecorded,
        DeleteNamed, DestroyStacks, Clear, Blank, Bootstrap, Purge, Undoing
  <2>2. ~Discover(o) /\ ~Stage(o) /\ ~Promote(o) /\ ~Bind(o)
    BY <1>0, DiscoverRun, StageRun, PromoteRun, BindRun
  <2>3. ~CreatePod(o)
    <3>1. CreatePod(o) => s.step \in {"pods", "sync", "bind", "promote"}
      <4>1. PICK k \in Kinds : TRUE
        BY DEF Kinds
      <4>. QED
        BY <1>0, <4>1, CreatedPod
    <3>. QED
      BY <1>0, <3>1
  <2>4. ~Reapply(o) /\ ~Pass(o) /\ ~KeepKey(o) /\ ~Record(o)
    BY <1>0, GoRun, GoOverRun DEF Reapply, Pass, KeepKey, Record
  <2>. QED
    BY <1>2, <2>1, <2>2, <2>3, <2>4 DEF Apply
<1>3. CASE Compensate(o)
  <2>1. ~UndoSecret(o) /\ ~UndoReapply(o) /\ ~UndoPods(o)
    BY <1>0, GoRun, GoOverRun DEF UndoSecret, UndoReapply, UndoPods
  <2>2. ~UndoBinding(o)
    <3>1. UndoBinding(o) => s.step \in {NextUndo(o), "undoPods"} /\ r.step = "undoBinding"
      BY <1>0, GoRun DEF UndoBinding
    <3>. QED
      BY <1>0, <3>1 DEF NextUndo
  <2>3. ~UndoStacks(o)
    BY <1>1 DEF UndoStacks
  <2>. QED
    BY <1>3, <2>1, <2>2, <2>3 DEF Compensate
<1>4. CASE Refused(o) \/ CallFails(o) \/ ReapplyFails(o)
  <2>1. Raise(o)
    BY <1>0, <1>4, RaisesInStep
  <2>2. Unguarded(o) \/ Committed(o)
    BY <1>0, <2>1, RaiseRun
  <2>3. r.step \in {"discover", "stage", "retire"}
    BY <1>1, <2>2 DEF Unguarded, Committed, AtStep, Undoing
  <2>4. Refused(o) \/ CallFails(o)
    BY <1>4, <2>3 DEF ReapplyFails
  <2>5. Refuse(o) \/ CallFails(o)
    BY <2>4
    DEF Refused, PodRefused, DiscoverRefused, NotDeployable, NoSecret, BindRefused,
        NoRelease, DeleteRefused
  <2>. QED
    BY <2>3, <2>5 DEF Refuse, CallFails, pods, cloud
<1>. QED
  BY <1>0, <1>2, <1>3, <1>4 DEF Faults

LEMMA RotateCandidate ==
    ASSUME Shaped, NumbersFit, NEW o \in Operators, op[o].task = "rotate", Clean',
           Apply(o) \/ Refused(o) \/ Compensate(o) \/ Faults(o), op'[o] # NoTask,
           NEW k \in Kinds, CandidateFits(o, k)
    PROVE  CandidateFits(o, k)'
<1>. DEFINE r == op[o]  s == op'[o]
<1>0. /\ Typed /\ Tasked(o) /\ op \in [Operators -> Runs] /\ Shape(r)
      /\ ~CandidateStays(o) /\ ~UndoFails(o)
  BY ActStepFrame, CleanStep DEF Shaped, Typed
<1>1. SUFFICES ASSUME s.candidate[k] # 0, s.step = "undoPods" => k \in s.left
               PROVE  s.candidate[k] \in Alive(k)' /\ podKey'[k][s.candidate[k]] = s.values[k]
  BY DEF CandidateFits
<1>2. r.candidate[k] # 0 /\ (r.step = "undoPods" => k \in r.left)
        => r.candidate[k] \in Alive(k) /\ podKey[k][r.candidate[k]] = r.values[k]
  BY DEF CandidateFits
<1>3. CASE CreatePod(o)
  <2>1. PICK c \in Kinds : c = First(r.left)
    BY <1>0, RunTyped, KindsInOrder
  <2>. DEFINE p == made[c] + 1
  <2>2. /\ r.step = "pods" /\ SameKeys(s, r)
        /\ k # c => podKey'[k] = podKey[k] /\ s.candidate[k] = r.candidate[k]
        /\ k = c => /\ s.candidate[k] = p /\ Alive(k)' = Alive(k) \cup {p}
                    /\ podKey'[k][p] = r.values[k]
    BY <1>0, <1>3, <2>1, CreatedPod
  <2>. HIDE DEF p
  <2>3. CASE k = c
    BY <2>2, <2>3 DEF SameKeys
  <2>4. CASE k # c
    <3>1. Alive(k)' = Alive(k)
      BY <2>2, <2>4 DEF Alive
    <3>. QED
      BY <1>1, <1>2, <2>2, <2>4, <3>1 DEF SameKeys
  <2>. QED
    BY <2>3, <2>4
<1>4. ~Discover(o) /\ ~Stage(o)
  <2>1. Discover(o) \/ Stage(o) => r.candidate[k] = 0 /\ s.candidate = r.candidate
    <3>1. Discover(o) => r.step = "discover" /\ s.candidate = r.candidate
      BY <1>0, DiscoverRun
    <3>2. Stage(o) => r.step = "stage" /\ s.candidate = r.candidate
      BY <1>0, StageRun DEF SamePods
    <3>. QED
      BY <1>0, <3>1, <3>2 DEF Shape, Candidates
  <2>. QED
    BY <1>1, <2>1
<1>5. ASSUME ~CreatePod(o)
      PROVE  s.candidate[k] \in Alive(k)' /\ podKey'[k][s.candidate[k]] = s.values[k]
  <2>1. ~DrawKeys(o) /\ ~ReusePod(o)
    BY DEF DrawKeys, ReusePod, AtStep
  <2>2. SamePods(s, r) /\ SameKeys(s, r)
    BY <1>4, <1>5, <2>1, RunStep
  <2>3. r.step = "undoPods" => k \in r.left /\ (UndoPods(o) => k # Last(r.left))
    <3>1. SUFFICES ASSUME r.step = "undoPods"
                   PROVE  k \in r.left /\ (UndoPods(o) => k # Last(r.left))
      OBVIOUS
    <3>2. Undoes(o)
      BY <3>1, GoesOn DEF Raises, Undoing
    <3>. QED
      BY <1>1, <3>1, <3>2 DEF Undoes
  <2>4. r.candidate[k] \in Alive(k) /\ podKey[k][r.candidate[k]] = r.values[k]
    BY <1>1, <1>2, <2>2, <2>3 DEF SamePods
  <2>5. podKey' = podKey \/ Retire(o) \/ UndoPods(o)
    BY <1>5, RotateWrites
  <2>6. CASE podKey'[k] = podKey[k]
    <3>1. Alive(k)' = Alive(k)
      BY <2>6 DEF Alive
    <3>. QED
      BY <2>2, <2>4, <2>6, <3>1 DEF SamePods, SameKeys
  <2>7. CASE Retire(o)
    <3>1. r.step = "retire" /\ r.left \ {First(r.left)} = {}
      <4>1. r.step = "retire"
        BY <2>7 DEF Retire
      <4>2. PICK t \in Kinds : r.target = {t} /\ First(r.target) = t /\ r.left = r.target
        BY <1>0, <4>1, RotateSteps
      <4>. QED
        BY <4>1, <4>2
    <3>. QED
      BY <1>0, <2>7, <3>1, ReleaseRun DEF Retire
  <2>8. CASE UndoPods(o)
    <3>1. PICK c \in Kinds : c = Last(r.left)
      BY <1>0, RunTyped, KindsInOrder
    <3>2. k # c => podKey'[k] = podKey[k]
      BY <1>0, <2>8, <3>1, DeletedPod DEF UndoPods
    <3>3. r.step = "undoPods"
      BY <2>8 DEF UndoPods
    <3>. QED
      BY <2>3, <2>6, <2>8, <3>1, <3>2, <3>3
  <2>. QED
    BY <2>5, <2>6, <2>7, <2>8
<1>. QED
  BY <1>3, <1>5

LEMMA RotateGoes ==
    ASSUME Shaped, NumbersFit, NEW o \in Operators, Fits(o), op[o].task = "rotate", Clean',
           Apply(o) \/ Refused(o) \/ Compensate(o) \/ Faults(o), op'[o] # NoTask,
           NEW k \in Kinds, RotateFits(o, k)
    PROVE  RotateFits(o, k)'
<1>. DEFINE r == op[o]  s == op'[o]
<1>0. /\ Typed /\ Tasked(o) /\ op \in [Operators -> Runs] /\ Shape(r) /\ s.before = r.before
      /\ s.target = r.target
  BY ActStepFrame, RunStep DEF Shaped, Typed, SameTask
<1>1. PICK t \in Kinds : r.target = {t} /\ First(r.target) = t
  BY <1>0, RotateSteps
<1>2. /\ file[k] # 0 /\ CandidateFits(o, k)
      /\ r.step \in {"discover", "stage"} => IdleFits(k)
      /\ r.step # "discover" =>
           /\ KeyIs(k, r.found[k], r.before.file[k])
           /\ Alive(k) \subseteq {r.found[k], r.candidate[k]}
           /\ r.before.secret[k] \in {0, r.before.file[k]}
      /\ k \notin r.target => file[k] = r.before.file[k]
      /\ r.step \in {"record", "retire"} /\ k \in r.target => file[k] = r.values[k]
  BY DEF RotateFits
<1>3. CandidateFits(o, k)'
  BY <1>2, RotateCandidate
\* The release is applied again only after both Pods are bound again.
<1>. DEFINE rebound == s.step = "undoReapply" => ~NoPairBefore(o)'
<1>7. rebound
  <2>1. SUFFICES ASSUME s.step = "undoReapply" PROVE ~NoPairBefore(o)'
    OBVIOUS
  <2>2. Undoes(o) /\ (Compensate(o) \/ UndoFails(o)) /\ ~UndoFails(o)
    BY <2>1, GoesOn, CleanStep DEF Raises, Undoing
  <2>3. r.step = "undoBinding" /\ s.found = r.found
    BY <2>1, <2>2 DEF Undoes, Kept, SamePods, Undoing
  <2>4. UndoBinding(o)
    BY <2>2, <2>3 DEF Compensate, UndoSecret, UndoReapply, UndoPods, UndoStacks, UndoEnds
  <2>5. Restores(o)
    BY <1>0, <2>1, <2>4, GoRun DEF UndoBinding
  <2>6. \A i \in Kinds : r.found[i] # 0
    BY <2>5 DEF Restores
  <2>. QED
    BY <2>3, <2>6 DEF NoPairBefore
<1>. HIDE DEF rebound
\* The file
<1>4. CASE KeepKey(o)
  <2>1. /\ r.step = "file" /\ file' = [file EXCEPT ![t] = r.values[t]] /\ Kept(s, r)
        /\ s.step = "record" /\ podKey' = podKey
    BY <1>0, <1>1, <1>4, GoRun DEF KeepKey, pods
  <2>2. file'[k] = IF k = t THEN r.values[t] ELSE file[k]
    BY <1>0, <2>1, StoresTyped DEF KeysOfKinds
  <2>3. k = t => r.values[k] # 0
    <3>1. k = t => r.candidate[k] # 0
      BY <1>0, <1>1, <2>1 DEF Shape, Candidates
    <3>2. k = t => r.candidate[k] \in Alive(k) /\ podKey[k][r.candidate[k]] = r.values[k]
      BY <1>2, <2>1, <3>1 DEF CandidateFits
    <3>. QED
      BY <3>2 DEF Alive
  <2>4. Alive(k)' = Alive(k) /\ KeyIs(k, op[o].found[k], op[o].before.file[k])'
    BY <1>0, <1>2, <2>1 DEF Kept, SamePods, KeyIs, Alive
  <2>5. /\ s.found = r.found /\ s.candidate = r.candidate /\ s.values = r.values
    BY <2>1 DEF Kept, SamePods, SameKeys
  <2>. QED
    BY <1>0, <1>1, <1>2, <1>3, <2>1, <2>2, <2>3, <2>4, <2>5 DEF RotateFits
<1>5. CASE file' = file /\ Discover(o)
  <2>1. /\ r.step = "discover" /\ ~Ambiguous(k) /\ s.found[k] = Current(k)
        /\ s.step = "stage" /\ UNCHANGED <<podKey, secret, binding>>
    BY <1>0, <1>5, DiscoverRun DEF Discover, pods, cloud
  <2>2. IdleFits(k)' /\ Alive(k)' = Alive(k)
    BY <1>2, <1>5, <2>1, SameStores
  <2>3. ~r.promoted
    BY <1>0, <2>1 DEF Shape, Marked
  <2>4. r.before.file = file /\ r.before.secret = secret
    BY <2>1, <2>3 DEF Fits, KeysFit
  <2>5. OneKey(k) /\ secret[k] \in {0, file[k]}
    BY <1>2, <2>1 DEF IdleFits
  <2>6. Alive(k) \subseteq {s.found[k]}
    BY <2>1, OnePodIsCurrent
  <2>7. KeyIs(k, op[o].found[k], op[o].before.file[k])'
    BY <1>0, <2>1, <2>2, <2>4, <2>5 DEF KeyIs, OneKey
  <2>. QED
    BY <1>0, <1>2, <1>3, <1>5, <2>1, <2>2, <2>4, <2>5, <2>6, <2>7 DEF RotateFits
<1>6. CASE file' = file /\ ~Discover(o) /\ ~KeepKey(o)
  <2>1. r.step # "discover"
    <3>1. r.step = "discover" => Apply(o)
      BY GoesOn DEF Raises, Unguarded, Undoes, Undoing
    <3>2. r.step = "discover" /\ Apply(o) => Discover(o)
      BY DEF Apply, DrawKeys, AtStep, DeployStack, Address, Stage, ReusePod, CreatePod,
             SyncSecret, Promote, Bind, Reapply, Pass, KeepKey, Record, Retire,
             DeleteRecorded, DeleteNamed, DestroyStacks, Clear, Blank, Bootstrap, Purge
    <3>. QED
      BY <1>6, <3>1, <3>2
  <2>2. s.step \notin {"discover", "stage"}
    <3>1. Raises(o) => s.step = "undoSecret"
      BY DEF Raises
    <3>2. Undoes(o) => s.step \in Undoing
      BY DEF Undoes
    <3>3. Apply(o) => s.step \notin {"discover", "stage"}
      <4>1. r.step \in {"stage", "pods", "promote", "bind", "reapply", "discard", "file",
                        "record", "retire"} \cup Undoing
        BY <1>0, <2>1, RotateSteps
      <4>2. ~DrawKeys(o) /\ ~DeployStack(o) /\ ~Address(o) /\ ~ReusePod(o) /\ ~SyncSecret(o)
            /\ ~DeleteRecorded(o) /\ ~DeleteNamed(o) /\ ~DestroyStacks(o) /\ ~Clear(o)
            /\ ~Blank(o) /\ ~Bootstrap(o) /\ ~Purge(o)
        BY <4>1
        DEF DrawKeys, AtStep, DeployStack, Address, ReusePod, SyncSecret, DeleteRecorded,
            DeleteNamed, DestroyStacks, Clear, Blank, Bootstrap, Purge, Undoing
      <4>3. Stage(o) \/ Promote(o) \/ Bind(o) => s.step \in {"pods", "bind", "service", "reapply"}
        BY <1>0, StageRun, PromoteRun, BindRun
      <4>4. CreatePod(o) => s.step \in {"pods", "sync", "bind", "promote"}
        BY <1>0, CreatedPod
      <4>5. Reapply(o) \/ Pass(o) \/ KeepKey(o) \/ Record(o) \/ Retire(o) =>
              s.step \in {"retire", "discard", "file", "record", "idle"}
        BY <1>0, GoRun, GoOverRun, ReleaseRun
        DEF Reapply, Pass, KeepKey, Record, Retire, NoTask
      <4>. QED
        BY <1>6, <4>2, <4>3, <4>4, <4>5 DEF Apply
    <3>. QED
      BY <3>1, <3>2, <3>3, GoesOn DEF Undoing
  <2>3. s.found = r.found
    <3>1. CreatePod(o) => s.found = r.found
      BY <1>0, CreatedPod
    <3>2. ~ReusePod(o)
      BY DEF ReusePod, AtStep
    <3>. QED
      BY <1>6, <3>1, <3>2, RunStep DEF SamePods
  <2>4. /\ KeyIs(k, op[o].found[k], op[o].before.file[k])'
        /\ Alive(k)' \subseteq {s.found[k], s.candidate[k]}
    <3>1. CASE CreatePod(o)
      <4>1. PICK c \in Kinds : c = First(r.left)
        BY <1>0, RunTyped, KindsInOrder
      <4>. DEFINE p == made[c] + 1
      <4>2. /\ k # c => podKey'[k] = podKey[k] /\ s.candidate[k] = r.candidate[k]
            /\ k = c => /\ s.candidate[k] = p /\ Alive(k)' = Alive(k) \cup {p}
                        /\ r.found[k] # p /\ r.candidate[k] = 0
                        /\ \A q \in Alive(k) : podKey'[k][q] = podKey[k][q]
        BY <1>0, <3>1, <4>1, CreatedPod
      <4>. HIDE DEF p
      <4>3. 0 \notin Alive(k)
        BY BoundsAssumption DEF Alive
      <4>4. CASE k = c
        BY <1>0, <1>2, <2>1, <2>3, <4>2, <4>3, <4>4 DEF KeyIs
      <4>5. CASE k # c
        BY <1>0, <1>2, <2>1, <2>3, <4>2, <4>5 DEF KeyIs, Alive
      <4>. QED
        BY <4>4, <4>5
    <3>2. CASE ~CreatePod(o)
      <4>1. SamePods(s, r)
        BY <1>6, <3>2, RunStep DEF ReusePod, AtStep
      <4>2. /\ Alive(k)' \subseteq Alive(k)
            /\ \A q \in Alive(k)' : podKey'[k][q] = podKey[k][q]
        <5>1. CASE podKey' = podKey
          BY <5>1 DEF Alive
        <5>2. CASE Retire(o) \/ UndoPods(o)
          BY <5>2, FewerPodsOneKey
        <5>. QED
          BY <3>2, <5>1, <5>2, RotateWrites
      <4>3. KeyIs(k, op[o].found[k], op[o].before.file[k])'
        BY <1>0, <1>2, <2>1, <2>3, <4>2 DEF KeyIs
      <4>. QED
        BY <1>2, <2>1, <2>3, <4>1, <4>2, <4>3 DEF SamePods
    <3>. QED
      BY <3>1, <3>2
  <2>5. s.step \in {"record", "retire"} /\ k \in s.target => file'[k] = s.values[k]
    <3>1. SUFFICES ASSUME s.step \in {"record", "retire"}
                   PROVE  r.step \in {"record", "retire"} /\ s.values = r.values
      BY <1>0, <1>2, <1>6
    <3>2. Apply(o)
      BY <3>1, GoesOn DEF Raises, Undoes, Undoing
    <3>3. r.step \in {"stage", "pods", "promote", "bind", "reapply", "discard", "file",
                      "record", "retire"} \cup Undoing
      BY <1>0, <2>1, RotateSteps
    <3>4. ~DrawKeys(o) /\ ~DeployStack(o) /\ ~Address(o) /\ ~ReusePod(o) /\ ~SyncSecret(o)
          /\ ~DeleteRecorded(o) /\ ~DeleteNamed(o) /\ ~DestroyStacks(o) /\ ~Clear(o)
          /\ ~Blank(o) /\ ~Bootstrap(o) /\ ~Purge(o)
      BY <3>3
      DEF DrawKeys, AtStep, DeployStack, Address, ReusePod, SyncSecret, DeleteRecorded,
          DeleteNamed, DestroyStacks, Clear, Blank, Bootstrap, Purge, Undoing
    <3>5. ~Stage(o) /\ ~Promote(o) /\ ~Bind(o)
      BY <1>0, <3>1, StageRun, PromoteRun, BindRun
    <3>6. ~CreatePod(o)
      BY <1>0, <3>1, CreatedPod
    <3>7. ~Reapply(o) /\ ~Pass(o)
      BY <1>0, <3>1, <3>3, GoRun DEF Reapply, Pass, Undoing
    <3>9. CASE Record(o) \/ Retire(o)
      <4>1. s.values = r.values
        BY <3>4, <3>5, RunStep DEF SameKeys
      <4>. QED
        BY <3>9, <4>1 DEF Record, Retire
    <3>. QED
      BY <1>6, <3>2, <3>4, <3>5, <3>6, <3>7, <3>9 DEF Apply
  <2>. QED
    BY <1>0, <1>2, <1>3, <1>6, <1>7, <2>1, <2>2, <2>4, <2>5 DEF RotateFits, rebound
<1>. QED
  BY <1>4, <1>5, <1>6, RotateWrites

\* Two Pods are two.
LEMMA TwoAreAmbiguous ==
    ASSUME NEW k \in Kinds, NEW p \in Alive(k), NEW q \in Alive(k), p # q
    PROVE  Ambiguous(k)
<1>1. IsFiniteSet(Alive(k)) /\ Cardinality(Alive(k)) \in Nat
  BY AliveIsFinite
<1>2. Cardinality(Alive(k) \ {p}) = Cardinality(Alive(k)) - 1 /\ IsFiniteSet(Alive(k) \ {p})
  BY <1>1, FS_RemoveElement
<1>3. Cardinality(Alive(k) \ {p}) # 0
  BY <1>2, FS_EmptySet
<1>4. Cardinality(Alive(k) \ {p}) \in Nat
  BY <1>2, FS_CardinalityType
<1>. QED
  BY <1>1, <1>2, <1>3, <1>4 DEF Ambiguous

\* What a rotation has when it comes to the old Pod.
LEMMA RotateRetires ==
    ASSUME Shaped, NumbersFit, NEW o \in Operators, Fits(o), op[o].task = "rotate",
           op[o].step = "retire", NEW k \in Kinds, RotateFits(o, k)
    PROVE  LET r == op[o] IN
           /\ file[k] # 0 /\ secret[k] \in {0, file[k]}
           /\ k \notin r.target => OneKey(k) /\ Alive(k) \subseteq {r.found[k]}
           /\ k \in r.target =>
                /\ r.candidate[k] \in Alive(k) /\ podKey[k][r.candidate[k]] = file[k]
                /\ r.found[k] # r.candidate[k] /\ binding[k] = r.candidate[k]
                /\ Alive(k) \subseteq {r.found[k], r.candidate[k]}
<1>. DEFINE r == op[o]
<1>0. Typed /\ Shape(r) /\ r \in Runs /\ Tasked(o)
  BY DEF Shaped, Typed, Tasked, Waiting
<1>1. PICK t \in Kinds : r.target = {t} /\ First(r.target) = t
  BY <1>0, RotateSteps
<1>2. /\ file[k] # 0 /\ CandidateFits(o, k)
      /\ KeyIs(k, r.found[k], r.before.file[k])
      /\ Alive(k) \subseteq {r.found[k], r.candidate[k]}
      /\ r.before.secret[k] \in {0, r.before.file[k]}
      /\ k \notin r.target => file[k] = r.before.file[k]
      /\ k \in r.target => file[k] = r.values[k]
  BY DEF RotateFits
<1>3. r.promoted /\ r.changed
  BY <1>0 DEF Shape, Marked
<1>4. secret = [r.before.secret EXCEPT ![t] = r.values[t]]
  BY <1>1, <1>3 DEF Fits, KeysFit, Restored
<1>5. binding[k] = IF r.candidate[k] # 0 THEN r.candidate[k] ELSE r.found[k]
  BY <1>3 DEF Fits, BindingFits, Undone, Chosen, Switching
<1>6. r.before.secret \in KeysOfKinds
  BY <1>0 DEF Shape, Located, Tasked, Snapshots
<1>7. 0 \notin Alive(k)
  BY BoundsAssumption DEF Alive
<1>8. CASE k = t
  <2>1. r.candidate[k] # 0
    BY <1>0, <1>1, <1>8 DEF Shape, Candidates
  <2>2. r.candidate[k] \in Alive(k) /\ podKey[k][r.candidate[k]] = r.values[k]
    BY <1>2, <2>1 DEF CandidateFits
  <2>3. r.found[k] < r.candidate[k]
    BY <2>1 DEF NumbersFit, Numbered
  <2>4. r.found[k] # r.candidate[k]
    BY <1>0, <2>3, RunTyped
  <2>5. secret[k] = r.values[k]
    BY <1>4, <1>6, <1>8 DEF KeysOfKinds
  <2>. QED
    BY <1>1, <1>2, <1>5, <1>8, <2>1, <2>2, <2>4, <2>5
<1>9. CASE k # t
  <2>1. r.candidate[k] = 0
    BY <1>0, <1>1, <1>9 DEF Shape, Candidates
  <2>2. secret[k] = r.before.secret[k]
    BY <1>4, <1>6, <1>9 DEF KeysOfKinds
  <2>3. Alive(k) \subseteq {r.found[k]} /\ OneKey(k)
    BY <1>1, <1>2, <1>7, <1>9, <2>1 DEF OneKey, KeyIs
  <2>. QED
    BY <1>1, <1>2, <1>9, <2>2, <2>3
<1>. QED
  BY <1>8, <1>9

LEMMA RotateEnds ==
    ASSUME Shaped, NumbersFit, NEW o \in Operators, Fits(o), op[o].task = "rotate", Clean',
           Apply(o) \/ Refused(o) \/ Compensate(o) \/ Faults(o), op'[o] = NoTask,
           NEW k \in Kinds, RotateFits(o, k)
    PROVE  IdleFits(k)'
<1>. DEFINE r == op[o]
<1>0. /\ Typed /\ Tasked(o) /\ op \in [Operators -> Runs] /\ Shape(r) /\ Clean
  BY ActStepFrame, CleanStep DEF Shaped, Typed
<1>1. PICK t \in Kinds : r.target = {t} /\ First(r.target) = t
                         /\ (r.step = "retire" => r.left = r.target)
  BY <1>0, RotateSteps
<1>2. CASE /\ r.step \in {"discover", "stage"}
           /\ UNCHANGED <<podKey, secret, binding, file>>
  BY <1>2, SameStores DEF RotateFits
<1>3. CASE r.step = "retire" /\ UNCHANGED <<podKey, secret, binding, file>>
  <2>1. /\ file[k] # 0 /\ secret[k] \in {0, file[k]}
        /\ k \notin r.target => OneKey(k)
        /\ k \in r.target =>
             /\ r.candidate[k] \in Alive(k) /\ podKey[k][r.candidate[k]] = file[k]
             /\ r.found[k] # r.candidate[k] /\ binding[k] = r.candidate[k]
             /\ Alive(k) \subseteq {r.found[k], r.candidate[k]}
    BY <1>3, RotateRetires
  <2>2. k \in r.target => Ambiguous(k) \/ OneKey(k)
    <3>1. CASE r.found[k] \in Alive(k)
      BY <2>1, <3>1, TwoAreAmbiguous
    <3>2. CASE r.found[k] \notin Alive(k)
      BY <2>1, <3>2 DEF OneKey
    <3>. QED
      BY <3>1, <3>2
  <2>3. IdleFits(k)
    <3>1. CASE k \in r.target
      BY <2>1, <2>2, <3>1 DEF IdleFits, KeyIs
    <3>2. CASE k \notin r.target
      BY <2>1, <3>2, OneKeyIsIdle
    <3>. QED
      BY <3>1, <3>2
  <2>. QED
    BY <1>3, <2>3, SameStores
<1>4. CASE Retire(o)
  <2>1. r.step = "retire" /\ DeleteIfAny(t, r.found[t]) /\ UNCHANGED <<secret, binding, file>>
    BY <1>1, <1>4 DEF Retire, cloud, local
  <2>2. /\ file[k] # 0 /\ secret[k] \in {0, file[k]}
        /\ k \notin r.target => OneKey(k)
        /\ k \in r.target =>
             /\ r.candidate[k] \in Alive(k) /\ podKey[k][r.candidate[k]] = file[k]
             /\ Alive(k) \subseteq {r.found[k], r.candidate[k]}
    BY <2>1, RotateRetires
  <2>3. /\ k # t => podKey'[k] = podKey[k]
        /\ k = t => /\ Alive(k)' = Alive(k) \ {r.found[k]}
                    /\ \A q \in Alive(k) \ {r.found[k]} : podKey'[k][q] = podKey[k][q]
    BY <1>0, <2>1, DeletedPod
  <2>4. OneKey(k)'
    <3>1. CASE k = t
      BY <1>1, <2>1, <2>2, <2>3, <3>1 DEF OneKey
    <3>2. CASE k # t
      BY <1>1, <2>1, <2>2, <2>3, <3>2, SameStores
    <3>. QED
      BY <3>1, <3>2
  <2>. QED
    BY <2>1, <2>2, <2>4, OneKeyNext
<1>5. CASE UndoEnds(o)
  <2>1. r.step = "undoPods" /\ r.left = {} /\ UNCHANGED <<podKey, secret, binding, file>>
    BY <1>5 DEF UndoEnds, pods, cloud, local
  <2>2. /\ file[k] # 0 /\ KeyIs(k, r.found[k], r.before.file[k])
        /\ Alive(k) \subseteq {r.found[k], r.candidate[k]}
        /\ r.before.secret[k] \in {0, r.before.file[k]}
    BY <2>1 DEF RotateFits
  <2>3. file = r.before.file /\ secret = r.before.secret
    BY <1>0, <2>1 DEF Fits, KeysFit, Restored, Clean, Without
  <2>4. r.candidate[k] \notin Alive(k)
    <3>1. SUFFICES ASSUME r.candidate[k] \in Alive(k) PROVE FALSE
      OBVIOUS
    <3>2. r.candidate[k] \in 1 .. MaxPods /\ r.candidate[k] # 0
      BY <3>1, BoundsAssumption DEF Alive
    <3>3. PodFits(o, k, r.candidate[k])
      BY <2>1, <3>2 DEF Fits, PodsFit, Retired, Switching
    <3>4. r.before.podKey[k][r.candidate[k]] = 0
      BY <3>2 DEF NumbersFit, Numbered
    <3>. QED
      BY <1>0, <2>1, <3>1, <3>3, <3>4 DEF PodFits, Clean, Without, Alive
  <2>5. OneKey(k)
    BY <2>2, <2>3, <2>4 DEF OneKey, KeyIs
  <2>6. IdleFits(k)
    BY <2>2, <2>3, <2>5, OneKeyIsIdle
  <2>. QED
    BY <2>1, <2>6, SameStores
<1>. QED
  BY <1>2, <1>3, <1>4, <1>5, RotateEnd

-----------------------------------------------------------------------------
(* Every task, step by step.                                                *)

LEMMA SyncKept ==
    ASSUME Shaped, Shaped', NEW o \in Operators, op[o].task \in {"sync", "bootstrap", "purge"},
           Apply(o) \/ Refused(o) \/ Compensate(o) \/ Faults(o), Clean',
           NEW k \in Kinds, TaskFits(o, k)
    PROVE  IdleFits(k)' /\ (op'[o] # NoTask => TaskFits(o, k)')
<1>. DEFINE r == op[o]  s == op'[o]
<1>0. /\ Typed /\ Tasked(o) /\ op \in [Operators -> Runs] /\ Shape(r)
      /\ ~CandidateStays(o) /\ ~UndoFails(o)
  BY ActStepFrame, CleanStep DEF Shaped, Typed
<1>1. r.step = r.task /\ r.step \in {"sync", "bootstrap", "purge"}
  BY <1>0 DEF Shape, Located, Tasked
<1>2. IdleFits(k) /\ (r.task = "sync" => r.values[k] = file[k])
  BY DEF TaskFits
<1>3. UNCHANGED <<podKey, binding, file>> /\ (secret' = secret \/ SyncSecret(o))
  <2>1. /\ ~CreatePod(o) /\ ~Retire(o) /\ ~UndoPods(o) /\ ~DeleteRecorded(o) /\ ~DeleteNamed(o)
        /\ ~Bind(o) /\ ~UndoBinding(o) /\ ~UndoStacks(o) /\ ~DestroyStacks(o)
        /\ ~Promote(o) /\ ~UndoSecret(o) /\ ~Clear(o) /\ ~Blank(o) /\ ~DrawKeys(o)
        /\ ~KeepKey(o)
    BY <1>1
    DEF CreatePod, Retire, UndoPods, DeleteRecorded, DeleteNamed, Bind, UndoBinding,
        UndoStacks, DestroyStacks, Promote, UndoSecret, Clear, Blank, DrawKeys, AtStep,
        KeepKey
  <2>. QED
    BY <1>0, <2>1, ActStepFrame
<1>4. secret'[k] \in {0, file[k]}
  <2>1. SyncSecret(o) => secret'[k] \in {secret[k], r.values[k]} /\ r.task = "sync"
    <3>1. secret \in KeysOfKinds
      BY <1>0, StoresTyped
    <3>. QED
      BY <1>1, <3>1 DEF SyncSecret, KeysOfKinds
  <2>. QED
    BY <1>2, <1>3, <2>1 DEF IdleFits
<1>5. IdleFits(k)'
  <2>1. Alive(k)' = Alive(k) /\ Ambiguous(k)' = Ambiguous(k) /\ OneKey(k)' = OneKey(k)
    BY <1>3, SameStores
  <2>2. KeyIs(k, binding[k], file[k])' = KeyIs(k, binding[k], file[k])
    BY <1>3, <2>1 DEF KeyIs
  <2>. QED
    BY <1>2, <1>3, <1>4, <2>1, <2>2 DEF IdleFits
<1>6. s # NoTask => s.task = r.task /\ s.values = r.values
  <2>1. ~DrawKeys(o) /\ ~Stage(o)
    BY <1>1 DEF DrawKeys, AtStep, Stage
  <2>. QED
    BY <2>1, RunStep DEF SameTask, SameKeys
<1>. QED
  BY <1>2, <1>3, <1>5, <1>6 DEF TaskFits

\* destroy forgets the keys when no Pod is left, the secrets first.
LEMMA DestroyGoes ==
    ASSUME Shaped, NEW o \in Operators, Fits(o), op[o].task = "destroy",
           Apply(o) \/ Refused(o) \/ Compensate(o) \/ Faults(o), Clean', NEW k \in Kinds,
           TaskFits(o, k)
    PROVE  /\ op'[o] = NoTask => IdleFits(k)'
           /\ op'[o].step = "blank" => secret'[k] = 0
<1>. DEFINE r == op[o]  s == op'[o]
<1>0. /\ Typed /\ Tasked(o) /\ op \in [Operators -> Runs] /\ Shape(r)
      /\ ~CandidateStays(o) /\ ~UndoFails(o) /\ ~Interrupt(o) /\ ~Kill(o)
      /\ ~Refused(o) /\ ~CallFails(o)
  BY ActStepFrame, CleanStep DEF Shaped, Typed
<1>1. r.step \in {"deleteRecorded", "deleteNamed", "destroyStacks", "clear", "blank"}
  BY <1>0 DEF Shape, Located, Tasked
<1>2. ~ReapplyFails(o) /\ ~Compensate(o)
  BY <1>1 DEF ReapplyFails, Compensate, UndoSecret, UndoBinding, UndoReapply, UndoPods,
     UndoStacks, UndoEnds
<1>3. ASSUME DeleteRecorded(o) \/ DeleteNamed(o) \/ DestroyStacks(o)
      PROVE  s.step \in {"deleteRecorded", "deleteNamed", "destroyStacks", "clear"}
  BY <1>0, <1>3, GoRun, GoOverRun DEF DeleteRecorded, DeleteNamed, DestroyStacks
<1>4. ASSUME Clear(o)
      PROVE  s.step = "blank" /\ secret'[k] = 0
  <2>1. s.step = "blank"
    BY <1>0, <1>4, GoRun DEF Clear
  <2>2. DropSecrets({})
    BY <1>4 DEF Clear, GivesUp, Clean, Without
  <2>. QED
    BY <2>1, <2>2 DEF DropSecrets
<1>5. ASSUME Blank(o)
      PROVE  s = NoTask /\ Alive(k)' = {} /\ secret'[k] = 0 /\ file'[k] = 0
  <2>1. r.step = "blank" /\ UNCHANGED <<podKey, secret>> /\ file' = None /\ Release(o)
    BY <1>5 DEF Blank, pods, cloud
  <2>2. Alive(k) = {} /\ secret[k] = 0
    BY <2>1 DEF Fits, DestroyFit, TaskFits
  <2>. QED
    BY <1>0, <2>1, <2>2, ReleaseRun DEF Alive, None
<1>6. Apply(o)
  BY <1>0, <1>2 DEF Faults
<1>7. DeleteRecorded(o) \/ DeleteNamed(o) \/ DestroyStacks(o) \/ Clear(o) \/ Blank(o)
  BY <1>1, <1>6
  DEF Apply, DrawKeys, AtStep, DeployStack, Address, Discover, Stage, ReusePod, CreatePod,
      SyncSecret, Promote, Bind, Reapply, Pass, KeepKey, Record, Retire, Bootstrap, Purge
<1>8. NoTask.step = "idle"
  BY DEF NoTask
<1>9. CASE Blank(o)
  <2>1. OneKey(k)'
    BY <1>5, <1>9 DEF OneKey
  <2>. QED
    BY <1>5, <1>8, <1>9, <2>1, OneKeyNext
<1>. QED
  BY <1>3, <1>4, <1>7, <1>8, <1>9

LEMMA TaskKept ==
    ASSUME Shaped, NumbersFit, Shaped', NEW o \in Operators, Fits(o), Clean',
           Apply(o) \/ Refused(o) \/ Compensate(o) \/ Faults(o), NEW k \in Kinds, TaskFits(o, k)
    PROVE  IF op'[o] = NoTask THEN IdleFits(k)' ELSE TaskFits(o, k)'
<1>. DEFINE r == op[o]  s == op'[o]
<1>0. Tasked(o) /\ r.task \in Held /\ (s # NoTask => s.task = r.task)
  BY ActStepFrame, RunStep DEF Shaped, Shape, Located, Tasked, SameTask
<1>1. CASE r.task \in {"sync", "bootstrap", "purge"}
  BY <1>1, SyncKept
<1>2. CASE r.task = "ensure"
  BY <1>0, <1>2, EnsureKept DEF TaskFits
<1>3. CASE r.task = "replace"
  BY <1>0, <1>3, ReplaceKept DEF TaskFits
<1>4. CASE r.task = "rotate"
  BY <1>0, <1>4, RotateGoes, RotateEnds DEF TaskFits
<1>5. CASE r.task = "destroy"
  BY <1>0, <1>5, DestroyGoes DEF TaskFits
<1>. QED
  BY <1>0, <1>1, <1>2, <1>3, <1>4, <1>5 DEF Held

\* A task that has just taken the lock found the keys as they should be.
LEMMA TaskStarts ==
    ASSUME Shaped, NEW o \in Operators, Lock(o), Free, op'[o] # NoTask, KeysLoaded, Clean',
           NEW k \in Kinds, IdleFits(k)
    PROVE  TaskFits(o, k)'
<1>. DEFINE r == op[o]  s == op'[o]
<1>0. /\ Typed /\ op \in [Operators -> Runs] /\ r.step = "lock" /\ r.task \in Held
      /\ SamePods(r, NoTask)
  BY DEF Shaped, Shape, Located, Typed, Lock, Waiting
<1>1. /\ s.task = r.task /\ SameKeys(s, r) /\ SamePods(s, r) /\ s.step = FirstStep(r.task)
      /\ s.before.binding = binding /\ s.before.file = file /\ r.values = file
  BY <1>0, LockRun DEF Free, Clean, Without
<1>2. UNCHANGED <<podKey, secret, binding, file>>
  BY DEF Lock, pods, cloud, local
<1>3. Alive(k)' = Alive(k) /\ IdleFits(k)' /\ \A p, key : KeyIs(k, p, key)' = KeyIs(k, p, key)
  BY <1>2, SameStores
<1>4. s.candidate[k] = 0 /\ s.found[k] = 0 /\ s.values = file
  BY <1>0, <1>1 DEF SamePods, SameKeys, NoTask, None
<1>5. CASE s.task = "ensure"
  <2>1. s.step = "keys"
    BY <1>1, <1>5 DEF FirstStep
  <2>2. 0 \notin Alive(k)
    BY BoundsAssumption DEF Alive
  <2>3. Chosen(o)'[k] = 0
    BY <1>4 DEF Chosen
  <2>4. KeyIs(k, Chosen(o)[k], file[k])'
    BY <1>3, <2>2, <2>3 DEF KeyIs
  <2>5. KeyIs(k, op[o].before.binding[k], file[k])'
    BY <1>1, <1>2, <1>3 DEF KeyIs, IdleFits
  <2>6. EnsureFits(o, k)'
    BY <1>2, <1>3, <1>4, <2>1, <2>4, <2>5 DEF EnsureFits
  <2>. QED
    BY <1>5, <2>6 DEF TaskFits
<1>6. CASE s.task \in {"replace", "rotate"}
  <2>1. file'[k] # 0 /\ s.step = "discover"
    BY <1>0, <1>1, <1>2, <1>6 DEF KeysLoaded, Waiting, FirstStep
  <2>2. ReplaceFits(o, k)'
    BY <1>2, <1>3, <1>4, <2>1 DEF ReplaceFits
  <2>3. CandidateFits(o, k)'
    BY <1>4 DEF CandidateFits
  <2>4. RotateFits(o, k)'
    BY <1>1, <1>2, <1>3, <2>1, <2>3 DEF RotateFits
  <2>. QED
    BY <1>6, <2>2, <2>4 DEF TaskFits
<1>7. CASE s.task \notin {"ensure", "replace", "rotate"}
  <2>1. s.step # "blank"
    BY <1>0, <1>1 DEF FirstStep, Held
  <2>. QED
    BY <1>2, <1>3, <1>4, <1>7, <2>1 DEF TaskFits
<1>. QED
  BY <1>5, <1>6, <1>7

-----------------------------------------------------------------------------
(* The containers.                                                          *)

\* What the containers are given when a release is applied.
LEMMA ContainersFit ==
    ASSUME NEW k \in Kinds, secret[k] # 0 => KeyIs(k, binding[k], secret[k]),
           applied' = Containers, podKey' = podKey
    PROVE  AppliedFits(k)'
<1>1. applied'[k].pod = binding[k] /\ applied'[k].key = secret[k]
  BY DEF Containers
<1>2. Alive(k)' = Alive(k)
  BY DEF Alive
<1>. QED
  BY <1>1, <1>2 DEF AppliedFits, KeyIs

\* While a task applies the release, the secrets are those of the bound Pods.
LEMMA ReappliedFits ==
    ASSUME Shaped, NumbersFit, NEW o \in Operators, Fits(o), Clean, NEW k \in Kinds,
           TaskFits(o, k), op[o].step \in {"reapply", "undoReapply"}, secret[k] # 0
    PROVE  KeyIs(k, binding[k], secret[k])
<1>. DEFINE r == op[o]
<1>0. Typed /\ Shape(r) /\ r \in Runs /\ Tasked(o)
  BY DEF Shaped, Typed, Tasked, Waiting
<1>1. r.task \in {"replace", "rotate"}
  BY <1>0 DEF Shape, Located, Tasked, Held
<1>2. CASE r.task = "replace"
  BY <1>2 DEF TaskFits, ReplaceFits, OneKey, KeyIs
<1>3. CASE r.task = "rotate"
  <2>1. /\ file[k] # 0 /\ CandidateFits(o, k)
        /\ KeyIs(k, r.found[k], r.before.file[k])
        /\ Alive(k) \subseteq {r.found[k], r.candidate[k]}
        /\ r.before.secret[k] \in {0, r.before.file[k]}
        /\ r.step = "undoReapply" => ~NoPairBefore(o)
    BY <1>3 DEF TaskFits, RotateFits
  <2>2. PICK t \in Kinds : r.target = {t} /\ First(r.target) = t
    BY <1>0, <1>3, RotateSteps
  <2>3. r.before.secret \in KeysOfKinds
    BY <1>0 DEF Shape, Located, Tasked, Snapshots
  <2>4. 0 \notin Alive(k)
    BY BoundsAssumption DEF Alive
  <2>5. CASE r.step = "reapply"
    <3>1. r.promoted /\ r.changed
      BY <1>0, <1>3, <2>5 DEF Shape, Marked
    <3>2. secret = [r.before.secret EXCEPT ![t] = r.values[t]]
      BY <1>3, <2>2, <2>5, <3>1 DEF Fits, KeysFit, Restored
    <3>3. binding[k] = IF r.candidate[k] # 0 THEN r.candidate[k] ELSE r.found[k]
      BY <1>3, <2>5, <3>1 DEF Fits, BindingFits, Undone, Chosen, Switching
    <3>4. CASE k = t
      <4>1. r.candidate[k] # 0
        BY <1>0, <1>3, <2>2, <2>5, <3>4 DEF Shape, Candidates
      <4>2. podKey[k][r.candidate[k]] = r.values[k]
        BY <2>1, <2>5, <4>1 DEF CandidateFits
      <4>3. secret[k] = r.values[k]
        BY <2>3, <3>2, <3>4 DEF KeysOfKinds
      <4>. QED
        BY <3>3, <4>1, <4>2, <4>3 DEF KeyIs
    <3>5. CASE k # t
      <4>1. r.candidate[k] = 0
        BY <1>0, <1>3, <2>2, <3>5 DEF Shape, Candidates
      <4>2. secret[k] = r.before.secret[k]
        BY <2>3, <3>2, <3>5 DEF KeysOfKinds
      <4>. QED
        BY <2>1, <3>3, <4>1, <4>2
    <3>. QED
      BY <3>4, <3>5
  <2>6. CASE r.step = "undoReapply"
    <3>1. secret = r.before.secret
      BY <1>3, <2>6 DEF Fits, KeysFit, Restored, Clean, Without
    <3>2. binding = r.before.binding \/ binding = r.found
      BY <1>3, <2>1, <2>6 DEF Fits, BindingFits, Undone, Switching, Clean, Without
    <3>3. r.before.binding[k] # r.candidate[k] \/ r.candidate[k] = 0
      <4>1. r.candidate[k] # 0 => r.before.binding[k] < r.candidate[k]
        BY DEF NumbersFit, Numbered
      <4>2. r.before.binding \in PodsOfKinds
        BY <1>0 DEF Shape, Located, Tasked, Snapshots
      <4>3. r.before.binding[k] \in Nat /\ r.candidate[k] \in Nat
        BY <1>0, <4>2, RunTyped, BoundsAssumption DEF PodsOfKinds
      <4>. QED
        BY <4>1, <4>3
    <3>. QED
      BY <2>1, <2>4, <3>1, <3>2, <3>3 DEF KeyIs
  <2>. QED
    BY <2>5, <2>6
<1>. QED
  BY <1>1, <1>2, <1>3

\* The Pods of another step.
LEMMA AppliedStays ==
    ASSUME Shaped, NumbersFit, NEW o \in Operators, Clean', NEW k \in Kinds, AppliedFits(k),
           Apply(o) \/ Refused(o) \/ Compensate(o) \/ Faults(o), applied' = applied
    PROVE  AppliedFits(k)'
<1>0. Typed /\ op \in [Operators -> Runs] /\ ~CandidateStays(o)
  BY CleanStep DEF Shaped, Typed
<1>1. CASE podKey' = podKey
  BY <1>1 DEF AppliedFits, KeyIs, Alive
<1>2. CASE CreatePod(o)
  <2>1. PICK c \in Kinds : c = First(op[o].left)
    BY <1>0, RunTyped, KindsInOrder
  <2>. DEFINE p == made[c] + 1
  <2>2. /\ k # c => podKey'[k] = podKey[k]
        /\ k = c => /\ applied[k].pod # p /\ Alive(k)' = Alive(k) \cup {p}
                    /\ \A q \in Alive(k) : podKey'[k][q] = podKey[k][q]
    BY <1>0, <1>2, <2>1, CreatedPod
  <2>. HIDE DEF p
  <2>3. CASE k = c
    BY <2>2, <2>3 DEF AppliedFits, KeyIs
  <2>4. CASE k # c
    BY <2>2, <2>4 DEF AppliedFits, KeyIs, Alive
  <2>. QED
    BY <2>3, <2>4
<1>3. CASE Retire(o) \/ UndoPods(o)
  BY <1>3, FewerPodsOneKey DEF AppliedFits, KeyIs
<1>4. CASE DeleteRecorded(o) \/ DeleteNamed(o)
  <2>0. PICK c \in Kinds : \E p : DeleteIfAny(c, p)
    BY <1>0, <1>4, RunTyped, KindsInOrder DEF DeleteRecorded, DeleteNamed
  <2>1. PICK p : DeleteIfAny(c, p)
    BY <2>0
  <2>2. /\ k # c => podKey'[k] = podKey[k]
        /\ k = c => /\ Alive(k)' = Alive(k) \ {p}
                    /\ \A q \in Alive(k) \ {p} : podKey'[k][q] = podKey[k][q]
    BY <1>0, <2>1, DeletedPod
  <2>3. CASE k = c
    BY <2>2, <2>3 DEF AppliedFits, KeyIs
  <2>4. CASE k # c
    BY <2>2, <2>4 DEF AppliedFits, KeyIs, Alive
  <2>. QED
    BY <2>3, <2>4
<1>. QED
  BY <1>0, <1>1, <1>2, <1>3, <1>4, ActStepFrame

LEMMA AppliedKept ==
    ASSUME Shaped, NumbersFit, NEW o \in Operators, Fits(o), Clean', NEW k \in Kinds,
           TaskFits(o, k), AppliedFits(k),
           Apply(o) \/ Refused(o) \/ Compensate(o) \/ Faults(o)
    PROVE  AppliedFits(k)'
<1>0. Clean
  BY CleanStep
<1>1. CASE applied' = applied
  BY <1>1, AppliedStays
<1>2. CASE Reapply(o) \/ ReapplyFails(o) \/ UndoReapply(o)
  <2>1. /\ op[o].step \in {"reapply", "undoReapply"} /\ podKey' = podKey
        /\ applied' \in {applied, Containers}
    BY <1>2 DEF Reapply, ReapplyFails, UndoReapply, pods
  <2>2. secret[k] # 0 => KeyIs(k, binding[k], secret[k])
    BY <1>0, <2>1, ReappliedFits
  <2>. QED
    BY <1>1, <2>1, <2>2, ContainersFit
<1>3. CASE UndoStacks(o) \/ DestroyStacks(o) \/ Purge(o)
  <2>1. applied' = applied \/ \E gone \in SUBSET Stacks : Destroy(gone)
    <3>1. CASE UndoStacks(o)
      BY <3>1, UndoneStacks DEF Stacks
    <3>2. CASE DestroyStacks(o) \/ Purge(o)
      BY <3>2 DEF DestroyStacks, Purge, WithDependents, Stacks
    <3>. QED
      BY <1>3, <3>1, <3>2
  <2>2. applied' = applied \/ applied'[k] = NotApplied
    BY <2>1 DEF Destroy
  <2>. QED
    BY <1>1, <2>2 DEF AppliedFits, NotApplied
<1>. QED
  BY <1>1, <1>2, <1>3, ActStepFrame

-----------------------------------------------------------------------------
(* The keys agree.                                                          *)

KeysInvariant == DeployInvariant /\ KeysLoaded /\ KeysHold

LEMMA NextKeysLoaded ==
    ASSUME Shaped, Shaped', KeysLoaded, [Next]_vars
    PROVE  KeysLoaded'
<1>. SUFFICES ASSUME NEW o \in Operators, op'[o].step \in Waiting,
                     op'[o].task \in {"replace", "rotate"}, NEW k \in Kinds
              PROVE  op'[o].values[k] # 0
  BY DEF KeysLoaded
<1>0. Typed /\ Begun /\ op \in [Operators -> Runs] /\ ~Tasked(o)' /\ op'[o] # NoTask
  BY ShapedBegun DEF Shaped, Typed, Tasked, Waiting, NoTask
<1>1. CASE op'[o] = op[o]
  BY <1>1 DEF KeysLoaded
<1>2. ASSUME NEW x \in Operators, Begin(x) \/ Apply(x) \/ Refused(x) \/ Compensate(x) \/ Faults(x)
      PROVE  op'[o].values[k] # 0
  <2>1. CASE x # o
    BY <1>0, <1>1, <1>2, <2>1, OthersKept
  <2>2. CASE x = o /\ ~Begin(o)
    BY <1>0, <1>2, <2>2, StaysTasked
  <2>3. CASE x = o /\ Begin(o)
    <3>1. ASSUME NEW task \in Held, NEW target \in SUBSET Kinds, Load(o, task, target)
          PROVE  op'[o].values[k] # 0
      <4>1. op'[o].values = file /\ op'[o].task = task
        BY <1>0, <3>1, LoadRun
      <4>. QED
        BY <3>1, <4>1 DEF Load
    <3>2. CASE Lock(o)
      <4>1. op[o].task \in Held /\ op[o].step = "lock"
        BY <3>2 DEF Lock, Shaped, Shape, Located
      <4>2. op'[o].step = FirstStep(op[o].task)
        BY <1>0, <3>2, <4>1, LockRun
      <4>. QED
        BY <4>1, <4>2 DEF FirstStep, Held, Waiting
    <3>3. CASE FindOld(o) \/ Unlink(o)
      <4>1. Kept(op'[o], op[o]) /\ op[o].step \in Waiting
        BY <1>0, <3>3, GoRun, UnlinkRun DEF FindOld, Waiting
      <4>. QED
        BY <4>1 DEF Kept, SameTask, SameKeys, KeysLoaded
    <3>4. \/ \E task \in {"ensure", "sync", "destroy", "bootstrap", "purge"} : Load(o, task, {})
          \/ \E target \in (SUBSET Kinds) \ {{}} : Load(o, "replace", target)
          \/ \E i \in Kinds : Load(o, "rotate", {i})
          \/ Lock(o) \/ FindOld(o) \/ Unlink(o)
      BY <2>3 DEF Begin
    <3>5. \/ \E task \in Held, target \in SUBSET Kinds : Load(o, task, target)
          \/ Lock(o) \/ FindOld(o) \/ Unlink(o)
      BY <3>4 DEF Held
    <3>. QED
      BY <3>1, <3>2, <3>3, <3>5
  <2>. QED
    BY <1>2, <2>1, <2>2, <2>3
<1>3. CASE LockAges \/ DeployRelease \/ UNCHANGED vars
  BY <1>1, <1>3 DEF LockAges, DeployRelease, vars
<1>. QED
  BY <1>2, <1>3 DEF Next

\* What fits a task goes on to fit it when nothing it works with changes.
LEMMA TaskFitsElsewhere ==
    ASSUME NEW o \in Operators, op'[o] = op[o], UNCHANGED <<podKey, binding, secret, file>>,
           NEW k \in Kinds
    PROVE  TaskFits(o, k)' = TaskFits(o, k)
<1>1. /\ Alive(k)' = Alive(k) /\ OneKey(k)' = OneKey(k) /\ IdleFits(k)' = IdleFits(k)
      /\ \A p, key : KeyIs(k, p, key)' = KeyIs(k, p, key)
  BY SameStores
<1>2. Chosen(o)' = Chosen(o) /\ NoPairBefore(o)' = NoPairBefore(o)
  BY DEF Chosen, NoPairBefore
<1>3. EnsureFits(o, k)' = EnsureFits(o, k)
  <2>1. /\ KeyIs(k, Chosen(o)[k], file[k])' = KeyIs(k, Chosen(o)[k], file[k])
        /\ KeyIs(k, op[o].before.binding[k], file[k])' = KeyIs(k, op[o].before.binding[k], file[k])
    BY <1>1, <1>2 DEF KeyIs
  <2>. QED
    BY <1>1, <2>1 DEF EnsureFits
<1>4. ReplaceFits(o, k)' = ReplaceFits(o, k)
  BY <1>1 DEF ReplaceFits
<1>5. RotateFits(o, k)' = RotateFits(o, k)
  <2>1. KeyIs(k, op[o].found[k], op[o].before.file[k])' = KeyIs(k, op[o].found[k], op[o].before.file[k])
    BY <1>1 DEF KeyIs
  <2>2. CandidateFits(o, k)' = CandidateFits(o, k)
    BY <1>1 DEF CandidateFits
  <2>. QED
    BY <1>1, <1>2, <2>1, <2>2 DEF RotateFits
<1>. QED
  BY <1>1, <1>3, <1>4, <1>5 DEF TaskFits

\* Nobody else works while a task does, nor when somebody takes the free lock.
LEMMA OthersRest ==
    ASSUME Shaped, Alone, Clean, NEW o \in Operators,
           \/ Apply(o) \/ Refused(o) \/ Compensate(o) \/ Faults(o)
           \/ Lock(o) /\ Free
    PROVE  \A x \in Operators \ {o} : ~Tasked(x)
<1>1. Without({"twoHolders"})
  BY DEF Clean, Without
<1>2. CASE Lock(o) /\ Free
  BY <1>1, <1>2, LockMarks DEF Alone, Free, Nobody
<1>3. CASE Apply(o) \/ Refused(o) \/ Compensate(o) \/ Faults(o)
  BY <1>1, <1>3, ActStepFrame DEF Alone
<1>. QED
  BY <1>2, <1>3

LEMMA NextKeysHold ==
    ASSUME DeployInvariant, DeployInvariant', KeysLoaded, KeysHold, [Next]_vars
    PROVE  KeysHold'
<1>. SUFFICES ASSUME Clean', NEW k \in Kinds
              PROVE  /\ (\A o \in Operators : ~Tasked(o)') => IdleFits(k)'
                     /\ \A o \in Operators : Tasked(o)' => TaskFits(o, k)'
                     /\ Without({"overlap"})' => AppliedFits(k)'
  BY DEF KeysHold
<1>0. /\ Shaped /\ Shaped' /\ NumbersFit /\ Alone /\ WorkFits /\ Begun
  BY ShapedBegun DEF DeployInvariant
<1>1. mishaps \subseteq mishaps' /\ Clean /\ (Without({"overlap"})' => Without({"overlap"}))
  <2>1. mishaps \subseteq mishaps'
    BY <1>0, MishapsStay
  <2>. QED
    BY <2>1 DEF Clean, Without
<1>2. /\ (\A o \in Operators : ~Tasked(o)) => IdleFits(k)
      /\ \A o \in Operators : Tasked(o) => TaskFits(o, k) /\ Fits(o)
      /\ Without({"overlap"}) => AppliedFits(k)
  BY <1>0, <1>1 DEF KeysHold, WorkFits, Clean, Without
\* Somebody is about to take the lock, or nothing is changed.
<1>3. ASSUME UNCHANGED <<podKey, binding, secret, file>>,
             \A o \in Operators : op'[o] = op[o] \/ (~Tasked(o) /\ ~Tasked(o)')
      PROVE  /\ (\A o \in Operators : ~Tasked(o)') => IdleFits(k)'
             /\ \A o \in Operators : Tasked(o)' => TaskFits(o, k)'
             /\ applied' = applied => (Without({"overlap"})' => AppliedFits(k)')
  <2>1. \A o \in Operators : Tasked(o)' <=> Tasked(o)
    BY <1>3 DEF Tasked
  <2>2. IdleFits(k)' = IdleFits(k) /\ Alive(k)' = Alive(k)
    BY <1>3, SameStores
  <2>3. applied' = applied => AppliedFits(k)' = AppliedFits(k)
    BY <1>3, <2>2 DEF AppliedFits, KeyIs
  <2>4. ASSUME NEW o \in Operators, Tasked(o)' PROVE TaskFits(o, k)'
    BY <1>2, <1>3, <2>1, <2>4, TaskFitsElsewhere
  <2>. QED
    BY <1>1, <1>2, <2>1, <2>2, <2>3, <2>4
<1>4. CASE LockAges \/ UNCHANGED vars
  BY <1>3, <1>4 DEF LockAges, vars, pods, cloud, local
<1>5. CASE DeployRelease
  <2>1. UNCHANGED <<podKey, binding, secret, file, op>> /\ applied' = Containers
    BY <1>5 DEF DeployRelease, pods, local
  <2>2. Without({"overlap"})' => \A o \in Operators : ~Tasked(o)
    BY <1>5, WorkingAreTasked DEF DeployRelease, Without
  <2>3. Without({"overlap"})' => AppliedFits(k)'
    <3>1. SUFFICES ASSUME Without({"overlap"})' PROVE AppliedFits(k)'
      OBVIOUS
    <3>2. secret[k] # 0 => KeyIs(k, binding[k], secret[k])
      BY <1>2, <2>2, <3>1 DEF IdleFits
    <3>. QED
      BY <2>1, <3>2, ContainersFit
  <2>. QED
    BY <1>3, <2>1, <2>3
<1>6. ASSUME NEW x \in Operators, Begin(x)
      PROVE  /\ (\A o \in Operators : ~Tasked(o)') => IdleFits(k)'
             /\ \A o \in Operators : Tasked(o)' => TaskFits(o, k)'
             /\ Without({"overlap"})' => AppliedFits(k)'
  <2>1. /\ UNCHANGED <<podKey, binding, secret, file, applied>> /\ ~Tasked(x)
        /\ \/ op'[x].step \in {"idle"} \cup Waiting
           \/ Lock(x) /\ Free /\ op'[x] # NoTask
        /\ \A o \in Operators \ {x} : op'[o] = op[o]
    <3>1. \A o \in Operators \ {x} : op'[o] = op[o]
      BY <1>0, <1>6, OthersKept DEF Shaped
    <3>2. /\ UNCHANGED <<pods, cloud, file>> /\ ~Tasked(x)
          /\ \/ op'[x].step \in {"idle"} \cup Waiting
             \/ Lock(x) /\ Free /\ op'[x] # NoTask
      BY <1>0, <1>6, BeginStep
    <3>. QED
      BY <3>1, <3>2 DEF pods, cloud
  <2>2. CASE op'[x].step \in {"idle"} \cup Waiting
    <3>1. ~Tasked(x)'
      BY <2>2 DEF Tasked
    <3>. QED
      BY <1>3, <2>1, <3>1
  <2>3. CASE Lock(x) /\ Free /\ op'[x] # NoTask
    <3>1. \A o \in Operators \ {x} : ~Tasked(o) /\ ~Tasked(o)'
      <4>1. \A o \in Operators \ {x} : ~Tasked(o)
        BY <1>0, <1>1, <2>3, OthersRest
      <4>. QED
        BY <2>1, <4>1 DEF Tasked
    <3>2. IdleFits(k)
      BY <1>2, <2>1, <3>1
    <3>3. IdleFits(k)' /\ AppliedFits(k)' = AppliedFits(k)
      <4>1. IdleFits(k)' = IdleFits(k) /\ Alive(k)' = Alive(k)
        BY <2>1, SameStores
      <4>. QED
        BY <2>1, <3>2, <4>1 DEF AppliedFits, KeyIs
    <3>4. TaskFits(x, k)'
      BY <1>0, <2>3, <3>2, TaskStarts
    <3>. QED
      BY <1>1, <1>2, <3>1, <3>3, <3>4
  <2>. QED
    BY <2>1, <2>2, <2>3
<1>7. ASSUME NEW x \in Operators, Apply(x) \/ Refused(x) \/ Compensate(x) \/ Faults(x)
      PROVE  /\ (\A o \in Operators : ~Tasked(o)') => IdleFits(k)'
             /\ \A o \in Operators : Tasked(o)' => TaskFits(o, k)'
             /\ Without({"overlap"})' => AppliedFits(k)'
  <2>1. Tasked(x) /\ TaskFits(x, k) /\ Fits(x)
    BY <1>0, <1>2, <1>7, ActStepFrame
  <2>2. \A o \in Operators \ {x} : ~Tasked(o)'
    <3>1. \A o \in Operators \ {x} : ~Tasked(o) /\ op'[o] = op[o]
      BY <1>0, <1>1, <1>7, OthersRest, OthersKept DEF Shaped
    <3>. QED
      BY <3>1 DEF Tasked
  <2>3. IF op'[x] = NoTask THEN IdleFits(k)' ELSE TaskFits(x, k)'
    BY <1>0, <1>7, <2>1, TaskKept
  <2>4. Tasked(x)' <=> op'[x] # NoTask
    <3>1. op'[x] = NoTask => ~Tasked(x)'
      BY DEF Tasked, NoTask
    <3>. QED
      BY <1>0, <1>7, <3>1, StaysTasked
  <2>5. Without({"overlap"})' => AppliedFits(k)'
    BY <1>0, <1>1, <1>2, <1>7, <2>1, AppliedKept
  <2>. QED
    BY <2>2, <2>3, <2>4, <2>5
<1>. QED
  BY <1>4, <1>5, <1>6, <1>7 DEF Next

LEMMA InitKeys ==
    Init => KeysInvariant
<1>. SUFFICES ASSUME Init PROVE KeysLoaded /\ KeysHold
  BY InitInvariant DEF KeysInvariant
<1>1. \A o \in Operators : op[o] = NoTask /\ ~Tasked(o)
  BY DEF Init, NoTask, Tasked
<1>2. KeysLoaded
  BY <1>1 DEF KeysLoaded, NoTask, Waiting
<1>3. ASSUME NEW k \in Kinds PROVE IdleFits(k) /\ AppliedFits(k)
  <2>1. Alive(k) = {} /\ secret[k] = 0 /\ applied[k].key = 0
    BY DEF Init, Alive, None, NotApplied
  <2>. QED
    BY <2>1 DEF IdleFits, OneKey, KeyIs, AppliedFits
<1>. QED
  BY <1>1, <1>2, <1>3 DEF KeysHold

LEMMA NextKeys ==
    KeysInvariant /\ [Next]_vars => KeysInvariant'
<1>. SUFFICES ASSUME KeysInvariant, [Next]_vars PROVE KeysInvariant'
  OBVIOUS
<1>1. DeployInvariant' /\ Shaped /\ Shaped'
  BY NextInvariant DEF KeysInvariant, DeployInvariant
<1>2. KeysLoaded'
  BY <1>1, NextKeysLoaded DEF KeysInvariant
<1>3. KeysHold'
  BY <1>1, NextKeysHold DEF KeysInvariant
<1>. QED
  BY <1>1, <1>2, <1>3 DEF KeysInvariant

\* Between tasks the containers and the operator's file have the keys that the Pods
\* accept, whatever failed and was undone, unless one of the named mishaps happened.
THEOREM KeysStayTogether ==
    Spec => []KeysAgree
<1>1. KeysInvariant => KeysAgree
  <2>. SUFFICES ASSUME KeysInvariant, Working = {}, Clean, NEW k \in Kinds
                PROVE  LET accepts(p, key) == p \in Alive(k) /\ key # 0 => podKey[k][p] = key IN
                       /\ binding[k] # 0 => accepts(binding[k], secret[k])
                                            /\ accepts(binding[k], file[k])
                       /\ Without({"overlap"}) => accepts(applied[k].pod, applied[k].key)
    BY DEF KeysAgree, Clean
  <2>1. IdleFits(k) /\ (Without({"overlap"}) => AppliedFits(k))
    BY WorkingAreTasked DEF KeysInvariant, KeysHold
  <2>. QED
    BY <2>1 DEF IdleFits, AppliedFits, KeyIs
<1>. QED
  BY <1>1, InitKeys, NextKeys, PTL DEF Spec

=============================================================================
