------------------------- MODULE IdempotencyProofs -------------------------
(***************************************************************************)
(* What holds of Idempotency for any requests, keys, bodies and processes. *)
(***************************************************************************)
EXTENDS Idempotency, TLAPS

\* A request's guard key is one of the table, and tells key and process.
LEMMA GuardKeys ==
    ASSUME NEW r \in Requests, NEW x \in Requests
    PROVE  /\ GuardKey(r) \in Processes \X Keys
           /\ GuardKey(r)[1] = ProcessOf[r]
           /\ GuardKey(r) = GuardKey(x) <=> ProcessOf[r] = ProcessOf[x] /\ KeyOf[r] = KeyOf[x]
BY CallsAssumption DEF GuardKey

\* Two busy requests use the same entry exactly if their keys are the same.
LEMMA SameEntry ==
    ASSUME GuardInv, NEW r \in Requests, NEW x \in Requests,
           at[r] \in Busy, at[x] \in Busy
    PROVE  entry[r] = entry[x] <=> GuardKey(r) = GuardKey(x)
<1>1. /\ guards[GuardKey(r)] = entry[r] /\ guards[GuardKey(x)] = entry[x]
      /\ entry[r] \in Requests /\ entry[x] \in Requests
  BY DEF GuardInv, EntriesStay
<1>2. GuardKey(entry[r]) = GuardKey(r) /\ GuardKey(entry[x]) = GuardKey(x)
  BY <1>1, GuardKeys, NoRequestAssumption DEF GuardInv, EntriesAreApart
<1>. QED  BY <1>1, <1>2

-----------------------------------------------------------------------------
(* The guard                                                                *)

\* What a request that leaves the guard does to it.
LEMMA LeaveKeepsGuard ==
    ASSUME GuardInv, NEW r \in Requests, at[r] \in Busy, NEW how \in Ended,
           at' = [at EXCEPT ![r] = how], entry' = entry, guards' = GuardsAfter(r),
           \/ locked' = locked \ {entry[r]} /\ (at[r] = "executing" \/ entry[r] \notin locked)
           \/ locked' = locked /\ at[r] = "waiting"
    PROVE  /\ at' \in [Requests -> {"out"} \cup Busy \cup Ended]
           /\ guards' \in [Processes \X Keys -> Requests \cup {NoRequest}]
           /\ entry' \in [Requests -> Requests \cup {NoRequest}]
           /\ locked' \subseteq Requests
           /\ EntriesStay' /\ EntriesAreApart' /\ GuardExcludes'
<1>1. /\ at' \in [Requests -> {"out"} \cup Busy \cup Ended]
      /\ guards' \in [Processes \X Keys -> Requests \cup {NoRequest}]
      /\ entry' \in [Requests -> Requests \cup {NoRequest}]
      /\ locked' \subseteq Requests
  BY DEF GuardInv, TypeOK, GuardsAfter
<1>2. ASSUME NEW x \in Requests, at'[x] \in Busy
      PROVE  x # r /\ at'[x] = at[x] /\ entry'[x] = entry[x]
  BY <1>2 DEF GuardInv, TypeOK, Busy, Ended
<1>3. EntriesStay'
  <2> SUFFICES ASSUME NEW x \in Requests, at'[x] \in Busy
               PROVE  entry'[x] \in Requests /\ guards'[GuardKey(x)] = entry'[x]
    BY DEF EntriesStay, GuardKey
  <2>1. x # r /\ at[x] \in Busy /\ entry'[x] = entry[x]
    BY <1>2
  <2>2. entry[x] \in Requests /\ guards[GuardKey(x)] = entry[x]
    BY <2>1 DEF GuardInv, EntriesStay
  <2>3. CASE guards' = guards
    BY <2>1, <2>2, <2>3
  <2>4. CASE OtherUsers(r) = {} /\ guards' = [guards EXCEPT ![GuardKey(r)] = NoRequest]
    <3>1. entry[x] # entry[r]
      BY <2>1, <2>4 DEF OtherUsers
    <3>2. GuardKey(x) # GuardKey(r)
      BY <2>1, <3>1, SameEntry
    <3>. QED  BY <2>1, <2>2, <2>4, <3>2, GuardKeys DEF GuardInv, TypeOK
  <2>. QED  BY <2>3, <2>4 DEF GuardsAfter
<1>4. EntriesAreApart'
  <2> SUFFICES ASSUME NEW g \in Processes \X Keys, guards'[g] # NoRequest
               PROVE  GuardKey(guards'[g]) = g
    BY DEF EntriesAreApart, GuardKey
  <2>1. guards'[g] = guards[g]
    BY DEF GuardInv, TypeOK, GuardsAfter
  <2>. QED  BY <2>1 DEF GuardInv, EntriesAreApart
<1>5. GuardExcludes'
  <2>1. ASSUME NEW x \in Requests, at'[x] = "executing"
        PROVE  entry'[x] \in locked'
    <3>1. x # r /\ at[x] = "executing" /\ entry'[x] = entry[x]
      BY <1>2, <2>1 DEF Busy
    <3>2. entry[x] \in locked
      BY <3>1 DEF GuardInv, GuardExcludes
    <3>3. at[r] = "executing" => entry[x] # entry[r]
      BY <3>1, SameEntry DEF GuardInv, GuardExcludes, Busy
    <3>. QED  BY <3>1, <3>2, <3>3
  <2>2. ASSUME NEW x \in Requests, NEW y \in Requests, at'[x] = "executing",
               at'[y] = "executing", GuardKey(x) = GuardKey(y)
        PROVE  x = y
    BY <1>2, <2>2 DEF GuardInv, GuardExcludes, Busy
  <2>. QED  BY <2>1, <2>2 DEF GuardExcludes, GuardKey
<1>. QED  BY <1>1, <1>3, <1>4, <1>5

\* What a request does to the guard when it leaves with an answer, or with none.
LEMMA LeaveStep ==
    ASSUME GuardInv, NEW r \in Requests, NEW how \in Ended,
           NEW source \in Requests \cup {NoRequest}, Leave(r, how, source),
           at[r] = "executing" \/ GetsLock(r),
           how = "answered" \/ source = NoRequest
    PROVE  /\ at' \in [Requests -> {"out"} \cup Busy \cup Ended]
           /\ answer' \in [Requests -> Requests \cup {NoRequest}]
           /\ guards' \in [Processes \X Keys -> Requests \cup {NoRequest}]
           /\ entry' \in [Requests -> Requests \cup {NoRequest}]
           /\ locked' \subseteq Requests
           /\ EntriesStay' /\ EntriesAreApart' /\ GuardExcludes' /\ AnswersAreGiven'
<1>1. at[r] \in Busy /\ (at[r] = "executing" \/ entry[r] \notin locked)
  BY DEF GetsLock, Busy
<1>2. AnswersAreGiven' /\ answer' \in [Requests -> Requests \cup {NoRequest}]
  BY DEF Leave, GuardInv, TypeOK, AnswersAreGiven
<1>3. /\ at' = [at EXCEPT ![r] = how] /\ entry' = entry
      /\ guards' = GuardsAfter(r) /\ locked' = locked \ {entry[r]}
  BY DEF Leave, Unlock
<1>. QED  BY <1>1, <1>2, <1>3, LeaveKeepsGuard

LEMMA InitGuardInv ==
    ASSUME Init  PROVE GuardInv
BY NoRequestAssumption
   DEF Init, GuardInv, TypeOK, EntriesStay, EntriesAreApart, GuardExcludes,
       WriterFoundLapsed, AnswersAreGiven, Busy, Ended

LEMMA NextGuardInv ==
    ASSUME GuardInv, [Next]_vars  PROVE GuardInv'
<1>. USE DEF GuardInv
<1>1. ASSUME NEW r \in Requests, Arrive(r)  PROVE GuardInv'
  <2>. DEFINE g == GuardKey(r)
              e == IF guards[g] = NoRequest THEN r ELSE guards[g]
  <2>1. /\ at[r] = "out" /\ at' = [at EXCEPT ![r] = "waiting"]
        /\ guards' = [guards EXCEPT ![g] = e] /\ entry' = [entry EXCEPT ![r] = e]
        /\ UNCHANGED <<answer, locked, stored, lapsed, writer>>
    BY <1>1 DEF Arrive
  <2>2. g \in Processes \X Keys
    BY GuardKeys
  <2>3. e \in Requests
    BY <2>2 DEF TypeOK
  <2>4. TypeOK'
    BY <2>1, <2>2, <2>3 DEF TypeOK, Busy
  <2>5. EntriesAreApart'
    <3> SUFFICES ASSUME NEW h \in Processes \X Keys, guards'[h] # NoRequest
                 PROVE  GuardKey(guards'[h]) = h
      BY DEF EntriesAreApart, GuardKey
    <3>1. CASE h = g /\ guards[g] = NoRequest
      BY <2>1, <2>2, <3>1 DEF TypeOK
    <3>2. CASE guards'[h] = guards[h]
      BY <3>2 DEF EntriesAreApart
    <3>. HIDE DEF g
    <3>. QED  BY <2>1, <2>2, <3>1, <3>2 DEF TypeOK
  <2>6. ASSUME NEW x \in Requests, x # r
        PROVE  at'[x] = at[x] /\ entry'[x] = entry[x]
    BY <2>1, <2>6 DEF TypeOK
  <2>7. EntriesStay'
    <3> SUFFICES ASSUME NEW x \in Requests, at'[x] \in Busy
                 PROVE  entry'[x] \in Requests /\ guards'[GuardKey(x)] = entry'[x]
      BY DEF EntriesStay, GuardKey
    <3>1. CASE x = r
      BY <2>1, <2>2, <2>3, <3>1 DEF TypeOK
    <3>2. CASE x # r
      <4>1. entry[x] \in Requests /\ guards[GuardKey(x)] = entry[x]
        BY <2>6, <3>2 DEF EntriesStay
      <4>2. guards'[GuardKey(x)] = guards[GuardKey(x)]
        BY <2>1, <2>2, <4>1, NoRequestAssumption, GuardKeys DEF TypeOK
      <4>. QED  BY <2>6, <3>2, <4>1, <4>2
    <3>. QED  BY <3>1, <3>2
  <2>8. \A x \in Requests : at'[x] = "executing" => x # r
    BY <2>1 DEF TypeOK
  <2>9. GuardExcludes'
    <3>1. \A x \in Requests : at'[x] = "executing" => entry'[x] \in locked'
      BY <2>1, <2>6, <2>8 DEF GuardExcludes
    <3>2. ASSUME NEW x \in Requests, NEW y \in Requests, at'[x] = "executing",
                 at'[y] = "executing", GuardKey(x) = GuardKey(y)
          PROVE  x = y
      BY <2>6, <2>8, <3>2 DEF GuardExcludes
    <3>. QED  BY <3>1, <3>2 DEF GuardExcludes, GuardKey
  <2>10. WriterFoundLapsed' /\ AnswersAreGiven'
    BY <2>1 DEF TypeOK, WriterFoundLapsed, AnswersAreGiven
  <2>. QED  BY <2>4, <2>5, <2>7, <2>9, <2>10
<1>2. ASSUME NEW r \in Requests, Execute(r)  PROVE GuardInv'
  <2>1. /\ at[r] = "waiting" /\ entry[r] \notin locked
        /\ at' = [at EXCEPT ![r] = "executing"] /\ locked' = locked \cup {entry[r]}
        /\ UNCHANGED <<answer, guards, entry, stored, lapsed>>
        /\ \/ writer' = writer
           \/ writer = NoRequest /\ writer' = r /\ stored[KeyOf[r]] # NoRequest
        /\ ~Live(KeyOf[r])
    BY <1>2 DEF Execute, GetsLock
  <2>2. entry[r] \in Requests
    BY <2>1 DEF EntriesStay, Busy
  <2>3. TypeOK' /\ EntriesStay' /\ EntriesAreApart' /\ AnswersAreGiven'
    BY <2>1, <2>2 DEF TypeOK, EntriesStay, EntriesAreApart, AnswersAreGiven, Busy, GuardKey
  <2>4. ASSUME NEW x \in Requests, at'[x] = "executing", x # r
        PROVE  at[x] = "executing" /\ entry[x] \in locked /\ GuardKey(x) # GuardKey(r)
    <3>1. at[x] = "executing" /\ entry[x] \in locked
      BY <2>1, <2>4 DEF TypeOK, GuardExcludes
    <3>. QED  BY <2>1, <3>1, SameEntry DEF Busy
  <2>5. GuardExcludes'
    <3>1. \A x \in Requests : at'[x] = "executing" => entry'[x] \in locked'
      BY <2>1, <2>4
    <3>2. ASSUME NEW x \in Requests, NEW y \in Requests, at'[x] = "executing",
                 at'[y] = "executing", GuardKey(x) = GuardKey(y)
          PROVE  x = y
      BY <2>4, <3>2 DEF GuardExcludes
    <3>. QED  BY <3>1, <3>2 DEF GuardExcludes, GuardKey
  <2>6. WriterFoundLapsed'
    BY <2>1, CallsAssumption DEF TypeOK, WriterFoundLapsed, Live
  <2>. QED  BY <2>3, <2>5, <2>6
<1>3. ASSUME NEW r \in Requests, Leave(r, "answered", stored[KeyOf[r]]),
             at[r] = "executing" \/ GetsLock(r), writer # r,
             UNCHANGED <<stored, lapsed, writer>>
      PROVE  GuardInv'
  <2>1. stored[KeyOf[r]] \in Requests \cup {NoRequest}
    BY CallsAssumption DEF TypeOK
  <2>2. WriterFoundLapsed'
    BY <1>3 DEF Leave, TypeOK, WriterFoundLapsed
  <2>. HIDE DEF GuardInv
  <2>. QED  BY <1>3, <2>1, <2>2, LeaveStep DEF GuardInv, TypeOK, Ended
<1>4. ASSUME NEW r \in Requests, NEW how \in {"refused", "failed"},
             Leave(r, how, NoRequest), at[r] = "executing" \/ GetsLock(r),
             UNCHANGED <<stored, lapsed>>,
             writer' = IF writer = r THEN NoRequest ELSE writer
      PROVE  GuardInv'
  <2>2. WriterFoundLapsed'
    BY <1>4 DEF Leave, TypeOK, WriterFoundLapsed
  <2>. HIDE DEF GuardInv
  <2>. QED  BY <1>4, <2>2, LeaveStep DEF GuardInv, TypeOK, Ended
<1>5. ASSUME NEW r \in Requests, Replayed(r), at[r] = "executing" \/ GetsLock(r),
             writer # r, UNCHANGED <<stored, lapsed, writer>>
      PROVE  GuardInv'
  BY <1>3, <1>4, <1>5 DEF Replayed
<1>6. ASSUME NEW r \in Requests, GetsLock(r)  PROVE writer # r
  BY <1>6, NoRequestAssumption DEF GetsLock, WriterFoundLapsed
<1>7. ASSUME NEW r \in Requests, Replay(r) \/ LookupFails(r)  PROVE GuardInv'
  BY <1>4, <1>5, <1>6, <1>7 DEF Replay, LookupFails
<1>8. ASSUME NEW r \in Requests, Lose(r) \/ Fail(r)  PROVE GuardInv'
  BY <1>4, <1>5, <1>8, NoRequestAssumption DEF Lose, Fail
<1>9. ASSUME NEW r \in Requests, Save(r)  PROVE GuardInv'
  <2>1. /\ at[r] = "executing" /\ stored' = [stored EXCEPT ![KeyOf[r]] = r]
        /\ lapsed' = lapsed \ {KeyOf[r]} /\ writer' = NoRequest
        /\ Leave(r, "answered", r)
    BY <1>9 DEF Save
  <2>2. WriterFoundLapsed' /\ stored' \in [Keys -> Requests \cup {NoRequest}]
        /\ lapsed' \subseteq {k \in Keys : stored'[k] # NoRequest}
    BY <2>1, CallsAssumption DEF TypeOK, WriterFoundLapsed
  <2>. HIDE DEF GuardInv
  <2>. QED  BY <2>1, <2>2, LeaveStep DEF GuardInv, TypeOK, Ended
<1>10. ASSUME NEW r \in Requests, Abandon(r)  PROVE GuardInv'
  <2>1. /\ at[r] = "waiting" /\ at' = [at EXCEPT ![r] = "failed"]
        /\ guards' = GuardsAfter(r) /\ locked' = locked
        /\ UNCHANGED <<answer, entry, stored, lapsed, writer>>
    BY <1>10 DEF Abandon, LockAfterAbandon
  <2>2. WriterFoundLapsed' /\ AnswersAreGiven'
    BY <2>1 DEF TypeOK, WriterFoundLapsed, AnswersAreGiven
  <2>. HIDE DEF GuardInv
  <2>. QED  BY <2>1, <2>2, LeaveKeepsGuard DEF GuardInv, TypeOK, Ended, Busy
<1>11. ASSUME NEW k \in Keys, Lapse(k)  PROVE GuardInv'
  BY <1>11 DEF Lapse, Live, TypeOK, EntriesStay, EntriesAreApart, GuardExcludes,
               WriterFoundLapsed, AnswersAreGiven, GuardKey
<1>12. ASSUME Sweep  PROVE GuardInv'
  BY <1>12 DEF Sweep, TypeOK, EntriesStay, EntriesAreApart, GuardExcludes,
               WriterFoundLapsed, AnswersAreGiven, GuardKey
<1>13. ASSUME NEW p \in Processes, Crash(p)  PROVE GuardInv'
  <2>1. /\ at' = [r \in Requests |-> IF r \in Lost(p) THEN "failed" ELSE at[r]]
        /\ guards' = [g \in Processes \X Keys |-> IF g[1] = p THEN NoRequest ELSE guards[g]]
        /\ locked' = locked \ {entry[r] : r \in Lost(p)}
        /\ writer' = IF writer \in Lost(p) THEN NoRequest ELSE writer
        /\ UNCHANGED <<answer, entry, stored, lapsed>>
    BY <1>13 DEF Crash
  <2>2. Lost(p) \subseteq Requests
    BY DEF Lost
  <2>3. TypeOK'
    BY <2>1, <2>2 DEF TypeOK, Ended
  <2>4. ASSUME NEW x \in Requests, at'[x] \in Busy
        PROVE  at'[x] = at[x] /\ ProcessOf[x] # p
    BY <2>1, <2>4 DEF Lost, Busy
  <2>5. EntriesStay'
    <3> SUFFICES ASSUME NEW x \in Requests, at'[x] \in Busy
                 PROVE  entry'[x] \in Requests /\ guards'[GuardKey(x)] = entry'[x]
      BY DEF EntriesStay, GuardKey
    <3>. QED  BY <2>1, <2>4, GuardKeys DEF EntriesStay
  <2>6. EntriesAreApart'
    BY <2>1 DEF EntriesAreApart, GuardKey
  <2>7. ASSUME NEW x \in Requests, at'[x] = "executing"
        PROVE  entry'[x] \in locked'
    <3>1. at[x] = "executing" /\ ProcessOf[x] # p /\ entry'[x] = entry[x]
      BY <2>1, <2>4, <2>7 DEF Busy
    <3>2. entry[x] \in locked
      BY <3>1 DEF GuardExcludes
    <3>3. ASSUME NEW y \in Lost(p)  PROVE entry[y] # entry[x]
      <4>1. y \in Requests /\ at[y] \in Busy /\ ProcessOf[y] = p
        BY DEF Lost
      <4>. QED  BY <3>1, <4>1, SameEntry, GuardKeys DEF Busy
    <3>. QED  BY <2>1, <3>1, <3>2, <3>3
  <2>8. GuardExcludes'
    <3>1. ASSUME NEW x \in Requests, NEW y \in Requests, at'[x] = "executing",
                 at'[y] = "executing", GuardKey(x) = GuardKey(y)
          PROVE  x = y
      BY <2>4, <3>1 DEF GuardExcludes, Busy
    <3>. QED  BY <2>7, <3>1 DEF GuardExcludes, GuardKey
  <2>9. WriterFoundLapsed' /\ AnswersAreGiven'
    BY <2>1, <2>2 DEF TypeOK, WriterFoundLapsed, AnswersAreGiven, Lost, Busy
  <2>. QED  BY <2>3, <2>5, <2>6, <2>8, <2>9
<1>14. CASE UNCHANGED vars
  BY <1>14 DEF vars, TypeOK, EntriesStay, EntriesAreApart, GuardExcludes,
               WriterFoundLapsed, AnswersAreGiven, GuardKey
<1>. QED
  BY <1>1, <1>2, <1>7, <1>8, <1>9, <1>10, <1>11, <1>12, <1>13, <1>14
     DEF Next, Enters, Finishes

\* A guard is taken apart only when nobody uses it and lets one request of a key
\* and a process execute at a time, for any number of requests, keys and processes.
THEOREM GuardInvariance == Spec => []GuardInv
<1>. QED  BY InitGuardInv, NextGuardInv, PTL DEF Spec

-----------------------------------------------------------------------------
(* No answer is worked for twice                                            *)

LEMMA NextWorksOnce ==
    ASSUME GuardInv, WorksOnce, [Next]_vars  PROVE WorksOnce'
<1>. SUFFICES ASSUME NEW x \in Requests, at'[x] = "executing", Live(KeyOf[x])'
              PROVE  ProcessOf[stored'[KeyOf[x]]] # ProcessOf[x]
  BY DEF WorksOnce
<1>. USE DEF GuardInv
<1>1. ASSUME NEW r \in Requests, Save(r)  PROVE ProcessOf[stored'[KeyOf[x]]] # ProcessOf[x]
  <2>1. /\ at[r] = "executing" /\ stored' = [stored EXCEPT ![KeyOf[r]] = r]
        /\ lapsed' = lapsed \ {KeyOf[r]} /\ at' = [at EXCEPT ![r] = "answered"]
    BY <1>1 DEF Save, Leave
  <2>2. x # r /\ at[x] = "executing"
    BY <2>1 DEF TypeOK
  <2>3. CASE KeyOf[x] = KeyOf[r]
    <3>1. stored'[KeyOf[x]] = r
      BY <2>1, <2>3, CallsAssumption DEF TypeOK
    <3>. QED  BY <2>1, <2>2, <2>3, <3>1 DEF GuardExcludes, GuardKey
  <2>4. CASE KeyOf[x] # KeyOf[r]
    BY <2>1, <2>2, <2>4, CallsAssumption DEF TypeOK, WorksOnce, Live
  <2>. QED  BY <2>3, <2>4
<1>2. ASSUME NEW r \in Requests, Execute(r)
      PROVE  ProcessOf[stored'[KeyOf[x]]] # ProcessOf[x]
  BY <1>2 DEF Execute, WorksOnce, Live, TypeOK
<1>3. ASSUME at[x] = "executing", Live(KeyOf[x]), stored' = stored
      PROVE  ProcessOf[stored'[KeyOf[x]]] # ProcessOf[x]
  BY <1>3 DEF WorksOnce
<1>4. ASSUME NEW r \in Requests,
             Arrive(r) \/ Replay(r) \/ LookupFails(r) \/ Lose(r) \/ Fail(r) \/ Abandon(r)
      PROVE  ProcessOf[stored'[KeyOf[x]]] # ProcessOf[x]
  <2>1. stored' = stored /\ lapsed' = lapsed
    BY <1>4 DEF Arrive, Replay, LookupFails, Lose, Fail, Abandon
  <2>2. \E how \in {"waiting"} \cup Ended : at' = [at EXCEPT ![r] = how]
    BY <1>4 DEF Arrive, Replay, LookupFails, Lose, Fail, Abandon, Replayed, Leave, Ended
  <2>. QED  BY <1>3, <2>1, <2>2 DEF TypeOK, Ended, Live
<1>5. ASSUME NEW k \in Keys, Lapse(k)  PROVE ProcessOf[stored'[KeyOf[x]]] # ProcessOf[x]
  BY <1>3, <1>5 DEF Lapse, Live
<1>6. CASE Sweep
  BY <1>6, CallsAssumption DEF Sweep, Live, WorksOnce
<1>7. ASSUME NEW p \in Processes, Crash(p)
      PROVE  ProcessOf[stored'[KeyOf[x]]] # ProcessOf[x]
  BY <1>3, <1>7 DEF Crash, Live
<1>8. CASE UNCHANGED vars
  BY <1>3, <1>8 DEF vars, Live
<1>. QED
  BY <1>1, <1>2, <1>4, <1>5, <1>6, <1>7, <1>8 DEF Next, Enters, Finishes

\* For any requests, keys and processes, no request works for an answer that its
\* own process has already given.
THEOREM NoWorkTwice == Spec => []WorksOnce
<1>1. Init => WorksOnce
  BY DEF Init, WorksOnce
<1>. QED  BY <1>1, NextWorksOnce, GuardInvariance, PTL DEF Spec

-----------------------------------------------------------------------------
(* What callers see                                                         *)

Outcome == [r \in Requests |-> IF at[r] \in Ended THEN at[r] ELSE "pending"]
Recorded == [k \in Keys |-> IF Live(k) THEN stored[k] ELSE NoRequest]

LEMMA PromiseSteps ==
    ASSUME GuardInv, [Next]_vars  PROVE [Promise!PromiseNext]_(Promise!promise)
<1>. USE DEF GuardInv
<1>1. ASSUME NEW r \in Requests, NEW how \in Ended,
             NEW source \in Requests \cup {NoRequest}, Leave(r, how, source),
             at[r] \in Busy
      PROVE  /\ Outcome[r] = "pending"
             /\ Outcome' = [Outcome EXCEPT ![r] = how]
             /\ answer' = [answer EXCEPT ![r] = source]
  BY <1>1 DEF Leave, Outcome, Busy, Ended, TypeOK
<1>2. ASSUME stored' = stored, lapsed' = lapsed  PROVE Recorded' = Recorded
  BY <1>2 DEF Recorded, Live
<1>3. ASSUME NEW r \in Requests, at[r] \in Busy, at' = [at EXCEPT ![r] = "failed"],
             answer' = answer, stored' = stored, lapsed' = lapsed
      PROVE  Promise!PromiseNext
  <2>1. Outcome' = [x \in Requests |-> IF x \in {r} THEN "failed" ELSE Outcome[x]]
        /\ Outcome[r] = "pending"
    BY <1>3 DEF Outcome, TypeOK, Busy, Ended
  <2>2. Promise!Failures({r})
    BY <1>2, <1>3, <2>1 DEF Promise!Failures, Outcome, Recorded
  <2>. QED  BY <2>2 DEF Promise!PromiseNext
<1>4. ASSUME NEW r \in Requests, at[r] \in Busy, Leave(r, "failed", NoRequest),
             stored' = stored, lapsed' = lapsed
      PROVE  Promise!PromiseNext
  <2>1. answer[r] = NoRequest
    BY <1>4 DEF AnswersAreGiven, Busy
  <2>2. answer' = answer /\ at' = [at EXCEPT ![r] = "failed"]
    BY <1>4, <2>1 DEF Leave, TypeOK
  <2>. QED  BY <1>3, <1>4, <2>2
<1>5. ASSUME NEW r \in Requests, at[r] \in Busy, Replayed(r),
             stored' = stored, lapsed' = lapsed
      PROVE  Promise!PromiseNext
  <2>1. Recorded[KeyOf[r]] = stored[KeyOf[r]] /\ stored[KeyOf[r]] \in Requests
    BY <1>5, CallsAssumption DEF Replayed, Live, Recorded, TypeOK
  <2>2. CASE SameCall(r) /\ Leave(r, "answered", stored[KeyOf[r]])
    <3>1. Promise!SameAnswer(r)
      BY <1>1, <1>2, <1>5, <2>1, <2>2, NoRequestAssumption
         DEF Promise!SameAnswer, Promise!Ends, Outcome, Recorded, SameCall, Ended
    <3>. QED  BY <3>1 DEF Promise!PromiseNext
  <2>3. CASE ~SameCall(r) /\ Leave(r, "refused", NoRequest)
    <3>1. Promise!KeyReused(r)
      BY <1>1, <1>2, <1>5, <2>1, <2>3, NoRequestAssumption
         DEF Promise!KeyReused, Promise!Ends, Outcome, Recorded, SameCall, Ended
    <3>. QED  BY <3>1 DEF Promise!PromiseNext
  <2>. QED  BY <1>5, <2>2, <2>3 DEF Replayed
<1>6. ASSUME NEW r \in Requests, Replay(r) \/ LookupFails(r) \/ Lose(r) \/ Fail(r)
      PROVE  Promise!PromiseNext
  BY <1>4, <1>5, <1>6 DEF Replay, LookupFails, Lose, Fail, GetsLock, Busy
<1>7. ASSUME NEW r \in Requests, Abandon(r)  PROVE Promise!PromiseNext
  BY <1>3, <1>7 DEF Abandon, Busy
<1>8. ASSUME NEW r \in Requests, Save(r)  PROVE Promise!PromiseNext
  <2>1. /\ at[r] = "executing" /\ stored' = [stored EXCEPT ![KeyOf[r]] = r]
        /\ lapsed' = lapsed \ {KeyOf[r]} /\ Leave(r, "answered", r) /\ Inserts(r)
    BY <1>8 DEF Save
  <2>2. ~Live(KeyOf[r])
    BY <2>1, NoRequestAssumption DEF Inserts, Live, WriterFoundLapsed
  <2>3. Recorded[KeyOf[r]] = NoRequest /\ Recorded' = [Recorded EXCEPT ![KeyOf[r]] = r]
    BY <2>1, <2>2, CallsAssumption, NoRequestAssumption DEF Recorded, Live, TypeOK
  <2>4. Promise!FirstAnswer(r)
    BY <1>1, <2>1, <2>3
       DEF Promise!FirstAnswer, Promise!Ends, Outcome, Recorded, Busy, Ended
  <2>. QED  BY <2>4 DEF Promise!PromiseNext
<1>9. ASSUME NEW r \in Requests, Arrive(r) \/ Execute(r)
      PROVE  UNCHANGED Promise!promise
  <2>1. /\ answer' = answer /\ stored' = stored /\ lapsed' = lapsed
        /\ at[r] \in {"out", "waiting"}
        /\ \E s \in Busy : at' = [at EXCEPT ![r] = s]
    BY <1>9 DEF Arrive, Execute, GetsLock, Busy
  <2>2. Outcome' = Outcome
    BY <2>1 DEF Outcome, TypeOK, Busy, Ended
  <2>. QED  BY <1>2, <2>1, <2>2 DEF Promise!promise, Outcome, Recorded
<1>10. ASSUME NEW k \in Keys, Lapse(k)  PROVE Promise!PromiseNext
  <2>1. Recorded' = [Recorded EXCEPT ![k] = NoRequest]
    BY <1>10 DEF Lapse, Recorded, Live
  <2>2. Promise!Forget(k)
    BY <1>10, <2>1 DEF Promise!Forget, Lapse, Outcome, Recorded
  <2>. QED  BY <2>2 DEF Promise!PromiseNext
<1>11. ASSUME Sweep  PROVE UNCHANGED Promise!promise
  <2>1. Recorded' = Recorded
    BY <1>11 DEF Sweep, Recorded, Live
  <2>. QED  BY <1>11, <2>1 DEF Promise!promise, Sweep, Outcome, Recorded
<1>12. ASSUME NEW p \in Processes, Crash(p)  PROVE Promise!PromiseNext
  <2>1. Lost(p) \subseteq Requests /\ \A r \in Lost(p) : Outcome[r] = "pending"
    BY DEF Lost, Outcome, Busy, Ended
  <2>2. Outcome' = [r \in Requests |-> IF r \in Lost(p) THEN "failed" ELSE Outcome[r]]
    BY <1>12 DEF Crash, Outcome, Ended
  <2>3. PICK R \in SUBSET Requests : R = Lost(p)
    BY <2>1
  <2>4. Promise!Failures(R)
    BY <1>2, <1>12, <2>1, <2>2, <2>3 DEF Promise!Failures, Crash, Outcome, Recorded
  <2>. QED  BY <2>4 DEF Promise!PromiseNext
<1>13. CASE UNCHANGED vars
  BY <1>2, <1>13 DEF vars, Promise!promise, Recorded, Live
<1>. QED
  BY <1>6, <1>7, <1>8, <1>9, <1>10, <1>11, <1>12, <1>13 DEF Next, Enters, Finishes

\* The decorator keeps the promise of AnsweredOnce: a kept answer is the answer to
\* its key, through races of processes, lapses, failures and crashes.
THEOREM AnswersOnce == Spec => KeepsPromise
<1>1. Init => Promise!PromiseInit
  BY CallsAssumption DEF Init, Promise!PromiseInit, Live, Ended
<1>. QED  BY <1>1, PromiseSteps, GuardInvariance, PTL
          DEF Spec, KeepsPromise, Promise!PromiseSpec

=============================================================================
