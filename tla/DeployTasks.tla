----------------------------- MODULE DeployTasks -----------------------------
(***************************************************************************)
(* The local infrastructure tasks: ensure, runpod-replace, secrets-rotate, *)
(* secrets-sync, destroy, status, bootstrap and purge, run by operators on *)
(* one environment.  They change, one call after the other, four things    *)
(* that must agree: the Pods of RunPod, the secrets and the runtime        *)
(* binding of AWS, and the operator's own secret file.  A call may raise,  *)
(* a task may be interrupted or killed, another operator may start a task, *)
(* and a release of the application may be deployed at any time.           *)
(*                                                                         *)
(* The Embed Pod is handled by scripts of another repository, through the  *)
(* same contract (status, created, previous Pod, replace): both kinds of   *)
(* Pod are modelled alike.  Pods and keys are numbered in the order of     *)
(* their creation; 0 is no Pod, no key.                                    *)
(***************************************************************************)
EXTENDS Naturals, FiniteSets

CONSTANTS
    Operators,
    MaxPods,      \* bound: Pods ever created of a kind
    MaxKeys,      \* bound: keys ever drawn for a kind
    MaxTasks,     \* bound: tasks ever started
    MaxFaults,    \* bound: calls that raise
    MaxStops,     \* bound: interruptions and kills
    Failing       \* the steps in which a call may raise

ASSUME BoundsAssumption ==
    /\ MaxPods \in Nat /\ MaxKeys \in Nat /\ MaxTasks \in Nat
    /\ MaxFaults \in Nat /\ MaxStops \in Nat

\* The steps that call a provider or write the secret file; the writes of the
\* local state are none of them, and the compensation has faults of its own.
Calls == {"keys", "foundation", "address", "discover", "stage", "pods", "sync",
          "promote", "bind", "reapply", "discard", "file", "service", "install",
          "retire", "deleteRecorded", "deleteNamed", "destroyStacks", "blank",
          "bootstrap", "purge"}

ASSUME FailingAssumption == Failing \subseteq Calls

VARIABLES
    podKey,     \* kind -> Pod -> the key it accepts, 0 when it does not exist
    made,       \* kind -> Pods created so far
    secret,     \* kind -> the AWSCURRENT key, 0 when there is no secret
    binding,    \* kind -> the Pod of the runtime binding, 0 when it is {}
    applied,    \* kind -> the Pod and the key the containers use
    stacks,     \* the CDK stacks that exist
    file,       \* kind -> the key in the operator's secret file, 0 when blank
    drawn,      \* kind -> keys drawn so far
    resources,  \* kind -> the Pod recorded in the local state, or 0
    lock,       \* the operator in the lock file, Nobody, "dead", or "old": more
                \* than six hours, whoever wrote it
    op,         \* operator -> the task it runs
    started, faults, stops,
    mishaps     \* history: what no lock and no compensation covers

pods == <<podKey, made>>
cloud == <<secret, binding, applied, stacks>>
local == <<file, drawn, resources>>
counts == <<started, faults, stops>>
vars == <<pods, cloud, local, lock, op, counts, mishaps>>

-----------------------------------------------------------------------------

Kinds == {"llm", "embed"}
Stacks == {"Access", "Foundation", "Service"}
Nobody == "nobody"

\* What the lock file may say is told apart from the operators.
ASSUME OperatorsAssumption == Operators \cap {Nobody, "dead", "old"} = {}

None == [k \in Kinds |-> 0]
NotApplied == [pod |-> 0, key |-> 0]

\* The tasks go through the kinds in this order, compensation backwards.
First(K) == IF "llm" \in K THEN "llm" ELSE "embed"
Last(K) == IF "embed" \in K THEN "embed" ELSE "llm"

Alive(k) == {p \in 1 .. MaxPods : podKey[k][p] # 0}

\* status_vllm: two Pods of the deterministic name are an error.
Ambiguous(k) == Cardinality(Alive(k)) > 1

Current(k) == IF Alive(k) = {} THEN 0 ELSE CHOOSE p \in Alive(k) : TRUE

\* What a task holds in memory: the values it loaded, the Pods it found, the
\* candidates and stacks it created, and how far it got.
NoTask == [task |-> "none", step |-> "idle", target |-> {}, left |-> {},
           values |-> None, recorded |-> None, found |-> None, candidate |-> None,
           previous |-> None,
           boundBefore |-> None, keyBefore |-> 0, newStacks |-> {},
           changed |-> FALSE, promoted |-> FALSE, unread |-> FALSE, before |-> <<>>]

\* The Pods a task works with: its candidates, and the Pods it found.
Chosen(o) == [k \in Kinds |-> IF op[o].candidate[k] # 0 THEN op[o].candidate[k]
                              ELSE op[o].found[k]]

Held == {"ensure", "replace", "rotate", "sync", "destroy", "bootstrap", "purge"}

\* The first step of a task under the lock.
FirstStep(task) ==
    CASE task = "ensure" -> "keys"
      [] task \in {"replace", "rotate"} -> "discover"
      [] task = "sync" -> "sync"
      [] task = "destroy" -> "deleteRecorded"
      [] task = "bootstrap" -> "bootstrap"
      [] task = "purge" -> "purge"

Idle(o) == op[o].step = "idle"
Working == {o \in Operators : op[o].step \notin {"idle", "lock", "unlink"}}
AtStep(o, task, step) == op[o].task = task /\ op[o].step = step

Become(o, r) == op' = [op EXCEPT ![o] = r]
Go(o, step) == Become(o, [op[o] EXCEPT !.step = step])
GoOver(o, step, K) == Become(o, [op[o] EXCEPT !.step = step, !.left = K])

\* The task ends, and the finally of operation_lock unlinks the lock file,
\* whoever wrote it.
Release(o) == lock' = Nobody /\ Become(o, NoTask)

-----------------------------------------------------------------------------
(* Starting a task: the files are loaded before the lock is taken.          *)

\* _load and _require_runtime_keys
Load(o, task, target) ==
    /\ Idle(o) /\ started < MaxTasks
    /\ task \in {"replace", "rotate", "sync"} => \A k \in Kinds : file[k] # 0
    /\ started' = started + 1
    /\ Become(o, [NoTask EXCEPT !.task = task, !.step = "lock", !.target = target,
                                !.values = file, !.recorded = resources])
    /\ UNCHANGED <<pods, cloud, local, lock, faults, stops, mishaps>>

\* Fault: the lock file is opened without O_EXCL.
AlwaysFree == TRUE

Free == lock = Nobody

\* The task that waits for nobody: it takes the lock or fails at once.
Lock(o) ==
    /\ op[o].step = "lock"
    /\ IF Free
       THEN /\ lock' = o
            /\ Become(o, [op[o] EXCEPT
                 !.step = FirstStep(op[o].task),
                 !.left = IF op[o].task \in {"sync", "destroy"} THEN Kinds ELSE {},
                 !.before = [podKey |-> podKey, binding |-> binding,
                             secret |-> secret, file |-> file, stacks |-> stacks]])
       ELSE lock' = lock /\ Become(o, NoTask)
    /\ mishaps' = IF Free /\ (op[o].values # file
                             \/ op[o].recorded # resources)
                  THEN mishaps \cup {"oldValues"} ELSE mishaps
    /\ UNCHANGED <<pods, cloud, local, counts>>

\* A lock of more than six hours is taken over: unlink, then create.
FindOld(o) ==
    /\ op[o].step = "lock" /\ lock = "old"
    /\ Go(o, "unlink")
    /\ UNCHANGED <<pods, cloud, local, lock, counts, mishaps>>

\* The lock unlinked is whatever lies there by then; when the other operator was
\* faster and nothing lies there, the unlink raises.
Unlink(o) ==
    /\ op[o].step = "unlink"
    /\ lock' = Nobody
    /\ mishaps' = IF Working # {} THEN mishaps \cup {"twoHolders"} ELSE mishaps
    /\ IF lock = Nobody THEN Become(o, NoTask) ELSE Go(o, "lock")
    /\ UNCHANGED <<pods, cloud, local, counts>>

\* Six hours after it was written a lock is old, and whose it was is not asked:
\* the task may be at work, since nothing refreshes the file's time and no call
\* of a task has a timeout.
LockAges ==
    /\ lock \notin {Nobody, "old"} /\ lock' = "old"
    /\ UNCHANGED <<pods, cloud, local, op, counts, mishaps>>

-----------------------------------------------------------------------------
(* Failure: what "except" does with the task.                               *)

\* The steps before the try, and tasks without one, fail as they stand.
Unguarded(o) ==
    \/ op[o].task \in {"sync", "destroy", "bootstrap", "purge"}
    \/ op[o].step \in {"keys", "discover", "stage"}

\* The new Pods are active; only the cleanup of the old ones failed.
Committed(o) ==
    \/ op[o].task = "replace" /\ op[o].step \in {"retire", "record"}
    \/ AtStep(o, "rotate", "retire")

\* committed: record the new Pods and raise.
Report(o) ==
    /\ resources' = [k \in Kinds |-> IF op[o].task = "replace" THEN Chosen(o)[k]
                                     ELSE resources[k]]
    /\ Release(o)

\* Fault: the compensation forgets the candidates.
UndoWithoutPods(o) ==
    GoOver(o, IF op[o].task = "rotate" THEN "undoSecret" ELSE "undoBinding", {})

Undo(o) == GoOver(o, IF op[o].task = "rotate" THEN "undoSecret" ELSE "undoBinding",
                  {k \in Kinds : op[o].candidate[k] # 0})

Raise(o) ==
    IF Unguarded(o) THEN Release(o) /\ UNCHANGED resources
    ELSE IF Committed(o) THEN Report(o)
    ELSE Undo(o) /\ UNCHANGED <<lock, resources>>

\* A destroy that stops halfway has deleted Pods that are still bound.
HalfDestroyed(o) == IF op[o].task = "destroy" THEN mishaps \cup {"halfDestroyed"}
                    ELSE mishaps

\* A call of the current step raises before it has changed anything.
CallFails(o) ==
    /\ op[o].step \in Failing /\ faults < MaxFaults
    /\ faults' = faults + 1
    /\ mishaps' = HalfDestroyed(o)
    /\ Raise(o)
    /\ UNCHANGED <<pods, cloud, file, drawn, started, stops>>

\* What the step finds makes it raise.
Refuse(o) ==
    /\ mishaps' = HalfDestroyed(o)
    /\ Raise(o)
    /\ UNCHANGED <<pods, cloud, file, drawn, counts>>

-----------------------------------------------------------------------------
(* The calls to RunPod.                                                     *)

Delete(k, p) == podKey' = [podKey EXCEPT ![k] = [@ EXCEPT ![p] = 0]]
DeleteIfAny(k, p) == IF p = 0 THEN UNCHANGED podKey ELSE Delete(k, p)

NextAfterPods(task) ==
    CASE task = "ensure" -> "sync" [] task = "replace" -> "bind" [] OTHER -> "promote"

\* The Pod of kind k is at hand: on to the next kind, or the next step.
HavePod(o, k, r) ==
    LET rest == op[o].left \ {k} IN
    Become(o, [r EXCEPT
        !.left = IF rest = {} /\ op[o].task = "ensure" THEN Kinds ELSE rest,
        !.step = IF rest = {} THEN NextAfterPods(op[o].task) ELSE "pods"])

\* ensure_vllm without replace: a Pod that accepts the key is used again.
ReusePod(o) ==
    LET k == First(op[o].left) IN
    /\ AtStep(o, "ensure", "pods") /\ Cardinality(Alive(k)) = 1
    /\ podKey[k][Current(k)] = op[o].values[k]
    /\ HavePod(o, k, [op[o] EXCEPT !.found[k] = Current(k)])
    /\ UNCHANGED <<pods, cloud, local, lock, counts, mishaps>>

CreatePod(o) ==
    LET k == First(op[o].left)  p == made[k] + 1 IN
    /\ op[o].step = "pods" /\ made[k] < MaxPods /\ op[o].values[k] # 0
    /\ IF op[o].task = "ensure" THEN Alive(k) = {} ELSE ~Ambiguous(k)
    /\ made' = [made EXCEPT ![k] = p]
    /\ podKey' = [podKey EXCEPT ![k] = [@ EXCEPT ![p] = op[o].values[k]]]
    /\ HavePod(o, k, [op[o] EXCEPT !.candidate[k] = p, !.previous[k] = Current(k)])
    /\ UNCHANGED <<cloud, local, lock, counts, mishaps>>

\* Two Pods, or a Pod that answers the key with 401.
PodRefused(o) ==
    LET k == First(op[o].left) IN
    /\ op[o].step = "pods"
    /\ \/ Ambiguous(k)
       \/ /\ op[o].task = "ensure" /\ Alive(k) # {}
          /\ podKey[k][Current(k)] # op[o].values[k]
    /\ Refuse(o)

\* The candidate never gets ready, and its deletion, unchecked, fails as well;
\* or reading the image digest raises, before anything would delete it.
CandidateStays(o) ==
    LET k == First(op[o].left)  p == made[k] + 1 IN
    /\ op[o].step = "pods" /\ "pods" \in Failing /\ faults < MaxFaults
    /\ made[k] < MaxPods /\ op[o].values[k] # 0
    /\ IF op[o].task = "ensure" THEN Alive(k) = {} ELSE ~Ambiguous(k)
    /\ faults' = faults + 1
    /\ made' = [made EXCEPT ![k] = p]
    /\ podKey' = [podKey EXCEPT ![k] = [@ EXCEPT ![p] = op[o].values[k]]]
    /\ mishaps' = mishaps \cup {"candidateLeft"}
    /\ Raise(o)
    /\ UNCHANGED <<cloud, file, drawn, started, stops>>

\* replace and rotate look at both Pods first; rotate has drawn its new key.
Discover(o) ==
    /\ op[o].step = "discover"
    /\ \A k \in Kinds : ~Ambiguous(k)
    /\ LET found == [k \in Kinds |-> Current(k)] IN
       IF op[o].task = "replace"
       THEN /\ resources' = op[o].recorded
            /\ Become(o, [op[o] EXCEPT !.step = "pods", !.left = op[o].target,
                                       !.found = found])
       ELSE /\ resources' = resources
            /\ Become(o, [op[o] EXCEPT !.step = "stage", !.found = found])
    /\ UNCHANGED <<pods, cloud, file, drawn, lock, counts, mishaps>>

DiscoverRefused(o) ==
    /\ op[o].step = "discover" /\ \E k \in Kinds : Ambiguous(k)
    /\ Refuse(o)

\* The old Pods of a replacement or a rotation, after the switch.
Retire(o) ==
    LET k == First(op[o].left)  rest == op[o].left \ {k} IN
    /\ op[o].step = "retire"
    /\ DeleteIfAny(k, IF op[o].task = "replace" THEN op[o].previous[k]
                       ELSE op[o].found[k])
    /\ IF rest # {} THEN GoOver(o, "retire", rest) /\ UNCHANGED lock
       ELSE IF op[o].task = "replace" THEN GoOver(o, "record", {}) /\ UNCHANGED lock
       ELSE Release(o)
    /\ UNCHANGED <<made, cloud, local, counts, mishaps>>

-----------------------------------------------------------------------------
(* The calls to AWS, and the local files.                                   *)

\* _ensure_runtime_keys: blank keys are drawn and kept in the file first.
DrawKeys(o) ==
    LET new(k) == op[o].values[k] = 0 IN
    /\ AtStep(o, "ensure", "keys")
    /\ \A k \in Kinds : new(k) => drawn[k] < MaxKeys
    /\ drawn' = [k \in Kinds |-> IF new(k) THEN drawn[k] + 1 ELSE drawn[k]]
    /\ file' = [k \in Kinds |-> IF new(k) THEN drawn[k] + 1 ELSE file[k]]
    /\ resources' = op[o].recorded
    /\ Become(o, [op[o] EXCEPT
         !.step = "foundation",
         !.values = [k \in Kinds |-> IF new(k) THEN drawn[k] + 1 ELSE @[k]]])
    /\ UNCHANGED <<pods, cloud, lock, counts, mishaps>>

\* stack_status and parameter answer NOT_FOUND when the call fails: the task goes
\* on as if the stack or the binding did not exist.
Misread(o) ==
    /\ op[o].step \in Failing /\ faults < MaxFaults
    /\ faults' = faults + 1
    /\ mishaps' = mishaps \cup {"misread"}

\* cdk deploy of the stack a step of ensure is about.
StackOf(step) == IF step = "foundation" THEN "Foundation" ELSE "Service"

\* A binding written without a foundation is in the way of a new one.
Deployable(s) == /\ "Access" \in stacks
                 /\ s = "Foundation" /\ s \notin stacks => binding = None

DeployStack(o) ==
    LET s == StackOf(op[o].step) IN
    /\ op[o].step \in {"foundation", "service"} /\ Deployable(s)
    /\ stacks' = stacks \cup {s}
    /\ \E new \in {{s} \ stacks, {s}} :
         /\ IF new = {s} \ stacks THEN UNCHANGED <<faults, mishaps>> ELSE Misread(o)
         /\ Become(o, [op[o] EXCEPT
              !.step = IF s = "Service" THEN "install" ELSE "address",
              !.newStacks = @ \cup new])
    /\ UNCHANGED <<pods, secret, binding, applied, local, lock, started, stops>>

NotDeployable(o) ==
    /\ op[o].step \in {"foundation", "service"} /\ ~Deployable(StackOf(op[o].step))
    /\ Refuse(o)

\* The binding before, the elastic IP, DuckDNS.
Address(o) ==
    /\ op[o].step = "address"
    /\ \E unread \in BOOLEAN :
         /\ IF unread THEN Misread(o) ELSE UNCHANGED <<faults, mishaps>>
         /\ Become(o, [op[o] EXCEPT
              !.step = "pods", !.left = Kinds, !.unread = unread,
              !.boundBefore = IF unread THEN None ELSE binding])
    /\ UNCHANGED <<pods, cloud, local, lock, started, stops>>

\* sync_secrets: one secret after the other.
SyncSecret(o) ==
    LET k == First(op[o].left)  rest == op[o].left \ {k} IN
    /\ op[o].step = "sync"
    /\ secret' = [secret EXCEPT ![k] = op[o].values[k]]
    /\ IF rest # {} THEN GoOver(o, "sync", rest) /\ UNCHANGED lock
       ELSE IF op[o].task = "ensure" THEN GoOver(o, "bind", {}) /\ UNCHANGED lock
       ELSE Release(o)
    /\ UNCHANGED <<pods, binding, applied, stacks, local, counts, mishaps>>

\* stage_secret: the new key becomes AWSPENDING.
Stage(o) ==
    LET k == First(op[o].target) IN
    /\ op[o].step = "stage" /\ secret[k] # 0 /\ drawn[k] < MaxKeys
    /\ drawn' = [drawn EXCEPT ![k] = @ + 1]
    /\ Become(o, [op[o] EXCEPT !.step = "pods", !.left = op[o].target,
                               !.values[k] = drawn[k] + 1, !.keyBefore = secret[k]])
    /\ UNCHANGED <<pods, cloud, file, resources, lock, counts, mishaps>>

NoSecret(o) ==
    /\ op[o].step = "stage" /\ secret[First(op[o].target)] = 0
    /\ Refuse(o)

Promote(o) ==
    LET k == First(op[o].target) IN
    /\ op[o].step = "promote"
    /\ secret' = [secret EXCEPT ![k] = op[o].values[k]]
    /\ Become(o, [op[o] EXCEPT !.step = "bind", !.promoted = TRUE])
    /\ UNCHANGED <<pods, binding, applied, stacks, local, lock, counts,
                   mishaps>>

\* put_runtime_binding of the Pods at hand; _binding needs both.
Bind(o) ==
    /\ op[o].step = "bind" /\ \A k \in Kinds : Chosen(o)[k] # 0
    /\ binding' = Chosen(o)
    /\ Become(o, [op[o] EXCEPT !.changed = TRUE,
                               !.step = IF op[o].task = "ensure" THEN "service"
                                        ELSE "reapply"])
    /\ UNCHANGED <<pods, secret, applied, stacks, local, lock, counts, mishaps>>

BindRefused(o) ==
    /\ op[o].step = "bind" /\ \E k \in Kinds : Chosen(o)[k] = 0
    /\ Refuse(o)

Released == \A k \in Kinds : applied[k] # NotApplied

\* deploy-release.sh reads the binding and the secrets as they are now; the
\* release it falls back to gets the same ones.
Containers == [k \in Kinds |-> [pod |-> binding[k], key |-> secret[k]]]

Reapply(o) ==
    /\ op[o].step = "reapply" /\ Released
    /\ applied' = Containers
    /\ IF op[o].task = "replace"
       THEN GoOver(o, "retire", op[o].target)
       ELSE Go(o, "discard")
    /\ UNCHANGED <<pods, secret, binding, stacks, local, lock, counts, mishaps>>

\* The containers have taken the new values when their health check fails.
ReapplyFails(o) ==
    /\ op[o].step = "reapply" /\ Released
    /\ "reapply" \in Failing /\ faults < MaxFaults
    /\ faults' = faults + 1
    /\ applied' = Containers
    /\ Raise(o)
    /\ UNCHANGED <<pods, secret, binding, stacks, file, drawn, started,
                   stops, mishaps>>

NoRelease(o) ==
    /\ op[o].step = "reapply" /\ ~Released
    /\ Refuse(o)

\* cdk destroy also destroys the stacks that were declared to depend on one.
WithDependents(s) == {s, "Service"}

\* The binding is a parameter of the foundation; the containers run in the service.
Destroy(gone) ==
    /\ stacks' = stacks \ gone
    /\ binding' = IF "Foundation" \in gone THEN None ELSE binding
    /\ applied' = IF "Service" \in gone THEN [k \in Kinds |-> NotApplied] ELSE applied

\* Steps whose effect no property here tells apart: the AWSPENDING label is
\* taken away; TLS and runtime files are installed.
Pass(o) ==
    /\ op[o].step \in {"discard", "install"}
    /\ Go(o, IF op[o].step = "discard" THEN "file" ELSE "record")
    /\ UNCHANGED <<pods, cloud, local, lock, counts, mishaps>>

\* update_secret_file
KeepKey(o) ==
    LET k == First(op[o].target) IN
    /\ op[o].step = "file"
    /\ file' = [file EXCEPT ![k] = op[o].values[k]]
    /\ Go(o, "record")
    /\ UNCHANGED <<pods, cloud, drawn, resources, lock, counts, mishaps>>

\* state.save with the Pods of the task.
Record(o) ==
    /\ op[o].step = "record"
    /\ IF op[o].task = "rotate"
       THEN /\ resources' = [op[o].recorded EXCEPT
                               ![First(op[o].target)] = Chosen(o)[First(op[o].target)]]
            /\ GoOver(o, "retire", op[o].target) /\ UNCHANGED lock
       ELSE resources' = Chosen(o) /\ Release(o)
    /\ UNCHANGED <<pods, cloud, file, drawn, counts, mishaps>>

-----------------------------------------------------------------------------
(* Compensation: every call of it may raise too, and is then given up.      *)

NextUndo(o) ==
    LET r == op[o] IN
    CASE r.step = "undoSecret" -> "undoBinding"
      [] r.step = "undoBinding" -> IF r.task = "ensure" THEN "undoPods" ELSE "undoReapply"
      [] r.step = "undoReapply" -> "undoPods"
      [] OTHER -> "end"

\* Fault: a promoted key is discarded like a pending one.
UndoPendingOnly(o) ==
    /\ op[o].step = "undoSecret"
    /\ Go(o, "undoBinding")
    /\ UNCHANGED <<pods, cloud, local, lock, counts, mishaps>>

UndoSecret(o) ==
    LET k == First(op[o].target) IN
    /\ op[o].step = "undoSecret"
    /\ secret' = IF op[o].promoted THEN [secret EXCEPT ![k] = op[o].keyBefore]
                 ELSE secret
    /\ Go(o, "undoBinding")
    /\ UNCHANGED <<pods, binding, applied, stacks, local, lock, counts,
                   mishaps>>

\* Fault: a replacement does not put the binding back.
RestoresOwnOnly(o) == op[o].task = "ensure" /\ op[o].changed /\ ~op[o].unread

\* Whether the task puts the binding back: rotate and ensure only when they
\* know that they changed it, ensure only when it has read what stood there,
\* replace and rotate only if both Pods existed.
Restores(o) ==
    LET bothFound == \A k \in Kinds : op[o].found[k] # 0 IN
    CASE op[o].task = "ensure" -> op[o].changed /\ ~op[o].unread
      [] op[o].task = "replace" -> bothFound
      [] op[o].task = "rotate" -> op[o].changed /\ bothFound

UndoBinding(o) ==
    /\ op[o].step = "undoBinding"
    /\ binding' = IF ~Restores(o) THEN binding
                  ELSE IF op[o].task = "ensure" THEN op[o].boundBefore ELSE op[o].found
    /\ Go(o, IF Restores(o) THEN NextUndo(o) ELSE "undoPods")
    /\ UNCHANGED <<pods, secret, applied, stacks, local, lock, counts, mishaps>>

UndoReapply(o) ==
    /\ op[o].step = "undoReapply"
    /\ applied' = IF Released THEN Containers ELSE applied
    /\ Go(o, "undoPods")
    /\ UNCHANGED <<pods, secret, binding, stacks, local, lock, counts, mishaps>>

\* The candidates go, the last one first; ensure goes on with its stacks.
UndoPods(o) ==
    LET k == Last(op[o].left) IN
    /\ op[o].step = "undoPods" /\ op[o].left # {}
    /\ Delete(k, op[o].candidate[k])
    /\ GoOver(o, "undoPods", op[o].left \ {k})
    /\ UNCHANGED <<made, cloud, local, lock, counts, mishaps>>

\* A call that fails is printed or passed over, at the price of a fault.
GivesUp(mishap) ==
    /\ faults < MaxFaults /\ faults' = faults + 1
    /\ mishaps' = mishaps \cup {mishap}

\* schedule_secret_deletion of all secrets, passing over those it fails for.
DropSecrets(kept) ==
    secret' = [k \in Kinds |-> IF k \in kept THEN secret[k] ELSE 0]

\* The stacks the task takes for its own, and with a new foundation the secrets;
\* the calls that fail leave some of them.
UndoStacks(o) ==
    LET new == op[o].newStacks IN
    /\ op[o].step = "undoPods" /\ op[o].left = {} /\ new # {}
    /\ \E stay \in SUBSET new, kept \in SUBSET Kinds :
         /\ Destroy(UNION {WithDependents(s) : s \in new \ stay})
         /\ IF "Foundation" \in new THEN DropSecrets(kept)
            ELSE kept = {} /\ UNCHANGED secret
         /\ IF stay = {} /\ kept = {} THEN UNCHANGED <<faults, mishaps>>
            ELSE GivesUp("undoFailed")
    /\ Release(o)
    /\ UNCHANGED <<pods, local, started, stops>>

UndoEnds(o) ==
    /\ op[o].step = "undoPods" /\ op[o].left = {} /\ op[o].newStacks = {}
    /\ Release(o)
    /\ UNCHANGED <<pods, cloud, local, counts, mishaps>>

\* A raise inside the compensation of a secret, the binding or a Pod.
UndoFails(o) ==
    LET r == op[o] IN
    /\ r.step \in {"undoSecret", "undoBinding", "undoReapply", "undoPods"}
    /\ r.step = "undoPods" => r.left # {}
    /\ GoOver(o, CASE r.step = "undoSecret" -> "undoBinding" [] OTHER -> "undoPods",
              IF r.step = "undoPods" THEN r.left \ {Last(r.left)} ELSE r.left)
    /\ GivesUp("undoFailed")
    /\ UNCHANGED <<pods, cloud, local, lock, started, stops>>

-----------------------------------------------------------------------------
(* destroy: the Pods by their recorded ids, then by their name, because one *)
(* old Pod may have been left; the stacks, the secrets, the keys.           *)

\* Without a recorded id the first deletion goes by the name as well.
Recorded(o, k) == IF op[o].recorded[k] # 0 THEN op[o].recorded[k] ELSE Current(k)
Findable(o, k) == op[o].recorded[k] = 0 => ~Ambiguous(k)

\* Fault: the Pods are not looked for again by their name.
DeleteRecordedOnly(o) ==
    LET k == Last(op[o].left)  rest == op[o].left \ {k} IN
    /\ op[o].step = "deleteRecorded" /\ Findable(o, k)
    /\ DeleteIfAny(k, Recorded(o, k))
    /\ IF rest = {} THEN GoOver(o, "destroyStacks", {})
       ELSE GoOver(o, "deleteRecorded", rest)
    /\ UNCHANGED <<made, cloud, local, lock, counts, mishaps>>

DeleteRecorded(o) ==
    LET k == Last(op[o].left)  rest == op[o].left \ {k} IN
    /\ op[o].step = "deleteRecorded" /\ Findable(o, k)
    /\ DeleteIfAny(k, Recorded(o, k))
    /\ IF rest = {} THEN GoOver(o, "deleteNamed", Kinds)
       ELSE GoOver(o, "deleteRecorded", rest)
    /\ UNCHANGED <<made, cloud, local, lock, counts, mishaps>>

DeleteNamed(o) ==
    LET k == Last(op[o].left)  rest == op[o].left \ {k} IN
    /\ op[o].step = "deleteNamed" /\ ~Ambiguous(k)
    /\ DeleteIfAny(k, Current(k))
    /\ IF rest = {} THEN GoOver(o, "destroyStacks", {})
       ELSE GoOver(o, "deleteNamed", rest)
    /\ UNCHANGED <<made, cloud, local, lock, counts, mishaps>>

DeleteRefused(o) ==
    /\ LET k == Last(op[o].left) IN
       \/ op[o].step = "deleteRecorded" /\ ~Findable(o, k)
       \/ op[o].step = "deleteNamed" /\ Ambiguous(k)
    /\ Refuse(o)

DestroyStacks(o) ==
    /\ op[o].step = "destroyStacks"
    /\ Destroy({"Service", "Foundation"})
    /\ Go(o, "clear")
    /\ UNCHANGED <<pods, secret, local, lock, counts, mishaps>>

Clear(o) ==
    /\ op[o].step = "clear"
    /\ \E kept \in SUBSET Kinds :
         /\ DropSecrets(kept)
         /\ IF kept = {} THEN UNCHANGED <<faults, mishaps>> ELSE GivesUp("halfDestroyed")
    /\ Go(o, "blank")
    /\ UNCHANGED <<pods, binding, applied, stacks, local, lock, started, stops>>

\* _clear_runtime_keys, state.save
Blank(o) ==
    /\ op[o].step = "blank"
    /\ file' = None /\ resources' = None
    /\ Release(o)
    /\ UNCHANGED <<pods, cloud, drawn, counts, mishaps>>

Bootstrap(o) ==
    /\ op[o].step = "bootstrap"
    /\ stacks' = stacks \cup {"Access"}
    /\ Release(o)
    /\ UNCHANGED <<pods, secret, binding, applied, local, counts, mishaps>>

\* purge_bootstrap: not while a service or a foundation exists.
MayPurge == stacks \cap {"Service", "Foundation"} = {}

Purge(o) ==
    /\ op[o].step = "purge"
    /\ \E purged \in BOOLEAN :
         /\ IF purged THEN Destroy(WithDependents("Access"))
            ELSE UNCHANGED <<stacks, binding, applied>>
         /\ IF purged = MayPurge THEN UNCHANGED <<faults, mishaps>>
            ELSE purged /\ Misread(o)
    /\ Release(o)
    /\ UNCHANGED <<pods, secret, local, started, stops>>

-----------------------------------------------------------------------------
(* What happens beside the tasks.                                           *)

\* The application workflow deploys a release, with no lock of its own.
DeployRelease ==
    /\ "Service" \in stacks /\ binding # None
    /\ \A k \in Kinds : secret[k] # 0
    /\ applied # Containers
    /\ applied' = Containers
    /\ mishaps' = IF Working # {} THEN mishaps \cup {"overlap"} ELSE mishaps
    /\ UNCHANGED <<pods, secret, binding, stacks, local, lock, op, counts>>

\* KeyboardInterrupt is no Exception: the lock goes, nothing is compensated.
Interrupt(o) ==
    /\ o \in Working /\ stops < MaxStops
    /\ stops' = stops + 1
    /\ mishaps' = mishaps \cup {"interrupted"}
    /\ Release(o)
    /\ UNCHANGED <<pods, cloud, local, started, faults>>

\* The process is killed: the lock file stays.
Kill(o) ==
    /\ o \in Working /\ stops < MaxStops
    /\ stops' = stops + 1
    /\ mishaps' = mishaps \cup {"interrupted"}
    /\ lock' = IF lock = o THEN "dead" ELSE lock
    /\ Become(o, NoTask)
    /\ UNCHANGED <<pods, cloud, local, started, faults>>

Init ==
    /\ podKey = [k \in Kinds |-> [p \in 1 .. MaxPods |-> 0]] /\ made = None
    /\ secret = None /\ binding = None /\ applied = [k \in Kinds |-> NotApplied]
    /\ stacks \in {{}, {"Access"}} /\ file = None /\ drawn = None /\ resources = None
    /\ lock = Nobody /\ op = [o \in Operators |-> NoTask]
    /\ started = 0 /\ faults = 0 /\ stops = 0 /\ mishaps = {}

Begin(o) ==
    \/ \E task \in {"ensure", "sync", "destroy", "bootstrap", "purge"} : Load(o, task, {})
    \/ \E target \in (SUBSET Kinds) \ {{}} : Load(o, "replace", target)
    \/ \E k \in Kinds : Load(o, "rotate", {k})
    \/ Lock(o) \/ FindOld(o) \/ Unlink(o)

Apply(o) ==
    \/ DrawKeys(o) \/ DeployStack(o) \/ Address(o) \/ Discover(o) \/ Stage(o)
    \/ ReusePod(o) \/ CreatePod(o) \/ SyncSecret(o) \/ Promote(o) \/ Bind(o)
    \/ Reapply(o) \/ Pass(o) \/ KeepKey(o) \/ Record(o) \/ Retire(o)
    \/ DeleteRecorded(o) \/ DeleteNamed(o) \/ DestroyStacks(o) \/ Clear(o)
    \/ Blank(o) \/ Bootstrap(o) \/ Purge(o)

Refused(o) ==
    \/ PodRefused(o) \/ DiscoverRefused(o) \/ NotDeployable(o) \/ NoSecret(o)
    \/ BindRefused(o) \/ NoRelease(o) \/ DeleteRefused(o)

Compensate(o) ==
    \/ UndoSecret(o) \/ UndoBinding(o) \/ UndoReapply(o) \/ UndoPods(o)
    \/ UndoStacks(o) \/ UndoEnds(o)

Faults(o) ==
    \/ CallFails(o) \/ CandidateStays(o) \/ ReapplyFails(o) \/ UndoFails(o)
    \/ Interrupt(o) \/ Kill(o)

Next ==
    \/ \E o \in Operators :
         Begin(o) \/ Apply(o) \/ Refused(o) \/ Compensate(o) \/ Faults(o)
    \/ LockAges \/ DeployRelease

Spec == Init /\ [][Next]_vars

-----------------------------------------------------------------------------
(* Properties                                                               *)

\* The variables stay in their types.
TypeOK ==
    /\ podKey \in [Kinds -> [1 .. MaxPods -> 0 .. MaxKeys]]
    /\ made \in [Kinds -> 0 .. MaxPods]
    /\ secret \in [Kinds -> 0 .. MaxKeys] /\ file \in [Kinds -> 0 .. MaxKeys]
    /\ binding \in [Kinds -> 0 .. MaxPods] /\ resources \in [Kinds -> 0 .. MaxPods]
    /\ stacks \subseteq Stacks
    /\ lock \in Operators \cup {Nobody, "dead", "old"}

Without(kinds) == mishaps \cap kinds = {}

\* The lock keeps tasks apart; two can run only after somebody unlinked a lock
\* more than six hours old under a task that still ran, be it the task that
\* wrote it or one that had replaced it meanwhile.
OneTaskAtATime ==
    TypeOK /\ (Without({"twoHolders"}) => Cardinality(Working) <= 1)

\* However often tasks fail, are interrupted or leave a candidate behind,
\* there are never more than two Pods of a kind: what destroy relies on.
AtMostTwoPods == \A k \in Kinds : Cardinality(Alive(k)) <= 2

\* When no task runs, the key of the bound Pod, of the secret and of the
\* operator's file are the same, and the containers call a Pod with its key.
KeysAgree ==
    Working = {} /\ Without({"twoHolders", "interrupted", "oldValues", "undoFailed",
                              "candidateLeft", "halfDestroyed"})
    => \A k \in Kinds :
         LET accepts(p, key) == p \in Alive(k) /\ key # 0 => podKey[k][p] = key IN
         /\ binding[k] # 0 => accepts(binding[k], secret[k])
                              /\ accepts(binding[k], file[k])
         /\ Without({"overlap"}) => accepts(applied[k].pod, applied[k].key)

\* When destroy comes to the stacks, it has found every Pod, recorded or not.
DestroyFindsEveryPod ==
    \A o \in Operators : op[o].step \in {"destroyStacks", "clear", "blank"} =>
        \A k \in Kinds : Alive(k) = {}

\* Whatever is deployed can be changed: its bootstrap is not purged under it.
StacksAreBootstrapped ==
    stacks \cap {"Service", "Foundation"} # {} => "Access" \in stacks

\* Whatever a task leaves behind, a later one finds it and can remove it: Pods
\* are few enough to be told apart, destroy finds them all before it forgets
\* them, and no stack outlives the bootstrap that it needs, unless the purge
\* could not read that the stack was there.
NothingIsStranded ==
    Without({"twoHolders"}) =>
        /\ AtMostTwoPods /\ DestroyFindsEveryPod
        /\ Without({"misread"}) => StacksAreBootstrapped

\* The task had no complete pair of Pods to put back.
NoPairBefore(o) == /\ op[o].task \in {"replace", "rotate"}
                   /\ \E k \in Kinds : op[o].found[k] = 0

\* Only destroy deletes the Pod that the binding names; a task that found no
\* pair of Pods, or could not read the binding, has nothing else to name.
DeletesNoBoundPod ==
    [][\A k \in Kinds :
         \/ binding[k] = 0 \/ podKey[k][binding[k]] = podKey'[k][binding[k]]
         \/ \E o \in Operators : op[o].task = "destroy" \/ NoPairBefore(o)
         \/ mishaps' \cap {"twoHolders", "undoFailed", "misread"} # {}]_vars

\* A task that raises before it has switched leaves the Pods and the binding as
\* it found them and every stack that stood, and a replacement or rotation the
\* keys as well, unless it took what it could not read for absent.
FailureIsUndone ==
    [][\A o \in Operators :
         op[o].step = "undoPods" /\ op'[o] = NoTask /\ stops' = stops
         /\ mishaps' \cap {"twoHolders", "undoFailed", "candidateLeft", "misread"} = {}
         => LET before == op[o].before IN
            /\ podKey' = before.podKey /\ before.stacks \subseteq stacks'
            /\ NoPairBefore(o) \/ binding' \in {before.binding, op[o].found}
            /\ op[o].task # "ensure" => secret' = before.secret /\ file' = before.file
       ]_vars

=============================================================================
