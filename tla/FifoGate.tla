------------------------------ MODULE FifoGate ------------------------------
(***************************************************************************)
(* BoundedFifoGate (core/admission/gate.py), which lets a bounded number   *)
(* of suggestion requests run, queues some more and refuses the rest.      *)
(*                                                                         *)
(* Each action is what a task does from one await to the next.  The lock   *)
(* of the condition is only ever held within such a step: Condition.wait   *)
(* gives it back before it awaits and takes it again when it is resumed.   *)
(* notify_all makes every waiting task ready; each looks at the predicate  *)
(* when it runs, in whatever order the tasks run, and goes back to sleep   *)
(* if it does not hold.                                                    *)
(***************************************************************************)
EXTENDS Naturals, Sequences, FiniteSets, SequencesExt

CONSTANTS Clients,        \* concurrent requests
          Concurrency,    \* policy.concurrency
          QueueCapacity   \* policy.queue_capacity

ASSUME ClientsAssumption == IsFiniteSet(Clients)
ASSUME PolicyAssumption ==
    Concurrency \in Nat \ {0} /\ QueueCapacity \in Nat \ {0}

VARIABLES
    pc,         \* where each request is
    active,     \* _active
    waiters,    \* _waiters; the token of a request is the request itself
    notified    \* the waiting tasks that a notify_all has made ready

vars == <<pc, active, waiters, notified>>

Places == {"out", "waiting", "holding", "refused"}

Holders == {c \in Clients : pc[c] = "holding"}

Init ==
    /\ pc = [c \in Clients |-> "out"]
    /\ active = 0 /\ waiters = <<>> /\ notified = {}

Goto(c, place) == pc' = [pc EXCEPT ![c] = place]

\* Fault: a free slot is taken although others wait.
FreeAtOnceBarging == active < Concurrency

FreeAtOnce == active < Concurrency /\ waiters = <<>>

\* Fault: one waiter too many.
RoomToWaitOneMore == Len(waiters) <= QueueCapacity

RoomToWait == Len(waiters) < QueueCapacity

Enter(c) ==
    /\ pc[c] \in {"out", "refused"} /\ FreeAtOnce
    /\ Goto(c, "holding") /\ active' = active + 1
    /\ UNCHANGED <<waiters, notified>>

Wait(c) ==
    /\ pc[c] \in {"out", "refused"} /\ ~FreeAtOnce /\ RoomToWait
    /\ Goto(c, "waiting") /\ waiters' = Append(waiters, c)
    /\ UNCHANGED <<active, notified>>

\* OverCapacityError
Refuse(c) ==
    /\ pc[c] \in {"out", "refused"} /\ ~FreeAtOnce /\ ~RoomToWait
    /\ Goto(c, "refused")
    /\ UNCHANGED <<active, waiters, notified>>

\* Fault: whoever is resumed first may go.
MyTurnUnordered(c) == active < Concurrency

\* The predicate of wait_for.
MyTurn(c) == waiters # <<>> /\ Head(waiters) = c /\ active < Concurrency

\* A resumed waiter gets its slot ...
Admit(c) ==
    /\ c \in notified /\ MyTurn(c)
    /\ Goto(c, "holding") /\ active' = active + 1
    /\ waiters' = Tail(waiters) /\ notified' = notified \ {c}

\* ... or sleeps again.
SleepAgain(c) ==
    /\ c \in notified /\ ~MyTurn(c)
    /\ notified' = notified \ {c}
    /\ UNCHANGED <<pc, active, waiters>>

\* Fault: the others are not notified.
NotifyNobody(remaining) == notified' = notified \cap remaining

\* notify_all
NotifyAll(remaining) == notified' = remaining

\* A timeout or a cancellation takes the token out and notifies the others,
\* also if the task had been notified itself.
GiveUp(c, place) ==
    /\ pc[c] = "waiting"
    /\ \E i \in 1 .. Len(waiters) :
          /\ waiters[i] = c
          /\ waiters' = RemoveAt(waiters, i)
    /\ NotifyAll({x \in Clients : pc[x] = "waiting"} \ {c})
    /\ Goto(c, place)
    /\ UNCHANGED active

TimeOut(c) == GiveUp(c, "refused")
BeCancelled(c) == GiveUp(c, "out")

\* Fault: the slot is not given back.
SlotLeaks == active

SlotsLeft == active - 1

\* The slot is given back on every way out of the body, an error or a
\* cancellation included.
Release(c) ==
    /\ pc[c] = "holding"
    /\ Goto(c, "out") /\ active' = SlotsLeft
    /\ NotifyAll({x \in Clients : pc[x] = "waiting"})
    /\ UNCHANGED waiters

Next == \E c \in Clients :
    \/ Enter(c) \/ Wait(c) \/ Refuse(c) \/ Admit(c) \/ SleepAgain(c)
    \/ TimeOut(c) \/ BeCancelled(c) \/ Release(c)

Spec == Init /\ [][Next]_vars

-----------------------------------------------------------------------------
(* Properties                                                              *)

\* Every variable holds a value the gate can hold.
TypeOK ==
    /\ pc \in [Clients -> Places]
    /\ active \in Nat
    /\ waiters \in Seq(Clients)
    /\ notified \subseteq Clients

\* The counter is the number of requests in the body, and within the policy: no
\* path through timeout, cancellation or error loses or forges a slot.
SlotsAreCounted == active = Cardinality(Holders) /\ active <= Concurrency

\* The tokens are those of the waiting requests, once each and within bounds.
WaitersAreQueued ==
    /\ Len(waiters) <= QueueCapacity
    /\ \A c \in Clients :
          pc[c] = "waiting" <=> \E i \in 1 .. Len(waiters) : waiters[i] = c
    /\ \A i, j \in 1 .. Len(waiters) : waiters[i] = waiters[j] => i = j
    /\ \A c \in notified : pc[c] = "waiting"

\* No step loses or forges a slot, a token or a place in the queue.
GateInv == TypeOK /\ SlotsAreCounted /\ WaitersAreQueued

\* With one slot, as deployed for suggestions, a free slot and a waiter mean that
\* the first waiter's wake-up is under way: no wake-up is lost.
NoLostWakeUp ==
    waiters # <<>> /\ active < Concurrency => Head(waiters) \in notified

\* The gate serves like a bounded resource in the order of arrival.
Resource == INSTANCE FifoResource WITH
    holders <- Holders, queue <- waiters,
    Slots <- Concurrency, Places <- QueueCapacity

\* Counters, wake-ups, timeouts and cancellations never let a request overtake
\* another or exceed a bound.
ServesInOrder == Resource!ResourceSpec

\* A ready task runs, and a body ends: the suggestion's external calls carry
\* timeouts.  Nobody has to time out or to cancel.
Fairness == \A c \in Clients :
    WF_vars(Admit(c) \/ SleepAgain(c)) /\ WF_vars(Release(c))

FairSpec == Spec /\ Fairness

\* Every waiting request is admitted, unless it gives up.
WaiterIsServed == \A c \in Clients : pc[c] = "waiting" ~> pc[c] # "waiting"

=============================================================================
