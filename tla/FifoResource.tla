---------------------------- MODULE FifoResource ----------------------------
(***************************************************************************)
(* What the admission gate promises: a resource with a fixed number of     *)
(* slots and a bounded queue, served strictly in the order of arrival.     *)
(* Nothing is said of counters, conditions, wake-ups or timeouts.          *)
(***************************************************************************)
EXTENDS Naturals, Sequences, FiniteSets, SequencesExt

CONSTANTS Clients, Slots, Places

VARIABLES holders,   \* the clients that hold a slot
          queue      \* the clients that wait, in the order of arrival

resource == <<holders, queue>>

FreeSlot == Cardinality(holders) < Slots

Queued(c) == \E i \in 1 .. Len(queue) : queue[i] = c

Outside(c) == c \notin holders /\ ~Queued(c)

ResourceInit == holders = {} /\ queue = <<>>

\* A client gets a slot at once only if nobody waits.
TakeSlot(c) ==
    /\ Outside(c) /\ FreeSlot /\ queue = <<>>
    /\ holders' = holders \cup {c} /\ queue' = queue

JoinQueue(c) ==
    /\ Outside(c) /\ Len(queue) < Places
    /\ queue' = Append(queue, c) /\ holders' = holders

\* Only the client that has waited longest is served.
ServeFirst ==
    /\ queue # <<>> /\ FreeSlot
    /\ holders' = holders \cup {Head(queue)} /\ queue' = Tail(queue)

GiveBack(c) ==
    /\ c \in holders
    /\ holders' = holders \ {c} /\ queue' = queue

\* A client that leaves the queue does not change the order of the others.
LeaveQueue(c) ==
    \E i \in 1 .. Len(queue) :
        /\ queue[i] = c
        /\ queue' = RemoveAt(queue, i)
        /\ holders' = holders

ResourceNext ==
    \/ ServeFirst
    \/ \E c \in Clients : TakeSlot(c) \/ JoinQueue(c) \/ GiveBack(c) \/ LeaveQueue(c)

ResourceSpec == ResourceInit /\ [][ResourceNext]_resource

=============================================================================
