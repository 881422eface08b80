-------------------------- MODULE ReviewLifecycle --------------------------
(***************************************************************************)
(* What the ledger of reviews promises to every reader of the database:   *)
(* each review follows the life cycle of the Review aggregate             *)
(* (api/app/domains/reviews/domain.py), and a review is accepted only into *)
(* a session that has no other active one.  Nothing is said of queues,    *)
(* tasks, threads, versions or restarts: ReviewQueue implements this      *)
(* specification whatever they do.                                        *)
(***************************************************************************)
CONSTANTS Reviews,    \* the identities a review can have
          Sessions,   \* the upload sessions reviews belong to
          NoSession   \* the owner of a review that does not exist yet

VARIABLES state,      \* state[r]: the persisted ReviewState of r
          owner       \* owner[r]: the session r was accepted for

lifecycleVars == <<state, owner>>

\* "ABSENT" stands for a row that has not been inserted.
ReviewStates == {"ABSENT", "QUEUED", "REVIEWING", "COMPLETED",
                 "FAILED", "CANCELLED", "EXPIRED"}

ActiveStates == {"QUEUED", "REVIEWING"}

\* The states each transition method of the aggregate accepts, with the state
\* it leaves: queued, start, complete, fail, cancel, expire.
Moves ==
    {<<"ABSENT", "QUEUED">>, <<"QUEUED", "REVIEWING">>,
     <<"REVIEWING", "COMPLETED">>}
      \cup (ActiveStates \X {"FAILED"})
      \cup ({"QUEUED", "REVIEWING", "COMPLETED", "FAILED"} \X {"CANCELLED"})
      \cup ({"COMPLETED", "FAILED", "CANCELLED"} \X {"EXPIRED"})

LifecycleInit ==
    /\ state = [r \in Reviews |-> "ABSENT"]
    /\ owner = [r \in Reviews |-> NoSession]

\* A row may stay as it is or make one move.
RowStep(r) ==
    /\ \/ state'[r] = state[r]
       \/ <<state[r], state'[r]>> \in Moves
    /\ \/ owner'[r] = owner[r]
       \/ state[r] = "ABSENT" /\ owner'[r] \in Sessions

\* A newly accepted review is the only active review of its session.
AcceptedAlone(r) ==
    state[r] = "ABSENT" /\ state'[r] = "QUEUED" =>
        \A x \in Reviews \ {r} :
            owner'[x] = owner'[r] => state'[x] \notin ActiveStates

LifecycleNext == \A r \in Reviews : RowStep(r) /\ AcceptedAlone(r)

LifecycleSpec == LifecycleInit /\ [][LifecycleNext]_lifecycleVars

=============================================================================
