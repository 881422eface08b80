---------------------------- MODULE AnsweredOnce ----------------------------
(***************************************************************************)
(* What an idempotency key promises: as long as the answer to a key is     *)
(* kept, every call with that key gets it, if it is the same call, and is  *)
(* refused if it is another one.  A call that fails leaves nothing behind. *)
(* Nothing is said of guards, processes, transactions or crashes.          *)
(***************************************************************************)
CONSTANTS Requests, Keys, KeyOf, BodyOf, NoRequest

VARIABLES outcome,    \* what became of each request
          answer,     \* the request that produced the answer it got
          recorded    \* for each key, the request whose answer is kept

promise == <<outcome, answer, recorded>>

PromiseInit ==
    /\ outcome = [r \in Requests |-> "pending"]
    /\ answer = [r \in Requests |-> NoRequest]
    /\ recorded = [k \in Keys |-> NoRequest]

Ends(r, how, source) ==
    /\ outcome[r] = "pending"
    /\ outcome' = [outcome EXCEPT ![r] = how]
    /\ answer' = [answer EXCEPT ![r] = source]

\* The first answer to a key is kept.
FirstAnswer(r) ==
    /\ recorded[KeyOf[r]] = NoRequest
    /\ Ends(r, "answered", r)
    /\ recorded' = [recorded EXCEPT ![KeyOf[r]] = r]

\* The same call gets the answer that is kept ...
SameAnswer(r) ==
    /\ recorded[KeyOf[r]] # NoRequest
    /\ BodyOf[recorded[KeyOf[r]]] = BodyOf[r]
    /\ Ends(r, "answered", recorded[KeyOf[r]]) /\ recorded' = recorded

\* ... and another call is refused.
KeyReused(r) ==
    /\ recorded[KeyOf[r]] # NoRequest
    /\ BodyOf[recorded[KeyOf[r]]] # BodyOf[r]
    /\ Ends(r, "refused", NoRequest) /\ recorded' = recorded

\* Several calls fail at once when their process dies.
Failures(R) ==
    /\ \A r \in R : outcome[r] = "pending"
    /\ outcome' = [r \in Requests |-> IF r \in R THEN "failed" ELSE outcome[r]]
    /\ UNCHANGED <<answer, recorded>>

Forget(k) ==
    /\ recorded' = [recorded EXCEPT ![k] = NoRequest]
    /\ UNCHANGED <<outcome, answer>>

PromiseNext ==
    \/ \E r \in Requests : FirstAnswer(r) \/ SameAnswer(r) \/ KeyReused(r)
    \/ \E R \in SUBSET Requests : Failures(R)
    \/ \E k \in Keys : Forget(k)

PromiseSpec == PromiseInit /\ [][PromiseNext]_promise

=============================================================================
