--------------------------- MODULE MCIdempotency ---------------------------
(***************************************************************************)
(* Three requests of one key in process p, one of them with another body,  *)
(* and one of the same key in process q.                                   *)
(***************************************************************************)
EXTENDS Idempotency

CONSTANTS r1, r2, r3, r4, k1, p, q

MCKeyOf == [r \in Requests |-> k1]
MCBodyOf == [r \in Requests |-> IF r = r3 THEN "other" ELSE "same"]
MCProcessOf == [r \in Requests |-> IF r = r4 THEN q ELSE p]

=============================================================================
