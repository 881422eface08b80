------------------------------- MODULE Grounding -------------------------------
(***************************************************************************)
(* get_review_grounding: what the law tool of the MCP server may reply for *)
(* one category of a finished review, and what the API makes of it.  Chat  *)
(* and suggestions both build on it.                                       *)
(***************************************************************************)
EXTENDS FiniteSets

CONSTANT Laws   \* the law texts that may be connected with the review

GroundingStatuses == {"OK", "NO_RESULT", "UNMAPPED_CATEGORY", "UPSTREAM_ERROR", "TIMEOUT"}

\* The tool is missing or raises, is too slow, or answers with a status, which
\* may be none of the known ones, and with the items that have a text.
ToolReplies ==
    {[status |-> s, items |-> {}] : s \in {"no tool", "raises", "slow"}}
      \cup [status : GroundingStatuses \cup {"unknown"}, items : SUBSET Laws]

Normalized(status) ==
    IF status \in GroundingStatuses THEN status ELSE "UPSTREAM_ERROR"

\* Items count for an OK only, and an OK without items is none.
GetReviewGrounding(reply) ==
    LET laws == IF reply.status = "OK" THEN reply.items ELSE {}
    IN  [laws |-> laws,
         status |-> CASE reply.status = "slow" -> "TIMEOUT"
                      [] reply.status = "OK" /\ laws = {} -> "NO_RESULT"
                      [] OTHER -> Normalized(reply.status)]

Groundings == {GetReviewGrounding(reply) : reply \in ToolReplies}
=============================================================================
