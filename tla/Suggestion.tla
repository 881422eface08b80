------------------------------ MODULE Suggestion ------------------------------
(***************************************************************************)
(* One draft that a user asks for about one clause of a finished review:  *)
(* what the clause must have, the law it may rest on, at most two calls of *)
(* the model with the checks of what it wrote, and the answer.             *)
(***************************************************************************)
EXTENDS Naturals, Sequences, SequencesExt, Grounding

VARIABLE draft   \* the request under way and, at its end, the answer

\* What a request needs, in the order in which it is looked for.
Needs == <<"review", "clause", "text", "standard", "id", "values", "category">>
SourceKeys == {"USER", "STANDARD", "GROUNDING"}
\* What is found wrong with a text, in the order of the checks.
Flaws == <<"id", "assertion", "foreign", "number", "vague">>

NoText == [keys |-> {}, flaws |-> {}, explained |-> FALSE]
\* An answer without a draft: it carries no source.
Only(outcome) == [outcome |-> outcome, keys |-> {}, laws |-> {}, confirm |-> {}]
NoAnswer == Only("none")
NoGrounding == [status |-> "none", laws |-> {}]
NoDraft == [step |-> "none", lacks |-> {}, grounding |-> NoGrounding, calls |-> 0,
            text |-> NoText, answer |-> NoAnswer]

\* What the model may say.  A key that is not one of the three fails the schema
\* like any other mismatch, but is told apart.  A text that names no law or
\* article of the grounding does not explain it.
Texts == [keys : (SUBSET SourceKeys) \ {{}}, flaws : SUBSET ToSet(Flaws), explained : BOOLEAN]
Failures == {"slow", "raises", "unparsable", "mismatch", "unknown key", "insufficient"}

-----------------------------------------------------------------------------

Request(lacks) ==
    /\ draft = NoDraft
    /\ draft' = [NoDraft EXCEPT !.step = "asked", !.lacks = lacks]

\* The request ends after that many calls of the model.
AnswerWith(calls, answer) ==
    draft' = [draft EXCEPT !.step = "answered", !.calls = calls, !.answer = answer]

FirstOf(order, found) == Head(SelectSeq(order, LAMBDA x : x \in found))

OutcomeOfLack(lack) ==
    CASE lack = "review" -> "CONFLICT"
      [] lack = "clause" -> "NOT_FOUND"
      [] lack = "values" -> "REQUIRED_VALUE_MISSING"
      [] OTHER -> "INSUFFICIENT_GROUNDING"

Lacking ==
    /\ draft.step = "asked" /\ draft.lacks # {}
    /\ AnswerWith(0, Only(OutcomeOfLack(FirstOf(Needs, draft.lacks))))

Ground ==
    /\ draft.step = "asked" /\ draft.lacks = {}
    /\ \E g \in Groundings : draft' = [draft EXCEPT !.step = "calling", !.grounding = g]

\* The category of the clause is not one the law tool can be asked for.
GroundRefused ==
    /\ draft.step = "asked" /\ draft.lacks = {}
    /\ AnswerWith(0, Only("VALIDATION_ERROR"))

HasLaw == draft.grounding.status = "OK" /\ draft.grounding.laws # {}

\* validate_output: no flaw, and no law that nobody found.
Valid(text) == text.flaws = {} /\ ("GROUNDING" \in text.keys => HasLaw)

\* The first flaw decides; a number from nowhere has an outcome of its own.
OutcomeOfFlawed(text) ==
    IF text.flaws # {} /\ FirstOf(Flaws, text.flaws) = "number"
    THEN "GENERATED_FACT_NOT_GROUNDED" ELSE "LLM_OUTPUT_INVALID"

Called == draft.step = "calling" /\ draft.calls < 2

\* One repair: the second failure is the answer.
Again(outcome) ==
    IF draft.calls = 0 THEN draft' = [draft EXCEPT !.calls = 1]
    ELSE AnswerWith(2, Only(outcome))

\* "insufficient" is a failure of the check, like a flaw: it is repaired once and
\* never reaches the branch that would answer INSUFFICIENT_GROUNDING.
ModelFails(failure) ==
    /\ Called
    /\ IF failure \in {"slow", "raises", "unknown key"}
       THEN AnswerWith(draft.calls + 1, Only(IF failure = "slow" THEN "LLM_TIMEOUT"
                                             ELSE "LLM_OUTPUT_INVALID"))
       ELSE Again("LLM_OUTPUT_INVALID")

ModelWritesFlawed(text) ==
    /\ Called /\ ~Valid(text)
    /\ Again(OutcomeOfFlawed(text))

\* Mutant: a law is a source as soon as the model says so.
SanitizedNever(text) == text.keys

\* A law that the list of changes does not name is not a source of the text.
Sanitized(text) ==
    IF "GROUNDING" \in text.keys /\ ~text.explained THEN text.keys \ {"GROUNDING"}
    ELSE text.keys

Confirmations == IF HasLaw THEN {} ELSE {"law_grounding"}

ModelWrites(text) ==
    /\ Called /\ Valid(text)
    /\ draft' = [draft EXCEPT !.calls = @ + 1, !.step = "answered", !.text = text,
         !.answer = [outcome |-> "GENERATED", keys |-> Sanitized(text),
                     laws |-> IF "GROUNDING" \in Sanitized(text)
                              THEN draft.grounding.laws ELSE {},
                     confirm |-> Confirmations]]

-----------------------------------------------------------------------------

DraftInit == draft = NoDraft

Call == \/ \E failure \in Failures : ModelFails(failure)
        \/ \E text \in Texts : ModelWritesFlawed(text) \/ ModelWrites(text)

DraftNext == (\E lacks \in SUBSET ToSet(Needs) : Request(lacks))
             \/ Lacking \/ Ground \/ GroundRefused \/ Call

-----------------------------------------------------------------------------

\* A draft is shown only if the clause has all it takes and one of at most two
\* texts passed every check; it rests on a law only if the tool found one and
\* the text says what it took from it, and without a law the user is asked to
\* confirm that.  No other answer carries a source.
SuggestionIsGrounded ==
    /\ draft.calls \in 0 .. 2
    /\ draft.answer.outcome = "GENERATED" =>
         /\ draft.lacks = {} /\ draft.text.keys # {} /\ draft.text.flaws = {}
         /\ "GROUNDING" \in draft.answer.keys <=> draft.answer.laws # {}
         /\ draft.answer.laws # {} =>
              draft.grounding.status = "OK" /\ draft.text.explained
         /\ draft.grounding.laws = {} <=> "law_grounding" \in draft.answer.confirm
    /\ draft.answer.outcome # "GENERATED" =>
         draft.answer = Only(draft.answer.outcome)

=============================================================================
