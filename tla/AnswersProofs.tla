----------------------------- MODULE AnswersProofs -----------------------------
(***************************************************************************)
(* Proofs about what is answered on a finished review, for any clauses,    *)
(* laws, questions and replies.                                            *)
(*                                                                         *)
(* A draft: SuggestionIsGrounded, from what a step may count on.           *)
(*                                                                         *)
(* The conversation: TokenMarksPlace and ChainIsWhole, from ChatInv, which *)
(* says at every step of an answer which clauses of the plan are done and  *)
(* what is left.  What it needs of numbers is proved by the least          *)
(* counterexample (LeastNumber).                                           *)
(***************************************************************************)
EXTENDS ChatAnswer, Suggestion, FunctionTheorems, FiniteSetTheorems, SequenceTheorems,
        WellFoundedInduction, TLAPS

-----------------------------------------------------------------------------
(* A draft.                                                                *)

\* How a request ends without a draft.
Refusals == {"none", "CONFLICT", "NOT_FOUND", "REQUIRED_VALUE_MISSING",
             "INSUFFICIENT_GROUNDING", "VALIDATION_ERROR", "LLM_TIMEOUT",
             "LLM_OUTPUT_INVALID", "GENERATED_FACT_NOT_GROUNDED"}

DraftSpec == DraftInit /\ [][DraftNext]_draft

\* What a step of the request may count on.
StepInv ==
    /\ draft.step \in {"none", "asked", "calling"} => draft.answer = NoAnswer
    /\ draft.step \in {"none", "asked"} => draft.calls = 0
    /\ draft.step = "calling" => draft.lacks = {} /\ draft.grounding \in Groundings

DraftShape ==
    draft \in [step : {"none", "asked", "calling", "answered"}, lacks : SUBSET ToSet(Needs),
               grounding : Groundings \cup {NoGrounding}, calls : 0 .. 2,
               text : Texts \cup {NoText},
               answer : [outcome : Refusals \cup {"GENERATED"}, keys : SUBSET SourceKeys, laws : SUBSET Laws,
                         confirm : SUBSET {"law_grounding"}]]

DraftInv == DraftShape /\ StepInv /\ SuggestionIsGrounded

-----------------------------------------------------------------------------

\* The answer of a request that has none yet.
LEMMA NoAnswerIsOnly ==
    /\ NoAnswer.outcome # "GENERATED" /\ NoAnswer = Only(NoAnswer.outcome)
    /\ NoAnswer \in [outcome : Refusals \cup {"GENERATED"}, keys : SUBSET SourceKeys, laws : SUBSET Laws,
                     confirm : SUBSET {"law_grounding"}]
BY DEF NoAnswer, Only, Refusals

\* The law tool's reply counts as OK just when there are laws to rest on.
LEMMA OkMeansLaws ==
    ASSUME NEW g \in Groundings
    PROVE  g.laws \subseteq Laws /\ (g.status = "OK" <=> g.laws # {})
<1>1. PICK reply \in ToolReplies : g = GetReviewGrounding(reply)
  BY DEF Groundings
<1>2. CASE reply \in {[status |-> s, items |-> {}] : s \in {"no tool", "raises", "slow"}}
  <2>1. PICK s \in {"no tool", "raises", "slow"} : reply = [status |-> s, items |-> {}]
    BY <1>2
  <2>2. g = [laws |-> {}, status |-> IF s = "slow" THEN "TIMEOUT" ELSE "UPSTREAM_ERROR"]
    BY <1>1, <2>1 DEF GetReviewGrounding, Normalized, GroundingStatuses
  <2>. QED
    BY <2>2
<1>3. CASE reply \in [status : GroundingStatuses \cup {"unknown"}, items : SUBSET Laws]
  <2>1. reply.status \in GroundingStatuses \cup {"unknown"} /\ reply.items \subseteq Laws
    BY <1>3
  <2>2. CASE reply.status = "OK"
    <3>1. g = [laws |-> reply.items,
               status |-> IF reply.items = {} THEN "NO_RESULT" ELSE "OK"]
      BY <1>1, <2>2 DEF GetReviewGrounding, Normalized, GroundingStatuses
    <3>. QED
      BY <2>1, <3>1
  <2>3. CASE reply.status # "OK"
    <3>1. PICK status : status # "OK" /\ g = [laws |-> {}, status |-> status]
      BY <1>1, <2>1, <2>3 DEF GetReviewGrounding, Normalized, GroundingStatuses
    <3>. QED
      BY <3>1
  <2>. QED
    BY <2>2, <2>3
<1>. QED
  BY <1>1, <1>2, <1>3 DEF ToolReplies

\* Ending a request with an answer that has no source keeps the invariant.
LEMMA EndWithoutText ==
    ASSUME DraftInv, NEW outcome \in Refusals,
           NEW calls \in 0 .. 2, AnswerWith(calls, Only(outcome))
    PROVE  DraftInv'
<1> DEFINE answer == Only(outcome)
<1>1. draft' = [step |-> "answered", lacks |-> draft.lacks, grounding |-> draft.grounding,
                calls |-> calls, text |-> draft.text, answer |-> answer]
  BY DEF AnswerWith, DraftInv, DraftShape
<1>2. answer = [outcome |-> outcome, keys |-> {}, laws |-> {}, confirm |-> {}]
  BY DEF Only
<1>3. /\ answer.outcome # "GENERATED" /\ answer = Only(answer.outcome)
      /\ answer \in [outcome : Refusals \cup {"GENERATED"}, keys : SUBSET SourceKeys, laws : SUBSET Laws,
                     confirm : SUBSET {"law_grounding"}]
  BY <1>2 DEF Only, Refusals
<1> HIDE DEF answer
<1>4. DraftShape'
  BY <1>1, <1>3 DEF DraftInv, DraftShape
<1>5. StepInv'
  BY <1>1 DEF StepInv
<1>6. SuggestionIsGrounded'
  BY <1>1, <1>3 DEF SuggestionIsGrounded
<1>. QED
  BY <1>4, <1>5, <1>6 DEF DraftInv

\* The first failure of the model costs a call, the second ends the request.
LEMMA AgainKeepsInv ==
    ASSUME DraftInv, Called, NEW outcome \in Refusals, Again(outcome)
    PROVE  DraftInv'
<1>1. draft.answer = NoAnswer
  BY DEF DraftInv, StepInv, Called
<1>2. CASE draft.calls = 0
  <2>1. draft' = [step |-> draft.step, lacks |-> draft.lacks, grounding |-> draft.grounding,
                  calls |-> 1, text |-> draft.text, answer |-> draft.answer]
    BY <1>2 DEF Again, DraftInv, DraftShape
  <2>2. DraftShape'
    BY <2>1 DEF DraftInv, DraftShape
  <2>3. StepInv' /\ SuggestionIsGrounded'
    BY <2>1, <1>1, NoAnswerIsOnly DEF DraftInv, StepInv, SuggestionIsGrounded, Called
  <2>. QED
    BY <2>2, <2>3 DEF DraftInv
<1>3. CASE draft.calls # 0
  BY <1>1, <1>3, EndWithoutText DEF Again
<1>. QED
  BY <1>2, <1>3

\* A text that passed every check: what it rests on was found and explained.
LEMMA WriteKeepsInv ==
    ASSUME DraftInv, NEW text \in Texts, ModelWrites(text)
    PROVE  DraftInv'
<1> DEFINE keys == Sanitized(text)
           laws == IF "GROUNDING" \in keys THEN draft.grounding.laws ELSE {}
<1>1. draft' = [step |-> "answered", lacks |-> draft.lacks, grounding |-> draft.grounding,
                calls |-> draft.calls + 1, text |-> text,
                answer |-> [outcome |-> "GENERATED", keys |-> keys, laws |-> laws,
                            confirm |-> Confirmations]]
  BY DEF ModelWrites, DraftInv, DraftShape
<1>2. /\ draft.grounding \in Groundings /\ draft.lacks = {} /\ draft.calls \in 0 .. 1
  BY DEF ModelWrites, Called, DraftInv, DraftShape, StepInv
<1>3. /\ draft.grounding.laws \subseteq Laws
      /\ draft.grounding.status = "OK" <=> draft.grounding.laws # {}
  BY <1>2, OkMeansLaws
<1>4. /\ text.keys \in SUBSET SourceKeys /\ text.keys # {} /\ text.flaws = {}
      /\ "GROUNDING" \in text.keys => HasLaw
  BY DEF ModelWrites, Valid, Texts
<1>5. /\ keys \in SUBSET SourceKeys
      /\ "GROUNDING" \in keys => text.explained /\ HasLaw
  BY <1>4 DEF Sanitized
<1>6. /\ laws \subseteq Laws /\ ("GROUNDING" \in keys <=> laws # {})
      /\ laws # {} => draft.grounding.status = "OK" /\ text.explained
      /\ Confirmations \in SUBSET {"law_grounding"}
      /\ draft.grounding.laws = {} <=> "law_grounding" \in Confirmations
  BY <1>3, <1>5 DEF HasLaw, Confirmations
<1> HIDE DEF keys, laws
<1>7. DraftShape'
  <2>1. /\ draft.lacks \in SUBSET ToSet(Needs) /\ draft.calls + 1 \in 0 .. 2
        /\ draft.grounding \in Groundings \cup {NoGrounding}
        /\ text \in Texts \cup {NoText}
    BY <1>2 DEF DraftInv, DraftShape
  <2>2. [outcome |-> "GENERATED", keys |-> keys, laws |-> laws, confirm |-> Confirmations]
          \in [outcome : Refusals \cup {"GENERATED"}, keys : SUBSET SourceKeys,
               laws : SUBSET Laws, confirm : SUBSET {"law_grounding"}]
    BY <1>5, <1>6
  <2>. QED
    BY <1>1, <2>1, <2>2 DEF DraftShape
<1>8. StepInv'
  BY <1>1 DEF StepInv
<1>9. SuggestionIsGrounded'
  BY <1>1, <1>2, <1>4, <1>6 DEF SuggestionIsGrounded
<1>. QED
  BY <1>7, <1>8, <1>9 DEF DraftInv

\* A request that arrives, and the state before any, hold no draft.
LEMMA FreshKeepsInv ==
    ASSUME NEW lacks \in SUBSET ToSet(Needs), NEW step \in {"none", "asked"},
           NEW d, d = [step |-> step, lacks |-> lacks, grounding |-> NoGrounding, calls |-> 0,
                       text |-> NoText, answer |-> NoAnswer]
    PROVE  /\ d \in [step : {"none", "asked", "calling", "answered"},
                     lacks : SUBSET ToSet(Needs),
                     grounding : Groundings \cup {NoGrounding}, calls : 0 .. 2,
                     text : Texts \cup {NoText},
                     answer : [outcome : Refusals \cup {"GENERATED"}, keys : SUBSET SourceKeys,
                               laws : SUBSET Laws, confirm : SUBSET {"law_grounding"}]]
           /\ d.step = step /\ d.calls = 0 /\ d.answer = NoAnswer
<1>1. NoAnswer \in [outcome : Refusals \cup {"GENERATED"}, keys : SUBSET SourceKeys, laws : SUBSET Laws,
                    confirm : SUBSET {"law_grounding"}]
  BY NoAnswerIsOnly
<1>. QED
  BY <1>1

\* Every step keeps the invariant.
LEMMA StepKeepsDraftInv ==
    ASSUME DraftInv, [DraftNext]_draft
    PROVE  DraftInv'
<1>1. ASSUME NEW lacks \in SUBSET ToSet(Needs), Request(lacks)
      PROVE  DraftInv'
  <2>1. draft' = [step |-> "asked", lacks |-> lacks, grounding |-> NoGrounding, calls |-> 0,
                  text |-> NoText, answer |-> NoAnswer]
    BY <1>1 DEF Request, NoDraft
  <2>2. DraftShape' /\ draft'.step = "asked" /\ draft'.calls = 0 /\ draft'.answer = NoAnswer
    BY <2>1, FreshKeepsInv DEF DraftShape
  <2>3. StepInv' /\ SuggestionIsGrounded'
    BY <2>2, NoAnswerIsOnly DEF StepInv, SuggestionIsGrounded
  <2>. QED
    BY <2>2, <2>3 DEF DraftInv
<1>2. CASE Lacking
  <2>1. OutcomeOfLack(FirstOf(Needs, draft.lacks))
          \in Refusals
    BY DEF OutcomeOfLack, Refusals
  <2>. QED
    BY <1>2, <2>1, EndWithoutText DEF Lacking
<1>3. CASE GroundRefused
  BY <1>3, EndWithoutText DEF GroundRefused, Refusals
<1>4. CASE Ground
  <2>1. PICK g \in Groundings : draft' = [draft EXCEPT !.step = "calling", !.grounding = g]
    BY <1>4 DEF Ground
  <2>2. draft' = [step |-> "calling", lacks |-> draft.lacks, grounding |-> g,
                  calls |-> draft.calls, text |-> draft.text, answer |-> draft.answer]
    BY <2>1 DEF DraftInv, DraftShape
  <2>3. draft.lacks = {} /\ draft.answer = NoAnswer
    BY <1>4 DEF Ground, DraftInv, StepInv
  <2>4. DraftShape'
    BY <2>2 DEF DraftInv, DraftShape
  <2>5. StepInv' /\ SuggestionIsGrounded'
    BY <2>2, <2>3, <2>4, NoAnswerIsOnly DEF DraftShape, StepInv, SuggestionIsGrounded
  <2>. QED
    BY <2>4, <2>5 DEF DraftInv
<1>5. ASSUME NEW failure \in Failures, ModelFails(failure)
      PROVE  DraftInv'
  <2>1. CASE failure \in {"slow", "raises", "unknown key"}
    <3> DEFINE outcome == IF failure = "slow" THEN "LLM_TIMEOUT" ELSE "LLM_OUTPUT_INVALID"
    <3>1. draft.calls + 1 \in 0 .. 2
      <4>1. draft.calls \in 0 .. 2
        BY DEF DraftInv, DraftShape
      <4>2. draft.calls < 2
        BY <1>5 DEF ModelFails, Called
      <4>. QED
        BY <4>1, <4>2
    <3>2. AnswerWith(draft.calls + 1, Only(outcome))
      BY <1>5, <2>1 DEF ModelFails
    <3>3. outcome \in Refusals
      BY DEF Refusals
    <3> HIDE DEF outcome
    <3>. QED
      BY <3>1, <3>2, <3>3, EndWithoutText
  <2>2. CASE failure \notin {"slow", "raises", "unknown key"}
    <3>1. Called /\ Again("LLM_OUTPUT_INVALID")
      BY <1>5, <2>2 DEF ModelFails
    <3>. QED
      BY <3>1, AgainKeepsInv DEF Refusals
  <2>. QED
    BY <2>1, <2>2
<1>6. ASSUME NEW text \in Texts, ModelWritesFlawed(text)
      PROVE  DraftInv'
  <2> DEFINE outcome == OutcomeOfFlawed(text)
  <2>1. outcome \in Refusals
    BY DEF OutcomeOfFlawed, Refusals
  <2>2. Called /\ Again(outcome)
    BY <1>6 DEF ModelWritesFlawed
  <2> HIDE DEF outcome
  <2>. QED
    BY <2>1, <2>2, AgainKeepsInv
<1>7. ASSUME NEW text \in Texts, ModelWrites(text)
      PROVE  DraftInv'
  BY <1>7, WriteKeepsInv
<1>8. CASE UNCHANGED draft
  BY <1>8 DEF DraftInv, DraftShape, StepInv, SuggestionIsGrounded
<1>. QED
  BY <1>1, <1>2, <1>3, <1>4, <1>5, <1>6, <1>7, <1>8 DEF DraftNext, Call

\* No draft that is shown rests on a law nobody found, on a text that failed a check
\* or on a third call: generate_suggestion, for any laws and replies.
THEOREM DraftsAreGrounded == DraftSpec => []SuggestionIsGrounded
<1>1. ASSUME DraftInit
      PROVE  DraftInv
  <2>1. draft = [step |-> "none", lacks |-> {}, grounding |-> NoGrounding, calls |-> 0,
                 text |-> NoText, answer |-> NoAnswer]
    BY <1>1 DEF DraftInit, NoDraft
  <2>2. DraftShape /\ draft.step = "none" /\ draft.calls = 0 /\ draft.answer = NoAnswer
    BY <2>1, FreshKeepsInv DEF DraftShape
  <2>3. StepInv /\ SuggestionIsGrounded
    BY <2>2, NoAnswerIsOnly DEF StepInv, SuggestionIsGrounded
  <2>. QED
    BY <2>2, <2>3 DEF DraftInv
<1>2. DraftInv /\ [DraftNext]_draft => DraftInv'
  BY StepKeepsDraftInv
<1>3. DraftInv => SuggestionIsGrounded
  BY DEF DraftInv
<1>. QED
  BY <1>1, <1>2, <1>3, PTL DEF DraftSpec

-----------------------------------------------------------------------------
(* The conversation: the inductive invariant.                              *)

ChatSpec == ChatInit /\ [][ChatNext]_chatVars

PlanItems == Clauses \cup Laws
Known == Categories \cup {"none", "FIXED", "UNKNOWN", "OUT_OF_SCOPE"}
Outcomes == {"none", "ANSWERED", "REFUSED", "LLM_OUTPUT_INVALID", "FAILED"}
StoredContexts == [category : Known, target : SUBSET Clauses, offset : Nat]
Pieces == [item : PlanItems, paragraphs : Seq(Nat) \ {<<>>}]
Jobs == [step : {"none", "asked", "understanding", "evidence", "composing"},
         q : Questions \cup {NoQuestion}, token : Nat, json : BOOLEAN,
         context : StoredContexts, category : Known, left : Seq(Pieces),
         consumed : Nat, said : SUBSET PlanItems, spoken : BOOLEAN]
Chains == [plan : Seq(PlanItems), covered : SUBSET PlanItems, start : Nat, token : Nat]

ChatTypes ==
    /\ contexts \in Seq(StoredContexts) /\ job \in Jobs /\ chain \in Chains
    /\ lapsed \in 0 .. Len(contexts) /\ last \in 0 .. Len(contexts)
    /\ job.token \in 0 .. Len(contexts) /\ chain.token \in 0 .. Len(contexts)
    /\ shown \in Outcomes /\ asked \in 0 .. MaxQuestions /\ faults \in 0 .. MaxFaults

\* A question works with the context of its token or with none, and has said
\* nothing before it composes.
JobInv ==
    /\ job.step \in {"understanding", "evidence", "composing"} =>
         \/ job.context = NoContext
         \/ job.token # 0 /\ job.q.focus = 0 /\ job.context = contexts[job.token]
    /\ job.step # "composing" => job.said = {}

\* The clauses that a plan names, in their order, and then its laws.
Named(c) == ToSet(c.plan) \cap Clauses
Count(c) == Cardinality(Named(c))

PlanInv ==
    /\ Count(chain) <= Len(chain.plan)
    /\ \A i \in 1 .. Count(chain) : chain.plan[i] = Ordered(Named(chain))[i]
    /\ \A i \in Count(chain) + 1 .. Len(chain.plan) : chain.plan[i] \in Laws

\* Just the clauses of the plan up to n are in that set.
UpTo(items, n) == \A i \in 1 .. Count(chain) : chain.plan[i] \in items <=> i <= n

\* The context of an answer that broke off: TokenMarksPlace, by numbers.
MarkInv ==
    chain.token # 0 =>
      /\ contexts[chain.token].target = Named(chain)
      /\ Plain(chain) => UpTo(chain.covered, contexts[chain.token].offset)

\* What is left of the plan behind the offset.
LeftInv ==
    /\ Count(chain) - job.consumed <= Len(job.left)
    /\ \A j \in DOMAIN job.left :
         IF job.consumed + j <= Count(chain)
         THEN job.left[j] = Whole(chain.plan[job.consumed + j])
         ELSE job.left[j].item \in Laws

\* While an answer is composed, what has been explained is the part of the plan
\* before the offset.  The JSON endpoint adds what it said only when it ends.
WorkInv ==
    job.step = "composing" =>
      /\ chain.token = 0 /\ Target(job.q, job.context) = Named(chain)
      /\ ~job.json => job.said \subseteq chain.covered
      /\ job.context.offset = 0 =>
           Named(chain) \subseteq (chain.covered \cup job.said) \cup Items(job.left)
      /\ Plain(chain) => UpTo(chain.covered \cup job.said, job.consumed) /\ LeftInv

ChatInv == ChatTypes /\ JobInv /\ PlanInv /\ MarkInv /\ WorkInv

-----------------------------------------------------------------------------
(* A set in ascending order.                                               *)

Rank(S) == [x \in S |-> Cardinality({y \in S : y <= x})]

\* The ranks of a finite set of numbers are 1 .. its size, each of them once.
LEMMA RankIsBijection ==
    ASSUME NEW S \in SUBSET Nat, IsFiniteSet(S)
    PROVE  Rank(S) \in Bijection(S, 1 .. Cardinality(S))
<1>. DEFINE Below(x) == {y \in S : y <= x}
<1>1. Cardinality(S) \in Nat
  BY FS_CardinalityType
<1>2. ASSUME NEW x \in S
      PROVE  /\ IsFiniteSet(Below(x))
             /\ Cardinality(Below(x)) \in 1 .. Cardinality(S)
  <2>1. Below(x) \subseteq S /\ x \in Below(x)
    OBVIOUS
  <2>. HIDE DEF Below
  <2>2. IsFiniteSet(Below(x)) /\ Cardinality(Below(x)) <= Cardinality(S)
    BY <2>1, FS_Subset
  <2>3. Cardinality(Below(x)) \in Nat /\ Cardinality(Below(x)) # 0
    BY <2>1, <2>2, FS_CardinalityType, FS_EmptySet
  <2>. QED
    BY <1>1, <2>2, <2>3
<1>3. ASSUME NEW x \in S, NEW z \in S, x < z
      PROVE  Cardinality(Below(x)) < Cardinality(Below(z))
  <2>1. Below(x) \subseteq Below(z) /\ Below(x) # Below(z)
    <3>1. z \in Below(z) /\ z \notin Below(x)
      BY <1>3
    <3>2. \A y \in Below(x) : y \in Below(z)
      BY <1>3
    <3>. QED
      BY <3>1, <3>2, Zenon
  <2>2. IsFiniteSet(Below(z))
    BY <1>2
  <2>. HIDE DEF Below
  <2>3. Cardinality(Below(x)) <= Cardinality(Below(z)) /\ IsFiniteSet(Below(x))
    BY <2>1, <2>2, FS_Subset
  <2>4. Cardinality(Below(x)) # Cardinality(Below(z))
    BY <2>1, <2>2, FS_Subset
  <2>5. Cardinality(Below(x)) \in Nat /\ Cardinality(Below(z)) \in Nat
    BY <2>2, <2>3, FS_CardinalityType
  <2>. QED
    BY <2>3, <2>4, <2>5
<1>4. Rank(S) \in [S -> 1 .. Cardinality(S)]
  BY <1>2 DEF Rank
<1>5. Rank(S) \in Injection(S, 1 .. Cardinality(S))
  <2>1. \A x \in S : Rank(S)[x] = Cardinality(Below(x)) /\ Rank(S)[x] \in 1 .. Cardinality(S)
    BY <1>4 DEF Rank
  <2>. HIDE DEF Below
  <2>2. ASSUME NEW x \in S, NEW z \in S, x # z
        PROVE  Rank(S)[x] # Rank(S)[z]
    <3>1. x < z \/ z < x
      BY <2>2
    <3>2. CASE x < z
      BY <1>3, <2>1, <3>2
    <3>3. CASE z < x
      BY <1>3, <2>1, <3>3
    <3>. QED
      BY <3>1, <3>2, <3>3
  <2>. QED
    BY <1>4, <2>2, Fun_IsInj
<1>6. IsFiniteSet(1 .. Cardinality(S)) /\ Cardinality(1 .. Cardinality(S)) = Cardinality(S)
  BY <1>1, FS_Interval
<1>7. Rank(S) \in Surjection(S, 1 .. Cardinality(S))
  BY <1>5, <1>6, FS_Injection
<1>. QED
  BY <1>5, <1>7 DEF Bijection

\* Ordered lists each element of a set once.
LEMMA OrderedIsBijection ==
    ASSUME NEW S \in SUBSET Nat, IsFiniteSet(S)
    PROVE  /\ Cardinality(S) \in Nat
           /\ Ordered(S) \in [1 .. Cardinality(S) -> S]
           /\ \A i, j \in 1 .. Cardinality(S) : Ordered(S)[i] = Ordered(S)[j] => i = j
           /\ \A x \in S : \E i \in 1 .. Cardinality(S) : Ordered(S)[i] = x
<1>1. Cardinality(S) \in Nat
  BY FS_CardinalityType
<1>2. /\ Rank(S) \in [S -> 1 .. Cardinality(S)]
      /\ \A x, z \in S : Rank(S)[x] = Rank(S)[z] => x = z
      /\ \A i \in 1 .. Cardinality(S) : \E x \in S : Rank(S)[x] = i
  BY RankIsBijection, Zenon DEF Bijection, Injection, Surjection, IsInjective
<1>3. \A i \in 1 .. Cardinality(S) :
         Ordered(S)[i] = CHOOSE x \in S : Cardinality({y \in S : y <= x}) = i
  BY DEF Ordered
<1>4. \A x \in S : Rank(S)[x] = Cardinality({y \in S : y <= x})
  BY DEF Rank
<1>5. \A i \in 1 .. Cardinality(S) :
         Ordered(S)[i] \in S /\ Rank(S)[Ordered(S)[i]] = i
  <2>. SUFFICES ASSUME NEW i \in 1 .. Cardinality(S)
                PROVE  Ordered(S)[i] \in S /\ Rank(S)[Ordered(S)[i]] = i
    OBVIOUS
  <2>1. \E x \in S : Cardinality({y \in S : y <= x}) = i
    BY <1>2, <1>4
  <2>2. Ordered(S)[i] \in S /\ Cardinality({y \in S : y <= Ordered(S)[i]}) = i
    BY <1>3, <2>1, Zenon
  <2>. QED
    BY <1>4, <2>2
<1>6. Ordered(S) = [i \in 1 .. Cardinality(S) |-> Ordered(S)[i]]
  BY DEF Ordered
<1>7. Ordered(S) \in [1 .. Cardinality(S) -> S]
  BY <1>5, <1>6
<1>8. \A x \in S : Rank(S)[x] \in 1 .. Cardinality(S) /\ Ordered(S)[Rank(S)[x]] = x
  BY <1>2, <1>5
<1>. QED
  BY <1>1, <1>5, <1>7, <1>8

\* The part of ChatAssumption that proofs about plans need.
LEMMA ItemSets ==
    /\ Clauses \subseteq Nat \ {0} /\ Laws \subseteq Nat \ {0} /\ Clauses \cap Laws = {}
    /\ \A S \in SUBSET Clauses : IsFiniteSet(S) /\ S \in SUBSET Nat
    /\ \A S \in SUBSET Laws : IsFiniteSet(S) /\ S \in SUBSET Nat
<1>1. Clauses \subseteq Nat \ {0} /\ Laws \subseteq Nat \ {0} /\ IsFiniteSet(Clauses \cup Laws)
  BY ChatAssumption DEF Clauses
<1>2. \A c \in Clauses, l \in Laws : c < l
  BY ChatAssumption DEF Clauses
<1>3. Clauses \cap Laws = {}
  BY <1>1, <1>2
<1>4. \A S \in SUBSET (Clauses \cup Laws) : IsFiniteSet(S)
  BY <1>1, FS_Subset
<1>. QED
  BY <1>1, <1>3, <1>4

\* A plan names its clauses first, in their order, and its laws behind them.
LEMMA PlanShape ==
    ASSUME NEW T \in SUBSET Clauses, NEW L \in SUBSET Laws, NEW plan,
           plan = Ordered(T) \o Ordered(L)
    PROVE  /\ plan \in Seq(PlanItems) /\ ToSet(plan) \cap Clauses = T
           /\ Cardinality(T) \in Nat /\ Cardinality(T) <= Len(plan)
           /\ \A i \in 1 .. Cardinality(T) : plan[i] = Ordered(T)[i]
           /\ \A i \in Cardinality(T) + 1 .. Len(plan) : plan[i] \in Laws
<1>. DEFINE t == Cardinality(T)  l == Cardinality(L)  f == Ordered(T)  g == Ordered(L)
<1>1. /\ t \in Nat /\ f \in [1 .. t -> T]
      /\ \A x \in T : \E i \in 1 .. t : f[i] = x
  BY ItemSets, OrderedIsBijection
<1>2. l \in Nat /\ g \in [1 .. l -> L]
  BY ItemSets, OrderedIsBijection
<1>. HIDE DEF t, l, f, g
<1>3. f \in Seq(T) /\ Len(f) = t /\ g \in Seq(L) /\ Len(g) = l
  BY <1>1, <1>2
<1>4. f \in Seq(PlanItems) /\ g \in Seq(PlanItems)
  <2>1. f \in [1 .. t -> PlanItems] /\ g \in [1 .. l -> PlanItems]
    BY <1>1, <1>2 DEF PlanItems
  <2>. QED
    BY <2>1, <1>1, <1>2
<1>5. plan = f \o g
  BY DEF f, g
<1>6. /\ plan \in Seq(PlanItems) /\ Len(plan) = t + l
      /\ \A i \in 1 .. t + l : plan[i] = IF i <= t THEN f[i] ELSE g[i - t]
  <2>1. /\ f \o g \in Seq(PlanItems) /\ Len(f \o g) = Len(f) + Len(g)
        /\ \A i \in 1 .. Len(f) + Len(g) :
             (f \o g)[i] = IF i <= Len(f) THEN f[i] ELSE g[i - Len(f)]
    BY <1>4, ConcatProperties, Zenon
  <2>2. Len(f) = t /\ Len(g) = l
    BY <1>3
  <2>. QED
    BY <2>1, <2>2, <1>5, Zenon
<1>7. \A i \in 1 .. t : plan[i] = f[i]
  BY <1>1, <1>2, <1>6
<1>8. \A i \in t + 1 .. Len(plan) : plan[i] \in Laws
  <2>. SUFFICES ASSUME NEW i \in t + 1 .. Len(plan) PROVE plan[i] \in Laws
    OBVIOUS
  <2>1. i - t \in 1 .. l /\ plan[i] = g[i - t]
    BY <1>1, <1>2, <1>6
  <2>. QED
    BY <1>2, <2>1
<1>9. ToSet(plan) \cap Clauses = T
  <2>1. DOMAIN plan = 1 .. t + l
    BY <1>6, LenProperties
  <2>2. ASSUME NEW x \in T PROVE x \in ToSet(plan)
    <3>1. PICK i \in 1 .. t : f[i] = x
      BY <1>1
    <3>2. i \in DOMAIN plan /\ plan[i] = x
      BY <1>1, <1>2, <1>7, <2>1, <3>1
    <3>. QED
      BY <3>2 DEF ToSet
  <2>3. ASSUME NEW x \in ToSet(plan), x \in Clauses PROVE x \in T
    <3>1. PICK i \in DOMAIN plan : plan[i] = x
      BY DEF ToSet
    <3>2. i \in 1 .. t \/ i \in t + 1 .. Len(plan)
      BY <1>1, <1>2, <1>6, <2>1
    <3>3. i \in 1 .. t
      BY <1>8, <2>3, <3>1, <3>2, ItemSets
    <3>. QED
      BY <1>1, <1>7, <3>1, <3>3
  <2>. QED
    BY <2>2, <2>3
<1>. QED
  BY <1>1, <1>2, <1>6, <1>7, <1>8, <1>9 DEF t, f

-----------------------------------------------------------------------------
(* Induction over numbers, by the least counterexample.                    *)

\* A set of numbers that has one has a least one: the counterexample to a fact
\* about all numbers that a proof may begin with.
LEMMA LeastNumber ==
    ASSUME NEW S \in SUBSET Nat, S # {}
    PROVE  \E n \in S : \A m \in S : n <= m
<1>. DEFINE R == StrictSubsetOrdering(Nat)
           U == {0 .. n : n \in S}
<1>1. IsWellFoundedOn(R, FiniteSubsetsOf(Nat))
  BY FS_StrictSubsetOrderingWellFounded
<1>2. U \subseteq FiniteSubsetsOf(Nat) /\ U # {}
  <2>. SUFFICES ASSUME NEW n \in S PROVE 0 .. n \in FiniteSubsetsOf(Nat)
    OBVIOUS
  <2>1. IsFiniteSet(0 .. n)
    BY FS_Interval
  <2>. QED
    BY <2>1 DEF FiniteSubsetsOf
<1>3. \A x, y \in SUBSET Nat : x \subseteq y /\ x # y => <<x, y>> \in R
  BY DEF StrictSubsetOrdering
<1>. HIDE DEF R
<1>4. \E x \in U : \A y \in U : ~ (<<y, x>> \in R)
  <2>. HIDE DEF U
  <2>. QED
    BY <1>1, <1>2, WFMin, Zenon
<1>5. PICK n \in S : \A y \in U : ~ (<<y, 0 .. n>> \in R)
  BY <1>4
<1>6. ASSUME NEW m \in S, ~ (n <= m) PROVE FALSE
  <2>1. (0 .. m) \subseteq (0 .. n) /\ (0 .. m) # (0 .. n)
    BY <1>6
  <2>2. 0 .. m \in SUBSET Nat /\ 0 .. n \in SUBSET Nat
    OBVIOUS
  <2>. QED
    BY <1>3, <1>5, <2>1, <2>2
<1>. QED
  BY <1>6

\* The library's Max is the greatest of numbers that have a bound.
LEMMA MaxOfBounded ==
    ASSUME NEW b \in Nat, NEW S \in SUBSET (1 .. b), S # {}
    PROVE  Max(S) \in S /\ \A k \in S : k <= Max(S)
<1>. DEFINE U == {b - k : k \in S}
<1>1. \A k \in S : k \in 1 .. b /\ b - k \in Nat /\ b - k \in U
  OBVIOUS
<1>2. U \in SUBSET Nat /\ U # {}
  BY <1>1
<1>3. PICK n \in U : \A m \in U : n <= m
  <2>. HIDE DEF U
  <2>. QED
    BY <1>2, LeastNumber
<1>4. PICK x \in S : n = b - x
  BY <1>3
<1>5. \A y \in S : x >= y
  <2>. SUFFICES ASSUME NEW y \in S PROVE x >= y
    OBVIOUS
  <2>1. b - x <= b - y
    BY <1>1, <1>3, <1>4
  <2>. QED
    BY <1>1, <2>1
<1>6. Max(S) \in S /\ \A y \in S : Max(S) >= y
  BY <1>5, Zenon DEF Max
<1>. QED
  BY <1>6

-----------------------------------------------------------------------------
(* Segments.                                                               *)

\* An item is split in pieces of itself.
LEMMA SplitOfPiece ==
    ASSUME NEW p \in Pieces
    PROVE  /\ Split(p) \in Seq(Pieces) /\ Len(Split(p)) \in Nat \ {0}
           /\ \A i \in 1 .. Len(Split(p)) : Split(p)[i].item = p.item
<1>1. p.item \in PlanItems /\ p.paragraphs \in Seq(Nat) /\ p.paragraphs # <<>>
  BY DEF Pieces
<1>2. CASE Weight(<<p>>) <= Budget
  BY <1>2 DEF Split
<1>3. CASE ~ (Weight(<<p>>) <= Budget)
  <2>. DEFINE n == Len(p.paragraphs)
              piece(i) == [item |-> p.item, paragraphs |-> <<p.paragraphs[i]>>]
  <2>1. n \in Nat \ {0} /\ DOMAIN p.paragraphs = 1 .. n
    BY <1>1
  <2>2. Split(p) = [i \in 1 .. n |-> piece(i)]
    BY <1>3, <2>1 DEF Split
  <2>3. \A i \in 1 .. n : piece(i) \in Pieces /\ piece(i).item = p.item
    <3>. SUFFICES ASSUME NEW i \in 1 .. n PROVE piece(i) \in Pieces
      OBVIOUS
    <3>1. p.paragraphs[i] \in Nat
      BY <1>1
    <3>2. <<p.paragraphs[i]>> \in Seq(Nat) \ {<<>>}
      BY <3>1
    <3>. QED
      BY <1>1, <3>2 DEF Pieces
  <2>. HIDE DEF piece, n
  <2>4. Split(p) \in [1 .. n -> Pieces]
    BY <2>2, <2>3
  <2>. QED
    BY <2>1, <2>2, <2>3, <2>4
<1>. QED
  BY <1>2, <1>3

\* What is left after its first item has been split.
LEMMA OpenedLeft ==
    ASSUME NEW left \in Seq(Pieces), left # <<>>
    PROVE  \E n \in Nat \ {0} :
             /\ n = Len(Split(left[1])) /\ Len(left) \in Nat \ {0}
             /\ Opened(left) \in Seq(Pieces) /\ Len(Opened(left)) = n + Len(left) - 1
             /\ \A j \in 1 .. n : Opened(left)[j].item = left[1].item
             /\ \A j \in n + 1 .. Len(Opened(left)) : Opened(left)[j] = left[j - n + 1]
<1>. DEFINE first == Split(left[1])  others == Tail(left)  n == Len(first)
<1>1. Len(left) \in Nat \ {0} /\ left[1] \in Pieces /\ Head(left) = left[1]
  BY EmptySeq, ElementOfSeq
<1>2. /\ first \in Seq(Pieces) /\ n \in Nat \ {0}
      /\ \A i \in 1 .. n : first[i].item = left[1].item
  BY <1>1, SplitOfPiece
<1>3. /\ others \in Seq(Pieces) /\ Len(others) = Len(left) - 1
      /\ \A i \in 1 .. Len(others) : others[i] = left[i + 1]
  BY HeadTailProperties
<1>4. Opened(left) = first \o others
  BY <1>1 DEF Opened
<1>. HIDE DEF first, others, n
<1>5. /\ first \o others \in Seq(Pieces) /\ Len(first \o others) = Len(first) + Len(others)
      /\ \A i \in 1 .. Len(first) + Len(others) :
           (first \o others)[i] = IF i <= Len(first) THEN first[i] ELSE others[i - Len(first)]
  BY <1>2, <1>3, ConcatProperties, Zenon
<1>6. /\ Opened(left) \in Seq(Pieces) /\ Len(Opened(left)) = n + Len(others)
      /\ \A i \in 1 .. n + Len(others) :
           Opened(left)[i] = IF i <= n THEN first[i] ELSE others[i - n]
  BY <1>4, <1>5, Zenon DEF n
<1>7. \A j \in 1 .. n : Opened(left)[j].item = left[1].item
  BY <1>1, <1>2, <1>3, <1>6
<1>8. \A j \in n + 1 .. Len(Opened(left)) : Opened(left)[j] = left[j - n + 1]
  <2>. SUFFICES ASSUME NEW j \in n + 1 .. Len(Opened(left))
                PROVE  Opened(left)[j] = left[j - n + 1]
    OBVIOUS
  <2>1. j \in 1 .. n + Len(others) /\ ~ (j <= n) /\ j - n \in 1 .. Len(others)
    BY <1>1, <1>2, <1>3, <1>6
  <2>2. Opened(left)[j] = others[j - n] /\ others[j - n] = left[(j - n) + 1]
    BY <1>3, <1>6, <2>1
  <2>. QED
    BY <2>2
<1>9. Len(Opened(left)) = n + Len(left) - 1
  BY <1>1, <1>2, <1>3, <1>6
<1>10. n = Len(Split(left[1]))
  BY DEF n, first
<1>. QED
  BY <1>1, <1>2, <1>6, <1>7, <1>8, <1>9, <1>10

\* A segment takes at least one piece, and the rest is what comes behind it.
LEMMA CutLeft ==
    ASSUME NEW left \in Seq(Pieces), left # <<>>
    PROVE  \E n \in 1 .. Len(Opened(left)) :
             /\ Cut(left).segment = SubSeq(Opened(left), 1, n)
             /\ Cut(left).rest = SubSeq(Opened(left), n + 1, Len(Opened(left)))
<1>. DEFINE pieces == Opened(left)
            S == {k \in DOMAIN pieces : k = 1 \/ Fits(SubSeq(pieces, 1, k))}
<1>1. pieces \in Seq(Pieces) /\ Len(pieces) \in Nat \ {0}
  <2>1. PICK n \in Nat \ {0} :
           /\ Len(left) \in Nat \ {0}
           /\ pieces \in Seq(Pieces) /\ Len(pieces) = n + Len(left) - 1
    BY OpenedLeft
  <2>. QED
    BY <2>1
<1>2. DOMAIN pieces = 1 .. Len(pieces)
  BY <1>1, LenProperties
<1>3. S \in SUBSET (1 .. Len(pieces)) /\ 1 \in S
  BY <1>1, <1>2
<1>4. Cut(left) = [segment |-> SubSeq(pieces, 1, Max(S)),
                   rest |-> SubSeq(pieces, Max(S) + 1, Len(pieces))]
  BY DEF Cut
<1>. HIDE DEF S, pieces
<1>5. Max(S) \in 1 .. Len(pieces)
  BY <1>1, <1>3, MaxOfBounded
<1>6. /\ Cut(left).segment = SubSeq(pieces, 1, Max(S))
      /\ Cut(left).rest = SubSeq(pieces, Max(S) + 1, Len(pieces))
  <2>1. \A c, a, b : c = [segment |-> a, rest |-> b] => c.segment = a /\ c.rest = b
    OBVIOUS
  <2>. QED
    BY <1>4, <2>1, Zenon
<1>. QED
  BY <1>5, <1>6 DEF pieces

\* The cut divides what was opened.
LEMMA CutDivides ==
    ASSUME NEW left \in Seq(Pieces), left # <<>>
    PROVE  LET n == Len(Cut(left).segment) IN
           /\ n \in 1 .. Len(Opened(left))
           /\ Items(Cut(left).segment) = {Opened(left)[j].item : j \in 1 .. n}
           /\ Cut(left).rest \in Seq(Pieces) /\ Len(Cut(left).rest) = Len(Opened(left)) - n
           /\ \A j \in 1 .. Len(Cut(left).rest) : Cut(left).rest[j] = Opened(left)[n + j]
<1>. DEFINE pieces == Opened(left)  seg == Cut(left).segment  rest == Cut(left).rest
<1>1. pieces \in Seq(Pieces) /\ Len(pieces) \in Nat
  <2>1. pieces \in Seq(Pieces)
    BY OpenedLeft
  <2>. HIDE DEF pieces
  <2>. QED
    BY <2>1
<1>2. PICK n \in 1 .. Len(pieces) :
         /\ seg = SubSeq(pieces, 1, n)
         /\ rest = SubSeq(pieces, n + 1, Len(pieces))
  BY CutLeft
<1>. HIDE DEF pieces, seg, rest
<1>3. \A i \in 1 .. Len(pieces) : pieces[i] \in Pieces
  BY <1>1, ElementOfSeq
<1>4. /\ seg \in Seq(Pieces) /\ Len(seg) = n
      /\ \A i \in 1 .. n : seg[i] = pieces[i]
  <2>1. \A i \in 1 .. n : pieces[i] \in Pieces
    BY <1>1, <1>3
  <2>2. /\ seg \in Seq(Pieces) /\ Len(seg) = IF 1 <= n THEN n - 1 + 1 ELSE 0
        /\ \A i \in 1 .. n - 1 + 1 : seg[i] = pieces[1 + i - 1]
    BY <1>1, <1>2, <2>1, SubSeqProperties
  <2>. QED
    BY <1>1, <2>2
<1>5. /\ rest \in Seq(Pieces) /\ Len(rest) = Len(pieces) - n
      /\ \A j \in 1 .. Len(rest) : rest[j] = pieces[n + j]
  <2>1. \A i \in n + 1 .. Len(pieces) : pieces[i] \in Pieces
    BY <1>1, <1>3
  <2>2. /\ rest \in Seq(Pieces)
        /\ Len(rest) = IF n + 1 <= Len(pieces) THEN Len(pieces) - (n + 1) + 1 ELSE 0
        /\ \A i \in 1 .. Len(pieces) - (n + 1) + 1 : rest[i] = pieces[n + 1 + i - 1]
    BY <1>1, <1>2, <2>1, SubSeqProperties
  <2>. QED
    BY <1>1, <2>2
<1>6. Items(seg) = {pieces[j].item : j \in 1 .. n}
  <2>1. DOMAIN seg = 1 .. n
    BY <1>4, LenProperties
  <2>2. Items(seg) = {seg[i].item : i \in 1 .. n}
    BY <2>1 DEF Items
  <2>. QED
    BY <1>4, <2>2
<1>. QED
  BY <1>1, <1>4, <1>5, <1>6 DEF pieces, seg, rest

-----------------------------------------------------------------------------
(* Types of what the steps work out.                                       *)

\* A question is about clauses of the review, whatever it and its context name.
LEMMA TargetIsClauses ==
    ASSUME NEW q \in Questions \cup {NoQuestion}, NEW context \in StoredContexts
    PROVE  Target(q, context) \in SUBSET Clauses
<1>1. q.focus \in Users \cup {0} /\ q.articles \subseteq Users
  BY ChatAssumption DEF NoQuestion
<1>2. Coded(q.codes) \subseteq Clauses
  BY DEF Coded, Clauses
<1>3. context.target \subseteq Clauses
  BY DEF StoredContexts
<1>. QED
  BY <1>1, <1>2, <1>3 DEF Target, Clauses

\* A reply that needs no model is an answer or a refusal.
LEMMA FixedReplies ==
    ASSUME NEW q
    PROVE  FixedReply(q) \in {None, "ANSWERED", "REFUSED"}
<1>1. /\ SignalReply(q) \in {None, "ANSWERED", "REFUSED"}
      /\ SearchReply(q) \in {None, "ANSWERED", "REFUSED"}
      /\ IntentReply(q) \in {None, "ANSWERED", "REFUSED"}
      /\ PolicyReply(q) \in {None, "ANSWERED", "REFUSED"}
  BY DEF SignalReply, SearchReply, IntentReply, PolicyReply
<1>. QED
  BY <1>1 DEF FixedReply, Or

\* A category that the words settle, or the context has kept, is a known one.
LEMMA RuledCategories ==
    ASSUME NEW q, NEW context \in StoredContexts
    PROVE  RuledCategory(q, context) \in Known
<1>1. context.category \in Known
  BY DEF StoredContexts
<1>2. /\ ContinuationCategory(q, context) \in Known
      /\ AmbiguousCategory(q, context) \in Known
      /\ ComparisonCategory(q) \in Known
  BY <1>1 DEF ContinuationCategory, AmbiguousCategory, ComparisonCategory, Known, Categories, None
<1>. QED
  BY <1>2 DEF RuledCategory, Or

\* Laws that are found are laws.
LEMMA LawsAreLaws ==
    ASSUME NEW laws \in LawsFound
    PROVE  laws \in SUBSET Laws
BY OkMeansLaws DEF LawsFound

\* What starts out or goes on with the same plan.
LEMMA SamePlan ==
    ASSUME chain'.plan = chain.plan, chain'.start = chain.start
    PROVE  /\ Named(chain') = Named(chain) /\ Count(chain') = Count(chain)
           /\ Plain(chain') = Plain(chain)
BY DEF Named, Count, Plain

\* A conversation begins with the invariant.
LEMMA InitKeeps == ChatInit => ChatInv
<1>. SUFFICES ASSUME ChatInit PROVE ChatInv
  OBVIOUS
<1>1. NoContext \in StoredContexts
  BY DEF NoContext, StoredContexts, Known
<1>2. NoJob \in Jobs
  BY <1>1 DEF NoJob, Jobs, Known
<1>3. NoChain \in Chains
  BY DEF NoChain, Chains
<1>4. contexts \in Seq(StoredContexts) /\ Len(contexts) = 0
  BY DEF ChatInit
<1>5. ChatTypes
  BY <1>2, <1>3, <1>4, ChatAssumption DEF ChatInit, ChatTypes, NoJob, NoChain, Outcomes
<1>6. JobInv /\ MarkInv /\ WorkInv
  BY DEF ChatInit, JobInv, MarkInv, WorkInv, NoJob, NoChain
<1>7. PlanInv
  <2>1. ToSet(<<>>) = {} /\ chain.plan = <<>>
    BY DEF ChatInit, NoChain, ToSet
  <2>2. Count(chain) = 0
    BY <2>1, FS_EmptySet DEF Count, Named
  <2>. QED
    BY <2>1, <2>2 DEF PlanInv
<1>. QED
  BY <1>5, <1>6, <1>7 DEF ChatInv

-----------------------------------------------------------------------------
(* The steps.                                                              *)

\* A question goes on before it composes: neither contexts nor the chain change.
LEMMA GoesOnKeeps ==
    ASSUME ChatInv, job' \in Jobs, job'.step # "composing",
           job'.token \in 0 .. Len(contexts), job'.said = {},
           job'.step \in {"understanding", "evidence"} =>
             \/ job'.context = NoContext
             \/ job'.token # 0 /\ job'.q.focus = 0 /\ job'.context = contexts[job'.token],
           contexts' = contexts, last' = last, shown' = shown, chain' = chain,
           lapsed' \in 0 .. Len(contexts), asked' \in 0 .. MaxQuestions,
           faults' \in 0 .. MaxFaults
    PROVE  ChatInv'
<1>1. ChatTypes'
  BY DEF ChatInv, ChatTypes
<1>2. JobInv'
  BY DEF JobInv
<1>3. PlanInv' /\ MarkInv'
  BY DEF ChatInv, PlanInv, MarkInv, UpTo, Count, Named, Plain
<1>4. WorkInv'
  BY DEF WorkInv
<1>. QED
  BY <1>1, <1>2, <1>3, <1>4 DEF ChatInv

\* A question is asked with the token on the screen.
LEMMA AskKeeps ==
    ASSUME ChatInv, NEW q \in Questions, Ask(q)
    PROVE  ChatInv'
<1>1. job \in Jobs /\ last \in 0 .. Len(contexts) /\ Len(contexts) \in Nat
  BY DEF ChatInv, ChatTypes
<1>2. job' = [job EXCEPT !.step = "asked", !.q = q, !.token = last] /\ job.said = {}
  BY DEF Ask, NoJob
<1>3. /\ job' \in Jobs /\ job'.step = "asked" /\ job'.token = last /\ job'.said = {}
  <2>1. last \in Nat /\ q \in Questions \cup {NoQuestion}
    BY <1>1
  <2>2. job' \in Jobs
    BY <1>1, <1>2, <2>1 DEF Jobs
  <2>3. job'.step = "asked" /\ job'.token = last
    BY <1>1, <1>2 DEF Jobs
  <2>4. job'.said = job.said
    BY <1>1, <1>2 DEF Jobs
  <2>. QED
    BY <1>2, <2>2, <2>3, <2>4
<1>4. /\ contexts' = contexts /\ last' = last /\ shown' = shown /\ chain' = chain
      /\ lapsed' \in 0 .. Len(contexts) /\ faults' \in 0 .. MaxFaults
      /\ asked' \in 0 .. MaxQuestions
  BY ChatAssumption DEF Ask, ChatInv, ChatTypes
<1>. QED
  BY <1>1, <1>3, <1>4, GoesOnKeeps

\* The same question over the JSON endpoint.
LEMMA FallBackKeeps ==
    ASSUME ChatInv, FallBack
    PROVE  ChatInv'
<1>1. job \in Jobs /\ job.step = "asked" /\ job.token \in 0 .. Len(contexts) /\ job.said = {}
  BY DEF ChatInv, ChatTypes, JobInv, FallBack
<1>2. job' = [job EXCEPT !.json = TRUE]
  BY DEF FallBack
<1>3. /\ job' \in Jobs /\ job'.step = "asked" /\ job'.token = job.token /\ job'.said = {}
  BY <1>1, <1>2 DEF Jobs
<1>4. /\ contexts' = contexts /\ last' = last /\ shown' = shown /\ chain' = chain
      /\ lapsed' \in 0 .. Len(contexts) /\ faults' \in 0 .. MaxFaults
      /\ asked' \in 0 .. MaxQuestions
  BY ChatAssumption DEF FallBack, Fault, ChatInv, ChatTypes
<1>. QED
  BY <1>1, <1>3, <1>4, GoesOnKeeps

\* The context that is loaded is the one of the token, unless there is none.
LEMMA Loaded ==
    ASSUME ChatInv, job.step = "asked"
    PROVE  /\ LoadedContext \in StoredContexts
           /\ \/ LoadedContext = NoContext
              \/ job.token # 0 /\ job.q.focus = 0 /\ LoadedContext = contexts[job.token]
<1>1. /\ contexts \in Seq(StoredContexts) /\ job.token \in 0 .. Len(contexts)
      /\ lapsed \in 0 .. Len(contexts)
  BY DEF ChatInv, ChatTypes
<1>2. NoContext \in StoredContexts
  BY DEF NoContext, StoredContexts, Known
<1>3. CASE job.q.focus # 0 \/ job.token <= lapsed
  BY <1>2, <1>3 DEF LoadedContext
<1>4. CASE ~ (job.q.focus # 0 \/ job.token <= lapsed)
  <2>1. job.token \in 1 .. Len(contexts) /\ job.q.focus = 0
    BY <1>1, <1>4
  <2>2. LoadedContext = contexts[job.token]
    BY <1>4 DEF LoadedContext
  <2>. QED
    BY <1>1, <2>1, <2>2, ElementOfSeq
<1>. QED
  BY <1>3, <1>4

\* The context is loaded.
LEMMA UnderstandKeeps ==
    ASSUME ChatInv, Understand
    PROVE  ChatInv'
<1>1. job \in Jobs /\ job.step = "asked" /\ job.token \in 0 .. Len(contexts) /\ job.said = {}
  BY DEF ChatInv, ChatTypes, JobInv, Understand
<1>2. PICK context \in StoredContexts :
         /\ context = LoadedContext
         /\ \/ context = NoContext
            \/ job.token # 0 /\ job.q.focus = 0 /\ context = contexts[job.token]
  BY <1>1, Loaded
<1>3. job' = [job EXCEPT !.step = "understanding", !.context = context]
  BY <1>2 DEF Understand
<1>4. /\ job' \in Jobs /\ job'.step = "understanding" /\ job'.token = job.token
      /\ job'.said = {} /\ job'.context = context /\ job'.q = job.q
  BY <1>1, <1>3 DEF Jobs
<1>5. /\ contexts' = contexts /\ last' = last /\ shown' = shown /\ chain' = chain
      /\ lapsed' \in 0 .. Len(contexts) /\ faults' \in 0 .. MaxFaults
      /\ asked' \in 0 .. MaxQuestions
  BY DEF Understand, ChatInv, ChatTypes
<1>. QED
  BY <1>1, <1>2, <1>4, <1>5, GoesOnKeeps

\* A category is found.
LEMMA ClassifiedKeeps ==
    ASSUME ChatInv, NeedsCategory, NEW category \in Known, Classified(category)
    PROVE  ChatInv'
<1>1. /\ job \in Jobs /\ job.step = "understanding" /\ job.token \in 0 .. Len(contexts)
      /\ job.said = {}
      /\ \/ job.context = NoContext
         \/ job.token # 0 /\ job.q.focus = 0 /\ job.context = contexts[job.token]
  BY DEF ChatInv, ChatTypes, JobInv, NeedsCategory
<1>2. job' = [job EXCEPT !.step = "evidence", !.category = category]
  BY DEF Classified
<1>3. /\ job' \in Jobs /\ job'.step = "evidence" /\ job'.token = job.token
      /\ job'.said = {} /\ job'.context = job.context /\ job'.q = job.q
  BY <1>1, <1>2 DEF Jobs
<1>4. /\ contexts' = contexts /\ last' = last /\ shown' = shown /\ chain' = chain
      /\ lapsed' \in 0 .. Len(contexts) /\ faults' \in 0 .. MaxFaults
      /\ asked' \in 0 .. MaxQuestions
  BY DEF Classified, ChatInv, ChatTypes
<1>. QED
  BY <1>1, <1>3, <1>4, GoesOnKeeps

\* A lapsed context is not loaded again, but stays in its place.
LEMMA ContextsLapseKeeps ==
    ASSUME ChatInv, ContextsLapse
    PROVE  ChatInv'
<1>1. contexts \in Seq(StoredContexts) /\ Len(contexts) \in Nat
  BY DEF ChatInv, ChatTypes
<1>2. ChatTypes'
  BY <1>1, ChatAssumption DEF ChatInv, ChatTypes, ContextsLapse, Fault
<1>3. JobInv' /\ PlanInv' /\ MarkInv' /\ WorkInv'
  BY DEF ChatInv, JobInv, PlanInv, MarkInv, WorkInv, UpTo, LeftInv, Count, Named, Plain,
         ContextsLapse
<1>. QED
  BY <1>2, <1>3 DEF ChatInv

\* An answer ends: a context may have been stored, and the chain goes on at most
\* as MarkInv has it.
LEMMA EndKeeps ==
    ASSUME ChatInv, job' = NoJob, lapsed' = lapsed, asked' = asked,
           \/ contexts' = contexts
           \/ \E context \in StoredContexts : contexts' = Append(contexts, context),
           last' \in 0 .. Len(contexts'), shown' \in Outcomes, faults' \in 0 .. MaxFaults,
           chain' \in Chains, chain'.token \in 0 .. Len(contexts'),
           chain'.plan = chain.plan, chain'.start = chain.start, MarkInv'
    PROVE  ChatInv'
<1>1. contexts \in Seq(StoredContexts) /\ Len(contexts) \in Nat
  BY DEF ChatInv, ChatTypes
<1>2. contexts' \in Seq(StoredContexts) /\ Len(contexts') \in Nat /\ Len(contexts) <= Len(contexts')
  BY <1>1
<1>3. NoJob \in Jobs
  BY DEF NoJob, NoContext, Jobs, StoredContexts, Known
<1>4. NoJob.step = "none" /\ NoJob.token = 0 /\ NoJob.said = {}
  BY DEF NoJob
<1>5. ChatTypes'
  BY <1>1, <1>2, <1>3, <1>4 DEF ChatInv, ChatTypes
<1>6. JobInv' /\ WorkInv'
  BY <1>4 DEF JobInv, WorkInv
<1>7. PlanInv'
  BY SamePlan DEF ChatInv, PlanInv
<1>. QED
  BY <1>5, <1>6, <1>7 DEF ChatInv

\* What is stored has a type, and what was stored before stays.
LEMMA StoredIsTyped ==
    ASSUME ChatInv, NEW category \in Known, NEW offset \in Nat
    PROVE  /\ Stored(category, offset) \in StoredContexts
           /\ Stored(category, offset).target = Target(job.q, job.context)
           /\ Stored(category, offset).offset = offset
<1>1. job.q \in Questions \cup {NoQuestion} /\ job.context \in StoredContexts
  BY DEF ChatInv, ChatTypes, Jobs
<1>2. Target(job.q, job.context) \in SUBSET Clauses
  BY <1>1, TargetIsClauses
<1>. QED
  BY <1>2 DEF Stored, StoredContexts

\* A context is stored, and its token is on the screen or the event was lost.
LEMMA IssueSteps ==
    ASSUME ChatInv, NEW category \in Known, NEW offset \in Nat, NEW outcome \in Outcomes,
           Issue(category, offset, outcome)
    PROVE  /\ contexts' = Append(contexts, Stored(category, offset))
           /\ Len(contexts') = Len(contexts) + 1
           /\ \A t \in 1 .. Len(contexts) : contexts'[t] = contexts[t]
           /\ contexts'[Len(contexts')] = Stored(category, offset)
           /\ last' \in {0, Len(contexts')} /\ shown' \in Outcomes
           /\ shown' # outcome => shown' = "FAILED"
           /\ faults' \in 0 .. MaxFaults
<1>1. contexts \in Seq(StoredContexts) /\ Stored(category, offset) \in StoredContexts
  BY StoredIsTyped DEF ChatInv, ChatTypes
<1>2. contexts' = Append(contexts, Stored(category, offset))
  BY DEF Issue
<1>3. faults \in Nat /\ faults <= MaxFaults /\ MaxFaults \in Nat
  BY ChatAssumption DEF ChatInv, ChatTypes
<1>4. /\ last' \in {0, Len(contexts')} /\ shown' \in {outcome, "FAILED"}
      /\ faults' \in 0 .. MaxFaults
  BY <1>3 DEF Issue, Fault
<1>5. /\ Len(Append(contexts, Stored(category, offset))) = Len(contexts) + 1
      /\ \A t \in 1 .. Len(contexts) : Append(contexts, Stored(category, offset))[t] = contexts[t]
      /\ Append(contexts, Stored(category, offset))[Len(contexts) + 1] = Stored(category, offset)
  BY <1>1, AppendProperties
<1>. QED
  BY <1>2, <1>4, <1>5 DEF Outcomes

\* The chain is left as it is, or is given up.
LEMMA MarkStays ==
    ASSUME ChatInv, chain'.plan = chain.plan, chain'.start = chain.start,
           \A t \in 1 .. Len(contexts) : contexts'[t] = contexts[t],
           \/ chain'.token = 0
           \/ chain'.token = chain.token /\ chain'.covered = chain.covered
    PROVE  MarkInv'
<1>1. chain.token \in 0 .. Len(contexts) /\ Len(contexts) \in Nat
  BY DEF ChatInv, ChatTypes
<1>2. CASE chain'.token = 0
  BY <1>2 DEF MarkInv
<1>3. CASE chain'.token # 0
  <2>1. chain.token \in 1 .. Len(contexts) /\ chain'.token = chain.token
    BY <1>1, <1>3
  <2>2. contexts'[chain'.token] = contexts[chain.token]
    BY <2>1
  <2>. QED
    BY <1>3, <2>1, <2>2, SamePlan DEF ChatInv, MarkInv, UpTo
<1>. QED
  BY <1>2, <1>3

\* A question that is settled at once, refused or answered: the chain stays or is
\* given up.
LEMMA CompleteKeeps ==
    ASSUME ChatInv, NEW outcome \in Outcomes, NEW category \in Known,
           Complete(outcome, category),
           chain' \in Chains, chain'.plan = chain.plan, chain'.start = chain.start,
           \/ chain'.token = 0
           \/ chain'.token = chain.token /\ chain'.covered = chain.covered
    PROVE  ChatInv'
<1>1. Issue(category, 0, outcome) /\ job' = NoJob /\ lapsed' = lapsed /\ asked' = asked
  BY DEF Complete
<1>2. /\ contexts' = Append(contexts, Stored(category, 0))
      /\ Len(contexts') = Len(contexts) + 1
      /\ \A t \in 1 .. Len(contexts) : contexts'[t] = contexts[t]
      /\ last' \in {0, Len(contexts')} /\ shown' \in Outcomes
      /\ faults' \in 0 .. MaxFaults
  BY <1>1, IssueSteps
<1>3. Stored(category, 0) \in StoredContexts
  BY StoredIsTyped
<1>4. MarkInv'
  BY <1>2, MarkStays
<1>5. Len(contexts) \in Nat /\ chain.token \in 0 .. Len(contexts)
  BY DEF ChatInv, ChatTypes
<1>6. last' \in 0 .. Len(contexts') /\ chain'.token \in 0 .. Len(contexts')
  BY <1>2, <1>5
<1>. QED
  BY <1>1, <1>2, <1>3, <1>4, <1>6, EndKeeps

\* An answer ends without a token, and a chain with it.
LEMMA BrokenKeeps ==
    ASSUME ChatInv, Broken, faults' \in 0 .. MaxFaults
    PROVE  ChatInv'
<1>1. /\ job' = NoJob /\ lapsed' = lapsed /\ asked' = asked /\ contexts' = contexts
      /\ last' = 0 /\ shown' = "FAILED" /\ chain' = [chain EXCEPT !.token = 0]
  BY DEF Broken
<1>2. chain \in Chains /\ Len(contexts) \in Nat
  BY DEF ChatInv, ChatTypes
<1>3. /\ chain' \in Chains /\ chain'.token = 0
      /\ chain'.plan = chain.plan /\ chain'.start = chain.start
  BY <1>1, <1>2 DEF Chains
<1>4. MarkInv'
  BY <1>3 DEF MarkInv
<1>. QED
  BY <1>1, <1>2, <1>3, <1>4, EndKeeps DEF Outcomes

\* The clauses of the plan under way come first, each of them once.
LEMMA PlanClauses ==
    ASSUME ChatInv
    PROVE  /\ Count(chain) \in Nat /\ Count(chain) <= Len(chain.plan) /\ Len(chain.plan) \in Nat
           /\ DOMAIN chain.plan = 1 .. Len(chain.plan)
           /\ \A i \in 1 .. Count(chain) : chain.plan[i] \in Clauses /\ chain.plan[i] \notin Laws
           /\ \A i, j \in 1 .. Count(chain) : chain.plan[i] = chain.plan[j] => i = j
           /\ \A i \in DOMAIN chain.plan : chain.plan[i] \in Clauses => i <= Count(chain)
           /\ \A x \in Named(chain) : \E i \in 1 .. Count(chain) : chain.plan[i] = x
<1>. DEFINE T == Named(chain)  m == Count(chain)
<1>1. T \in SUBSET Clauses /\ IsFiniteSet(T) /\ T \in SUBSET Nat /\ m = Cardinality(T)
  BY ItemSets DEF Named, Count
<1>2. /\ Cardinality(T) \in Nat /\ Ordered(T) \in [1 .. Cardinality(T) -> T]
      /\ \A i, j \in 1 .. Cardinality(T) : Ordered(T)[i] = Ordered(T)[j] => i = j
      /\ \A x \in T : \E i \in 1 .. Cardinality(T) : Ordered(T)[i] = x
  <2>. HIDE DEF T
  <2>. QED
    BY <1>1, OrderedIsBijection
<1>3. /\ m <= Len(chain.plan) /\ \A i \in 1 .. m : chain.plan[i] = Ordered(T)[i]
      /\ \A i \in m + 1 .. Len(chain.plan) : chain.plan[i] \in Laws
  BY DEF ChatInv, PlanInv
<1>4. chain.plan \in Seq(PlanItems)
  BY DEF ChatInv, ChatTypes, Chains
<1>5. DOMAIN chain.plan = 1 .. Len(chain.plan) /\ Len(chain.plan) \in Nat
  BY <1>4, LenProperties
<1>. HIDE DEF T, m
<1>6. \A i \in 1 .. m : chain.plan[i] \in T
  BY <1>1, <1>2, <1>3
<1>7. \A x \in Clauses : x \notin Laws
  BY ItemSets
<1>8. \A i \in DOMAIN chain.plan : chain.plan[i] \in Clauses => i <= m
  <2>. SUFFICES ASSUME NEW i \in 1 .. Len(chain.plan), ~ (i <= m)
                PROVE  chain.plan[i] \in Laws
    BY <1>5, <1>7
  <2>1. i \in m + 1 .. Len(chain.plan)
    BY <1>1, <1>2, <1>5
  <2>. QED
    BY <1>3, <2>1
<1>9. \A i, j \in 1 .. m : chain.plan[i] = chain.plan[j] => i = j
  BY <1>1, <1>2, <1>3
<1>10. \A x \in T : \E i \in 1 .. m : chain.plan[i] = x
  BY <1>1, <1>2, <1>3
<1>. QED
  BY <1>1, <1>2, <1>3, <1>5, <1>6, <1>7, <1>8, <1>9, <1>10 DEF T, m

\* What is left of a plan behind an offset: clauses up to their number, then laws.
LEMMA LeftOfPlan ==
    ASSUME NEW plan \in Seq(PlanItems), NEW m \in Nat, m <= Len(plan),
           \A i \in m + 1 .. Len(plan) : plan[i] \in Laws, NEW offset \in Nat
    PROVE  /\ Pending(plan, offset) \in Seq(Pieces) /\ m - offset <= Len(Pending(plan, offset))
           /\ \A j \in DOMAIN Pending(plan, offset) :
                IF offset + j <= m
                THEN Pending(plan, offset)[j] = Whole(plan[offset + j])
                ELSE Pending(plan, offset)[j].item \in Laws
<1>. DEFINE left == Pending(plan, offset)
<1>1. Len(plan) \in Nat
  OBVIOUS
<1>2. \A i \in 1 .. Len(plan) : plan[i] \in PlanItems
  BY ElementOfSeq
<1>3. \A x \in PlanItems : Whole(x) \in Pieces /\ Whole(x).item = x
  BY ChatAssumption DEF Whole, Pieces, PlanItems, Clauses
<1>4. PICK n \in Nat : 1 .. Len(plan) - offset = 1 .. n /\ n >= Len(plan) - offset
                      /\ (n = 0 \/ n = Len(plan) - offset)
  <2>1. CASE Len(plan) >= offset
    <3>1. Len(plan) - offset \in Nat /\ Len(plan) - offset >= Len(plan) - offset
      BY <1>1, <2>1
    <3>. QED
      BY <3>1
  <2>2. CASE ~ (Len(plan) >= offset)
    <3>1. 0 \in Nat /\ 0 >= Len(plan) - offset
      BY <1>1, <2>2
    <3>2. ASSUME NEW i, i \in 1 .. Len(plan) - offset PROVE FALSE
      BY <1>1, <2>2, <3>2
    <3>3. \A i : i \notin 1 .. 0
      OBVIOUS
    <3>4. 1 .. Len(plan) - offset = 1 .. 0
      BY <3>2, <3>3
    <3>. QED
      BY <3>1, <3>4
  <2>. QED
    BY <2>1, <2>2
<1>5. left = [i \in 1 .. n |-> Whole(plan[offset + i])]
  BY <1>4 DEF Pending
<1>. HIDE DEF left
<1>6. \A i \in 1 .. n : offset + i \in 1 .. Len(plan)
  BY <1>1, <1>4
<1>7. left \in [1 .. n -> Pieces]
  BY <1>2, <1>3, <1>5, <1>6
<1>8. left \in Seq(Pieces) /\ Len(left) = n /\ DOMAIN left = 1 .. n
  BY <1>4, <1>7
<1>9. ASSUME NEW j \in 1 .. n
      PROVE  IF offset + j <= m
             THEN left[j] = Whole(plan[offset + j])
             ELSE left[j].item \in Laws
  <2>1. left[j] = Whole(plan[offset + j]) /\ plan[offset + j] \in PlanItems
    BY <1>2, <1>5, <1>6
  <2>2. left[j].item = plan[offset + j]
    BY <1>3, <2>1
  <2>3. ~ (offset + j <= m) => plan[offset + j] \in Laws
    BY <1>1, <1>6
  <2>. QED
    BY <2>1, <2>2, <2>3
<1>10. m - offset <= Len(left)
  BY <1>1, <1>4, <1>8
<1>. QED
  BY <1>8, <1>9, <1>10 DEF left

\* From its start on, what is left of a plan is all of it.
LEMMA PendingItems ==
    ASSUME NEW plan \in Seq(PlanItems), NEW offset, offset = 0
    PROVE  ToSet(plan) \subseteq Items(Pending(plan, offset))
<1>. SUFFICES ASSUME NEW x \in ToSet(plan) PROVE x \in Items(Pending(plan, offset))
  OBVIOUS
<1>1. DOMAIN plan = 1 .. Len(plan) /\ Len(plan) \in Nat
  OBVIOUS
<1>2. PICK i \in 1 .. Len(plan) : plan[i] = x
  BY <1>1 DEF ToSet
<1>3. i \in 1 .. Len(plan) - offset /\ offset + i = i
  BY <1>1
<1>4. i \in DOMAIN Pending(plan, offset) /\ Pending(plan, offset)[i] = Whole(x)
  BY <1>2, <1>3 DEF Pending
<1>5. Whole(x).item = x
  BY DEF Whole
<1>. QED
  BY <1>4, <1>5 DEF Items

\* A continuation works on the clauses of the answer that broke off.
LEMMA ContinuationTarget ==
    ASSUME ChatInv, job.step = "evidence", Continues
    PROVE  /\ Target(job.q, job.context) = Named(chain)
           /\ Plain(chain) => UpTo(chain.covered, job.context.offset)
<1>1. /\ job.q.focus = 0 /\ job.q.articles = {} /\ job.q.codes = {}
      /\ job.context # NoContext /\ job.context = contexts[chain.token] /\ chain.token # 0
  BY DEF ChatInv, JobInv, Continues, HasExplicitTarget
<1>2. Target(job.q, job.context) = job.context.target
  BY <1>1 DEF Target
<1>. QED
  BY <1>1, <1>2 DEF ChatInv, MarkInv

\* A plan is made and taken up behind the offset: the plan of the chain that is
\* continued, clause by clause, or a new one.
LEMMA ComposeKeeps ==
    ASSUME ChatInv, job.step = "evidence", NEW L \in SUBSET Laws, NEW plan,
           plan = Ordered(Target(job.q, job.context)) \o Ordered(L), Compose(plan)
    PROVE  ChatInv'
<1>1. /\ job \in Jobs /\ chain \in Chains /\ job.said = {}
      /\ job.context \in StoredContexts /\ job.q \in Questions \cup {NoQuestion}
      /\ \/ job.context = NoContext
         \/ job.token # 0 /\ job.q.focus = 0 /\ job.context = contexts[job.token]
  BY DEF ChatInv, ChatTypes, JobInv, Jobs
<1>2. PICK offset \in Nat : offset = job.context.offset
  BY <1>1 DEF StoredContexts
<1>3. PICK T \in SUBSET Clauses : T = Target(job.q, job.context)
  BY <1>1, TargetIsClauses
<1>. DEFINE left == Pending(plan, offset)
<1>4. /\ plan \in Seq(PlanItems) /\ ToSet(plan) \cap Clauses = T
      /\ Cardinality(T) \in Nat /\ Cardinality(T) <= Len(plan)
      /\ \A i \in 1 .. Cardinality(T) : plan[i] = Ordered(T)[i]
      /\ \A i \in Cardinality(T) + 1 .. Len(plan) : plan[i] \in Laws
  <2>1. plan = Ordered(T) \o Ordered(L)
    BY <1>3
  <2>. QED
    BY <2>1, PlanShape, Zenon
<1>5. /\ left \in Seq(Pieces) /\ Cardinality(T) - offset <= Len(left)
      /\ \A j \in DOMAIN left :
           IF offset + j <= Cardinality(T)
           THEN left[j] = Whole(plan[offset + j])
           ELSE left[j].item \in Laws
  <2>1. PICK m \in Nat : m = Cardinality(T)
    BY <1>4
  <2>2. /\ plan \in Seq(PlanItems) /\ m \in Nat /\ m <= Len(plan)
        /\ \A i \in m + 1 .. Len(plan) : plan[i] \in Laws
    BY <1>4, <2>1
  <2>3. /\ Pending(plan, offset) \in Seq(Pieces) /\ m - offset <= Len(Pending(plan, offset))
        /\ \A j \in DOMAIN Pending(plan, offset) :
             IF offset + j <= m
             THEN Pending(plan, offset)[j] = Whole(plan[offset + j])
             ELSE Pending(plan, offset)[j].item \in Laws
    BY <2>2, LeftOfPlan, Zenon
  <2>. QED
    BY <2>1, <2>3, Zenon
<1>6. job' = [job EXCEPT !.step = "composing", !.consumed = offset, !.left = left]
  BY <1>2 DEF Compose
<1>7. offset = 0 => T \subseteq Items(left)
  BY <1>4, PendingItems
<1>. HIDE DEF left
<1>8. /\ job' \in Jobs /\ job'.step = "composing" /\ job'.consumed = offset /\ job'.left = left
      /\ job'.q = job.q /\ job'.context = job.context /\ job'.token = job.token
      /\ job'.said = {} /\ job'.json = job.json
  BY <1>1, <1>5, <1>6 DEF Jobs
<1>9. /\ contexts' = contexts /\ lapsed' = lapsed /\ last' = last /\ shown' = shown
      /\ asked' = asked /\ faults' = faults
  BY DEF Compose
<1>10. JobInv'
  BY <1>1, <1>8, <1>9 DEF JobInv
<1>11. CASE Continues
  <2>1. chain' = [chain EXCEPT !.token = 0]
    BY <1>11 DEF Compose
  <2>2. /\ chain' \in Chains /\ chain'.token = 0 /\ chain'.plan = chain.plan
        /\ chain'.start = chain.start /\ chain'.covered = chain.covered
    BY <1>1, <2>1 DEF Chains
  <2>3. Named(chain') = Named(chain) /\ Count(chain') = Count(chain) /\ Plain(chain') = Plain(chain)
    BY <2>2, SamePlan
  <2>4. ChatTypes'
    BY <1>8, <1>9, <2>2 DEF ChatInv, ChatTypes
  <2>5. PlanInv' /\ MarkInv'
    BY <2>2, <2>3 DEF ChatInv, PlanInv, MarkInv
  <2>6. T = Named(chain) /\ (Plain(chain) => UpTo(chain.covered, offset))
    BY <1>2, <1>3, <1>11, ContinuationTarget
  <2>7. ASSUME Plain(chain)
        PROVE  UpTo(chain.covered, offset)' /\ LeftInv'
    <3>1. T = Named(chain) /\ UpTo(chain.covered, offset)
      BY <2>7, <2>6
    <3>2. Cardinality(T) = Count(chain)
      BY <3>1 DEF Count
    <3>3. \A i \in 1 .. Count(chain) : chain.plan[i] = plan[i]
      BY <1>4, <3>1, <3>2 DEF ChatInv, PlanInv
    <3>4. \A j \in DOMAIN left : offset + j <= Count(chain) =>
             left[j] = Whole(chain.plan[offset + j])
      <4>. SUFFICES ASSUME NEW j \in DOMAIN left, offset + j <= Count(chain)
                    PROVE  left[j] = Whole(chain.plan[offset + j])
        OBVIOUS
      <4>1. j \in Nat \ {0}
        BY <1>5, LenProperties
      <4>2. offset + j \in 1 .. Count(chain)
        BY <1>4, <3>2, <4>1
      <4>. QED
        BY <1>5, <3>2, <3>3, <4>2
    <3>5. LeftInv'
      BY <1>5, <1>8, <2>2, <2>3, <3>2, <3>4 DEF LeftInv
    <3>6. UpTo(chain.covered, offset)'
      BY <2>2, <2>3, <3>1 DEF UpTo
    <3>. QED
      BY <3>5, <3>6
  <2>8. WorkInv'
    <3>1. chain'.covered \cup job'.said = chain'.covered /\ job'.said \subseteq chain'.covered
      BY <1>8
    <3>2. /\ Target(job'.q, job'.context) = Named(chain')
          /\ job'.context.offset = 0 => Named(chain') \subseteq Items(job'.left)
      BY <1>2, <1>3, <1>8, <1>7, <2>3, <2>6
    <3>. QED
      BY <1>8, <2>2, <2>3, <2>7, <3>1, <3>2 DEF WorkInv, UpTo
  <2>. QED
    BY <1>10, <2>4, <2>5, <2>8 DEF ChatInv
<1>12. CASE ~Continues
  <2>1. chain' = [NoChain EXCEPT !.plan = plan, !.start = offset]
    BY <1>2, <1>12 DEF Compose
  <2>2. /\ chain'.token = 0 /\ chain'.plan = plan
        /\ chain'.start = offset /\ chain'.covered = {}
    BY <2>1 DEF NoChain
  <2>3. chain' \in Chains
    BY <1>4, <2>1 DEF Chains, NoChain
  <2>4. Named(chain') = T /\ Count(chain') = Cardinality(T)
    BY <1>4, <2>2 DEF Named, Count
  <2>5. ChatTypes'
    BY <1>8, <1>9, <2>2, <2>3 DEF ChatInv, ChatTypes
  <2>6. PlanInv' /\ MarkInv'
    BY <1>4, <2>2, <2>4 DEF PlanInv, MarkInv
  <2>7. LeftInv'
    BY <1>5, <1>8, <2>2, <2>4 DEF LeftInv
  <2>8. Plain(chain') => UpTo(chain.covered \cup job.said, job.consumed)'
    <3>. SUFFICES ASSUME Plain(chain') PROVE UpTo(chain.covered \cup job.said, job.consumed)'
      OBVIOUS
    <3>1. job'.consumed = 0 /\ chain'.covered \cup job'.said = {}
      BY <1>8, <2>2 DEF Plain
    <3>2. \A i \in 1 .. Count(chain') : ~ (i <= 0)
      BY <1>4, <2>4
    <3>. QED
      BY <3>1, <3>2 DEF UpTo
  <2>9. /\ Target(job'.q, job'.context) = Named(chain')
        /\ job'.context.offset = 0 => Named(chain') \subseteq Items(job'.left)
    BY <1>2, <1>3, <1>8, <1>7, <2>4
  <2>10. WorkInv'
    BY <1>8, <2>2, <2>7, <2>8, <2>9 DEF WorkInv
  <2>. QED
    BY <1>10, <2>5, <2>6, <2>10 DEF ChatInv
<1>. QED
  BY <1>11, <1>12

\* The laws are looked up and the plan is made, or there is nothing to explain.
LEMMA PrepareKeeps ==
    ASSUME ChatInv, Prepare
    PROVE  ChatInv'
<1>1. job.step = "evidence" /\ job.category \in Known /\ chain \in Chains
  BY DEF Prepare, ChatInv, ChatTypes, Jobs
<1>2. PICK laws \in LawsFound :
         IF PlanFor(laws) = <<>>
         THEN Complete("REFUSED", job.category) /\ UNCHANGED chain
         ELSE Compose(PlanFor(laws))
  BY DEF Prepare
<1>3. CASE PlanFor(laws) = <<>>
  BY <1>1, <1>2, <1>3, CompleteKeeps DEF Outcomes
<1>4. CASE PlanFor(laws) # <<>>
  <2>1. laws \in SUBSET Laws
    BY LawsAreLaws
  <2>2. PlanFor(laws) = Ordered(Target(job.q, job.context)) \o Ordered(laws)
    BY <1>4 DEF PlanFor, AnswerPlan
  <2>. QED
    BY <1>1, <1>2, <1>4, <2>1, <2>2, ComposeKeeps
<1>. QED
  BY <1>3, <1>4

\* While a plan without split items is explained, opening what is left changes no
\* clause: it may split a law that comes behind them.
LEMMA OpenedClauses ==
    ASSUME ChatInv, job.step = "composing", job.left # <<>>, Plain(chain),
           NEW opened, opened = Opened(job.left), NEW c, c = job.consumed,
           NEW m, m = Count(chain)
    PROVE  /\ opened \in Seq(Pieces) /\ Len(opened) \in Nat \ {0} /\ c \in Nat /\ m \in Nat
           /\ m - c <= Len(opened)
           /\ \A j \in 1 .. Len(opened) :
                IF c + j <= m THEN opened[j].item = chain.plan[c + j]
                ELSE opened[j].item \in Laws
           /\ \A j \in 2 .. Len(opened) :
                c + j <= m => opened[j] = Whole(chain.plan[c + j])
<1>1. job.left \in Seq(Pieces) /\ c \in Nat
  BY DEF ChatInv, ChatTypes, Jobs
<1>2. PICK left \in Seq(Pieces) : left = job.left /\ left # <<>>
  BY <1>1
<1>3. m \in Nat /\ m <= Len(chain.plan) /\ DOMAIN chain.plan = 1 .. Len(chain.plan)
      /\ Len(chain.plan) \in Nat
  BY PlanClauses
<1>4. /\ m - c <= Len(left) /\ DOMAIN left = 1 .. Len(left)
      /\ \A j \in 1 .. Len(left) :
           IF c + j <= m THEN left[j] = Whole(chain.plan[c + j]) ELSE left[j].item \in Laws
  <2>1. DOMAIN left = 1 .. Len(left)
    BY <1>2, LenProperties
  <2>. QED
    BY <1>2, <2>1 DEF ChatInv, WorkInv, LeftInv
<1>5. PICK h \in Nat \ {0} :
         /\ h = Len(Split(left[1])) /\ Len(left) \in Nat \ {0}
         /\ Opened(left) \in Seq(Pieces) /\ Len(Opened(left)) = h + Len(left) - 1
         /\ \A j \in 1 .. h : Opened(left)[j].item = left[1].item
         /\ \A j \in h + 1 .. Len(Opened(left)) : Opened(left)[j] = left[j - h + 1]
  BY <1>2, OpenedLeft, Zenon
<1>6. /\ h \in Nat \ {0} /\ Len(left) \in Nat \ {0}
      /\ opened \in Seq(Pieces) /\ Len(opened) = h + Len(left) - 1
      /\ \A j \in 1 .. h : opened[j].item = left[1].item
      /\ \A j \in h + 1 .. Len(opened) : opened[j] = left[j - h + 1]
  <2>1. opened = Opened(left)
    BY <1>2
  <2>. QED
    BY <1>5, <2>1, Zenon
<1>7. \A x : Whole(x).item = x
  BY DEF Whole
<1>8. CASE c + 1 <= m
  <2>1. left[1] = Whole(chain.plan[c + 1]) /\ c + 1 \in DOMAIN chain.plan
    BY <1>1, <1>3, <1>4, <1>6, <1>8
  <2>2. h = 1
    BY <1>5, <2>1 DEF Plain
  <2>3. Len(opened) = Len(left) /\ opened[1].item = chain.plan[c + 1]
    BY <1>6, <1>7, <2>1, <2>2
  <2>4. \A j \in 2 .. Len(opened) : opened[j] = left[j]
    BY <1>6, <2>2
  <2>5. \A j \in 2 .. Len(opened) :
           /\ c + j <= m => opened[j] = Whole(chain.plan[c + j])
           /\ ~ (c + j <= m) => opened[j].item \in Laws
    BY <1>4, <2>3, <2>4
  <2>6. ASSUME NEW j \in 1 .. Len(opened)
        PROVE  IF c + j <= m THEN opened[j].item = chain.plan[c + j]
               ELSE opened[j].item \in Laws
    <3>1. CASE j = 1
      BY <1>8, <2>3, <3>1
    <3>2. CASE j # 1
      <4>1. j \in 2 .. Len(opened)
        BY <1>6, <3>2
      <4>. QED
        BY <1>7, <2>5, <4>1
    <3>. QED
      BY <3>1, <3>2
  <2>7. m - c <= Len(opened) /\ Len(opened) \in Nat \ {0}
    BY <1>4, <1>6, <2>3
  <2>. QED
    BY <1>1, <1>3, <1>6, <2>5, <2>6, <2>7
<1>9. CASE ~ (c + 1 <= m)
  <2>1. \A j \in 1 .. Len(left) : left[j].item \in Laws
    BY <1>1, <1>3, <1>4, <1>9
  <2>2. ASSUME NEW j \in 1 .. Len(opened)
        PROVE  opened[j].item \in Laws
    <3>1. CASE j <= h
      <4>1. j \in 1 .. h /\ 1 \in 1 .. Len(left)
        BY <1>6, <3>1
      <4>2. opened[j].item = left[1].item
        BY <1>6, <4>1
      <4>. QED
        BY <2>1, <4>1, <4>2
    <3>2. CASE ~ (j <= h)
      <4>1. j \in h + 1 .. Len(opened) /\ j - h + 1 \in 1 .. Len(left)
        BY <1>6, <3>2
      <4>2. opened[j] = left[j - h + 1]
        BY <1>6, <4>1
      <4>. QED
        BY <2>1, <4>1, <4>2
    <3>. QED
      BY <3>1, <3>2
  <2>3. m - c <= Len(opened) /\ Len(opened) \in Nat \ {0}
    BY <1>1, <1>3, <1>6, <1>9
  <2>4. \A j \in 1 .. Len(opened) : ~ (c + j <= m)
    BY <1>1, <1>3, <1>9
  <2>5. \A j \in 2 .. Len(opened) : ~ (c + j <= m)
    BY <1>1, <1>3, <1>9
  <2>. QED
    BY <1>1, <1>3, <1>6, <2>2, <2>3, <2>4, <2>5
<1>. QED
  BY <1>8, <1>9

\* After a segment the clauses explained are those up to the new offset.
LEMMA SegmentAdvances ==
    ASSUME ChatInv, job.step = "composing", job.left # <<>>, Plain(chain),
           NEW done, UpTo(done, job.consumed)
    PROVE  UpTo(done \cup Items(Cut(job.left).segment),
                job.consumed + Len(Cut(job.left).segment))
<1>. DEFINE c == job.consumed  m == Count(chain)  plan == chain.plan
            opened == Opened(job.left)  n == Len(Cut(job.left).segment)
            said == Items(Cut(job.left).segment)
<1>1. job.left \in Seq(Pieces)
  BY DEF ChatInv, ChatTypes, Jobs
<1>2. n \in 1 .. Len(opened) /\ said = {opened[j].item : j \in 1 .. n}
  BY <1>1, CutDivides, Zenon
<1>3. /\ Len(opened) \in Nat \ {0} /\ c \in Nat /\ m \in Nat
      /\ m - c <= Len(opened)
      /\ \A j \in 1 .. Len(opened) :
           IF c + j <= m THEN opened[j].item = plan[c + j] ELSE opened[j].item \in Laws
  BY OpenedClauses, Zenon
<1>4. /\ \A i \in 1 .. m : plan[i] \notin Laws
      /\ \A i, j \in 1 .. m : plan[i] = plan[j] => i = j
  BY PlanClauses
<1>5. \A i \in 1 .. m : plan[i] \in done <=> i <= c
  BY DEF UpTo
<1>. HIDE DEF c, m, plan, opened, n, said
<1>6. ASSUME NEW i \in 1 .. m
      PROVE  plan[i] \in said <=> (i \in c + 1 .. c + n)
  <2>1. ASSUME plan[i] \in said PROVE i \in c + 1 .. c + n
    <3>1. PICK j \in 1 .. n : opened[j].item = plan[i]
      BY <1>2, <2>1
    <3>2. j \in 1 .. Len(opened)
      BY <1>2, <1>3
    <3>3. c + j <= m /\ plan[c + j] = plan[i]
      BY <1>3, <1>4, <3>1, <3>2
    <3>4. c + j \in 1 .. m
      BY <1>3, <3>2, <3>3
    <3>5. i = c + j
      BY <1>4, <3>3, <3>4
    <3>. QED
      BY <1>2, <1>3, <3>5
  <2>2. ASSUME i \in c + 1 .. c + n PROVE plan[i] \in said
    <3>1. i - c \in 1 .. n /\ i - c \in 1 .. Len(opened) /\ c + (i - c) = i /\ i <= m
      BY <1>2, <1>3, <2>2
    <3>2. opened[i - c].item = plan[i]
      BY <1>3, <3>1
    <3>. QED
      BY <1>2, <3>1, <3>2
  <2>. QED
    BY <2>1, <2>2
<1>7. \A i \in 1 .. m : plan[i] \in (done \cup said) <=> i <= c + n
  BY <1>2, <1>3, <1>5, <1>6
<1>. QED
  BY <1>7 DEF UpTo, c, m, plan, n, said

\* What the segment leaves is what is left of the plan behind the new offset.
LEMMA SegmentLeaves ==
    ASSUME ChatInv, job.step = "composing", job.left # <<>>, Plain(chain),
           NEW rest, rest = Cut(job.left).rest,
           NEW c, c = job.consumed + Len(Cut(job.left).segment)
    PROVE  /\ Count(chain) - c <= Len(rest)
           /\ \A j \in DOMAIN rest :
                IF c + j <= Count(chain) THEN rest[j] = Whole(chain.plan[c + j])
                ELSE rest[j].item \in Laws
<1>. DEFINE before == job.consumed  m == Count(chain)  plan == chain.plan
            opened == Opened(job.left)  n == Len(Cut(job.left).segment)
<1>1. job.left \in Seq(Pieces)
  BY DEF ChatInv, ChatTypes, Jobs
<1>2. /\ n \in 1 .. Len(opened)
      /\ rest \in Seq(Pieces) /\ Len(rest) = Len(opened) - n
      /\ \A j \in 1 .. Len(rest) : rest[j] = opened[n + j]
  BY <1>1, CutDivides, Zenon
<1>3. /\ Len(opened) \in Nat \ {0} /\ before \in Nat /\ m \in Nat
      /\ m - before <= Len(opened)
      /\ \A j \in 1 .. Len(opened) :
           IF before + j <= m THEN opened[j].item = plan[before + j] ELSE opened[j].item \in Laws
      /\ \A j \in 2 .. Len(opened) :
           before + j <= m => opened[j] = Whole(plan[before + j])
  BY OpenedClauses, Zenon
<1>4. c = before + n
  OBVIOUS
<1>5. DOMAIN rest = 1 .. Len(rest)
  BY <1>2, LenProperties
<1>. HIDE DEF before, m, plan, opened, n
<1>6. ASSUME NEW j \in 1 .. Len(rest)
      PROVE  IF c + j <= m THEN rest[j] = Whole(plan[c + j]) ELSE rest[j].item \in Laws
  <2>. DEFINE l == Len(opened)  r == Len(rest)
  <2>1. n + j \in 2 .. l /\ n + j \in 1 .. l /\ c + j = before + (n + j)
    <3>1. n \in 1 .. l /\ l \in Nat /\ r = l - n /\ j \in 1 .. r
      BY <1>2, <1>3
    <3>. HIDE DEF l, r
    <3>2. n \in Nat /\ j \in Nat /\ n >= 1 /\ j >= 1 /\ j <= l - n
      BY <3>1
    <3>3. n + j \in Nat /\ n + j >= 2 /\ n + j <= l
      BY <3>1, <3>2
    <3>4. before \in Nat
      BY <1>3
    <3>5. c + j = before + (n + j)
      BY <1>4, <3>2, <3>4
    <3>. QED
      BY <3>1, <3>3, <3>5
  <2>2. rest[j] = opened[n + j]
    BY <1>2
  <2>3. /\ c + j <= m => opened[n + j] = Whole(plan[c + j])
        /\ ~ (c + j <= m) => opened[n + j].item \in Laws
    BY <1>3, <2>1
  <2>. QED
    BY <2>2, <2>3
<1>7. m - c <= Len(rest)
  BY <1>2, <1>3, <1>4
<1>. QED
  BY <1>5, <1>6, <1>7 DEF m, plan

\* What a segment is about, and what it leaves.
LEMMA SegmentTypes ==
    ASSUME NEW left \in Seq(Pieces), left # <<>>
    PROVE  /\ Items(Cut(left).segment) \in SUBSET PlanItems
           /\ Cut(left).rest \in Seq(Pieces) /\ Len(Cut(left).segment) \in Nat \ {0}
<1>. DEFINE opened == Opened(left)  n == Len(Cut(left).segment)
<1>1. opened \in Seq(Pieces) /\ Len(opened) \in Nat
  <2>1. opened \in Seq(Pieces)
    BY OpenedLeft
  <2>. HIDE DEF opened
  <2>. QED
    BY <2>1
<1>2. /\ n \in 1 .. Len(opened) /\ Cut(left).rest \in Seq(Pieces)
      /\ Items(Cut(left).segment) = {opened[j].item : j \in 1 .. n}
  BY CutDivides, Zenon
<1>. HIDE DEF opened, n
<1>3. \A j \in 1 .. n : opened[j].item \in PlanItems
  <2>. SUFFICES ASSUME NEW j \in 1 .. n PROVE opened[j].item \in PlanItems
    OBVIOUS
  <2>1. j \in 1 .. Len(opened)
    BY <1>1, <1>2
  <2>2. opened[j] \in Pieces
    BY <1>1, <2>1, ElementOfSeq
  <2>. QED
    BY <2>2 DEF Pieces
<1>4. n \in Nat \ {0}
  BY <1>1, <1>2
<1>. QED
  BY <1>2, <1>3, <1>4 DEF n

\* The segment and the rest are about all that was left.
LEMMA CutCovers ==
    ASSUME NEW left \in Seq(Pieces), left # <<>>
    PROVE  Items(left) \subseteq Items(Cut(left).segment) \cup Items(Cut(left).rest)
<1>. DEFINE opened == Opened(left)  n == Len(Cut(left).segment)  rest == Cut(left).rest
            said == Items(Cut(left).segment)
<1>1. PICK h \in Nat \ {0} :
         /\ Len(left) \in Nat \ {0} /\ opened \in Seq(Pieces)
         /\ Len(opened) = h + Len(left) - 1
         /\ \A j \in 1 .. h : opened[j].item = left[1].item
         /\ \A j \in h + 1 .. Len(opened) : opened[j] = left[j - h + 1]
  BY OpenedLeft, Zenon
<1>2. /\ n \in 1 .. Len(opened) /\ said = {opened[j].item : j \in 1 .. n}
      /\ rest \in Seq(Pieces) /\ Len(rest) = Len(opened) - n
      /\ \A j \in 1 .. Len(rest) : rest[j] = opened[n + j]
  BY CutDivides, Zenon
<1>3. DOMAIN left = 1 .. Len(left) /\ DOMAIN rest = 1 .. Len(rest)
  BY <1>2, LenProperties
<1>. HIDE DEF opened, n, rest, said
<1>4. ASSUME NEW i \in 1 .. Len(left)
      PROVE  \E j \in 1 .. Len(opened) : opened[j].item = left[i].item
  <2>1. CASE i = 1
    <3>1. 1 \in 1 .. h /\ 1 \in 1 .. Len(opened)
      BY <1>1
    <3>. QED
      BY <1>1, <2>1, <3>1
  <2>2. CASE i # 1
    <3>1. /\ h + i - 1 \in h + 1 .. Len(opened) /\ h + i - 1 \in 1 .. Len(opened)
          /\ (h + i - 1) - h + 1 = i
      BY <1>1, <2>2
    <3>2. opened[h + i - 1] = left[i]
      BY <1>1, <3>1
    <3>. QED
      BY <3>1, <3>2
  <2>. QED
    BY <2>1, <2>2
<1>5. ASSUME NEW j \in 1 .. Len(opened)
      PROVE  opened[j].item \in said \cup Items(rest)
  <2>1. CASE j <= n
    <3>1. j \in 1 .. n
      BY <1>1, <1>2, <2>1
    <3>. QED
      BY <1>2, <3>1
  <2>2. CASE ~ (j <= n)
    <3>1. j - n \in 1 .. Len(rest) /\ n + (j - n) = j
      BY <1>1, <1>2, <2>2
    <3>2. rest[j - n] = opened[j] /\ j - n \in DOMAIN rest
      BY <1>2, <1>3, <3>1
    <3>. QED
      BY <3>2 DEF Items
  <2>. QED
    BY <2>1, <2>2
<1>6. Items(left) = {left[i].item : i \in 1 .. Len(left)}
  BY <1>3 DEF Items
<1>7. \A x \in Items(left) : x \in said \cup Items(rest)
  BY <1>4, <1>5, <1>6
<1>. QED
  BY <1>7 DEF said, rest

\* A segment completes: the clauses explained and the offset move on together.
LEMMA SegmentCompletesKeeps ==
    ASSUME ChatInv, SegmentCompletes
    PROVE  ChatInv'
<1>. DEFINE said == Items(Cut(job.left).segment)  rest == Cut(job.left).rest
            c == job.consumed + Len(Cut(job.left).segment)
<1>1. /\ job \in Jobs /\ chain \in Chains /\ job.step = "composing" /\ job.left # <<>>
      /\ chain.token = 0
  BY DEF SegmentCompletes, ChatInv, ChatTypes, WorkInv
<1>2. /\ job.left \in Seq(Pieces) /\ job.consumed \in Nat /\ job.said \in SUBSET PlanItems
      /\ job.json \in BOOLEAN /\ job.spoken \in BOOLEAN /\ chain.covered \in SUBSET PlanItems
  BY <1>1 DEF Jobs, Chains
<1>3. said \in SUBSET PlanItems /\ rest \in Seq(Pieces) /\ c \in Nat
  <2>1. Len(Cut(job.left).segment) \in Nat
    BY <1>1, <1>2, SegmentTypes
  <2>. QED
    BY <1>1, <1>2, <2>1, SegmentTypes
<1>4. /\ contexts' = contexts /\ lapsed' = lapsed /\ last' = last /\ shown' = shown
      /\ asked' = asked /\ faults' = faults
      /\ chain' = IF job.json THEN chain ELSE [chain EXCEPT !.covered = chain.covered \cup said]
  BY DEF SegmentCompletes
<1>5. PICK spoken \in BOOLEAN :
         job' = [job EXCEPT !.left = rest, !.consumed = c,
                            !.said = job.said \cup said, !.spoken = spoken]
  BY <1>2 DEF SegmentCompletes
<1>6. Plain(chain) => UpTo((chain.covered \cup job.said) \cup said, c)
  BY <1>1, SegmentAdvances DEF ChatInv, WorkInv
<1>7. Plain(chain) =>
         /\ Count(chain) - c <= Len(rest)
         /\ \A j \in DOMAIN rest :
              IF c + j <= Count(chain) THEN rest[j] = Whole(chain.plan[c + j])
              ELSE rest[j].item \in Laws
  BY <1>1, SegmentLeaves, Zenon
<1>8. /\ Target(job.q, job.context) = Named(chain)
      /\ ~job.json => job.said \subseteq chain.covered
      /\ job.context.offset = 0 =>
           Named(chain) \subseteq (chain.covered \cup job.said) \cup Items(job.left)
  BY <1>1 DEF ChatInv, WorkInv
<1>9. Items(job.left) \subseteq said \cup Items(rest)
  BY <1>1, <1>2, CutCovers
<1>. HIDE DEF said, rest, c
<1>10. job' \in Jobs
  BY <1>1, <1>2, <1>3, <1>5 DEF Jobs
<1>11. /\ job'.step = "composing" /\ job'.left = rest /\ job'.consumed = c
       /\ job'.said = job.said \cup said /\ job'.q = job.q /\ job'.context = job.context
       /\ job'.token = job.token /\ job'.json = job.json
  BY <1>1, <1>5 DEF Jobs
<1>12. /\ chain' \in Chains /\ chain'.token = 0
       /\ chain'.plan = chain.plan /\ chain'.start = chain.start
       /\ chain'.covered = IF job.json THEN chain.covered ELSE chain.covered \cup said
  BY <1>1, <1>2, <1>3, <1>4 DEF Chains
<1>13. Named(chain') = Named(chain) /\ Count(chain') = Count(chain) /\ Plain(chain') = Plain(chain)
  BY <1>12, SamePlan
<1>14. ChatTypes'
  BY <1>4, <1>10, <1>11, <1>12 DEF ChatInv, ChatTypes
<1>15. JobInv'
  BY <1>1, <1>4, <1>11 DEF ChatInv, JobInv
<1>16. PlanInv' /\ MarkInv'
  BY <1>12, <1>13 DEF ChatInv, PlanInv, MarkInv
<1>17. WorkInv'
  <2>1. chain'.covered \cup job'.said = (chain.covered \cup job.said) \cup said
    BY <1>2, <1>11, <1>12
  <2>2. Plain(chain) => UpTo(chain.covered \cup job.said, job.consumed)'
    BY <1>6, <1>11, <1>12, <1>13, <2>1 DEF UpTo
  <2>3. Plain(chain) => LeftInv'
    BY <1>7, <1>11, <1>12, <1>13 DEF LeftInv
  <2>4. ~job'.json => job'.said \subseteq chain'.covered
    BY <1>8, <1>11, <1>12
  <2>5. job'.context.offset = 0 =>
          Named(chain') \subseteq (chain'.covered \cup job'.said) \cup Items(job'.left)
    BY <1>8, <1>11, <1>13, <1>9, <2>1
  <2>. QED
    BY <1>8, <1>11, <1>12, <1>13, <2>2, <2>3, <2>4, <2>5 DEF WorkInv
<1>. QED
  BY <1>14, <1>15, <1>16, <1>17 DEF ChatInv

\* A segment fails: the context that is stored names the clauses of the plan and
\* the place up to which they have been explained.
LEMMA SegmentFailsKeeps ==
    ASSUME ChatInv, SegmentFails
    PROVE  ChatInv'
<1>1. /\ job \in Jobs /\ chain \in Chains /\ job.step = "composing" /\ ~job.json
      /\ Issue(job.category, job.consumed, "FAILED") /\ job' = NoJob
      /\ chain' = [chain EXCEPT !.token = last'] /\ lapsed' = lapsed /\ asked' = asked
  BY DEF SegmentFails, NextOffset, ChatInv, ChatTypes
<1>2. job.category \in Known /\ job.consumed \in Nat /\ "FAILED" \in Outcomes
  BY <1>1 DEF Jobs, Outcomes
<1>. DEFINE stored == Stored(job.category, job.consumed)
<1>3. /\ contexts' = Append(contexts, stored) /\ Len(contexts') = Len(contexts) + 1
      /\ contexts'[Len(contexts')] = stored
      /\ last' \in {0, Len(contexts')} /\ shown' \in Outcomes /\ faults' \in 0 .. MaxFaults
  BY <1>1, <1>2, IssueSteps
<1>4. /\ stored \in StoredContexts /\ stored.target = Target(job.q, job.context)
      /\ stored.offset = job.consumed
  BY <1>2, StoredIsTyped
<1>. HIDE DEF stored
<1>5. Len(contexts) \in Nat
  BY DEF ChatInv, ChatTypes
<1>6. last' \in 0 .. Len(contexts') /\ last' \in Nat
  BY <1>3, <1>5
<1>7. /\ chain' \in Chains /\ chain'.token = last' /\ chain'.covered = chain.covered
      /\ chain'.plan = chain.plan /\ chain'.start = chain.start
  BY <1>1, <1>6 DEF Chains
<1>8. Named(chain') = Named(chain) /\ Count(chain') = Count(chain) /\ Plain(chain') = Plain(chain)
  BY <1>7, SamePlan
<1>9. MarkInv'
  <2>. SUFFICES ASSUME last' # 0
                PROVE  /\ contexts'[last'].target = Named(chain)
                       /\ Plain(chain) => UpTo(chain.covered, contexts'[last'].offset)
    BY <1>7, <1>8 DEF MarkInv, UpTo
  <2>1. contexts'[last'] = stored
    BY <1>3
  <2>2. /\ Target(job.q, job.context) = Named(chain) /\ job.said \subseteq chain.covered
        /\ Plain(chain) => UpTo(chain.covered \cup job.said, job.consumed)
    BY <1>1 DEF ChatInv, WorkInv
  <2>3. chain.covered \cup job.said = chain.covered
    BY <2>2
  <2>. QED
    BY <1>4, <2>1, <2>2, <2>3
<1>. QED
  BY <1>1, <1>3, <1>4, <1>6, <1>7, <1>9, EndKeeps

\* An answer that comes to its end gives its chain up.
LEMMA FinishKeeps ==
    ASSUME ChatInv, Finish
    PROVE  ChatInv'
<1>1. job \in Jobs /\ chain \in Chains /\ job.spoken \in BOOLEAN
      /\ job.category \in Known /\ job.said \in SUBSET PlanItems
  BY DEF ChatInv, ChatTypes, Jobs
<1>2. PICK outcome \in Outcomes : Complete(outcome, job.category)
  BY DEF Finish, Outcomes
<1>3. chain' = [chain EXCEPT !.covered = chain.covered \cup job.said, !.token = 0]
  BY DEF Finish
<1>4. /\ chain' \in Chains /\ chain'.token = 0
      /\ chain'.plan = chain.plan /\ chain'.start = chain.start
  BY <1>1, <1>3 DEF Chains
<1>. QED
  BY <1>1, <1>2, <1>4, CompleteKeeps

\* Routing: the context is loaded, and fixed replies, the words or the router
\* settle the question.
LEMMA RouteKeeps ==
    ASSUME ChatInv, Route
    PROVE  ChatInv'
<1>1. /\ job \in Jobs /\ job.context \in StoredContexts /\ chain \in Chains
      /\ faults \in 0 .. MaxFaults
  BY DEF ChatInv, ChatTypes, Jobs
<1>2. CASE Understand
  BY <1>2, UnderstandKeeps
<1>3. CASE ReplyAtOnce
  <2>1. PICK reply : reply = FixedReply(job.q)
    OBVIOUS
  <2>2. reply \in Outcomes
    BY <1>3, <2>1, FixedReplies DEF ReplyAtOnce, Outcomes
  <2>3. Complete(reply, "FIXED") /\ chain' = chain /\ "FIXED" \in Known
    BY <1>3, <2>1 DEF ReplyAtOnce, Known
  <2>. QED
    BY <1>1, <2>2, <2>3, CompleteKeeps
<1>4. CASE ClassifyByRule
  <2>1. PICK category \in Known : category = RuledCategory(job.q, job.context)
    BY <1>1, RuledCategories
  <2>. QED
    BY <1>4, <2>1, ClassifiedKeeps DEF ClassifyByRule
<1>5. CASE ClassifyByRouter
  <2>1. PICK category \in Categories : NeedsCategory /\ Classified(category)
    BY <1>5 DEF ClassifyByRouter
  <2>2. category \in Known
    BY DEF Known
  <2>. QED
    BY <2>1, <2>2, ClassifiedKeeps
<1>6. CASE RouterRefuses
  <2>1. PICK outcome \in Outcomes, category \in Known : Complete(outcome, category)
    BY <1>6 DEF RouterRefuses, Outcomes, Known
  <2>2. chain' = chain
    BY <1>6 DEF RouterRefuses
  <2>. QED
    BY <1>1, <2>1, <2>2, CompleteKeeps
<1>7. CASE RouterFails
  BY <1>1, <1>7, BrokenKeeps DEF RouterFails
<1>. QED
  BY <1>2, <1>3, <1>4, <1>5, <1>6, <1>7 DEF Route

\* Explaining: the plan, its segments, and the end of the answer.
LEMMA ExplainKeeps ==
    ASSUME ChatInv, Explain
    PROVE  ChatInv'
<1>1. faults \in 0 .. MaxFaults
  BY DEF ChatInv, ChatTypes
<1>2. CASE Prepare
  BY <1>2, PrepareKeeps
<1>3. CASE PrepareFails
  BY <1>1, <1>3, BrokenKeeps DEF PrepareFails
<1>4. CASE SegmentCompletes
  BY <1>4, SegmentCompletesKeeps
<1>5. CASE SegmentFails
  BY <1>5, SegmentFailsKeeps
<1>6. CASE AnswerFails
  BY <1>1, <1>6, BrokenKeeps DEF AnswerFails
<1>7. CASE Finish
  BY <1>7, FinishKeeps
<1>. QED
  BY <1>2, <1>3, <1>4, <1>5, <1>6, <1>7 DEF Explain

\* Every step of the conversation keeps the invariant.
LEMMA NextKeeps == ChatInv /\ [ChatNext]_chatVars => ChatInv'
<1>. SUFFICES ASSUME ChatInv, [ChatNext]_chatVars PROVE ChatInv'
  OBVIOUS
<1>1. ASSUME NEW q \in Questions, Ask(q) PROVE ChatInv'
  BY <1>1, AskKeeps
<1>2. CASE FallBack
  BY <1>2, FallBackKeeps
<1>3. CASE Route
  BY <1>3, RouteKeeps
<1>4. CASE Explain
  BY <1>4, ExplainKeeps
<1>5. CASE Lost
  <2>1. faults' \in 0 .. MaxFaults
    BY <1>5, ChatAssumption DEF Lost, Fault, ChatInv, ChatTypes
  <2>. QED
    BY <1>5, <2>1, BrokenKeeps DEF Lost
<1>6. CASE ContextsLapse
  BY <1>6, ContextsLapseKeeps
<1>7. CASE UNCHANGED chatVars
  <2>1. /\ contexts' = contexts /\ lapsed' = lapsed /\ last' = last /\ shown' = shown
        /\ job' = job /\ asked' = asked /\ faults' = faults /\ chain' = chain
    BY <1>7 DEF chatVars
  <2>2. ChatTypes' /\ JobInv'
    BY <2>1 DEF ChatInv, ChatTypes, JobInv
  <2>3. PlanInv' /\ MarkInv' /\ WorkInv'
    BY <2>1 DEF ChatInv, PlanInv, MarkInv, WorkInv, UpTo, LeftInv, Count, Named, Plain
  <2>. QED
    BY <2>2, <2>3 DEF ChatInv
<1>. QED
  BY <1>1, <1>2, <1>3, <1>4, <1>5, <1>6, <1>7 DEF ChatNext

-----------------------------------------------------------------------------
(* The theorems.                                                           *)

\* Over any number of questions, answers that break off, lost events and lapses:
\* a question works with the context of its token or with none, a plan is its
\* clauses in order and then its laws, what was explained is just the part of
\* the plan before the offset, and what is left is the part behind it.
THEOREM ChatInvariantHolds == ChatSpec => []ChatInv
BY InitKeeps, NextKeeps, PTL DEF ChatSpec

\* The invariant has what the property says of the stored context.
LEMMA InvMarksPlace == ChatInv => TokenMarksPlace
<1>. SUFFICES ASSUME ChatInv PROVE TokenMarksPlace
  OBVIOUS
<1>1. /\ contexts \in Seq(StoredContexts) /\ Len(contexts) \in Nat /\ job \in Jobs
      /\ chain \in Chains
  BY DEF ChatInv, ChatTypes
<1>2. \A t \in DOMAIN contexts :
        contexts[t].target \subseteq Clauses /\ contexts[t].offset \in Nat
  <2>. SUFFICES ASSUME NEW t \in DOMAIN contexts
                PROVE  contexts[t].target \subseteq Clauses /\ contexts[t].offset \in Nat
    OBVIOUS
  <2>1. t \in 1 .. Len(contexts)
    BY <1>1, LenProperties
  <2>2. contexts[t] \in StoredContexts
    BY <1>1, <2>1, ElementOfSeq
  <2>. QED
    BY <2>2 DEF StoredContexts
<1>3. ChatTypeOK
  BY <1>1, <1>2 DEF ChatTypeOK, ChatInv, ChatTypes, Jobs, Chains, Outcomes, PlanItems
<1>4. ASSUME chain.token # 0
      PROVE  /\ contexts[chain.token].target = ToSet(chain.plan) \cap Clauses
             /\ Plain(chain) => \A i \in DOMAIN chain.plan : chain.plan[i] \in Clauses =>
                  (chain.plan[i] \in chain.covered <=> i <= contexts[chain.token].offset)
  <2>1. /\ contexts[chain.token].target = Named(chain)
        /\ Plain(chain) => \A i \in 1 .. Count(chain) :
             chain.plan[i] \in chain.covered <=> i <= contexts[chain.token].offset
    BY <1>4 DEF ChatInv, MarkInv, UpTo
  <2>2. \A i \in DOMAIN chain.plan : chain.plan[i] \in Clauses => i \in 1 .. Count(chain)
    BY PlanClauses
  <2>. QED
    BY <2>1, <2>2 DEF Named
<1>. QED
  BY <1>3, <1>4 DEF TokenMarksPlace, ChatInv, ChatTypes

\* The token of an answer that broke off marks the place: the context stored for
\* it names the clauses of the plan, and its offset divides those that have been
\* explained from the others.  A token on the screen is always stored.
THEOREM TokensMarkPlaces == ChatSpec => []TokenMarksPlace
BY ChatInvariantHolds, InvMarksPlace, PTL

\* An answer ends with all of its plan behind it.
LEMMA FinishIsWhole ==
    ASSUME ChatInv, ChatNext, Finishes, Plain(chain) \/ job.context.offset = 0
    PROVE  Named(chain) \subseteq chain'.covered
<1>1. job.step = "composing" /\ job' = NoJob /\ shown' = "ANSWERED" /\ NoJob.step = "none"
  BY DEF Finishes, NoJob
<1>2. job \in Jobs /\ chain \in Chains /\ job # NoJob
  BY <1>1 DEF ChatInv, ChatTypes
<1>3. Finish
  <2>1. \A q \in Questions : ~Ask(q)
    BY <1>2 DEF Ask
  <2>2. ~FallBack /\ ~Route /\ ~Lost /\ ~ContextsLapse
    BY <1>1, <1>2 DEF FallBack, Route, Understand, ReplyAtOnce, ClassifyByRule, ClassifyByRouter,
       RouterRefuses, RouterFails, NeedsCategory, Lost, Broken, ContextsLapse
  <2>3. ~Prepare /\ ~PrepareFails /\ ~AnswerFails
    BY <1>1 DEF Prepare, PrepareFails, AnswerFails, Broken
  <2>4. ~SegmentCompletes
    <3>. SUFFICES ASSUME SegmentCompletes PROVE FALSE
      OBVIOUS
    <3>1. job'.step = job.step
      BY <1>2 DEF SegmentCompletes, Jobs
    <3>. QED
      BY <1>1, <3>1
  <2>5. ~SegmentFails
    BY <1>1 DEF SegmentFails, Issue
  <2>. QED
    BY <2>1, <2>2, <2>3, <2>4, <2>5 DEF ChatNext, Explain
<1>4. /\ job.left = <<>> /\ job.consumed \in Nat
      /\ chain' = [chain EXCEPT !.covered = chain.covered \cup job.said, !.token = 0]
  BY <1>2, <1>3 DEF Finish, Jobs
<1>5. chain'.covered = chain.covered \cup job.said
  BY <1>2, <1>4 DEF Chains
<1>6. CASE Plain(chain)
  <2>1. UpTo(chain.covered \cup job.said, job.consumed) /\ Count(chain) - job.consumed <= 0
    BY <1>1, <1>4, <1>6 DEF ChatInv, WorkInv, LeftInv
  <2>2. /\ Count(chain) \in Nat
        /\ \A x \in Named(chain) : \E i \in 1 .. Count(chain) : chain.plan[i] = x
    BY PlanClauses
  <2>. QED
    BY <1>4, <1>5, <2>1, <2>2 DEF UpTo
<1>7. CASE job.context.offset = 0
  <2>1. Items(job.left) = {}
    BY <1>4 DEF Items
  <2>. QED
    BY <1>1, <1>5, <1>7, <2>1 DEF ChatInv, WorkInv
<1>. QED
  BY <1>6, <1>7

\* When a chain of continuations ends in an answer, every clause of the first
\* question's plan has been explained, whatever broke in between, if none was split
\* or the answer works from the start of the plan.
THEOREM ChainsAreWhole == ChatSpec => ChainIsWhole
<1>1. ChatInv /\ [ChatNext]_chatVars =>
        [Finishes /\ (Plain(chain) \/ job.context.offset = 0)
           => ToSet(chain.plan) \cap Clauses \subseteq chain'.covered]_chatVars
  BY FinishIsWhole DEF Named
<1>. QED
  BY <1>1, ChatInvariantHolds, PTL DEF ChatSpec, ChainIsWhole
====
