------------------------------ MODULE ChatAnswer ------------------------------
(***************************************************************************)
(* The conversation about one finished review: the chat panel that sends  *)
(* a question with the token of its last answer, the context the token     *)
(* stands for, the routing of the question, the plan of what to explain,  *)
(* its segments, and the continuation of an answer that broke off.         *)
(*                                                                         *)
(* The clauses of the review are numbered in its order: users' clauses    *)
(* first, then missing standard clauses; laws come after them.             *)
(***************************************************************************)
EXTENDS Naturals, Sequences, SequencesExt, FiniteSetsExt, Grounding

CONSTANTS
    Users, Missing,   \* the clauses of the review
    Deviation,        \* the result code of each user clause
    Signalled,        \* user clauses with a recorded signal
    Paragraphs,       \* weights of the paragraphs of each item
    Budget,           \* weight that one prompt may have
    SegmentSize,      \* items that one prompt may have
    Questions,        \* what the user may ask
    MaxQuestions,     \* bound: questions
    MaxFaults         \* bound: connections that break, contexts that lapse

ASSUME ChatAssumption ==
    /\ Users \cup Missing \cup Laws \subseteq Nat \ {0} /\ Signalled \subseteq Users
    /\ IsFiniteSet(Users \cup Missing \cup Laws)
    /\ \A u \in Users, m \in Missing : u < m
    /\ \A c \in Users \cup Missing, l \in Laws : c < l
    /\ \A x \in Users \cup Missing \cup Laws : Paragraphs[x] \in Seq(Nat) \ {<<>>}
    /\ SegmentSize \in Nat \ {0} /\ Budget \in Nat
    /\ \A q \in Questions : q.focus \in Users \cup {0} /\ q.articles \subseteq Users
    /\ MaxQuestions \in Nat /\ MaxFaults \in Nat

VARIABLES
    contexts,  \* the stored contexts; a token is a place in this sequence
    lapsed,    \* contexts up to here are past their own deadline
    last,      \* the token of the last answer on the screen, 0 if it has none
    shown,     \* the outcome of the last answer
    job,       \* the question under way
    asked, faults,
    chain      \* history: the plan of a first question and what was explained

chatVars == <<contexts, lapsed, last, shown, job, asked, faults, chain>>

NoContext == [category |-> "none", target |-> {}, offset |-> 0]
NoQuestion == [words |-> "none", focus |-> 0, articles |-> {}, codes |-> {}]
NoJob == [step |-> "none", q |-> NoQuestion, token |-> 0, json |-> FALSE,
          context |-> NoContext, category |-> "none",
          left |-> <<>>, consumed |-> 0, said |-> {}, spoken |-> FALSE]
NoChain == [plan |-> <<>>, covered |-> {}, start |-> 0, token |-> 0]

Clauses == Users \cup Missing
\* Categories that reach the model; ANALYSIS stands for all that have no rule.
Categories == {"CONTRACT_CONTENT", "COMPARISON", "LEGAL_REFERENCE", "ANALYSIS"}

-----------------------------------------------------------------------------
(* Routing                                                                 *)

None == "none"

\* What Python's `a or b` does with a reply, or a category, that may be None.
Or(a, b) == IF a # None THEN a ELSE b

SignalReply(q) ==
    IF \/ q.words = "signals"
       \/ q.words = "signal" /\ (q.focus # 0 \/ q.articles # {})
    THEN "ANSWERED" ELSE None

SearchReply(q) ==
    IF q.words = "search" /\ Signalled # {} THEN "ANSWERED" ELSE None

Coded(codes) ==
    IF "MISSING" \in codes THEN Missing ELSE {u \in Users : Deviation[u] \in codes}

IntentReply(q) ==
    CASE q.words = "priority" -> "ANSWERED"
      [] q.words = "definition" /\ Cardinality(q.codes) = 1 -> "ANSWERED"
      [] q.words = "list" /\ Cardinality(q.codes) = 1 ->
            IF Coded(q.codes) = {} THEN "REFUSED" ELSE "ANSWERED"
      [] OTHER -> None

PolicyReply(q) ==
    IF q.words = "policy" /\ q.focus = 0 /\ q.articles = {} THEN "ANSWERED" ELSE None

\* The replies that need no model, in the order they are tried.
FixedReply(q) ==
    Or(SignalReply(q), Or(SearchReply(q), Or(IntentReply(q), PolicyReply(q))))

HasExplicitTarget(q) == q.articles # {} \/ q.codes # {}

ContinuationCategory(q, context) ==
    IF context.offset > 0 /\ q.words = "continue" THEN context.category ELSE None

AmbiguousCategory(q, context) ==
    IF context # NoContext /\ ~HasExplicitTarget(q) /\ q.words = "impact"
    THEN "CONTRACT_CONTENT" ELSE None

ComparisonCategory(q) == IF q.words = "compare" THEN "COMPARISON" ELSE None

\* The category that the words and the context settle without the router.
RuledCategory(q, context) ==
    Or(ContinuationCategory(q, context),
       Or(AmbiguousCategory(q, context), ComparisonCategory(q)))

-----------------------------------------------------------------------------
(* The plan and its segments                                               *)

\* _filter_plan_items: what the question names, or else what the context does.
Target(q, context) ==
    IF q.focus # 0 THEN {q.focus}
    ELSE IF q.articles # {} THEN q.articles
    ELSE IF q.codes # {} THEN Coded(q.codes)
    ELSE IF context # NoContext THEN context.target
    ELSE Clauses

WantsLaw(category, q, target) ==
    \/ category = "LEGAL_REFERENCE"
    \/ category = "CONTRACT_CONTENT" /\ q.words = "impact" /\ target \cap Signalled # {}

\* SetToSortSeq(S, <) by rank: the i-th element has i elements of S up to it.
Ordered(S) ==
    [i \in 1 .. Cardinality(S) |->
       CHOOSE x \in S : Cardinality({y \in S : y <= x}) = i]

\* Only who asks for the text of the law itself gets no answer without it.
AnswerPlan(category, q, target, laws) ==
    IF laws = {} /\ category = "LEGAL_REFERENCE" /\ q.words = "law" THEN <<>>
    ELSE Ordered(target) \o Ordered(laws)

Whole(item) == [item |-> item, paragraphs |-> Paragraphs[item]]

\* pending: the offset counts items of the plan.
Pending(plan, offset) ==
    [i \in 1 .. Len(plan) - offset |-> Whole(plan[offset + i])]

Weight(segment) ==
    LET Sum(weights) == FoldLeft(LAMBDA a, b : a + b, 0, weights)
    IN Sum([i \in DOMAIN segment |-> Sum(segment[i].paragraphs)])

\* An item too large for a prompt of its own goes in paragraphs; one without
\* goes in pieces of 3,000 characters, and Paragraphs has these.  A paragraph
\* that is itself too large goes as it is, although the code cuts it once more.
Split(item) ==
    IF Weight(<<item>>) <= Budget THEN <<item>>
    ELSE [i \in DOMAIN item.paragraphs |->
            [item |-> item.item, paragraphs |-> <<item.paragraphs[i]>>]]

\* An item is split when it comes first, so its first paragraph opens a segment.
Opened(left) == Split(Head(left)) \o Tail(left)

Fits(segment) == Len(segment) <= SegmentSize /\ Weight(segment) <= Budget

\* _token_aware_segments cuts all segments beforehand; here each is cut when its
\* turn comes: what is left up to the last piece that fits, and at least one.
Cut(left) ==
    LET pieces == Opened(left)
        n == Max({k \in DOMAIN pieces : k = 1 \/ Fits(SubSeq(pieces, 1, k))})
    IN  [segment |-> SubSeq(pieces, 1, n), rest |-> SubSeq(pieces, n + 1, Len(pieces))]

-----------------------------------------------------------------------------
(* The question                                                            *)

Fault == faults < MaxFaults /\ faults' = faults + 1

Ask(q) ==
    /\ job = NoJob /\ asked < MaxQuestions
    /\ asked' = asked + 1
    /\ job' = [NoJob EXCEPT !.step = "asked", !.q = q, !.token = last]
    /\ UNCHANGED <<contexts, lapsed, last, shown, faults, chain>>

\* The stream cannot be opened: the same question goes over the JSON endpoint.
FallBack ==
    /\ job.step = "asked" /\ ~job.json /\ Fault
    /\ job' = [job EXCEPT !.json = TRUE]
    /\ UNCHANGED <<contexts, lapsed, last, shown, asked, chain>>

\* A selected clause sets the context aside.
LoadedContext ==
    IF job.q.focus # 0 \/ job.token <= lapsed THEN NoContext ELSE contexts[job.token]

\* What follow-up questions go by.
Stored(category, offset) ==
    [category |-> category, offset |-> offset, target |-> Target(job.q, job.context)]

\* Mutant: the context is stored when the event has been sent.
IssueLate(category, offset, outcome) ==
    /\ shown' = outcome /\ last' = Len(contexts) + 1
    /\ \/ contexts' = Append(contexts, Stored(category, offset)) /\ UNCHANGED faults
       \/ Fault /\ UNCHANGED contexts

\* The context is stored and committed before the event is sent; when the event
\* is lost the screen shows a failed answer without a token.
Issue(category, offset, outcome) ==
    /\ contexts' = Append(contexts, Stored(category, offset))
    /\ \/ last' = Len(contexts') /\ shown' = outcome /\ UNCHANGED faults
       \/ last' = 0 /\ shown' = "FAILED" /\ Fault

Complete(outcome, category) ==
    /\ Issue(category, 0, outcome) /\ job' = NoJob
    /\ UNCHANGED <<lapsed, asked>>

\* An error without a continuation, or a connection that is gone: the screen
\* has an answer without a token.
Broken ==
    /\ last' = 0 /\ shown' = "FAILED" /\ job' = NoJob
    /\ chain' = [chain EXCEPT !.token = 0]
    /\ UNCHANGED <<contexts, lapsed, asked>>

Lost == job # NoJob /\ Fault /\ Broken

\* The context is loaded, and fixed replies or the words settle the question.
Understand ==
    /\ job.step = "asked"
    /\ job' = [job EXCEPT !.step = "understanding", !.context = LoadedContext]
    /\ UNCHANGED <<contexts, lapsed, last, shown, asked, faults, chain>>

ReplyAtOnce ==
    /\ job.step = "understanding" /\ FixedReply(job.q) # None
    /\ Complete(FixedReply(job.q), "FIXED")
    /\ UNCHANGED chain

Classified(category) ==
    /\ job' = [job EXCEPT !.step = "evidence", !.category = category]
    /\ UNCHANGED <<contexts, lapsed, last, shown, asked, faults, chain>>

NeedsCategory == job.step = "understanding" /\ FixedReply(job.q) = None

ClassifyByRule ==
    /\ NeedsCategory /\ RuledCategory(job.q, job.context) # None
    /\ Classified(RuledCategory(job.q, job.context))

ClassifyByRouter ==
    /\ NeedsCategory /\ RuledCategory(job.q, job.context) = None
    /\ \E category \in Categories : Classified(category)

\* The router finds no valid category, or one that is out of scope.
RouterRefuses ==
    /\ NeedsCategory /\ RuledCategory(job.q, job.context) = None
    /\ \/ Complete("LLM_OUTPUT_INVALID", "UNKNOWN")
       \/ Complete("REFUSED", "OUT_OF_SCOPE")
    /\ UNCHANGED chain

RouterFails ==
    /\ NeedsCategory /\ RuledCategory(job.q, job.context) = None
    /\ Broken /\ UNCHANGED faults

\* The question goes on with the answer that broke off last and names no other
\* clauses.
Continues ==
    /\ job.q.words = "continue" /\ ~HasExplicitTarget(job.q)
    /\ job.context # NoContext
    /\ chain.token # 0 /\ job.token = chain.token

Compose(plan) ==
    /\ job' = [job EXCEPT !.step = "composing", !.consumed = job.context.offset,
                          !.left = Pending(plan, job.context.offset)]
    /\ chain' = IF Continues THEN [chain EXCEPT !.token = 0]
                ELSE [NoChain EXCEPT !.plan = plan, !.start = job.context.offset]
    /\ UNCHANGED <<contexts, lapsed, last, shown, asked, faults>>

PlanFor(laws) ==
    AnswerPlan(job.category, job.q, Target(job.q, job.context), laws)
GroundingWanted == WantsLaw(job.category, job.q, Target(job.q, job.context))
LawsFound == IF GroundingWanted THEN {g.laws : g \in Groundings} ELSE {{}}

Prepare ==
    /\ job.step = "evidence"
    /\ \E laws \in LawsFound :
         LET plan == PlanFor(laws) IN
         IF plan = <<>> THEN Complete("REFUSED", job.category) /\ UNCHANGED chain
         ELSE Compose(plan)

\* A category the law tool cannot be asked for raises.
PrepareFails ==
    /\ job.step = "evidence" /\ GroundingWanted
    /\ Broken /\ UNCHANGED faults

Items(segment) == {segment[i].item : i \in DOMAIN segment}

\* A segment the model has answered counts, even when it said nothing.
SegmentCompletes ==
    /\ job.step = "composing" /\ job.left # <<>>
    /\ LET cut == Cut(job.left)
           said == Items(cut.segment)
       IN /\ \E says \in BOOLEAN :
               job' = [job EXCEPT !.left = cut.rest, !.consumed = @ + Len(cut.segment),
                                  !.said = @ \cup said, !.spoken = @ \/ says]
          /\ chain' = IF job.json THEN chain ELSE [chain EXCEPT !.covered = @ \cup said]
    /\ UNCHANGED <<contexts, lapsed, last, shown, asked, faults>>

\* Mutant: the offset goes past the segment that failed.
OffsetPastFailed == job.consumed + Len(Cut(job.left).segment)

NextOffset == job.consumed

\* The model fails in a segment: the stream offers to go on from there.
SegmentFails ==
    /\ job.step = "composing" /\ job.left # <<>> /\ ~job.json
    /\ Issue(job.category, NextOffset, "FAILED") /\ job' = NoJob
    /\ chain' = [chain EXCEPT !.token = last']
    /\ UNCHANGED <<lapsed, asked>>

\* The JSON endpoint has nothing to offer.
AnswerFails ==
    /\ job.step = "composing" /\ job.left # <<>> /\ job.json
    /\ Broken /\ UNCHANGED faults

Finish ==
    /\ job.step = "composing" /\ job.left = <<>>
    /\ Complete(IF job.spoken THEN "ANSWERED" ELSE "LLM_OUTPUT_INVALID", job.category)
    /\ chain' = [chain EXCEPT !.covered = @ \cup job.said, !.token = 0]

\* A context keeps the deadline the review had when it was stored, which an
\* extension of the session moves for the review alone.
ContextsLapse ==
    /\ lapsed < Len(contexts) /\ Fault
    /\ lapsed' = Len(contexts)
    /\ UNCHANGED <<contexts, last, shown, job, asked, chain>>

-----------------------------------------------------------------------------

ChatInit ==
    /\ contexts = <<>> /\ lapsed = 0 /\ last = 0 /\ shown = "none"
    /\ job = NoJob /\ asked = 0 /\ faults = 0 /\ chain = NoChain

Route == Understand \/ ReplyAtOnce \/ ClassifyByRule \/ ClassifyByRouter
         \/ RouterRefuses \/ RouterFails
Explain == Prepare \/ PrepareFails \/ SegmentCompletes \/ SegmentFails
           \/ AnswerFails \/ Finish

ChatNext == (\E q \in Questions : Ask(q)) \/ FallBack \/ Route \/ Explain \/ Lost
            \/ ContextsLapse

-----------------------------------------------------------------------------
(* Properties                                                              *)

ChatTypeOK ==
    /\ \A t \in DOMAIN contexts :
         contexts[t].target \subseteq Clauses /\ contexts[t].offset \in Nat
    /\ lapsed \in 0 .. Len(contexts)
    /\ job.step \in {"none", "asked", "understanding", "evidence", "composing"}
    /\ shown \in {"none", "ANSWERED", "REFUSED", "LLM_OUTPUT_INVALID", "FAILED"}
    /\ asked \in 0 .. MaxQuestions /\ faults \in 0 .. MaxFaults
    /\ chain.covered \subseteq Clauses \cup Laws

\* No item of the plan is split, and the plan was explained from its start.
Plain(c) == c.start = 0 /\ \A i \in DOMAIN c.plan : Len(Split(Whole(c.plan[i]))) = 1

\* The token of an answer that broke off marks the place: the stored context
\* still names the clauses of the plan, and its offset divides those that have
\* been explained from the others unless one was split, over any number of
\* failures, fallbacks, lost events and questions in between.  A token on the
\* screen is always stored.
TokenMarksPlace ==
    /\ ChatTypeOK
    /\ last \in 0 .. Len(contexts)
    /\ chain.token # 0 =>
         /\ contexts[chain.token].target = ToSet(chain.plan) \cap Clauses
         /\ Plain(chain) => \A i \in DOMAIN chain.plan : chain.plan[i] \in Clauses =>
              (chain.plan[i] \in chain.covered <=> i <= contexts[chain.token].offset)

Finishes == job.step = "composing" /\ job' = NoJob /\ shown' = "ANSWERED"

\* When a chain of continuations ends in an answer, every clause of the first
\* question's plan has been explained, whatever broke in between; and also, however
\* items are split and segments cut, when the answer works from the start of the
\* plan, be it a first one or one that takes up a failure in the first segment.
ChainIsWhole ==
    [][Finishes /\ (Plain(chain) \/ job.context.offset = 0)
         => ToSet(chain.plan) \cap Clauses \subseteq chain'.covered]_chatVars

\* The decision record says that a continuation generates just the items that
\* remain: no clause of the plan is skipped, whether one had to be split or not.
NothingIsSkipped ==
    [][Finishes /\ chain.start = 0
         => ToSet(chain.plan) \cap Clauses \subseteq chain'.covered]_chatVars

=============================================================================
