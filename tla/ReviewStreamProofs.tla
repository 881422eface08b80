--------------------------- MODULE ReviewStreamProofs ---------------------------
(***************************************************************************)
(* What the row, the connection, the polls and the screen promise, whatever*)
(* the reports, their order and their number, and whatever breaks on the   *)
(* way: first of the row alone (ProgressNeverFalls), then of the screen    *)
(* that is fed by several readers of it.                                   *)
(***************************************************************************)
EXTENDS ReviewStream, FiniteSetTheorems, TLAPS

\* What the steps of the row keep up: a queued review has made no progress, which
\* is why the reset of Start sets nothing back, and a percent is one.
RowInv ==
    /\ row \in [state : Active \cup Terminal, sequence : Nat, stage : 0 .. 6, percent : 0 .. 100]
    /\ row.state = "QUEUED" => row.stage <= 1 /\ row.percent = 0

RowOf(r) == r \in [state : Active \cup Terminal, sequence : Nat, stage : 0 .. 6, percent : 0 .. 100]

\* One step of the row does not go back.
Onward ==
    \/ row'.state = "EXPIRED"
    \/ /\ row'.sequence >= row.sequence /\ row'.stage >= row.stage
       /\ row'.percent >= row.percent
       /\ (Progress(row') # Progress(row) => row'.sequence > row.sequence)

-----------------------------------------------------------------------------

\* The weighting of a report is a number, whatever the share that is done.
LEMMA WeightIsInt ==
    ASSUME NEW stage \in 1 .. 6, NEW tenths \in 0 .. 10
    PROVE  WeightedPercent(stage, tenths) \in Int
<1>1. Starts[stage] \in Int /\ Starts[stage + 1] \in Int
  BY DEF Starts
<1>2. ((Starts[stage + 1] - Starts[stage]) * tenths) \in Int
  BY <1>1
<1>. QED
  BY <1>1, <1>2 DEF WeightedPercent

\* record_progress keeps a row a row, does not let it fall and counts a change.
LEMMA RecordedGrows ==
    ASSUME NEW r, RowOf(r), r.state = "REVIEWING",
           NEW stage \in 0 .. 6, NEW tenths \in 0 .. 10
    PROVE  LET new == Recorded(r, stage, tenths) IN
           /\ RowOf(new) /\ new.state = "REVIEWING"
           /\ new.sequence >= r.sequence /\ new.stage >= r.stage
           /\ new.percent >= r.percent
           /\ Progress(new) # Progress(r) => new.sequence > r.sequence
<1>1. CASE stage = UnknownStage
  BY <1>1 DEF RowOf, Recorded, Progress
<1>2. CASE stage # UnknownStage /\ stage < r.stage
  BY <1>2 DEF RowOf, Recorded
<1>3. CASE stage # UnknownStage /\ ~(stage < r.stage)
  <2> DEFINE w == AtMost(WeightedPercent(stage, tenths), 99)
             p == AtLeast(r.percent, w)
  <2>1. w \in Int /\ w <= 99
    BY <1>3, WeightIsInt DEF AtMost, UnknownStage
  <2>2. p \in 0 .. 100 /\ p >= r.percent
    BY <2>1 DEF AtLeast, RowOf
  <2> HIDE DEF p
  <2>3. Recorded(r, stage, tenths)
          = [r EXCEPT !.sequence = r.sequence + 1, !.stage = stage, !.percent = p]
    BY <1>3 DEF Recorded, p
  <2>4. Recorded(r, stage, tenths)
          = [state |-> "REVIEWING", sequence |-> r.sequence + 1, stage |-> stage,
             percent |-> p]
    BY <2>3 DEF RowOf
  <2>. QED
    BY <1>3, <2>2, <2>4 DEF RowOf, Active, Terminal
<1>. QED
  BY <1>1, <1>2, <1>3

\* Every step but those of the review itself and of a restart leaves the row.
LEMMA OthersLeaveRow ==
    ASSUME Stream \/ Listen \/ Poll \/ Watch \/ User \/ Break \/ BreakSilently
              \/ PollFails \/ FirstFails
    PROVE  row' = row
<1>1. CASE Stream
  BY <1>1 DEF Stream, Serve, ServeRaises
<1>2. CASE Listen
  BY <1>2 DEF Listen, Open, OpenRefused, Hear, StreamEnds
<1>3. CASE Poll
  BY <1>3 DEF Poll, FirstAnswered, ReadFirst, PollAnswered, ReadPoll, DropPoll, PollGone,
              EndInError, TimerFires
<1>4. CASE Watch
  BY <1>4 DEF Watch, WatchdogEnds, WatchdogFires
<1>5. CASE User
  BY <1>5 DEF User, RetryAccepted, RetryRefused, LatestAnswered, Resume, StayInError
<1>6. CASE Break \/ BreakSilently \/ PollFails \/ FirstFails
  BY <1>6 DEF Break, BreakSilently, PollFails, EndInError, FirstFails
<1>. QED
  BY <1>1, <1>2, <1>3, <1>4, <1>5, <1>6

-----------------------------------------------------------------------------

\* The step lemma: from a row of the invariant every step leads to one and on.
LEMMA StepGoesOn ==
    ASSUME RowInv, [Next]_vars
    PROVE  RowInv' /\ Onward
<1> USE DEF RowInv, Onward, Active, Terminal
<1>1. CASE Start
  BY <1>1 DEF Start, Progress
<1>2. CASE Report
  <2>1. PICK r \in Reports : row' = Recorded(row, r[1], r[2])
    BY <1>2 DEF Report
  <2>2. r[1] \in 0 .. 6 /\ r[2] \in 0 .. 10
    BY StreamAssumption
  <2>3. RowOf(row) /\ row.state = "REVIEWING"
    BY <1>2 DEF Report, RowOf
  <2>. QED
    BY <2>1, <2>2, <2>3, RecordedGrows DEF RowOf
<1>3. CASE Complete
  BY <1>3 DEF Complete, Progress
<1>4. CASE Fail
  BY <1>4 DEF Fail, Progress
<1>5. CASE Cancel
  <2>1. row' = [state |-> "CANCELLED", sequence |-> row.sequence + 1,
                stage |-> row.stage, percent |-> row.percent]
    BY <1>5 DEF Cancel
  <2>. QED
    BY <2>1
<1>6. CASE Expire
  BY <1>6 DEF Expire, NoSnapshot
<1>7. CASE Restart
  BY <1>7 DEF Restart, Progress
<1>8. CASE Stream \/ Listen \/ Poll \/ Watch \/ User \/ Break \/ BreakSilently
           \/ PollFails \/ FirstFails
  BY <1>8, OthersLeaveRow DEF Progress
<1>9. CASE UNCHANGED vars
  BY <1>9 DEF vars, Progress
<1>. QED
  BY <1>1, <1>2, <1>3, <1>4, <1>5, <1>6, <1>7, <1>8, <1>9
  DEF Next, Review, Faulty

\* The row of a review is always one that the schema allows, and a queued one has
\* no progress: start, record_progress, complete, fail, cancel and expire together.
THEOREM RowIsSound == Spec => []RowInv
<1>1. Init => RowInv
  BY DEF Init, RowInv, Active, Terminal
<1>2. RowInv /\ [Next]_vars => RowInv'
  BY StepGoesOn
<1>. QED
  BY <1>1, <1>2, PTL DEF Spec

\* What the row says of the progress never goes back, for any reports in any order:
\* ReviewStream's ProgressNeverFalls.
THEOREM ProgressGoesOn == Spec => ProgressNeverFalls
<1>1. RowInv /\ [Next]_vars => [Onward]_vars
  BY StepGoesOn
<1>2. Spec => [][Onward]_vars
  BY <1>1, RowIsSound, PTL DEF Spec
<1>. QED
  BY <1>2 DEF ProgressNeverFalls, Onward


-----------------------------------------------------------------------------
(* The polls under way, as a set of tokens: one for each copy of a request.  *)

Tokens(b) == {t \in (DOMAIN b) \X Nat : 1 <= t[2] /\ t[2] <= b[t[1]]}

\* One more poll: a bag of one more token.
LEMMA OnePollMore ==
    ASSUME NEW b, NEW x, IsABag(b), IsFiniteSet(Tokens(b))
    PROVE  LET new == b (+) One(x) IN
           /\ IsABag(new) /\ DOMAIN new = DOMAIN b \cup {x} /\ new # EmptyBag
           /\ IsFiniteSet(Tokens(new)) /\ Cardinality(Tokens(new)) = Cardinality(Tokens(b)) + 1
<1> DEFINE new == b (+) One(x)
           n == IF x \in DOMAIN b THEN b[x] ELSE 0
<1>1. /\ DOMAIN new = DOMAIN b \cup {x}
      /\ \A y \in DOMAIN b \ {x} : new[y] = b[y]
      /\ new[x] = n + 1
      /\ new = [y \in DOMAIN new |-> new[y]]
  BY DEF One, SetToBag, (+), IsABag
<1>2. \A y \in DOMAIN b : b[y] \in Nat /\ b[y] > 0
  BY DEF IsABag
<1>3. n \in Nat
  BY <1>2
<1> HIDE DEF new, n
<1>4. \A y \in DOMAIN new : new[y] \in {k \in Nat : k > 0}
  BY <1>1, <1>2, <1>3
<1>5. IsABag(new)
  BY <1>1, <1>4 DEF IsABag
<1>6. <<x, n + 1>> \notin Tokens(b)
  BY <1>2, <1>3 DEF Tokens, n
<1>7. Tokens(new) = Tokens(b) \cup {<<x, n + 1>>}
  <2>1. ASSUME NEW t \in Tokens(new) PROVE t \in Tokens(b) \cup {<<x, n + 1>>}
    <3>1. t \in (DOMAIN new) \X Nat /\ 1 <= t[2] /\ t[2] <= new[t[1]]
      BY DEF Tokens
    <3>2. CASE t[1] = x
      <4>1. t[2] <= n + 1
        BY <1>1, <3>1, <3>2
      <4>2. CASE t[2] = n + 1
        BY <3>1, <3>2, <4>2
      <4>3. CASE t[2] <= n
        BY <3>1, <3>2, <4>3, <1>3 DEF Tokens, n
      <4>. QED  BY <3>1, <4>1, <4>2, <4>3, <1>3
    <3>3. CASE t[1] # x
      BY <3>1, <3>3, <1>1 DEF Tokens
    <3>. QED  BY <3>2, <3>3
  <2>2. <<x, n + 1>> \in Tokens(new)
    BY <1>1, <1>3 DEF Tokens
  <2>3. ASSUME NEW t \in Tokens(b) PROVE t \in Tokens(new)
    <3>1. t \in (DOMAIN b) \X Nat /\ 1 <= t[2] /\ t[2] <= b[t[1]]
      BY DEF Tokens
    <3>2. t[1] = x => t[2] <= n + 1
      BY <3>1, <1>2 DEF n
    <3>. QED  BY <3>1, <3>2, <1>1 DEF Tokens
  <2>. QED  BY <2>1, <2>2, <2>3
<1>8. new # EmptyBag
  BY <1>1 DEF EmptyBag, SetToBag
<1>9. IsFiniteSet(Tokens(new)) /\ Cardinality(Tokens(new)) = Cardinality(Tokens(b)) + 1
  BY <1>6, <1>7, FS_AddElement
<1>. QED
  BY <1>1, <1>5, <1>8, <1>9 DEF new

\* One poll less: a bag of one token less.
LEMMA OnePollLess ==
    ASSUME NEW b, NEW x \in DOMAIN b, IsABag(b), IsFiniteSet(Tokens(b))
    PROVE  LET new == b (-) One(x) IN
           /\ IsABag(new) /\ DOMAIN new \subseteq DOMAIN b
           /\ IsFiniteSet(Tokens(new)) /\ Cardinality(Tokens(new)) = Cardinality(Tokens(b)) - 1
<1> DEFINE new == b (-) One(x)
<1>2. \A y \in DOMAIN b : b[y] \in Nat /\ b[y] > 0
  BY DEF IsABag
<1>1. /\ DOMAIN new = {y \in DOMAIN b : y = x => b[x] - 1 > 0}
      /\ \A y \in DOMAIN new : new[y] = IF y = x THEN b[x] - 1 ELSE b[y]
      /\ new = [y \in DOMAIN new |-> new[y]]
  BY <1>2 DEF One, SetToBag, (-)
<1> HIDE DEF new
<1>4. \A y \in DOMAIN new : new[y] \in {k \in Nat : k > 0}
  BY <1>1, <1>2
<1>5. IsABag(new)
  BY <1>1, <1>4 DEF IsABag
<1>6. <<x, b[x]>> \in Tokens(b)
  BY <1>2 DEF Tokens
<1>7. Tokens(new) = Tokens(b) \ {<<x, b[x]>>}
  <2>1. ASSUME NEW t \in Tokens(new) PROVE t \in Tokens(b) /\ t # <<x, b[x]>>
    <3>1. t \in (DOMAIN new) \X Nat /\ 1 <= t[2] /\ t[2] <= new[t[1]]
      BY DEF Tokens
    <3>2. t[1] \in DOMAIN b /\ t[2] <= b[t[1]] /\ (t[1] = x => t[2] <= b[x] - 1)
      BY <3>1, <1>1, <1>2
    <3>. QED  BY <3>1, <3>2, <1>2 DEF Tokens
  <2>2. ASSUME NEW t \in Tokens(b), t # <<x, b[x]>> PROVE t \in Tokens(new)
    <3>1. t \in (DOMAIN b) \X Nat /\ 1 <= t[2] /\ t[2] <= b[t[1]]
      BY DEF Tokens
    <3>2. t[1] = x => t[2] # b[x]
      BY <2>2, <3>1
    <3>3. t[1] = x => t[2] <= b[x] - 1
      BY <3>1, <3>2, <1>2
    <3>4. t[1] \in DOMAIN new /\ t[2] <= new[t[1]]
      BY <3>1, <3>3, <1>1, <1>2
    <3>. QED  BY <3>1, <3>4 DEF Tokens
  <2>. QED  BY <2>1, <2>2
<1>9. IsFiniteSet(Tokens(new)) /\ Cardinality(Tokens(new)) = Cardinality(Tokens(b)) - 1
  BY <1>6, <1>7, FS_RemoveElement
<1>. QED
  BY <1>1, <1>5, <1>9 DEF new

LEMMA NoPolls == /\ IsABag(EmptyBag) /\ DOMAIN EmptyBag = {}
                 /\ IsFiniteSet(Tokens(EmptyBag)) /\ Cardinality(Tokens(EmptyBag)) = 0
<1>1. DOMAIN EmptyBag = {} /\ IsABag(EmptyBag)
  BY DEF EmptyBag, SetToBag, IsABag
<1>2. Tokens(EmptyBag) = {}
  BY <1>1 DEF Tokens
<1>. QED
  BY <1>1, <1>2, FS_EmptySet

-----------------------------------------------------------------------------
(* What a step does to the requests and events under way.                    *)

Live == row.state # "EXPIRED"

\* What has been read of the row and has not been looked at yet.
OnWire == {wire[i] : i \in 1 .. Len(wire)}
Flight == ({first} \cup DOMAIN polls \cup OnWire) \cap Snapshot
Status == {latest} \cap Snapshot

\* Everything of a run of the effect is gone.
Cleared == first = NoSnapshot /\ polls = EmptyBag /\ wire = <<>> /\ stream.step = "over"

LEMMA AnswerIs == (Answer = Gone /\ ~Live) \/ (Answer = row /\ Live)
  BY DEF Answer, Refused, Live

LEMMA FirstStep ==
    ASSUME [Next]_vars
    PROVE  \/ first' = first
           \/ first' = NoSnapshot
           \/ first' = Asked /\ mode' = "running"
           \/ first' = Answer /\ mode = "running" /\ row' = row
<1>1. CASE Review \/ Stream \/ Watch \/ UNCHANGED vars
  BY <1>1 DEF Review, Start, Report, Complete, Fail, Cancel, Expire, Stream, Serve, ServeRaises,
     Watch, WatchdogEnds, WatchdogFires, StartPolling, effect, vars
<1>2. CASE Open \/ OpenRefused \/ StreamEnds \/ Break \/ BreakSilently \/ Restart \/ FirstFails
  BY <1>2 DEF Open, OpenRefused, StreamEnds, Break, BreakSilently, Restart, FirstFails, effect
<1>3. CASE Hear \/ ReadFirst \/ ReadPoll \/ PollGone \/ PollFails
  BY <1>3 DEF Hear, ReadFirst, ReadPoll, UpdateTerminal, PollGone, PollFails, EndInError, Unmount,
     effect
<1>4. CASE FirstAnswered
  BY <1>4 DEF FirstAnswered
<1>5. CASE PollAnswered \/ DropPoll \/ TimerFires
  BY <1>5 DEF PollAnswered, DropPoll, TimerFires
<1>6. CASE User
  BY <1>6 DEF User, RetryAccepted, RetryRefused, LatestAnswered, Resume, Mount, StayInError, effect
<1>. QED
  BY <1>1, <1>2, <1>3, <1>4, <1>5, <1>6 DEF Next, Listen, Poll, Faulty

LEMMA LatestStep ==
    ASSUME [Next]_vars
    PROVE  \/ latest' = latest
           \/ latest' = NoSnapshot
           \/ latest' = Asked /\ mode = "error" /\ mode' = "error" /\ shown' = shown
           \/ latest' = Answer /\ latest = Asked /\ UNCHANGED <<row, mode, shown>>
<1>1. CASE Review \/ Stream \/ Watch \/ UNCHANGED vars
  BY <1>1 DEF Review, Start, Report, Complete, Fail, Cancel, Expire, Stream, Serve, ServeRaises,
     Watch, WatchdogEnds, WatchdogFires, vars
<1>2. CASE Listen \/ Faulty
  BY <1>2 DEF Listen, Open, OpenRefused, Hear, StreamEnds, Faulty, Break, BreakSilently, Restart,
     PollFails, EndInError, FirstFails
<1>3. CASE Poll
  BY <1>3 DEF Poll, FirstAnswered, ReadFirst, PollAnswered, ReadPoll, DropPoll, PollGone,
     EndInError, TimerFires
<1>4. CASE RetryAccepted \/ RetryRefused
  BY <1>4 DEF RetryAccepted, RetryRefused, screen
<1>5. CASE LatestAnswered \/ Resume \/ StayInError
  BY <1>5 DEF LatestAnswered, Resume, StayInError, screen
<1>. QED
  BY <1>1, <1>2, <1>3, <1>4, <1>5 DEF Next, User

\* The stream serves the row to the end of the wire or breaks off, a connection
\* opens with what is due, an event that ends nothing is read, or all is closed.
LEMMA StreamStep ==
    ASSUME [Next]_vars
    PROVE  \/ /\ stream' = stream
              /\ \/ wire' = wire
                 \/ wire # <<>> /\ Head(wire).state \notin Terminal /\ wire' = Tail(wire)
           \/ stream' = NoStream /\ wire' = <<>>
           \/ /\ stream.step = "serving" /\ Live /\ row' = row /\ Len(wire) < MaxWire
              /\ Due(stream.last, row)
              /\ stream' = AfterSending(stream.last, row) /\ wire' = wire \o <<row>>
           \/ /\ stream.step = "serving" /\ ~Live
              /\ stream' = [stream EXCEPT !.step = "returned"] /\ wire' = wire
           \/ /\ mode = "running" /\ Live /\ row' = row
              /\ stream' = AfterSending(lastId, row) /\ wire' = Sent(lastId, row)
<1>1. CASE Review \/ Watch \/ UNCHANGED vars
  BY <1>1 DEF Review, Start, Report, Complete, Fail, Cancel, Expire, Watch, WatchdogEnds,
     WatchdogFires, browser, vars
<1>2. CASE Stream
  BY <1>2 DEF Stream, Serve, ServeRaises, Sent, Refused, Live
<1>3. CASE Open
  BY <1>3 DEF Open, Refused, Live
<1>4. CASE Hear
  <2>1. CASE UpdateTerminal(Head(wire))
    BY <2>1 DEF UpdateTerminal, Unmount
  <2>2. CASE Head(wire).state \notin Terminal /\ wire' = Tail(wire) /\ stream' = stream
    BY <1>4, <2>2 DEF Hear
  <2>3. Head(wire).state \in Active => Head(wire).state \notin Terminal
    BY DEF Active, Terminal
  <2>. QED  BY <1>4, <2>1, <2>2, <2>3 DEF Hear
<1>5. CASE OpenRefused \/ StreamEnds \/ Break \/ BreakSilently \/ Restart \/ FirstFails
  BY <1>5 DEF OpenRefused, StreamEnds, Break, BreakSilently, Restart, Reconnecting, FirstFails, browser
<1>6. CASE ReadFirst \/ ReadPoll
  BY <1>6 DEF ReadFirst, ReadPoll, UpdateActive, UpdateTerminal, Unmount, browser
<1>7. CASE PollGone \/ PollFails
  BY <1>7 DEF PollGone, PollFails, EndInError, Unmount
<1>8. CASE FirstAnswered \/ PollAnswered \/ DropPoll \/ TimerFires
  BY <1>8 DEF FirstAnswered, PollAnswered, DropPoll, TimerFires, browser
<1>9. CASE User
  BY <1>9 DEF User, RetryAccepted, RetryRefused, LatestAnswered, Resume, Mount, StayInError, browser
<1>. QED
  BY <1>1, <1>2, <1>3, <1>4, <1>5, <1>6, <1>7, <1>8, <1>9 DEF Next, Listen, Poll, Faulty

\* The EventSource leaves "closed" only with a new run, and its last event id is
\* that of an event it was sent.
LEMMA SourceStep ==
    ASSUME [Next]_vars
    PROVE  /\ \/ source' = source
              \/ source' = "closed"
              \/ /\ source' \in {"connecting", "open", "dead"}
                 /\ mode = "running" \/ source = "open" \/ mode' = "running"
           /\ lastId' \in {lastId, -1} \/ (wire # <<>> /\ lastId' = Head(wire).sequence)
<1>1. CASE Review \/ Watch \/ Stream \/ UNCHANGED vars
  BY <1>1 DEF Review, Start, Report, Complete, Fail, Cancel, Expire, Watch, WatchdogEnds,
     WatchdogFires, browser, Stream, Serve, ServeRaises, vars
<1>2. CASE Listen
  BY <1>2 DEF Listen, Open, OpenRefused, StreamEnds, Reconnecting, Hear, UpdateTerminal, Unmount
<1>3. CASE Break \/ BreakSilently \/ Restart \/ FirstFails
  BY <1>3 DEF Break, BreakSilently, Restart, Reconnecting, FirstFails, browser
<1>4. CASE ReadFirst \/ ReadPoll \/ PollGone \/ PollFails
  BY <1>4 DEF ReadFirst, ReadPoll, UpdateActive, UpdateTerminal, PollGone, PollFails, EndInError,
     Unmount, browser
<1>5. CASE FirstAnswered \/ PollAnswered \/ DropPoll \/ TimerFires
  BY <1>5 DEF FirstAnswered, PollAnswered, DropPoll, TimerFires, browser
<1>6. CASE User
  BY <1>6 DEF User, RetryAccepted, RetryRefused, LatestAnswered, Resume, Mount, StayInError, browser
<1>. QED
  BY <1>1, <1>2, <1>3, <1>4, <1>5, <1>6 DEF Next, Poll, Faulty

\* The polls: one more is asked, one is answered, one is read, or all are gone.
LEMMA PollsStep ==
    ASSUME [Next]_vars
    PROVE  \/ polls' = polls
           \/ polls' = EmptyBag
           \/ (mode = "running" \/ source = "open") /\ polls' = polls (+) One(Asked)
           \/ mode = "running" /\ \E s \in DOMAIN polls : polls' = polls (-) One(s)
           \/ /\ mode = "running" /\ Asked \in DOMAIN polls /\ row' = row
              /\ polls' = (polls (-) One(Asked)) (+) One(Answer)
<1>1. CASE Review \/ Stream \/ UNCHANGED vars
  BY <1>1 DEF Review, Start, Report, Complete, Fail, Cancel, Expire, Stream, Serve, ServeRaises,
     effect, vars
<1>2. CASE Watch
  BY <1>2 DEF Watch, WatchdogEnds, WatchdogFires, StartPolling
<1>3. CASE Open \/ BreakSilently \/ FirstFails
  BY <1>3 DEF Open, BreakSilently, FirstFails, effect
<1>4. CASE OpenRefused \/ StreamEnds \/ Break
  BY <1>4 DEF OpenRefused, StreamEnds, Break, Reconnecting, StartPolling
<1>5. CASE Hear \/ ReadFirst
  BY <1>5 DEF Hear, ReadFirst, UpdateTerminal, Unmount, effect
<1>6. CASE ReadPoll
  BY <1>6 DEF ReadPoll, UpdateTerminal, Unmount, BagToSet
<1>7. CASE PollGone \/ PollFails
  BY <1>7 DEF PollGone, PollFails, EndInError, Unmount
<1>8. CASE PollAnswered
  BY <1>8 DEF PollAnswered, BagIn, BagToSet
<1>9. CASE FirstAnswered \/ TimerFires
  BY <1>9 DEF FirstAnswered, TimerFires
<1>10. CASE DropPoll
  BY <1>10 DEF DropPoll, BagToSet
<1>11. CASE User
  BY <1>11 DEF User, RetryAccepted, RetryRefused, LatestAnswered, Resume, Mount, StayInError, effect
<1>12. CASE Restart
  <2>1. CASE source = "open"
    BY <1>12, <2>1 DEF Restart, Reconnecting, StartPolling
  <2>2. CASE source # "open"
    BY <1>12, <2>2 DEF Restart, effect
  <2>. QED  BY <2>1, <2>2
<1>. QED
  BY <1>1, <1>2, <1>3, <1>4, <1>5, <1>6, <1>7, <1>8, <1>9, <1>10, <1>11, <1>12
  DEF Next, Listen, Poll, Faulty

-----------------------------------------------------------------------------
(* The row, its sequence and its end.                                        *)

\* The sequence counts a start, the reports, an end and a cancellation of what had
\* ended; a review that is complete says so in its progress.
RowBound ==
    /\ row.sequence <= MaxSequence
    /\ row.state = "QUEUED" => row.sequence = 0
    /\ row.state \in {"REVIEWING", "FAILED"} => row.sequence <= MaxReports + 1
    /\ row.state = "COMPLETED" => /\ row.sequence <= MaxReports + 2
                                  /\ row.stage = 6 /\ row.percent = 100
    /\ Live => row.stage >= 1

\* Where the row goes: an end is one, a completion is news, expiry is for good.
RowGoes ==
    /\ ~Live => row' = row
    /\ row.state \in {"COMPLETED", "CANCELLED", "EXPIRED"} =>
          row'.state \in {"COMPLETED", "CANCELLED", "EXPIRED"}
    /\ row'.state = "COMPLETED" => row' = row \/ row'.sequence > row.sequence

LEMMA RowSteps ==
    ASSUME RowInv, RowBound, [Next]_vars
    PROVE  RowBound' /\ RowGoes
<1> USE DEF RowInv, RowBound, RowGoes, Live, Active, Terminal, MaxSequence
<1>0. MaxReports \in Nat
  BY StreamAssumption
<1>1. CASE Start
  BY <1>0, <1>1 DEF Start
<1>2. CASE Report
  <2>1. PICK r \in Reports : /\ row.sequence <= MaxReports \/ Late(r)
                             /\ row' = Recorded(row, r[1], r[2])
    BY <1>2 DEF Report
  <2>2. r[1] \in 0 .. 6 /\ r[2] \in 0 .. 10
    BY StreamAssumption
  <2>3. RowOf(row) /\ row.state = "REVIEWING"
    BY <1>2 DEF Report, RowOf
  <2>4. RowOf(row') /\ row'.stage >= row.stage /\ row'.state = "REVIEWING"
    BY <2>1, <2>2, <2>3, RecordedGrows
  <2>5. CASE Late(r)
    <3>1. row' = row
      BY <2>1, <2>2, <2>5 DEF Late, Recorded, UnknownStage
    <3>. QED  BY <3>1, <2>3
  <2>6. CASE row.sequence <= MaxReports
    <3>1. row'.sequence <= row.sequence + 1
      BY <2>1, <2>3 DEF RowOf, Recorded
    <3>. QED  BY <3>1, <2>3, <2>4, <2>6, <1>0 DEF RowOf
  <2>. QED  BY <2>1, <2>5, <2>6
<1>3. CASE Complete
  BY <1>0, <1>3 DEF Complete
<1>4. CASE Fail
  BY <1>0, <1>4 DEF Fail
<1>5. CASE Cancel
  <2>1. row' = [state |-> "CANCELLED", sequence |-> row.sequence + 1,
                stage |-> row.stage, percent |-> row.percent]
    BY <1>5 DEF Cancel
  <2>. QED
    BY <1>0, <1>5, <2>1 DEF Cancel
<1>6. CASE Expire
  BY <1>0, <1>6 DEF Expire, NoSnapshot
<1>7. CASE Restart
  BY <1>0, <1>7 DEF Restart
<1>8. CASE row' = row
  BY <1>8
<1>. QED
  BY <1>1, <1>2, <1>3, <1>4, <1>5, <1>6, <1>7, <1>8, OthersLeaveRow
  DEF Next, Review, Faulty, vars

LEMMA RowIsSnapshot == ASSUME RowInv, RowBound PROVE row \in Snapshot
  BY StreamAssumption DEF RowInv, RowBound, Snapshot, MaxSequence

\* What a stream keeps of the row it has served.
LEMMA ServedTypes ==
    ASSUME RowInv, RowBound, NEW last \in -1 .. MaxSequence
    PROVE  /\ AfterSending(last, row) \in [step : {"serving", "returned", "over"},
                                           last : -1 .. MaxSequence]
           /\ AfterSending(last, row).step = "returned" =>
                 row.state \in Terminal /\ Sent(last, row) = <<row>>
  BY StreamAssumption DEF RowInv, RowBound, MaxSequence, AfterSending, Sent, Due

-----------------------------------------------------------------------------
(* What a step does to the screen, the stream and the run of the effect.     *)

\* The local variables of a run, without the bound on the timers.
Runs == [polling : BOOLEAN, timer : BOOLEAN, strays : Nat, last : -1 .. MaxSequence,
         armed : BOOLEAN]

\* A request that was answered with a state holds a snapshot.
LEMMA AnsweredIsSnapshot ==
    ASSUME NEW s \in Request, s.state \in Active \cup Terminal
    PROVE  s \in Snapshot
  BY DEF Request, NoSnapshot, Active, Terminal

LEMMA HeadIsOnWire ==
    ASSUME wire \in Seq(Snapshot), wire # <<>>
    PROVE  Head(wire) \in Snapshot /\ Head(wire) \in OnWire
<1>1. Len(wire) \in Nat /\ Len(wire) >= 1 /\ Head(wire) = wire[1] /\ wire[1] \in Snapshot
  OBVIOUS
<1>. QED
  BY <1>1 DEF OnWire

\* Nobody looks at the screen: its progress and the last sequence stay.
ScreenStays == /\ shown' = shown /\ run'.last = run.last
               /\ mode' = mode \/ (mode = "error" /\ mode' = "left" /\ latest = NoSnapshot)
ScreenFails == /\ shown' = shown /\ run'.last = -1 /\ Cleared' /\ source' = "closed"
               /\ mode = "running" /\ mode' = "error" /\ latest' = latest
ScreenShows(s) == /\ s.state \in Active /\ shown' = Shown(s) /\ run'.last = LastOf(s)
                  /\ mode = "running" /\ mode' = mode /\ latest' = latest
ScreenEnds(s) == /\ s.state \in Terminal /\ shown' = Shown(s) /\ run'.last = -1
                 /\ Cleared' /\ source' = "closed"
                 /\ mode = "running" /\ mode' = (IF s.state = "COMPLETED" THEN "done" ELSE "error")
                 /\ latest' = latest
ScreenResumes(s) == /\ s.state \in Active /\ shown' = Progress(s) /\ run'.last = -1
                    /\ first' = Asked /\ polls' = EmptyBag /\ wire' = <<>> /\ stream'.step = "over"
                    /\ mode' = "running" /\ latest' = NoSnapshot /\ run'.polling = FALSE

LEMMA UpdateShows ==
    ASSUME TypeOK, mode = "running", latest' = latest, NEW s, NEW after,
           after \in Runs,
           UpdateActive(s, after)
    PROVE  ScreenShows(s)
  BY DEF UpdateActive, ScreenShows, Runs

LEMMA UpdateEnds ==
    ASSUME mode = "running", latest' = latest, NEW s, UpdateTerminal(s)
    PROVE  ScreenEnds(s)
<1>1. NoRun.last = -1 /\ NoStream.step = "over"
  BY DEF NoRun, FreshRun, NoStream
<1>. QED
  BY <1>1 DEF UpdateTerminal, ScreenEnds, Unmount, Cleared

\* The runs that the callers of update leave behind are runs.
LEMMA RunsAreTyped ==
    ASSUME TypeOK
    PROVE  run \in Runs /\ Rescheduled(run) \in Runs /\ Stopped(run) \in Runs
<1> USE DEF Runs
<1>1. run \in Runs
  BY StreamAssumption DEF TypeOK
<1>2. Stopped(run) \in Runs
  BY <1>1 DEF Stopped
<1>3. run.strays \in Nat /\ run.strays + 1 \in Nat
  BY <1>1
<1>4. CASE run.timer
  <2>1. Rescheduled(run) = [run EXCEPT !.timer = TRUE, !.strays = run.strays + 1]
    BY <1>4 DEF Rescheduled
  <2>. QED  BY <1>1, <1>2, <1>3, <2>1
<1>5. CASE ~run.timer
  <2>1. Rescheduled(run) = [run EXCEPT !.timer = TRUE, !.strays = run.strays]
    BY <1>5 DEF Rescheduled
  <2>. QED  BY <1>1, <1>2, <1>3, <2>1
<1>. QED
  BY <1>4, <1>5

LEMMA StartKeepsLast ==
    ASSUME TypeOK, NEW before, StartPolling(before),
           before = run \/ before = [run EXCEPT !.armed = FALSE]
    PROVE  run'.last = run.last
  BY DEF TypeOK, StartPolling

LEMMA ScreenStep ==
    ASSUME TypeOK, [Next]_vars
    PROVE  \/ ScreenStays
           \/ ScreenFails
           \/ \E s \in Flight : ScreenShows(s) \/ ScreenEnds(s)
           \/ \E s \in Status : ScreenResumes(s)
<1> DEFINE Goal == \/ ScreenStays
                   \/ ScreenFails
                   \/ \E s \in Flight : ScreenShows(s) \/ ScreenEnds(s)
                   \/ \E s \in Status : ScreenResumes(s)
<1> HIDE DEF Goal
<1>1. ASSUME Review \/ Stream \/ BreakSilently \/ UNCHANGED vars PROVE Goal
  BY <1>1 DEF Goal, ScreenStays, Review, Start, Report, Complete, Fail, Cancel, Expire, Stream,
     Serve, ServeRaises, BreakSilently, effect, screen, vars
<1>2. ASSUME WatchdogEnds \/ WatchdogFires PROVE Goal
  BY <1>2, StartKeepsLast DEF Goal, ScreenStays, WatchdogEnds, WatchdogFires, screen, TypeOK
<1>3. ASSUME Open \/ OpenRefused \/ StreamEnds \/ Break \/ FirstFails PROVE Goal
  BY <1>3, StartKeepsLast DEF Goal, ScreenStays, Open, OpenRefused, StreamEnds, Break, FirstFails,
     Reconnecting, Stopped, screen, TypeOK
<1>4. ASSUME Restart PROVE Goal
  <2>1. CASE source = "open"
    BY <1>4, <2>1, StartKeepsLast DEF Goal, ScreenStays, Restart, Reconnecting, screen
  <2>2. CASE source # "open"
    BY <1>4, <2>2 DEF Goal, ScreenStays, Restart, effect, screen
  <2>. QED  BY <2>1, <2>2
<1>5. ASSUME PollGone \/ PollFails PROVE Goal
  BY <1>5 DEF Goal, ScreenFails, PollGone, PollFails, EndInError, Unmount, Cleared, NoRun, FreshRun,
     NoStream
<1>6. ASSUME ReadFirst PROVE Goal
  <2>1. CASE first = Gone
    BY <1>6, <2>1 DEF Goal, ScreenStays, ReadFirst, screen
  <2>2. CASE first # Gone /\ UpdateActive(first, run)
    <3>1. first \in Flight
      BY <2>2, AnsweredIsSnapshot DEF UpdateActive, Flight, TypeOK
    <3>. QED  BY <1>6, <2>2, <3>1, UpdateShows, RunsAreTyped DEF Goal, ReadFirst
  <2>3. CASE first # Gone /\ UpdateTerminal(first)
    <3>1. first \in Flight
      BY <2>3, AnsweredIsSnapshot DEF UpdateTerminal, Flight, TypeOK
    <3>. QED  BY <1>6, <2>3, <3>1, UpdateEnds DEF Goal, ReadFirst
  <2>. QED  BY <1>6, <2>1, <2>2, <2>3 DEF ReadFirst
<1>7. ASSUME ReadPoll PROVE Goal
  <2>1. PICK s \in DOMAIN polls : UpdateActive(s, Rescheduled(run)) \/ UpdateTerminal(s)
    BY <1>7 DEF ReadPoll, BagToSet
  <2>2. s \in Flight
    BY <2>1, AnsweredIsSnapshot DEF UpdateActive, UpdateTerminal, Flight, TypeOK, BagToSet
  <2>3. mode = "running" /\ latest' = latest
    BY <1>7 DEF ReadPoll
  <2>. QED  BY <2>1, <2>2, <2>3, UpdateShows, UpdateEnds, RunsAreTyped DEF Goal
<1>8. ASSUME Hear PROVE Goal
  <2> DEFINE s == Head(wire)
  <2>1. s \in Flight
    BY <1>8, HeadIsOnWire DEF Hear, TypeOK, Flight
  <2>2. mode = "running" /\ latest' = latest
    BY <1>8 DEF Hear
  <2> HIDE DEF s
  <2>3. CASE UpdateTerminal(s)
    BY <2>1, <2>2, <2>3, UpdateEnds DEF Goal
  <2>4. CASE UNCHANGED <<stream, source, screen, effect>>
    BY <2>4 DEF Goal, ScreenStays, screen, effect
  <2>5. CASE /\ s.state \in Active
             /\ shown' = Shown(s)
             /\ run' = [Stopped(run) EXCEPT !.last = LastOf(s)]
             /\ mode' = mode
    BY <2>1, <2>2, <2>5, RunsAreTyped DEF Goal, ScreenShows, Runs
  <2>. QED  BY <1>8, <2>3, <2>4, <2>5 DEF Hear, s
<1>9. ASSUME FirstAnswered \/ PollAnswered \/ DropPoll \/ TimerFires PROVE Goal
  BY <1>9 DEF Goal, ScreenStays, FirstAnswered, PollAnswered, DropPoll, TimerFires, screen, TypeOK
<1>10. ASSUME RetryAccepted \/ RetryRefused \/ LatestAnswered \/ StayInError PROVE Goal
  BY <1>10 DEF Goal, ScreenStays, RetryAccepted, RetryRefused, LatestAnswered, StayInError, effect,
     screen
<1>11. ASSUME Resume PROVE Goal
  <2>1. latest \in Status
    BY <1>11, AnsweredIsSnapshot DEF Resume, Status, TypeOK
  <2>. QED
    BY <1>11, <2>1 DEF Goal, Resume, ScreenResumes, Mount, FreshRun, NoStream
<1>. QED
  BY <1>1, <1>2, <1>3, <1>4, <1>5, <1>6, <1>7, <1>8, <1>9, <1>10, <1>11
  DEF Goal, Next, Listen, Poll, Watch, Faulty, User

-----------------------------------------------------------------------------
(* The inductive invariant.                                                  *)

Below(a, b) == /\ a.sequence <= b.sequence /\ a.stage <= b.stage
               /\ a.percent <= b.percent

\* A screen that does not run has nothing under way, and a refused retry is the
\* matter of a screen that says "error".
Aborted == mode # "running" => Cleared /\ source = "closed"
Asking == latest # NoSnapshot => mode = "error"

\* Whatever has been read is a progress and not ahead of the row.
ReadTrue == \A a \in Flight \cup Status :
                /\ a.stage >= 1 /\ a.state # "EXPIRED"
                /\ Live => Below(a, row)

\* Two readings: the newer has got at least as far.
Chain == \A a, b \in Flight : a.sequence < b.sequence => Below(a, b)

\* A reading that will be shown is not behind what is shown, nor is the row.
News == \A a \in Flight : a.sequence > run.last => Below(shown, a)
ShownOld == /\ \A a \in Status : Below(shown, a)
            /\ Live => Below(shown, row) /\ run.last <= row.sequence

\* The completion of the review is newer than all that was read before it.
IsNews(s) == s.state = "COMPLETED" =>
                 /\ s.stage = 6 /\ s.percent = 100
                 /\ run.last < s.sequence
                 /\ \A b \in Flight : b.state \in Active => b.sequence < s.sequence
Over == row.state \in {"COMPLETED", "CANCELLED", "EXPIRED"}
EndIsNews == /\ IsNews(row)
             /\ \A s \in Flight : IsNews(s) /\ (s.state = "COMPLETED" => Over)

\* A stream that has returned has sent the end, or the row is refused.
Returned == stream.step = "returned" =>
                ~Live \/ (wire # <<>> /\ wire[Len(wire)].state \in Terminal)

\* The chains of polls of a run, and the starts that it may still see: one for each
\* fault, one by the watchdog, and one by a row that is refused.
Bit(x) == IF x THEN 1 ELSE 0
Chains == run.strays + Bit(run.timer) + Cardinality(Tokens(polls))
Reopens == Bit(source = "open" \/ (source = "connecting" /\ ~(~Live /\ run.polling)))
Budget == /\ IsFiniteSet(Tokens(polls))
          /\ Chains + (MaxFaults - faults) + Bit(run.armed) + Reopens <= MaxFaults + 2

PollingLives == mode = "running" /\ run.polling =>
                    run.timer \/ run.strays > 0 \/ polls # EmptyBag

StreamInv ==
    /\ RowInv /\ RowBound /\ TypeOK
    /\ Aborted /\ Asking /\ Returned
    /\ ReadTrue /\ Chain /\ News /\ ShownOld /\ EndIsNews /\ DoneShowsAll
    /\ Budget /\ PollingLives

-----------------------------------------------------------------------------
(* What is under way.                                                        *)

LEMMA NotSnapshots == /\ NoSnapshot \notin Snapshot /\ Asked \notin Snapshot
                      /\ Gone \notin Snapshot
  BY DEF NoSnapshot, Asked, Gone, Snapshot, Active, Terminal

\* What is on the wire after a step was there, or is the row.
LEMMA WireGoes ==
    ASSUME TypeOK, RowInv, RowBound, [Next]_vars
    PROVE  /\ wire' \in Seq(Snapshot) /\ Len(wire') <= MaxWire
           /\ \A a \in OnWire' : a \in OnWire \/ (a = row /\ Live /\ row' = row)
<1> DEFINE Goal == /\ wire' \in Seq(Snapshot) /\ Len(wire') <= MaxWire
                   /\ \A a \in OnWire' : a \in OnWire \/ (a = row /\ Live /\ row' = row)
<1>0. /\ wire \in Seq(Snapshot) /\ Len(wire) <= MaxWire /\ MaxWire \in Nat /\ MaxWire >= 1
      /\ row \in Snapshot
  BY RowIsSnapshot, StreamAssumption DEF TypeOK
<1>1. ASSUME wire' = wire PROVE Goal
  BY <1>0, <1>1 DEF OnWire
<1>2. ASSUME wire' = <<>> PROVE Goal
  BY <1>0, <1>2 DEF OnWire
<1>3. ASSUME wire # <<>> /\ wire' = Tail(wire) PROVE Goal
  <2>1. /\ Tail(wire) \in Seq(Snapshot) /\ Len(Tail(wire)) = Len(wire) - 1
        /\ \A i \in 1 .. Len(wire) - 1 : Tail(wire)[i] = wire[i + 1]
        /\ Len(wire) \in Nat /\ Len(wire) >= 1
    BY <1>0, <1>3
  <2>2. \A i \in 1 .. Len(wire) - 1 : i + 1 \in 1 .. Len(wire)
    BY <2>1
  <2>3. Len(wire') = Len(wire) - 1 /\ \A i \in 1 .. Len(wire) - 1 : wire'[i] = wire[i + 1]
    BY <1>3, <2>1
  <2>4. \A a \in OnWire' : a \in OnWire
    BY <2>2, <2>3 DEF OnWire
  <2>5. wire' \in Seq(Snapshot) /\ Len(wire') <= MaxWire
    BY <1>0, <1>3, <2>1
  <2>. QED  BY <2>4, <2>5
<1>4. ASSUME wire' = wire \o <<row>> /\ Len(wire) < MaxWire /\ Live /\ row' = row PROVE Goal
  <2>1. /\ wire' \in Seq(Snapshot) /\ Len(wire') = Len(wire) + 1 /\ Len(wire) \in Nat
        /\ \A i \in 1 .. Len(wire) : wire'[i] = wire[i]
        /\ wire'[Len(wire) + 1] = row
    BY <1>0, <1>4
  <2>2. \A i \in 1 .. Len(wire') : i \in 1 .. Len(wire) \/ i = Len(wire) + 1
    BY <2>1
  <2>3. \A a \in OnWire' : a \in OnWire \/ a = row
    BY <2>1, <2>2 DEF OnWire
  <2>. QED  BY <1>0, <1>4, <2>1, <2>3
<1>5. ASSUME wire' = <<row>> /\ Live /\ row' = row PROVE Goal
  <2>1. Len(wire') = 1 /\ wire'[1] = row
    BY <1>5
  <2>. QED  BY <1>0, <1>5, <2>1 DEF OnWire
<1>6. Sent(lastId, row) \in {<<>>, <<row>>}
  BY DEF Sent
<1>. QED
  <2> HIDE DEF Goal
  <2>1. Goal
    BY <1>1, <1>2, <1>3, <1>4, <1>5, <1>6, StreamStep
  <2>. QED  BY <2>1 DEF Goal

\* A poll that is under way after a step was so before, is new, or has read the row.
LEMMA PollsGo ==
    ASSUME TypeOK, IsFiniteSet(Tokens(polls)), [Next]_vars
    PROVE  /\ IsABag(polls') /\ IsFiniteSet(Tokens(polls'))
           /\ \A a \in DOMAIN polls' : \/ a \in DOMAIN polls \/ a \in {Asked, Gone}
                                       \/ a = row /\ Live /\ row' = row
<1>0. IsABag(polls)
  BY DEF TypeOK
<1>1. CASE polls' = polls
  <2>1. IsABag(polls') /\ Tokens(polls') = Tokens(polls)
    BY <1>0, <1>1
  <2>. QED  BY <1>1, <2>1
<1>2. CASE polls' = EmptyBag
  BY <1>2, NoPolls
<1>3. CASE polls' = polls (+) One(Asked)
  <2> DEFINE new == polls (+) One(Asked)
  <2>1. IsABag(new) /\ DOMAIN new = DOMAIN polls \cup {Asked} /\ IsFiniteSet(Tokens(new))
    BY <1>0, OnePollMore
  <2>2. polls' = new
    BY <1>3
  <2> HIDE DEF new
  <2>. QED  BY <2>1, <2>2
<1>4. CASE \E s \in DOMAIN polls : polls' = polls (-) One(s)
  BY <1>0, <1>4, OnePollLess
<1>5. CASE /\ Asked \in DOMAIN polls /\ row' = row
           /\ polls' = (polls (-) One(Asked)) (+) One(Answer)
  <2> DEFINE mid == polls (-) One(Asked)
  <2>1. IsABag(mid) /\ DOMAIN mid \subseteq DOMAIN polls /\ IsFiniteSet(Tokens(mid))
    BY <1>0, <1>5, OnePollLess
  <2>2. polls' = mid (+) One(Answer)
    BY <1>5
  <2> HIDE DEF mid
  <2>3. /\ IsABag(polls') /\ DOMAIN polls' = DOMAIN mid \cup {Answer}
        /\ IsFiniteSet(Tokens(polls'))
    BY <2>1, <2>2, OnePollMore
  <2>. QED  BY <1>5, <2>1, <2>3, AnswerIs
<1>. QED
  BY <1>1, <1>2, <1>3, <1>4, <1>5, PollsStep

LEMMA FlightStep ==
    ASSUME TypeOK, RowInv, RowBound, IsFiniteSet(Tokens(polls)), [Next]_vars
    PROVE  /\ \A a \in Flight' : a \in Flight \/ (a = row /\ Live /\ row' = row)
           /\ \A a \in Status' : \/ a \in Status /\ latest' = latest
                                 \/ a = row /\ Live /\ UNCHANGED <<row, mode, shown>>
<1>1. ASSUME NEW a \in Flight' PROVE a \in Flight \/ (a = row /\ Live /\ row' = row)
  <2>1. a \in Snapshot /\ (a = first' \/ a \in DOMAIN polls' \/ a \in OnWire')
    BY DEF Flight, Snapshot
  <2>2. CASE a = first'
    BY <2>1, <2>2, FirstStep, NotSnapshots, AnswerIs DEF Flight
  <2>3. CASE a \in DOMAIN polls'
    BY <2>1, <2>3, PollsGo, NotSnapshots DEF Flight
  <2>4. CASE a \in OnWire'
    BY <2>1, <2>4, WireGoes DEF Flight
  <2>. QED  BY <2>1, <2>2, <2>3, <2>4
<1>2. ASSUME NEW a \in Status' PROVE \/ a \in Status /\ latest' = latest
                                     \/ a = row /\ Live /\ UNCHANGED <<row, mode, shown>>
  <2>1. a \in Snapshot /\ a = latest'
    BY DEF Status, Snapshot
  <2>. QED  BY <2>1, LatestStep, NotSnapshots, AnswerIs DEF Status
<1>. QED
  BY <1>1, <1>2

LEMMA ClearedIsEmpty ==
    ASSUME first' \in {NoSnapshot, Asked}, polls' = EmptyBag, wire' = <<>>
    PROVE  Flight' = {}
<1>1. OnWire' = {} /\ DOMAIN polls' = {}
  BY NoPolls DEF OnWire
<1>. QED
  BY <1>1, NotSnapshots DEF Flight, Snapshot

-----------------------------------------------------------------------------
(* The invariant is kept.                                                    *)

Ints(a) == a.sequence \in Int /\ a.stage \in Int /\ a.percent \in Int

\* Readings, the row before and after, and what is shown can be compared.
LEMMA AllAreInts ==
    ASSUME TypeOK, RowInv, RowBound, [Next]_vars
    PROVE  /\ \A a \in Flight \cup Status : Ints(a) /\ a.sequence >= 0
           /\ Ints(row) /\ Ints(row') /\ Ints(shown) /\ run.last \in Int
           /\ row.sequence >= 0 /\ row'.sequence >= 0
<1>1. MaxSequence \in Nat
  BY StreamAssumption DEF MaxSequence
<1>2. Ints(row) /\ Ints(row') /\ row.sequence >= 0 /\ row'.sequence >= 0
  BY StepGoesOn DEF RowInv, Ints
<1>3. \A a \in Flight \cup Status : Ints(a) /\ a.sequence >= 0
  BY <1>1 DEF Flight, Status, Snapshot, Ints
<1>4. Ints(shown) /\ run.last \in Int
  <2>1. shown \in [sequence : 0 .. MaxSequence, stage : 0 .. 6, percent : 0 .. 100]
    BY DEF TypeOK
  <2>2. run.last \in -1 .. MaxSequence
    BY RunsAreTyped DEF Runs
  <2>. QED  BY <1>1, <2>1, <2>2 DEF Ints
<1>. QED
  BY <1>2, <1>3, <1>4

LEMMA BelowOn ==
    ASSUME NEW a, NEW b, NEW c, Ints(a), Ints(b), Ints(c), Below(a, b), Below(b, c)
    PROVE  Below(a, c)
  BY DEF Ints, Below

\* While the row is live, so it was, and it has not gone back.
LEMMA RowIsAhead ==
    ASSUME RowInv, RowBound, [Next]_vars, Live'
    PROVE  Live /\ Below(row, row')
  BY StepGoesOn, RowSteps DEF Onward, RowGoes, Live, Below, RowInv

LEMMA AbortedKept ==
    ASSUME TypeOK, Aborted, [Next]_vars
    PROVE  Aborted'
<1> SUFFICES ASSUME mode' # "running" PROVE Cleared' /\ source' = "closed"
  BY DEF Aborted
<1>1. CASE ScreenFails \/ \E s \in Flight : ScreenEnds(s)
  BY <1>1 DEF ScreenFails, ScreenEnds
<1>2. CASE ScreenStays
  <2>1. mode # "running" /\ Cleared /\ source = "closed"
    BY <1>2 DEF ScreenStays, Aborted
  <2>2. first' = NoSnapshot
    BY <2>1, FirstStep DEF Cleared
  <2>3. polls' = EmptyBag
    BY <2>1, PollsStep, NoPolls DEF Cleared
  <2>4. wire' = <<>> /\ stream'.step = "over"
    BY <2>1, StreamStep DEF Cleared, NoStream
  <2>5. source' = "closed"
    BY <2>1, SourceStep
  <2>. QED
    BY <2>2, <2>3, <2>4, <2>5 DEF Cleared
<1>. QED
  BY <1>1, <1>2, ScreenStep DEF ScreenShows, ScreenResumes

LEMMA AskingKept ==
    ASSUME TypeOK, Asking, [Next]_vars
    PROVE  Asking'
<1> SUFFICES ASSUME latest' # NoSnapshot PROVE mode' = "error"
  BY DEF Asking
<1>1. CASE latest' = latest
  <2>1. mode = "error"
    BY <1>1 DEF Asking
  <2>. QED
    BY <1>1, <2>1, ScreenStep
    DEF ScreenStays, ScreenFails, ScreenShows, ScreenEnds, ScreenResumes
<1>2. CASE latest' = Asked /\ mode' = "error"
  BY <1>2
<1>3. CASE latest = Asked /\ mode' = mode
  BY <1>3 DEF Asking, Asked, NoSnapshot
<1>. QED
  BY <1>1, <1>2, <1>3, LatestStep

LEMMA ReadTrueKept ==
    ASSUME TypeOK, RowInv, RowBound, IsFiniteSet(Tokens(polls)), ReadTrue, [Next]_vars
    PROVE  ReadTrue'
<1> SUFFICES ASSUME NEW a \in Flight' \cup Status'
             PROVE  /\ a.stage >= 1 /\ a.state # "EXPIRED"
                    /\ Live' => Below(a, row')
  BY DEF ReadTrue
<1>1. CASE a \in Flight \cup Status
  BY <1>1, AllAreInts, RowIsAhead, BelowOn DEF ReadTrue
<1>2. CASE a = row /\ Live /\ row' = row
  BY <1>2, AllAreInts DEF RowBound, Live, Below, Ints
<1>. QED
  BY <1>1, <1>2, FlightStep

LEMMA ChainKept ==
    ASSUME TypeOK, RowInv, RowBound, IsFiniteSet(Tokens(polls)), ReadTrue, Chain, [Next]_vars
    PROVE  Chain'
<1> SUFFICES ASSUME NEW a \in Flight', NEW b \in Flight', a.sequence < b.sequence
             PROVE  Below(a, b)
  BY DEF Chain
<1>1. CASE a \in Flight /\ b \in Flight
  BY <1>1 DEF Chain
<1>2. CASE a \in Flight /\ b = row /\ Live
  BY <1>2 DEF ReadTrue
<1>3. CASE a = row /\ Live /\ b \in Flight
  BY <1>3, AllAreInts DEF ReadTrue, Below, Ints
<1>4. CASE a = row /\ b = row
  BY <1>4, AllAreInts DEF Ints
<1>. QED
  BY <1>1, <1>2, <1>3, <1>4, FlightStep

\* update on a reading: it is shown exactly if it is newer than the last one.
LEMMA UpdateTakesNewer ==
    ASSUME ReadTrue, NEW s \in Flight
    PROVE  /\ Shown(s) = IF s.sequence > run.last THEN Progress(s) ELSE shown
           /\ LastOf(s) = IF s.sequence > run.last THEN s.sequence ELSE run.last
  BY DEF ReadTrue, Shown, LastOf, IsProgress, Flight, Snapshot

\* The three things that can happen to what is shown, as far as readings to come
\* are concerned.
LEMMA ShownGoes ==
    ASSUME TypeOK, ReadTrue, [Next]_vars
    PROVE  \/ shown' = shown /\ run'.last = run.last
           \/ Flight' = {} /\ run'.last = -1 /\ shown' = shown
           \/ /\ Flight' = {} /\ run'.last = -1
              /\ \E s \in Flight \cup Status : shown' = Progress(s)
           \/ \E s \in Flight : /\ shown' = Progress(s) /\ run'.last = s.sequence
                                /\ s.sequence > run.last /\ s.state \in Active
<1>1. CASE ScreenStays
  BY <1>1 DEF ScreenStays
<1>2. CASE ScreenFails
  BY <1>2, ClearedIsEmpty DEF ScreenFails, Cleared
<1>3. CASE \E s \in Flight : ScreenShows(s)
  BY <1>3, UpdateTakesNewer DEF ScreenShows
<1>4. CASE \E s \in Flight : ScreenEnds(s)
  BY <1>4, UpdateTakesNewer, ClearedIsEmpty DEF ScreenEnds, Cleared
<1>5. CASE \E s \in Status : ScreenResumes(s)
  BY <1>5, ClearedIsEmpty DEF ScreenResumes
<1>. QED
  BY <1>1, <1>2, <1>3, <1>4, <1>5, ScreenStep

LEMMA NewsKept ==
    ASSUME TypeOK, RowInv, RowBound, IsFiniteSet(Tokens(polls)), ReadTrue, Chain, News, ShownOld,
           [Next]_vars
    PROVE  News'
<1> SUFFICES ASSUME NEW a \in Flight', a.sequence > run'.last PROVE Below(shown', a)
  BY DEF News
<1>1. a \in Flight \/ (a = row /\ Live)
  BY FlightStep
<1>2. CASE shown' = shown /\ run'.last = run.last
  BY <1>1, <1>2 DEF News, ShownOld
<1>3. ASSUME NEW s \in Flight, shown' = Progress(s), run'.last = s.sequence
      PROVE  Below(shown', a)
  <2>1. Below(s, a)
    <3>1. CASE a \in Flight
      BY <1>3, <3>1, AllAreInts DEF Chain, Ints
    <3>2. CASE a = row /\ Live
      BY <3>2 DEF ReadTrue
    <3>. QED  BY <1>1, <3>1, <3>2
  <2>. QED  BY <1>3, <2>1 DEF Below, Progress
<1>. QED
  BY <1>2, <1>3, ShownGoes

LEMMA ShownOldKept ==
    ASSUME TypeOK, RowInv, RowBound, IsFiniteSet(Tokens(polls)), Asking, ReadTrue, ShownOld,
           [Next]_vars
    PROVE  ShownOld'
<1>1. ASSUME NEW a \in Status' PROVE Below(shown', a)
  <2>1. CASE a = row /\ Live /\ UNCHANGED <<row, mode, shown>>
    BY <2>1 DEF ShownOld
  <2>2. CASE a \in Status /\ latest' = latest
    <3>1. mode = "error" /\ latest' # NoSnapshot
      BY <2>2, NotSnapshots DEF Asking, Status
    <3>2. shown' = shown
      BY <3>1, ScreenStep DEF ScreenStays, ScreenFails, ScreenShows, ScreenEnds, ScreenResumes
    <3>. QED  BY <2>2, <3>2 DEF ShownOld
  <2>. QED  BY <2>1, <2>2, FlightStep
<1>2. ASSUME Live' PROVE Below(shown', row') /\ run'.last <= row'.sequence
  <2>1. Live /\ Below(row, row') /\ row.sequence <= row'.sequence
    BY <1>2, RowIsAhead DEF Below
  <2>2. Below(shown, row') /\ run.last <= row'.sequence
    BY <2>1, AllAreInts, BelowOn DEF ShownOld, Ints
  <2>3. \A s \in Flight \cup Status : Below(s, row')
    BY <2>1, AllAreInts, BelowOn DEF ReadTrue
  <2>4. \A s \in Flight \cup Status : Below(Progress(s), row') /\ s.sequence <= row'.sequence
    BY <2>3 DEF Below, Progress
  <2>5. -1 <= row'.sequence
    BY AllAreInts DEF Ints
  <2>. QED
    BY <2>2, <2>4, <2>5, ShownGoes
<1>. QED
  BY <1>1, <1>2 DEF ShownOld

\* The last sequence of a run stays, is that of an active reading, or starts anew.
LEMMA LastGoes ==
    ASSUME TypeOK, ReadTrue, [Next]_vars
    PROVE  \/ run'.last = run.last
           \/ run'.last = -1
           \/ \E s \in Flight : s.state \in Active /\ run'.last = s.sequence
  BY ShownGoes

LEMMA EndIsNewsKept ==
    ASSUME TypeOK, RowInv, RowBound, IsFiniteSet(Tokens(polls)), ReadTrue, ShownOld, EndIsNews,
           [Next]_vars
    PROVE  EndIsNews'
<1>0. /\ \A a \in Flight : Ints(a) /\ a.sequence >= 0
      /\ Ints(row) /\ Ints(row') /\ run.last \in Int /\ row.sequence >= 0 /\ row'.sequence >= 0
  BY AllAreInts
<1>1. Over => Over'
  BY RowSteps DEF RowGoes, Over
<1>2. IsNews(row)'
  <2> SUFFICES ASSUME row'.state = "COMPLETED"
               PROVE  /\ row'.stage = 6 /\ row'.percent = 100
                      /\ run'.last < row'.sequence
                      /\ \A b \in Flight' : b.state \in Active => b.sequence < row'.sequence
    BY DEF IsNews
  <2>1. row'.stage = 6 /\ row'.percent = 100
    BY RowSteps DEF RowBound
  <2>2. \A s \in Flight : s.state \in Active => s.sequence < row'.sequence
    <3>1. CASE row' = row
      BY <3>1 DEF EndIsNews, IsNews
    <3>2. CASE row'.sequence > row.sequence /\ Live
      BY <1>0, <3>2 DEF ReadTrue, Below, Ints
    <3>. QED  BY <3>1, <3>2, RowSteps DEF RowGoes
  <2>3. run.last < row'.sequence
    <3>1. CASE row' = row
      BY <3>1 DEF EndIsNews, IsNews
    <3>2. CASE row'.sequence > row.sequence /\ Live
      BY <1>0, <3>2 DEF ShownOld, Ints
    <3>. QED  BY <3>1, <3>2, RowSteps DEF RowGoes
  <2>4. run'.last < row'.sequence
    BY <1>0, <2>2, <2>3, LastGoes DEF Ints
  <2>5. ASSUME NEW b \in Flight', b.state \in Active PROVE b.sequence < row'.sequence
    <3>1. CASE b \in Flight
      BY <2>2, <2>5, <3>1
    <3>2. CASE b = row /\ row' = row
      BY <2>5, <3>2 DEF Active
    <3>. QED  BY <3>1, <3>2, FlightStep
  <2>. QED  BY <2>1, <2>4, <2>5
<1>3. ASSUME NEW s \in Flight', s.state = "COMPLETED"
      PROVE  IsNews(s)' /\ Over'
  <2>1. CASE s \in Flight
    <3>1. /\ s.stage = 6 /\ s.percent = 100 /\ run.last < s.sequence /\ Over
          /\ \A b \in Flight : b.state \in Active => b.sequence < s.sequence
      BY <1>3, <2>1 DEF EndIsNews, IsNews
    <3>2. run'.last < s.sequence
      BY <1>0, <2>1, <3>1, LastGoes DEF Ints
    <3>3. ASSUME NEW b \in Flight', b.state \in Active PROVE b.sequence < s.sequence
      <4>1. b # row
        BY <3>1, <3>3 DEF Over, Active
      <4>. QED  BY <3>1, <3>3, <4>1, FlightStep
    <3>. QED  BY <1>1, <3>1, <3>2, <3>3 DEF IsNews
  <2>2. CASE s = row /\ row' = row
    BY <1>2, <1>3, <2>2 DEF Over, IsNews
  <2>. QED  BY <2>1, <2>2, FlightStep
<1>4. \A s \in Flight' : IsNews(s)' /\ (s.state = "COMPLETED" => Over')
  BY <1>3 DEF IsNews
<1>. QED
  BY <1>2, <1>4 DEF EndIsNews

LEMMA DoneKept ==
    ASSUME TypeOK, RowInv, RowBound, ReadTrue, EndIsNews, DoneShowsAll, [Next]_vars
    PROVE  DoneShowsAll'
<1> SUFFICES ASSUME mode' = "done"
             PROVE  shown'.stage = 6 /\ shown'.percent = 100 /\ Over'
  BY DEF DoneShowsAll, Over
<1>1. Over => Over'
  BY RowSteps DEF RowGoes, Over
<1>2. CASE ScreenStays
  BY <1>1, <1>2 DEF ScreenStays, DoneShowsAll, Over
<1>3. ASSUME NEW s \in Flight, ScreenEnds(s)
      PROVE  shown'.stage = 6 /\ shown'.percent = 100 /\ Over'
  <2>1. s.state = "COMPLETED"
    BY <1>3 DEF ScreenEnds
  <2>2. s.stage = 6 /\ s.percent = 100 /\ run.last < s.sequence /\ Over
    BY <2>1 DEF EndIsNews, IsNews
  <2>3. s.sequence > run.last
    BY <2>2, AllAreInts DEF Ints
  <2>4. shown' = Progress(s)
    BY <1>3, <2>3, UpdateTakesNewer DEF ScreenEnds
  <2>. QED  BY <1>1, <2>2, <2>4 DEF Progress
<1>. QED
  BY <1>2, <1>3, ScreenStep DEF ScreenFails, ScreenShows, ScreenResumes

LEMMA ReturnedKept ==
    ASSUME TypeOK, RowInv, RowBound, Returned, [Next]_vars
    PROVE  Returned'
<1> SUFFICES ASSUME stream'.step = "returned", Live'
             PROVE  wire' # <<>> /\ wire'[Len(wire')].state \in Terminal
  BY DEF Returned
<1>0. /\ Live /\ wire \in Seq(Snapshot) /\ Len(wire) \in Nat
      /\ lastId \in -1 .. MaxSequence /\ stream.last \in -1 .. MaxSequence
  BY RowIsAhead DEF TypeOK
<1>1. CASE stream' = stream /\ wire' = wire
  BY <1>0, <1>1 DEF Returned
<1>2. CASE stream' = stream /\ wire # <<>> /\ Head(wire).state \notin Terminal /\ wire' = Tail(wire)
  <2>1. wire[Len(wire)].state \in Terminal
    BY <1>0, <1>2 DEF Returned
  <2>2. Len(wire) # 1 /\ Len(wire) >= 1
    BY <1>0, <1>2, <2>1
  <2>3. Len(wire') = Len(wire) - 1 /\ wire'[Len(wire) - 1] = wire[Len(wire)]
    <3> DEFINE n == Len(wire) - 1
    <3>1. /\ Len(Tail(wire)) = n
          /\ \A i \in 1 .. n : Tail(wire)[i] = wire[i + 1]
      BY <1>0, <1>2
    <3>2. n \in 1 .. n /\ n + 1 = Len(wire)
      <4>1. \A m \in Nat : m # 1 /\ m >= 1 => m - 1 \in 1 .. (m - 1) /\ (m - 1) + 1 = m
        OBVIOUS
      <4>2. Len(wire) \in Nat /\ Len(wire) # 1 /\ Len(wire) >= 1
        BY <1>0, <2>2
      <4>. QED  BY <4>1, <4>2
    <3>3. Tail(wire)[n] = wire[Len(wire)]
      BY <3>1, <3>2
    <3>. QED  BY <1>2, <3>1, <3>3
  <2>. QED  BY <1>0, <2>1, <2>2, <2>3
<1>3. CASE stream' = NoStream
  BY <1>3 DEF NoStream
<1>4. CASE stream' = AfterSending(stream.last, row) /\ wire' = wire \o <<row>>
  <2>1. row.state \in Terminal
    BY <1>0, <1>4, ServedTypes
  <2>2. Len(wire') = Len(wire) + 1 /\ wire'[Len(wire) + 1] = row
    BY <1>0, <1>4
  <2>. QED  BY <1>0, <2>1, <2>2
<1>5. CASE stream' = AfterSending(lastId, row) /\ wire' = Sent(lastId, row)
  <2>1. row.state \in Terminal /\ wire' = <<row>>
    BY <1>0, <1>5, ServedTypes
  <2>2. Len(wire') = 1 /\ wire'[1] = row
    BY <2>1
  <2>. QED  BY <2>1, <2>2
<1>. QED
  BY <1>0, <1>1, <1>2, <1>3, <1>4, <1>5, StreamStep

-----------------------------------------------------------------------------
(* The chains of polls.                                                      *)

UnderWay == Cardinality(Tokens(polls))

\* What a step does to them.
ChainsStay == /\ UNCHANGED <<run.timer, run.strays, run.polling>>
              /\ run'.armed => run.armed
              /\ polls' = EmptyBag => polls = EmptyBag \/ ~run.polling
              /\ UnderWay' <= UnderWay /\ faults' >= faults /\ source' \in {source, "dead"}
ChainsGone == /\ run' = NoRun /\ polls' = EmptyBag /\ source' = "closed" /\ faults' >= faults
              /\ mode' # "running"
RunBegins == run' = FreshRun /\ polls' = EmptyBag /\ faults' = faults
ChainStarts ==
    /\ UNCHANGED <<run.timer, run.strays>> /\ run'.polling = TRUE
    /\ IF run.polling THEN polls' = polls
       ELSE UnderWay' = UnderWay + 1 /\ polls' # EmptyBag
    /\ \/ run.armed /\ ~run'.armed /\ ~run.polling /\ faults' = faults /\ source' = source
       \/ /\ run'.armed = run.armed /\ faults' = faults + 1
          /\ source \in {"open", "connecting"} /\ source' = "connecting"
       \/ /\ run'.armed = run.armed /\ faults' = faults /\ ~Live
          /\ \/ source = "connecting" /\ source' = "closed"
             \/ source = "open" /\ source' = "connecting"
PollAgain == /\ run'.timer = TRUE /\ run'.strays = run.strays + Bit(run.timer)
             /\ UnderWay' = UnderWay - 1
             /\ UNCHANGED <<run.polling, run.armed, source, faults>>
TimerRuns == /\ \/ run.timer /\ run'.timer = FALSE /\ run'.strays = run.strays
                \/ run.strays > 0 /\ run'.timer = run.timer /\ run'.strays = run.strays - 1
             /\ UnderWay' = UnderWay + 1 /\ polls' # EmptyBag
             /\ UNCHANGED <<run.polling, run.armed, source, faults>>
ChainStops == /\ run'.timer = FALSE /\ run'.polling = FALSE /\ polls' = polls
              /\ UNCHANGED <<run.strays, run.armed, faults>>
              /\ source' = "open" /\ (source = "open" \/ (source = "connecting" /\ Live))
ChainsGo == ChainsStay \/ ChainsGone \/ RunBegins \/ ChainStarts \/ PollAgain \/ TimerRuns
            \/ ChainStops

LEMMA StartOrNot ==
    ASSUME TypeOK, IsFiniteSet(Tokens(polls)), NEW before \in Runs, StartPolling(before),
           before.polling = run.polling
    PROVE  /\ run' \in Runs /\ run'.polling = TRUE
           /\ run'.timer = before.timer /\ run'.strays = before.strays
           /\ run'.armed = before.armed
           /\ IF run.polling THEN polls' = polls
              ELSE UnderWay' = UnderWay + 1 /\ polls' # EmptyBag
<1>1. CASE before.polling
  BY <1>1 DEF StartPolling, Runs
<1>2. CASE ~before.polling
  <2>1. run' = [before EXCEPT !.polling = TRUE] /\ polls' = polls (+) One(Asked)
    BY <1>2 DEF StartPolling
  <2>2. UnderWay' = UnderWay + 1 /\ polls' # EmptyBag
    BY <2>1, OnePollMore DEF TypeOK, UnderWay
  <2>3. run' \in Runs /\ run'.polling = TRUE /\ run'.timer = before.timer
        /\ run'.strays = before.strays /\ run'.armed = before.armed
    BY <2>1 DEF Runs
  <2>. QED  BY <1>2, <2>2, <2>3
<1>. QED
  BY <1>1, <1>2 DEF Runs

LEMMA ReconnectingStarts ==
    ASSUME TypeOK, IsFiniteSet(Tokens(polls)), Reconnecting
    PROVE  /\ run' \in Runs /\ run'.polling = TRUE
           /\ UNCHANGED <<run.timer, run.strays, run.armed>> /\ source' = "connecting"
           /\ IF run.polling THEN polls' = polls
              ELSE UnderWay' = UnderWay + 1 /\ polls' # EmptyBag
  BY RunsAreTyped, StartOrNot DEF Reconnecting

LEMMA LastIsTyped ==
    ASSUME TypeOK, NEW s \in Flight
    PROVE  LastOf(s) \in -1 .. MaxSequence
  BY RunsAreTyped, StreamAssumption DEF LastOf, Runs, Flight, Snapshot, MaxSequence

LEMMA ReschedulingIs ==
    ASSUME TypeOK
    PROVE  /\ Rescheduled(run) \in Runs /\ Rescheduled(run).timer = TRUE
           /\ Rescheduled(run).strays = run.strays + Bit(run.timer)
           /\ Rescheduled(run).polling = run.polling /\ Rescheduled(run).armed = run.armed
<1>1. run \in Runs /\ Rescheduled(run) \in Runs /\ run.strays \in Nat
  BY RunsAreTyped DEF Runs
<1>2. CASE run.timer
  <2>1. Rescheduled(run) = [run EXCEPT !.timer = TRUE, !.strays = run.strays + 1]
    BY <1>2 DEF Rescheduled
  <2>. QED  BY <1>1, <1>2, <2>1 DEF Runs, Bit
<1>3. CASE ~run.timer
  <2>1. Rescheduled(run) = [run EXCEPT !.timer = TRUE, !.strays = run.strays]
    BY <1>3 DEF Rescheduled
  <2>. QED  BY <1>1, <1>3, <2>1 DEF Runs, Bit
<1>. QED
  BY <1>2, <1>3

LEMMA ChainsStep ==
    ASSUME TypeOK, Returned, IsFiniteSet(Tokens(polls)), [Next]_vars
    PROVE  run' \in Runs /\ ChainsGo
<1> DEFINE Goal == run' \in Runs /\ ChainsGo
<1> HIDE DEF Goal
<1>0. run \in Runs /\ Stopped(run) \in Runs /\ faults \in Nat /\ UnderWay \in Nat /\ IsABag(polls)
  BY RunsAreTyped, FS_CardinalityType, StreamAssumption DEF TypeOK, UnderWay
<1>a. ASSUME UNCHANGED <<run, polls, faults, source>> PROVE Goal
  BY <1>0, <1>a DEF Goal, ChainsGo, ChainsStay, UnderWay
<1>b. ASSUME run' = NoRun, polls' = EmptyBag, source' = "closed", faults' \in {faults, faults + 1},
             mode' # "running"
      PROVE  Goal
  <2>0. FreshRun \in Runs
    BY StreamAssumption DEF FreshRun, Runs, MaxSequence
  <2>1. run' \in Runs
    BY <1>b, <2>0 DEF NoRun, Runs
  <2>. QED  BY <1>0, <1>b, <2>1 DEF Goal, ChainsGo, ChainsGone
<1>1. ASSUME Review \/ Stream \/ UNCHANGED vars PROVE Goal
  BY <1>1, <1>a DEF Review, Start, Report, Complete, Fail, Cancel, Expire, Stream, Serve, ServeRaises,
     browser, effect, vars
<1>2. ASSUME FirstAnswered \/ RetryAccepted \/ RetryRefused \/ LatestAnswered \/ StayInError PROVE Goal
  BY <1>2, <1>a DEF FirstAnswered, RetryAccepted, RetryRefused, LatestAnswered, StayInError, browser,
     effect
<1>3. ASSUME FirstFails \/ BreakSilently PROVE Goal
  BY <1>0, <1>3 DEF Goal, ChainsGo, ChainsStay, FirstFails, BreakSilently, browser, effect, UnderWay
<1>4. ASSUME PollGone \/ PollFails PROVE Goal
  BY <1>4, <1>b DEF PollGone, PollFails, EndInError, Unmount
<1>5. ASSUME NEW s, UpdateTerminal(s), faults' = faults PROVE Goal
  BY <1>5, <1>b DEF UpdateTerminal, Unmount
<1>6. ASSUME ReadFirst PROVE Goal
  <2>1. CASE UNCHANGED <<run, polls, faults, source>>
    BY <2>1, <1>a
  <2>2. CASE UpdateActive(first, run) /\ UNCHANGED <<polls, faults>>
    <3>1. LastOf(first) \in -1 .. MaxSequence
      <4>1. first \in Flight
        BY <2>2, AnsweredIsSnapshot DEF UpdateActive, Flight, TypeOK
      <4>. QED  BY <4>1, LastIsTyped
    <3>2. run' = [run EXCEPT !.last = LastOf(first)] /\ source' = source
      BY <2>2 DEF UpdateActive
    <3>. QED  BY <1>0, <2>2, <3>1, <3>2 DEF Goal, ChainsGo, ChainsStay, Runs, UnderWay
  <2>. QED  BY <1>6, <2>1, <2>2, <1>5 DEF ReadFirst, browser
<1>7. ASSUME PollAnswered PROVE Goal
  <2> DEFINE mid == polls (-) One(Asked)
  <2>1. Asked \in DOMAIN polls /\ polls' = mid (+) One(Answer)
        /\ UNCHANGED <<run, faults, source>>
    BY <1>7 DEF PollAnswered, BagIn, BagToSet, browser
  <2>2. IsABag(mid) /\ IsFiniteSet(Tokens(mid)) /\ Cardinality(Tokens(mid)) = UnderWay - 1
    BY <1>0, <2>1, OnePollLess DEF UnderWay
  <2> HIDE DEF mid
  <2>3. UnderWay' = Cardinality(Tokens(mid)) + 1 /\ polls' # EmptyBag
    BY <2>1, <2>2, OnePollMore DEF UnderWay
  <2>. QED  BY <1>0, <2>1, <2>2, <2>3 DEF Goal, ChainsGo, ChainsStay
<1>8. ASSUME ReadPoll PROVE Goal
  <2>1. PICK s \in DOMAIN polls :
             \/ UpdateActive(s, Rescheduled(run)) /\ polls' = polls (-) One(s) /\ faults' = faults
             \/ UpdateTerminal(s) /\ faults' = faults
    BY <1>8 DEF ReadPoll, BagToSet
  <2>2. CASE /\ UpdateActive(s, Rescheduled(run)) /\ polls' = polls (-) One(s)
             /\ faults' = faults
    <3>1. UnderWay' = UnderWay - 1
      BY <1>0, <2>2, OnePollLess DEF UnderWay
    <3>2. LastOf(s) \in -1 .. MaxSequence
      <4>1. s \in Flight
        BY <2>2, AnsweredIsSnapshot DEF UpdateActive, Flight, TypeOK, BagToSet
      <4>. QED  BY <4>1, LastIsTyped
    <3>3. run' = [Rescheduled(run) EXCEPT !.last = LastOf(s)] /\ source' = source
      BY <2>2 DEF UpdateActive
    <3>4. /\ Rescheduled(run) \in Runs /\ Rescheduled(run).timer = TRUE
          /\ Rescheduled(run).strays = run.strays + Bit(run.timer)
          /\ Rescheduled(run).polling = run.polling /\ Rescheduled(run).armed = run.armed
      BY ReschedulingIs
    <3> DEFINE again == Rescheduled(run)
    <3> HIDE DEF again
    <3>5. run' = [again EXCEPT !.last = LastOf(s)] /\ again \in Runs
      BY <3>3, <3>4 DEF again
    <3>6. /\ run' \in Runs /\ run'.timer = again.timer /\ run'.strays = again.strays
          /\ run'.polling = again.polling /\ run'.armed = again.armed
      BY <3>2, <3>5 DEF Runs
    <3>. QED  BY <2>2, <3>1, <3>3, <3>4, <3>6 DEF Goal, ChainsGo, PollAgain, again
  <2>. QED  BY <2>1, <2>2, <1>5
<1>9. ASSUME DropPoll PROVE Goal
  <2>1. PICK s \in DOMAIN polls : polls' = polls (-) One(s)
    BY <1>9 DEF DropPoll, BagToSet
  <2>2. UnderWay' = UnderWay - 1
    BY <1>0, <2>1, OnePollLess DEF UnderWay
  <2>3. ~run.polling /\ UNCHANGED <<run, faults, source>>
    BY <1>9 DEF DropPoll, browser
  <2>. QED  BY <1>0, <2>2, <2>3 DEF Goal, ChainsGo, ChainsStay
<1>10. ASSUME TimerFires PROVE Goal
  <2>1. /\ polls' = polls (+) One(Asked) /\ UNCHANGED <<faults, source>>
        /\ \/ run.timer /\ run' = [run EXCEPT !.timer = FALSE]
           \/ run.strays > 0 /\ run' = [run EXCEPT !.strays = run.strays - 1]
    BY <1>10 DEF TimerFires, browser
  <2>2. UnderWay' = UnderWay + 1 /\ polls' # EmptyBag
    BY <1>0, <2>1, OnePollMore DEF UnderWay
  <2>3. CASE run.timer /\ run' = [run EXCEPT !.timer = FALSE]
    <3>1. /\ run' \in Runs /\ run'.timer = FALSE /\ run'.strays = run.strays
          /\ run'.polling = run.polling /\ run'.armed = run.armed
      BY <1>0, <2>3 DEF Runs
    <3>. QED  BY <2>1, <2>2, <2>3, <3>1 DEF Goal, ChainsGo, TimerRuns
  <2>4. CASE run.strays > 0 /\ run' = [run EXCEPT !.strays = run.strays - 1]
    <3>0. run.strays - 1 \in Nat
      BY <1>0, <2>4 DEF Runs
    <3>1. /\ run' \in Runs /\ run'.timer = run.timer /\ run'.strays = run.strays - 1
          /\ run'.polling = run.polling /\ run'.armed = run.armed
      BY <1>0, <2>4, <3>0 DEF Runs
    <3>. QED  BY <2>1, <2>2, <2>4, <3>1 DEF Goal, ChainsGo, TimerRuns
  <2>. QED  BY <2>1, <2>3, <2>4
<1>11. ASSUME WatchdogEnds PROVE Goal
  <2>1. run' = [run EXCEPT !.armed = FALSE] /\ UNCHANGED <<polls, faults, source>>
    BY <1>11 DEF WatchdogEnds, browser
  <2>2. /\ run' \in Runs /\ run'.armed = FALSE /\ run'.timer = run.timer
        /\ run'.strays = run.strays /\ run'.polling = run.polling
    BY <1>0, <2>1 DEF Runs
  <2>3. UnderWay' = UnderWay
    BY <2>1 DEF UnderWay
  <2>. QED  BY <1>0, <2>1, <2>2, <2>3 DEF Goal, ChainsGo, ChainsStay
<1>12. ASSUME WatchdogFires PROVE Goal
  <2> DEFINE before == [run EXCEPT !.armed = FALSE]
  <2>1. /\ run.armed /\ ~run.polling /\ StartPolling(before)
        /\ UNCHANGED <<faults, source>>
    BY <1>12 DEF WatchdogFires, browser
  <2>2. /\ before \in Runs /\ before.polling = run.polling /\ before.timer = run.timer
        /\ before.strays = run.strays /\ before.armed = FALSE
    BY <1>0 DEF Runs
  <2> HIDE DEF before
  <2>. QED  BY <2>1, <2>2, StartOrNot DEF Goal, ChainsGo, ChainStarts
<1>13. ASSUME Open PROVE Goal
  <2>1. /\ run' = Stopped(run) /\ UNCHANGED <<polls, faults>> /\ source = "connecting" /\ Live
        /\ source' = "open"
    BY <1>13 DEF Open, Refused, Live
  <2>. QED  BY <1>0, <2>1 DEF Goal, ChainsGo, ChainStops, Stopped, Runs
<1>14. ASSUME OpenRefused PROVE Goal
  <2>1. /\ StartPolling(run) /\ faults' = faults /\ source = "connecting" /\ ~Live
        /\ source' = "closed"
    BY <1>14 DEF OpenRefused, Refused, Live
  <2>. QED  BY <1>0, <2>1, StartOrNot DEF Goal, ChainsGo, ChainStarts
<1>15. ASSUME StreamEnds PROVE Goal
  <2>1. ~Live
    BY <1>15 DEF StreamEnds, Returned
  <2>. QED  BY <1>15, <2>1, ReconnectingStarts DEF Goal, ChainsGo, ChainStarts, StreamEnds
<1>16. ASSUME Break PROVE Goal
  BY <1>16, ReconnectingStarts DEF Goal, ChainsGo, ChainStarts, Break
<1>17. ASSUME Restart PROVE Goal
  <2>1. CASE source = "open"
    BY <1>17, <2>1, ReconnectingStarts DEF Goal, ChainsGo, ChainStarts, Restart
  <2>2. CASE source # "open"
    BY <1>0, <1>17, <2>2 DEF Goal, ChainsGo, ChainsStay, Restart, browser, effect, UnderWay
  <2>. QED  BY <2>1, <2>2
<1>18. ASSUME Hear PROVE Goal
  <2> DEFINE s == Head(wire)
  <2>0. source = "open" /\ faults' = faults /\ LastOf(s) \in -1 .. MaxSequence
    BY <1>18, HeadIsOnWire, LastIsTyped DEF Hear, TypeOK, Flight
  <2> HIDE DEF s
  <2>1. CASE UNCHANGED <<source, run, polls>>
    BY <2>0, <2>1, <1>a
  <2>2. CASE UpdateTerminal(s)
    BY <2>0, <2>2, <1>5
  <2>3. CASE /\ run' = [Stopped(run) EXCEPT !.last = LastOf(s)]
             /\ UNCHANGED <<polls, source>>
    <3>1. /\ run' \in Runs /\ run'.timer = FALSE /\ run'.polling = FALSE
          /\ run'.strays = run.strays /\ run'.armed = run.armed
      BY <1>0, <2>0, <2>3 DEF Stopped, Runs
    <3>. QED  BY <2>0, <2>3, <3>1 DEF Goal, ChainsGo, ChainStops
  <2>. QED  BY <1>18, <2>1, <2>2, <2>3 DEF Hear, s, effect
<1>19. ASSUME Resume PROVE Goal
  <2>1. run' = FreshRun /\ polls' = EmptyBag /\ faults' = faults
    BY <1>19 DEF Resume, Mount
  <2>2. FreshRun \in Runs
    BY StreamAssumption DEF FreshRun, Runs, MaxSequence
  <2>. QED  BY <2>1, <2>2 DEF Goal, ChainsGo, RunBegins
<1>. QED
  BY <1>1, <1>2, <1>3, <1>4, <1>6, <1>7, <1>8, <1>9, <1>10, <1>11, <1>12, <1>13, <1>14, <1>15,
     <1>16, <1>17, <1>18, <1>19
  DEF Goal, Next, Listen, Poll, Watch, Faulty, User

LEMMA FaultsStep ==
    ASSUME TypeOK, [Next]_vars
    PROVE  faults' \in 0 .. MaxFaults /\ faults' \in {faults, faults + 1}
<1>0. faults \in 0 .. MaxFaults /\ MaxFaults \in Nat
  BY StreamAssumption DEF TypeOK
<1>1. CASE Faulty
  BY <1>0, <1>1 DEF Faulty, Break, BreakSilently, Restart, PollFails, FirstFails
<1>2. CASE Review \/ Stream \/ Listen \/ Watch \/ UNCHANGED vars
  BY <1>0, <1>2 DEF Review, Start, Report, Complete, Fail, Cancel, Expire, Stream, Serve, ServeRaises,
     Listen, Open, OpenRefused, Hear, StreamEnds, Watch, WatchdogEnds, WatchdogFires, vars
<1>3. CASE Poll
  BY <1>0, <1>3 DEF Poll, FirstAnswered, ReadFirst, PollAnswered, ReadPoll, DropPoll, PollGone,
     TimerFires
<1>4. CASE User
  BY <1>0, <1>4 DEF User, RetryAccepted, RetryRefused, LatestAnswered, Resume, StayInError
<1>. QED
  BY <1>1, <1>2, <1>3, <1>4 DEF Next

LEMMA BudgetKept ==
    ASSUME TypeOK, RowInv, RowBound, Returned, Budget, [Next]_vars
    PROVE  Budget' /\ run' \in Runs /\ run'.strays <= MaxFaults + 1
<1>0. /\ run \in Runs /\ run' \in Runs /\ ChainsGo /\ run.strays <= MaxFaults + 1
      /\ faults \in 0 .. MaxFaults /\ faults' \in 0 .. MaxFaults /\ MaxFaults \in Nat
      /\ IsFiniteSet(Tokens(polls')) /\ IsFiniteSet(Tokens(polls))
  BY ChainsStep, PollsGo, RunsAreTyped, FaultsStep, StreamAssumption DEF Budget, TypeOK
<1>1. /\ run.strays \in Nat /\ run'.strays \in Nat
      /\ run.timer \in BOOLEAN /\ run'.timer \in BOOLEAN
      /\ run.polling \in BOOLEAN /\ run'.polling \in BOOLEAN
      /\ run.armed \in BOOLEAN /\ run'.armed \in BOOLEAN
  BY <1>0 DEF Runs
<1>2. UnderWay \in Nat /\ UnderWay' \in Nat
  BY <1>0, FS_CardinalityType DEF UnderWay
<1>3. ~Live => ~Live'
  BY RowIsAhead
<1>4. run.strays + Bit(run.timer) + UnderWay + (MaxFaults - faults) + Bit(run.armed) + Reopens
        <= MaxFaults + 2
  BY DEF Budget, Chains, UnderWay
<1>5. Reopens \in 0 .. 1 /\ Reopens' \in 0 .. 1
  BY DEF Reopens, Bit
<1> DEFINE Sum == /\ run'.strays <= MaxFaults + 1
                  /\ run'.strays + Bit(run'.timer) + UnderWay' + (MaxFaults - faults')
                        + Bit(run'.armed) + Reopens' <= MaxFaults + 2
<1>6. ASSUME ChainsStay PROVE Sum
  <2>1. Reopens' <= Reopens
    BY <1>1, <1>3, <1>6 DEF ChainsStay, Reopens, Bit
  <2>2. Bit(run'.armed) <= Bit(run.armed) /\ Bit(run'.timer) = Bit(run.timer)
    BY <1>1, <1>6 DEF ChainsStay, Bit
  <2>3. Bit(run.timer) \in 0 .. 1 /\ Bit(run.armed) \in 0 .. 1 /\ Bit(run'.armed) \in 0 .. 1
    BY DEF Bit
  <2>4. UnderWay' <= UnderWay /\ faults' >= faults /\ run'.strays = run.strays
    BY <1>6 DEF ChainsStay
  <2>. QED  BY <1>0, <1>1, <1>2, <1>4, <1>5, <2>1, <2>2, <2>3, <2>4
<1>7. ASSUME ChainsGone \/ RunBegins PROVE Sum
  <2>1. UnderWay' = 0 /\ run'.strays = 0 /\ run'.timer = FALSE
    BY <1>7, NoPolls DEF ChainsGone, RunBegins, UnderWay, NoRun, FreshRun
  <2>2. Bit(run'.timer) = 0 /\ Bit(run'.armed) <= 1 /\ Bit(run'.armed) \in Nat
    BY <2>1 DEF Bit
  <2>. QED  BY <1>0, <1>5, <2>1, <2>2
<1>8. ASSUME ChainStarts PROVE Sum
  <2>1. /\ Bit(run'.timer) = Bit(run.timer) /\ Bit(run.timer) \in 0 .. 1
        /\ Bit(run.armed) \in 0 .. 1 /\ Bit(run'.armed) \in 0 .. 1
        /\ run'.strays = run.strays /\ run'.polling
    BY <1>8 DEF ChainStarts, Bit
  <2>2. UnderWay' <= UnderWay + 1 /\ (run.polling => UnderWay' = UnderWay)
    BY <1>2, <1>8 DEF ChainStarts, UnderWay
  <2>3. CASE run.armed /\ ~run'.armed /\ ~run.polling /\ faults' = faults /\ source' = source
    <3>1. Reopens' <= Reopens /\ Bit(run'.armed) = 0 /\ Bit(run.armed) = 1
      BY <2>3 DEF Reopens, Bit
    <3>2. faults' = faults
      BY <2>3
    <3>. QED  BY <1>0, <1>1, <1>2, <1>4, <1>5, <2>1, <2>2, <3>1, <3>2
  <2>4. CASE /\ run'.armed = run.armed /\ faults' = faults + 1
             /\ source \in {"open", "connecting"} /\ source' = "connecting"
    <3>1. Reopens' <= Reopens /\ Bit(run'.armed) = Bit(run.armed)
      BY <1>1, <1>3, <2>1, <2>4 DEF Reopens, Bit
    <3>. QED  BY <1>0, <1>1, <1>2, <1>4, <1>5, <2>1, <2>2, <2>4, <3>1
  <2>5. CASE /\ run'.armed = run.armed /\ faults' = faults /\ ~Live
             /\ \/ source = "connecting" /\ source' = "closed"
                \/ source = "open" /\ source' = "connecting"
    <3>1. /\ Reopens' = 0 /\ (~run.polling => Reopens = 1)
          /\ Bit(run'.armed) = Bit(run.armed)
      BY <1>1, <1>3, <2>1, <2>5 DEF Reopens, Bit
    <3>. QED  BY <1>0, <1>1, <1>2, <1>4, <1>5, <2>1, <2>2, <2>5, <3>1
  <2>. QED  BY <1>8, <2>3, <2>4, <2>5 DEF ChainStarts
<1>9. ASSUME PollAgain PROVE Sum
  <2>1. Bit(run'.timer) = 1 /\ Bit(run.timer) \in 0 .. 1 /\ Bit(run.armed) \in 0 .. 1
    BY <1>9 DEF PollAgain, Bit
  <2>2. /\ run'.strays = run.strays + Bit(run.timer) /\ UnderWay' = UnderWay - 1
        /\ Bit(run'.armed) = Bit(run.armed) /\ faults' = faults
    BY <1>9 DEF PollAgain
  <2>3. Reopens' <= Reopens
    BY <1>1, <1>3, <1>9 DEF PollAgain, Reopens, Bit
  <2>. QED  BY <1>0, <1>1, <1>2, <1>4, <1>5, <2>1, <2>2, <2>3
<1>10. ASSUME TimerRuns PROVE Sum
  <2>1. /\ Bit(run'.timer) \in 0 .. 1 /\ Bit(run.timer) \in 0 .. 1 /\ Bit(run.armed) \in 0 .. 1
        /\ run'.strays + Bit(run'.timer) = run.strays + Bit(run.timer) - 1
        /\ run'.strays <= run.strays
    BY <1>1, <1>10 DEF TimerRuns, Bit
  <2>2. UnderWay' = UnderWay + 1 /\ Bit(run'.armed) = Bit(run.armed) /\ faults' = faults
    BY <1>10 DEF TimerRuns
  <2>3. Reopens' <= Reopens
    BY <1>1, <1>3, <1>10 DEF TimerRuns, Reopens, Bit
  <2>. QED  BY <1>0, <1>1, <1>2, <1>4, <1>5, <2>1, <2>2, <2>3
<1>11. ASSUME ChainStops PROVE Sum
  <2>1. Bit(run'.timer) = 0 /\ Bit(run.timer) \in 0 .. 1 /\ Bit(run.armed) \in 0 .. 1
    BY <1>11 DEF ChainStops, Bit
  <2>2. /\ run'.strays = run.strays /\ Bit(run'.armed) = Bit(run.armed) /\ faults' = faults
        /\ UnderWay' = UnderWay
    BY <1>11 DEF ChainStops, UnderWay
  <2>3. Reopens' <= Reopens
    BY <1>11 DEF ChainStops, Reopens, Bit
  <2>. QED  BY <1>0, <1>1, <1>2, <1>4, <1>5, <2>1, <2>2, <2>3
<1>. QED
  <2> HIDE DEF Sum
  <2>1. Sum
    BY <1>0, <1>6, <1>7, <1>8, <1>9, <1>10, <1>11 DEF ChainsGo
  <2>. QED  BY <1>0, <2>1 DEF Sum, Budget, Chains, UnderWay

LEMMA PollingLivesKept ==
    ASSUME TypeOK, Returned, IsFiniteSet(Tokens(polls)), PollingLives, [Next]_vars
    PROVE  PollingLives'
<1> SUFFICES ASSUME mode' = "running", run'.polling
             PROVE  run'.timer \/ run'.strays > 0 \/ polls' # EmptyBag
  BY DEF PollingLives
<1>1. mode = "running"
  BY ScreenStep DEF ScreenStays, ScreenFails, ScreenShows, ScreenEnds, ScreenResumes
<1>2. CASE ChainsStay
  BY <1>1, <1>2 DEF ChainsStay, PollingLives
<1>3. CASE ChainsGone \/ RunBegins \/ ChainStops
  BY <1>3 DEF ChainsGone, RunBegins, FreshRun, ChainStops
<1>4. CASE ChainStarts
  BY <1>1, <1>4 DEF ChainStarts, PollingLives
<1>5. CASE PollAgain \/ TimerRuns
  BY <1>5 DEF PollAgain, TimerRuns
<1>. QED
  BY <1>2, <1>3, <1>4, <1>5, ChainsStep DEF ChainsGo

LEMMA RetryableStep ==
    ASSUME TypeOK, [Next]_vars
    PROVE  retryable' \in BOOLEAN
<1>0. retryable \in BOOLEAN
  BY DEF TypeOK
<1>1. CASE Review \/ Stream \/ Watch \/ UNCHANGED vars
  BY <1>0, <1>1 DEF Review, Start, Report, Complete, Fail, Cancel, Expire, Stream, Serve,
     ServeRaises, Watch, WatchdogEnds, WatchdogFires, screen, vars
<1>2. CASE Open \/ OpenRefused \/ StreamEnds \/ Break \/ BreakSilently \/ Restart \/ FirstFails
  BY <1>0, <1>2 DEF Open, OpenRefused, StreamEnds, Break, BreakSilently, Restart, FirstFails, screen
<1>3. CASE Hear \/ ReadFirst \/ ReadPoll
  BY <1>0, <1>3 DEF Hear, ReadFirst, ReadPoll, UpdateActive, UpdateTerminal, RetryAllowed, screen
<1>4. CASE PollGone \/ PollFails
  BY <1>4 DEF PollGone, PollFails, EndInError, RetryAllowed
<1>5. CASE FirstAnswered \/ PollAnswered \/ DropPoll \/ TimerFires
  BY <1>0, <1>5 DEF FirstAnswered, PollAnswered, DropPoll, TimerFires, screen
<1>6. CASE User
  BY <1>0, <1>6 DEF User, RetryAccepted, RetryRefused, LatestAnswered, Resume, StayInError,
     RetryAllowed, screen
<1>. QED
  BY <1>1, <1>2, <1>3, <1>4, <1>5, <1>6 DEF Next, Listen, Poll, Faulty

LEMMA StreamTypes ==
    ASSUME TypeOK, RowInv, RowBound, [Next]_vars
    PROVE  /\ stream' \in [step : {"serving", "returned", "over"}, last : -1 .. MaxSequence]
           /\ lastId' \in -1 .. MaxSequence
<1> DEFINE Streams == [step : {"serving", "returned", "over"}, last : -1 .. MaxSequence]
<1>0. /\ stream \in Streams /\ stream.last \in -1 .. MaxSequence
      /\ lastId \in -1 .. MaxSequence /\ MaxSequence \in Nat /\ wire \in Seq(Snapshot)
  BY StreamAssumption DEF TypeOK, MaxSequence
<1>1. AfterSending(stream.last, row) \in Streams /\ AfterSending(lastId, row) \in Streams
  BY <1>0, ServedTypes
<1>2. NoStream \in Streams /\ [stream EXCEPT !.step = "returned"] \in Streams
  BY <1>0 DEF NoStream
<1>3. stream' \in Streams
  BY <1>0, <1>1, <1>2, StreamStep
<1>4. wire # <<>> => Head(wire).sequence \in 0 .. MaxSequence
  BY <1>0, HeadIsOnWire DEF Snapshot
<1>5. lastId' \in -1 .. MaxSequence
  <2>1. CASE lastId' \in {lastId, -1}
    BY <1>0, <2>1
  <2>2. CASE wire # <<>> /\ lastId' = Head(wire).sequence
    BY <1>0, <1>4, <2>2
  <2>. QED  BY <2>1, <2>2, SourceStep
<1>. QED
  BY <1>3, <1>5

LEMMA RequestTypes ==
    ASSUME TypeOK, RowInv, RowBound, IsFiniteSet(Tokens(polls)), [Next]_vars
    PROVE  /\ first' \in Request /\ latest' \in Request
           /\ IsABag(polls') /\ BagToSet(polls') \subseteq Request
<1>1. /\ NoSnapshot \in Request /\ Asked \in Request /\ Gone \in Request /\ row \in Request
      /\ Answer \in Request
  BY RowIsSnapshot, AnswerIs DEF Request, Asked, Gone
<1>2. first \in Request /\ latest \in Request /\ DOMAIN polls \subseteq Request
  BY DEF TypeOK, BagToSet
<1>3. first' \in Request
  BY <1>1, <1>2, FirstStep
<1>4. latest' \in Request
  BY <1>1, <1>2, LatestStep
<1>5. IsABag(polls') /\ DOMAIN polls' \subseteq Request
  BY <1>1, <1>2, PollsGo
<1>. QED
  BY <1>3, <1>4, <1>5 DEF BagToSet

LEMMA TypesKept ==
    ASSUME StreamInv, [Next]_vars
    PROVE  TypeOK'
<1> USE DEF StreamInv
<1>0. TypeOK /\ RowInv /\ RowBound /\ Returned /\ Budget /\ ReadTrue /\ IsFiniteSet(Tokens(polls))
  BY DEF Budget
<1>1. row' \in Snapshot
  <2>1. RowInv' /\ RowBound'
    BY <1>0, StepGoesOn, RowSteps
  <2>. QED  BY <2>1, StreamAssumption DEF RowInv, RowBound, Snapshot, MaxSequence
<1>2. /\ stream' \in [step : {"serving", "returned", "over"}, last : -1 .. MaxSequence]
      /\ lastId' \in -1 .. MaxSequence
  BY <1>0, StreamTypes
<1>3. wire' \in Seq(Snapshot) /\ Len(wire') <= MaxWire
  BY <1>0, WireGoes
<1>4. source' \in {"connecting", "open", "dead", "closed"}
  BY <1>0, SourceStep DEF TypeOK
<1>5. mode' \in {"running", "error", "done", "left"}
  BY <1>0, ScreenStep
  DEF TypeOK, ScreenStays, ScreenFails, ScreenShows, ScreenEnds, ScreenResumes
<1>6. shown' \in [sequence : 0 .. MaxSequence, stage : 0 .. 6, percent : 0 .. 100]
  <2>1. \A s \in Flight \cup Status :
           Progress(s) \in [sequence : 0 .. MaxSequence, stage : 0 .. 6, percent : 0 .. 100]
    BY DEF Flight, Status, Snapshot, Progress
  <2>2. shown \in [sequence : 0 .. MaxSequence, stage : 0 .. 6, percent : 0 .. 100]
    BY <1>0 DEF TypeOK
  <2>. QED  BY <1>0, <2>1, <2>2, ShownGoes
<1>7. retryable' \in BOOLEAN
  BY <1>0, RetryableStep
<1>8. run' \in [polling : BOOLEAN, timer : BOOLEAN, strays : 0 .. MaxFaults + 1,
                last : -1 .. MaxSequence, armed : BOOLEAN]
  <2>1. run' \in Runs /\ run'.strays <= MaxFaults + 1
    BY <1>0, BudgetKept
  <2>. QED  BY <2>1, StreamAssumption DEF Runs
<1>9. /\ first' \in Request /\ latest' \in Request
      /\ IsABag(polls') /\ BagToSet(polls') \subseteq Request
  BY <1>0, RequestTypes
<1>10. faults' \in 0 .. MaxFaults
  BY <1>0, FaultsStep
<1>. QED
  BY <1>1, <1>2, <1>3, <1>4, <1>5, <1>6, <1>7, <1>8, <1>9, <1>10 DEF TypeOK

LEMMA InvInit == Init => StreamInv
<1> SUFFICES ASSUME Init PROVE StreamInv
  OBVIOUS
<1>0. MaxReports \in Nat /\ MaxWire \in Nat /\ MaxFaults \in Nat /\ MaxSequence \in Nat
  BY StreamAssumption DEF MaxSequence
<1>1. /\ row = [state |-> "QUEUED", sequence |-> 0, stage |-> 1, percent |-> 0]
      /\ stream = NoStream /\ wire = <<>> /\ source = "connecting" /\ lastId = -1
      /\ mode = "running" /\ shown = NoProgress /\ retryable = FALSE
      /\ run = FreshRun /\ first = Asked /\ polls = EmptyBag
      /\ latest = NoSnapshot /\ faults = 0
  BY DEF Init
<1>2. RowInv /\ RowBound /\ row \in Snapshot
  BY <1>0, <1>1 DEF RowInv, RowBound, Snapshot, Active, Terminal, Live, MaxSequence
<1>3. Flight = {} /\ Status = {}
  <2>1. OnWire = {} /\ DOMAIN polls = {}
    BY <1>1, NoPolls DEF OnWire
  <2>. QED  BY <1>1, <2>1, NotSnapshots DEF Flight, Status
<1>4. TypeOK
  <2>1. stream \in [step : {"serving", "returned", "over"}, last : -1 .. MaxSequence]
    BY <1>0, <1>1 DEF NoStream
  <2>2. wire \in Seq(Snapshot) /\ Len(wire) <= MaxWire
    BY <1>0, <1>1
  <2>3. shown \in [sequence : 0 .. MaxSequence, stage : 0 .. 6, percent : 0 .. 100]
    BY <1>0, <1>1 DEF NoProgress, Progress, NoSnapshot
  <2>4. run \in [polling : BOOLEAN, timer : BOOLEAN, strays : 0 .. MaxFaults + 1,
                 last : -1 .. MaxSequence, armed : BOOLEAN]
    BY <1>0, <1>1 DEF FreshRun
  <2>5. first \in Request /\ latest \in Request
    BY <1>1 DEF Request, Asked
  <2>6. IsABag(polls) /\ BagToSet(polls) \subseteq Request
    BY <1>1, NoPolls DEF BagToSet
  <2>7. lastId \in -1 .. MaxSequence /\ faults \in 0 .. MaxFaults
    BY <1>0, <1>1
  <2>8. /\ mode \in {"running", "error", "done", "left"} /\ retryable \in BOOLEAN
        /\ source \in {"connecting", "open", "dead", "closed"}
    BY <1>1
  <2>. QED
    BY <1>2, <2>1, <2>2, <2>3, <2>4, <2>5, <2>6, <2>7, <2>8 DEF TypeOK
<1>5. Aborted /\ Asking /\ Returned /\ DoneShowsAll
  BY <1>1 DEF Aborted, Asking, Returned, DoneShowsAll, NoStream
<1>6. ReadTrue /\ Chain /\ News
  BY <1>3 DEF ReadTrue, Chain, News
<1>7. ShownOld
  BY <1>1, <1>3 DEF ShownOld, Below, NoProgress, Progress, NoSnapshot, FreshRun
<1>8. EndIsNews
  BY <1>1, <1>3 DEF EndIsNews, IsNews
<1>9. Budget
  <2>1. /\ IsFiniteSet(Tokens(polls)) /\ Cardinality(Tokens(polls)) = 0
        /\ run.strays = 0 /\ run.timer = FALSE
    BY <1>1, NoPolls DEF FreshRun
  <2>2. Bit(run.timer) = 0 /\ Bit(run.armed) \in 0 .. 1 /\ Reopens \in 0 .. 1
    BY <2>1 DEF Bit, Reopens
  <2>. QED  BY <1>0, <1>1, <2>1, <2>2 DEF Budget, Chains
<1>10. PollingLives
  BY <1>1 DEF PollingLives, FreshRun
<1>. QED
  BY <1>2, <1>4, <1>5, <1>6, <1>7, <1>8, <1>9, <1>10 DEF StreamInv

LEMMA InvKept == ASSUME StreamInv, [Next]_vars PROVE StreamInv'
<1>1. /\ RowInv /\ RowBound /\ TypeOK /\ Aborted /\ Asking /\ Returned
      /\ ReadTrue /\ Chain /\ News /\ ShownOld /\ EndIsNews /\ DoneShowsAll
      /\ Budget /\ PollingLives /\ IsFiniteSet(Tokens(polls))
  BY DEF StreamInv, Budget
<1>2. RowInv' /\ RowBound' /\ TypeOK'
  BY <1>1, StepGoesOn, RowSteps, TypesKept
<1>3. Aborted' /\ Asking' /\ Returned'
  BY <1>1, AbortedKept, AskingKept, ReturnedKept
<1>4. ReadTrue' /\ Chain' /\ News' /\ ShownOld'
  BY <1>1, ReadTrueKept, ChainKept, NewsKept, ShownOldKept
<1>5. EndIsNews' /\ DoneShowsAll'
  BY <1>1, EndIsNewsKept, DoneKept
<1>6. Budget' /\ PollingLives'
  BY <1>1, BudgetKept, PollingLivesKept
<1>. QED
  BY <1>2, <1>3, <1>4, <1>5, <1>6 DEF StreamInv

-----------------------------------------------------------------------------

\* What the row, the connection, the requests and the screen hold fits together,
\* whatever arrives in whatever order: the inductive invariant of the stream.
THEOREM StreamInvariant == Spec => []StreamInv
<1>. QED
  BY InvInit, InvKept, PTL DEF Spec

\* A screen that counts on polling has a timer or a request under way, and types
\* hold, the bound on the timers without a name included: PollingIsAlive.
THEOREM PollingLasts == Spec => []PollingIsAlive
<1>1. StreamInv => PollingIsAlive
  BY DEF StreamInv, PollingLives, PollingIsAlive
<1>. QED
  BY <1>1, StreamInvariant, PTL

\* A screen that says "done" shows the whole of it: DoneShowsAll.
THEOREM DoneIsComplete == Spec => []DoneShowsAll
<1>1. StreamInv => DoneShowsAll
  BY DEF StreamInv
<1>. QED
  BY <1>1, StreamInvariant, PTL

\* What the screen shows of the progress never goes back: ScreenNeverFalls.
THEOREM ScreenGoesOn == Spec => ScreenNeverFalls
<1>1. ASSUME StreamInv, [Next]_vars PROVE Below(shown, shown') /\ Ints(shown) /\ Ints(shown')
  <2>1. ReadTrue /\ TypeOK /\ RowInv /\ RowBound
    BY <1>1 DEF StreamInv
  <2>2. Ints(shown)
    BY <1>1, <2>1, AllAreInts
  <2>3. CASE shown' = shown
    BY <2>2, <2>3 DEF Below, Ints
  <2>4. CASE \E s \in Flight : s.sequence > run.last /\ shown' = Progress(s)
    BY <1>1, <2>1, <2>4, AllAreInts DEF StreamInv, News, Below, Progress, Ints
  <2>5. CASE \E s \in Status : shown' = Progress(s)
    BY <1>1, <2>1, <2>5, AllAreInts DEF StreamInv, ShownOld, Below, Progress, Ints
  <2>6. \A s \in Flight : Shown(s) = IF s.sequence > run.last THEN Progress(s) ELSE shown
    BY <2>1, UpdateTakesNewer
  <2>. QED
    BY <1>1, <2>1, <2>3, <2>4, <2>5, <2>6, ScreenStep
    DEF ScreenStays, ScreenFails, ScreenShows, ScreenEnds, ScreenResumes
<1>2. StreamInv /\ [Next]_vars =>
        [(mode \in {"running", "error"}) =>
            /\ shown'.sequence >= shown.sequence /\ shown'.stage >= shown.stage
            /\ shown'.percent >= shown.percent]_vars
  BY <1>1 DEF Below, Ints
<1>. QED
  BY <1>2, StreamInvariant, PTL DEF ScreenNeverFalls, Spec

=============================================================================
