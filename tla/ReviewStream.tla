---------------------------- MODULE ReviewStream ----------------------------
(***************************************************************************)
(* How the progress and the end of one review reach the processing screen:*)
(* the progress column of the review row, the event stream the API serves *)
(* from it, the browser's EventSource, and the effect of ProcessingScreen *)
(* with its first status request, its fallback polling and its watchdog.   *)
(*                                                                         *)
(* A report of the recorder is one step here; its optimistic save against *)
(* a concurrent cancellation is in ReviewQueue.  A row, or what a stream   *)
(* or a request has read of it, is a record of Snapshot.                   *)
(***************************************************************************)
EXTENDS Naturals, Integers, Sequences, Bags

CONSTANTS
    Reports,      \* what the MCP server may report: <<stage, tenths done>>
    MaxReports,   \* bound: reports that change the row
    MaxWire,      \* bound: events in flight on one connection
    MaxFaults     \* bound: connections and requests that fail

ASSUME StreamAssumption ==
    /\ MaxReports \in Nat /\ MaxWire \in Nat \ {0}
    /\ MaxFaults \in Nat
    /\ \A r \in Reports : r[1] \in 0 .. 6 /\ r[2] \in 0 .. 10

VARIABLES
    row,       \* the review: state and progress
    stream,    \* the generator that serves the current connection
    wire,      \* events of the current connection the browser has not read
    source,    \* the EventSource
    lastId,    \* its last event id
    mode, shown, retryable,  \* what the screen shows
    run,       \* the local variables of the current run of the effect
    first,     \* the status request the effect starts with
    polls,     \* the polling requests under way, as a bag
    latest,    \* the status request of a refused retry
    faults     \* bounded faults so far

browser == <<stream, wire, source, lastId>>
screen == <<mode, shown, retryable>>
effect == <<run, first, polls>>
vars == <<row, stream, wire, source, lastId, mode, shown,
          retryable, run, first, polls, latest, faults>>

Active == {"QUEUED", "REVIEWING"}
Terminal == {"COMPLETED", "FAILED", "CANCELLED", "EXPIRED"}
UnknownStage == 0
\* Where the stages PREPARE .. RESULT_ASSEMBLY begin, and where the last ends.
Starts == <<0, 5, 25, 65, 85, 95, 99>>
Stages == 1 .. 6
RetryAllowed == {TRUE, FALSE}

NoSnapshot == [state |-> "none", sequence |-> 0, stage |-> 0, percent |-> 0]
MaxSequence == MaxReports + 3
Snapshot == [state : Active \cup Terminal, sequence : 0 .. MaxSequence,
             stage : 0 .. 6, percent : 0 .. 100]

\* Requests: not sent, sent, answered with a snapshot, answered 404 or 410.
Request == {NoSnapshot, [NoSnapshot EXCEPT !.state = "asked"],
            [NoSnapshot EXCEPT !.state = "gone"]} \cup Snapshot
Asked == [NoSnapshot EXCEPT !.state = "asked"]
Gone == [NoSnapshot EXCEPT !.state = "gone"]
One(poll) == SetToBag({poll})

NoStream == [step |-> "over", last |-> -1]

-----------------------------------------------------------------------------
(* The review row                                                          *)

WeightedPercent(stage, tenths) ==
    Starts[stage] + ((Starts[stage + 1] - Starts[stage]) * tenths) \div 10

AtLeast(a, b) == IF a >= b THEN a ELSE b
AtMost(a, b) == IF a <= b THEN a ELSE b

\* Mutant: a report of an earlier stage is recorded too.
RecordedLate(r, stage, tenths) ==
    IF stage = UnknownStage THEN [r EXCEPT !.sequence = @ + 1]
    ELSE [r EXCEPT !.sequence = @ + 1, !.stage = stage,
                   !.percent = AtLeast(@, AtMost(WeightedPercent(stage, tenths), 99))]

\* record_progress: an unknown stage only moves the sequence, an earlier one
\* nothing, and the percent never falls nor reaches 100.
Recorded(r, stage, tenths) ==
    IF stage = UnknownStage THEN [r EXCEPT !.sequence = @ + 1]
    ELSE IF stage < r.stage THEN r
    ELSE [r EXCEPT !.sequence = @ + 1, !.stage = stage,
                   !.percent = AtLeast(@, AtMost(WeightedPercent(stage, tenths), 99))]

Start ==
    /\ row.state = "QUEUED"
    /\ row' = [state |-> "REVIEWING", sequence |-> row.sequence + 1,
               stage |-> 1, percent |-> 0]
    /\ UNCHANGED <<browser, screen, effect, latest, faults>>

\* A report of an earlier stage counts for nothing and needs no bound.
Late(r) == r[1] # UnknownStage /\ r[1] < row.stage

Report ==
    /\ row.state = "REVIEWING"
    /\ \E r \in Reports :
         /\ row.sequence <= MaxReports \/ Late(r)
         /\ row' = Recorded(row, r[1], r[2])
    /\ UNCHANGED <<browser, screen, effect, latest, faults>>

\* Mutant: the end of the review keeps the sequence, as a failure does.
CompleteAsFail ==
    /\ row.state = "REVIEWING"
    /\ row' = [row EXCEPT !.state = "COMPLETED", !.stage = 6, !.percent = 100]
    /\ UNCHANGED <<browser, screen, effect, latest, faults>>

Complete ==
    /\ row.state = "REVIEWING"
    /\ row' = [state |-> "COMPLETED", sequence |-> row.sequence + 1,
               stage |-> 6, percent |-> 100]
    /\ UNCHANGED <<browser, screen, effect, latest, faults>>

\* fail keeps the progress, the sequence included.
Fail ==
    /\ row.state \in Active
    /\ row' = [row EXCEPT !.state = "FAILED"]
    /\ UNCHANGED <<browser, screen, effect, latest, faults>>

Cancel ==
    /\ row.state \notin {"CANCELLED", "EXPIRED"}
    /\ row' = [row EXCEPT !.state = "CANCELLED", !.sequence = @ + 1]
    /\ UNCHANGED <<browser, screen, effect, latest, faults>>

\* Once expires_at of an ended review has passed it is refused, and the cleanup
\* drops what it held: nobody can tell the two moments apart.
Expire ==
    /\ row.state \in Terminal \ {"EXPIRED"}
    /\ row' = [NoSnapshot EXCEPT !.state = "EXPIRED"]
    /\ UNCHANGED <<browser, screen, effect, latest, faults>>

\* resolve_owned_review answers 410 for an ended review past its deadline.
Refused == row.state = "EXPIRED"
Answer == IF Refused THEN Gone ELSE row

-----------------------------------------------------------------------------
(* The event stream                                                        *)

\* An event is due for what the client has not seen, and for every end.
Due(last, snap) == snap.sequence > last \/ snap.state \in Terminal
Sent(last, snap) == IF Due(last, snap) THEN <<snap>> ELSE <<>>
AfterSending(last, snap) ==
    [step |-> IF snap.state \in Terminal THEN "returned" ELSE "serving",
     last |-> IF Due(last, snap) THEN snap.sequence ELSE last]

\* The generator wakes up, reads the row and yields what is due.
Serve ==
    /\ stream.step = "serving" /\ ~Refused
    /\ Len(wire) < MaxWire /\ Due(stream.last, row)
    /\ wire' = wire \o Sent(stream.last, row)
    /\ stream' = AfterSending(stream.last, row)
    /\ UNCHANGED <<row, source, lastId, screen, effect, latest, faults>>

\* resolve_owned_review raises and the response breaks off.
ServeRaises ==
    /\ stream.step = "serving" /\ Refused
    /\ stream' = [stream EXCEPT !.step = "returned"]
    /\ UNCHANGED <<row, wire, source, lastId, screen, effect, latest, faults>>

-----------------------------------------------------------------------------
(* The effect of the screen                                                *)

\* polling is pollingStarted; timer whether pollingTimer names a timer that
\* is still to fire; strays counts the timers a second chain of polls left
\* without a name; armed whether the watchdog will tick again.  hasSseEvent
\* goes with the first request, which the first event aborts.
FreshRun == [polling |-> FALSE, timer |-> FALSE, strays |-> 0,
             last |-> -1, armed |-> TRUE]

NoRun == [FreshRun EXCEPT !.armed = FALSE]

\* Mutant: stopPolling clears the timer and leaves the flag.
StoppedTimer(r) == [r EXCEPT !.timer = FALSE]

\* stopPolling: the request under way goes on.
Stopped(r) == [r EXCEPT !.polling = FALSE, !.timer = FALSE]

\* startPolling; before is the state its caller leaves behind.
StartPolling(before) ==
    IF before.polling THEN run' = before /\ UNCHANGED polls
    ELSE /\ run' = [before EXCEPT !.polling = TRUE]
         /\ polls' = polls (+) One(Asked)

\* A run of the effect begins: a new EventSource and one status request.
Mount ==
    /\ run' = FreshRun /\ first' = Asked /\ polls' = EmptyBag
    /\ source' = "connecting" /\ lastId' = -1
    /\ stream' = NoStream /\ wire' = <<>>

\* finishStream, or the clean-up of the effect: everything is aborted but the
\* timers without a name, whose requests then abort at once.
Unmount ==
    /\ run' = NoRun /\ first' = NoSnapshot /\ polls' = EmptyBag
    /\ source' = "closed" /\ lastId' = -1 /\ stream' = NoStream /\ wire' = <<>>

IsProgress(s) == s.stage # 0
Progress(s) == [sequence |-> s.sequence, stage |-> s.stage, percent |-> s.percent]
NoProgress == Progress(NoSnapshot)

\* Mutant: every snapshot with a progress is shown.
ShownAlways(s) == IF IsProgress(s) THEN Progress(s) ELSE shown

\* update: a snapshot no newer than the last one changes no progress.
Shown(s) == IF IsProgress(s) /\ s.sequence > run.last THEN Progress(s) ELSE shown

LastOf(s) == IF IsProgress(s) /\ s.sequence > run.last THEN s.sequence ELSE run.last

\* after is the run its caller leaves, but for the last sequence.
UpdateActive(s, after) ==
    /\ s.state \in Active
    /\ shown' = Shown(s)
    /\ run' = [after EXCEPT !.last = LastOf(s)]
    /\ UNCHANGED <<mode, retryable, stream, wire, source>>

UpdateTerminal(s) ==
    /\ s.state \in Terminal
    /\ shown' = Shown(s)
    /\ mode' = IF s.state = "COMPLETED" THEN "done" ELSE "error"
    /\ \E again \in RetryAllowed : retryable' = (s.state = "FAILED" /\ again)
    /\ Unmount

\* An answer to the first request counts until an event has been heard.
FirstAnswered ==
    /\ mode = "running" /\ first = Asked
    /\ first' = Answer
    /\ UNCHANGED <<row, browser, screen, run, polls, latest, faults>>

ReadFirst ==
    /\ mode = "running" /\ first \notin {NoSnapshot, Asked}
    /\ IF first = Gone
       THEN first' = NoSnapshot /\ UNCHANGED <<browser, screen, run, polls>>
       ELSE \/ UpdateActive(first, run) /\ first' = NoSnapshot /\ UNCHANGED <<polls, lastId>>
            \/ UpdateTerminal(first)
    /\ UNCHANGED <<row, latest, faults>>

PollAnswered ==
    /\ mode = "running"
    /\ BagIn(Asked, polls)
    /\ polls' = (polls (-) One(Asked)) (+) One(Answer)
    /\ UNCHANGED <<row, browser, screen, run, first, latest, faults>>

\* Mutant: the review is polled once.
PolledOnce(r) == r

\* The next poll of a chain: a timer that still had a name loses it.
Rescheduled(r) == [r EXCEPT !.timer = TRUE, !.strays = IF r.timer THEN @ + 1 ELSE @]

ReadPoll ==
    /\ mode = "running" /\ run.polling
    /\ \E s \in BagToSet(polls) \ {Asked, Gone} :
         \/ /\ UpdateActive(s, Rescheduled(run))
            /\ polls' = polls (-) One(s)
            /\ UNCHANGED <<first, lastId>>
         \/ UpdateTerminal(s)
    /\ UNCHANGED <<row, latest, faults>>

\* The chain whose answer comes when polling has stopped ends here.
DropPoll ==
    /\ mode = "running" /\ ~run.polling
    /\ \E s \in BagToSet(polls) \ {Asked, Gone} : polls' = polls (-) One(s)
    /\ UNCHANGED <<row, browser, screen, run, first, latest, faults>>

EndInError(again) ==
    /\ mode' = "error" /\ retryable' = again
    /\ Unmount
    /\ UNCHANGED <<row, shown, latest>>

\* 404 and 410 end the screen even when polling has stopped in between.
PollGone ==
    /\ mode = "running" /\ BagIn(Gone, polls)
    /\ EndInError(FALSE)
    /\ UNCHANGED faults

\* Any other failure of a poll shows an error while the review goes on.
PollFails ==
    /\ mode = "running" /\ BagIn(Asked, polls)
    /\ faults < MaxFaults /\ faults' = faults + 1
    /\ \E again \in RetryAllowed : EndInError(again)

FirstFails ==
    /\ mode = "running" /\ first = Asked
    /\ faults < MaxFaults /\ faults' = faults + 1
    /\ first' = NoSnapshot
    /\ UNCHANGED <<row, browser, screen, run, polls, latest>>

\* A timer calls poll, which asks whether or not polling has stopped.
TimerFires ==
    /\ mode = "running"
    /\ \/ run.timer /\ run' = [run EXCEPT !.timer = FALSE]
       \/ run.strays > 0 /\ run' = [run EXCEPT !.strays = @ - 1]
    /\ polls' = polls (+) One(Asked)
    /\ UNCHANGED <<row, browser, screen, first, latest, faults>>

\* monitorConnection: it ends for good when it finds polling under way.
WatchdogEnds ==
    /\ mode = "running" /\ run.armed /\ run.polling
    /\ run' = [run EXCEPT !.armed = FALSE]
    /\ UNCHANGED <<row, browser, screen, first, polls, latest, faults>>

\* Ten seconds without an answer or an event, which a slow stage may take too.
WatchdogFires ==
    /\ mode = "running" /\ run.armed /\ ~run.polling
    /\ StartPolling([run EXCEPT !.armed = FALSE])
    /\ UNCHANGED <<row, browser, screen, first, latest, faults>>

-----------------------------------------------------------------------------
(* The EventSource                                                         *)

Open ==
    /\ mode = "running" /\ source = "connecting" /\ ~Refused
    /\ source' = "open"
    /\ wire' = Sent(lastId, row) /\ stream' = AfterSending(lastId, row)
    /\ run' = Stopped(run)
    /\ UNCHANGED <<row, lastId, screen, first, polls, latest, faults>>

\* An error status closes the source for good.
OpenRefused ==
    /\ mode = "running" /\ source = "connecting" /\ Refused
    /\ source' = "closed" /\ lastId' = -1 /\ StartPolling(run)
    /\ UNCHANGED <<row, stream, wire, screen, first, latest, faults>>

\* onEvent; an old sequence is dropped unless it ends the review.
Hear ==
    /\ mode = "running" /\ source = "open" /\ wire # <<>>
    /\ LET s == Head(wire)
       IN IF s.sequence <= run.last /\ s.state \notin Terminal
          THEN /\ wire' = Tail(wire) /\ lastId' = s.sequence
               /\ UNCHANGED <<stream, source, screen, effect>>
          ELSE \/ /\ s.state \in Active
                  /\ shown' = Shown(s) /\ lastId' = s.sequence
                  /\ run' = [Stopped(run) EXCEPT !.last = LastOf(s)]
                  /\ first' = NoSnapshot /\ wire' = Tail(wire)
                  /\ UNCHANGED <<mode, retryable, polls, stream, source>>
               \/ UpdateTerminal(s)
    /\ UNCHANGED <<row, latest, faults>>

Reconnecting ==
    /\ source' = "connecting" /\ stream' = NoStream /\ wire' = <<>>
    /\ StartPolling(run)

\* The response ends under the screen: an exception in the generator.
StreamEnds ==
    /\ mode = "running" /\ source = "open" /\ stream.step = "returned" /\ wire = <<>>
    /\ Reconnecting
    /\ UNCHANGED <<row, lastId, screen, first, latest, faults>>

\* The connection breaks, or cannot be made, and the browser notices.
Break ==
    /\ mode = "running" /\ source \in {"open", "connecting"}
    /\ faults < MaxFaults /\ faults' = faults + 1
    /\ Reconnecting
    /\ UNCHANGED <<row, lastId, screen, first, latest>>

\* The connection dies and neither side is told.
BreakSilently ==
    /\ mode = "running" /\ source = "open"
    /\ faults < MaxFaults /\ faults' = faults + 1
    /\ source' = "dead" /\ lastId' = -1 /\ stream' = NoStream /\ wire' = <<>>
    /\ UNCHANGED <<row, screen, effect, latest>>

\* The process restarts: recovery fails a review under way, streams break.
Restart ==
    /\ faults < MaxFaults /\ faults' = faults + 1
    /\ row' = IF row.state = "REVIEWING" THEN [row EXCEPT !.state = "FAILED"] ELSE row
    /\ IF source = "open" THEN Reconnecting /\ UNCHANGED <<lastId, first>>
       ELSE UNCHANGED <<browser, effect>>
    /\ UNCHANGED <<screen, latest>>

-----------------------------------------------------------------------------
(* The screen                                                              *)

\* A retry of a review that failed makes another review and leaves this one.
RetryAccepted ==
    /\ mode = "error" /\ retryable /\ latest = NoSnapshot
    /\ row.state = "FAILED"
    /\ mode' = "left"
    /\ UNCHANGED <<row, browser, shown, retryable, effect, latest, faults>>

\* A retry of one that has not ended is refused; its status is read again.
RetryRefused ==
    /\ mode = "error" /\ retryable /\ latest = NoSnapshot
    /\ row.state \in Active
    /\ latest' = Asked
    /\ UNCHANGED <<row, browser, screen, effect, faults>>

LatestAnswered ==
    /\ latest = Asked /\ latest' = Answer
    /\ UNCHANGED <<row, browser, screen, effect, faults>>

Resume ==
    /\ latest.state \in Active
    /\ mode' = "running" /\ retryable' = FALSE
    /\ shown' = Progress(latest)
    /\ latest' = NoSnapshot
    /\ Mount
    /\ UNCHANGED <<row, faults>>

StayInError ==
    /\ latest.state \in Terminal \cup {"gone"}
    /\ latest' = NoSnapshot
    /\ \E again \in RetryAllowed : retryable' = again
    /\ UNCHANGED <<row, browser, mode, shown, effect, faults>>

-----------------------------------------------------------------------------

Init ==
    /\ row = [state |-> "QUEUED", sequence |-> 0, stage |-> 1, percent |-> 0]
    /\ stream = NoStream /\ wire = <<>> /\ source = "connecting" /\ lastId = -1
    /\ mode = "running" /\ shown = NoProgress /\ retryable = FALSE
    /\ run = FreshRun /\ first = Asked /\ polls = EmptyBag
    /\ latest = NoSnapshot /\ faults = 0

Review == Start \/ Report \/ Complete \/ Fail \/ Cancel \/ Expire
Stream == Serve \/ ServeRaises
Listen == Open \/ OpenRefused \/ Hear \/ StreamEnds
Poll == FirstAnswered \/ ReadFirst \/ PollAnswered \/ ReadPoll \/ DropPoll
        \/ PollGone \/ TimerFires
Watch == WatchdogEnds \/ WatchdogFires
Faulty == Break \/ BreakSilently \/ Restart \/ PollFails \/ FirstFails
User == RetryAccepted \/ RetryRefused \/ LatestAnswered
        \/ Resume \/ StayInError

Next == Review \/ Stream \/ Listen \/ Poll \/ Watch \/ Faulty \/ User

Spec == Init /\ [][Next]_vars

\* The server, the browser and the timers go on as long as one of them has
\* something to do.  The watchdog finds a connection quiet in the end, because
\* reports are finite.
FairSpec == Spec /\ WF_vars(Stream \/ Listen \/ Poll \/ WatchdogFires)

-----------------------------------------------------------------------------
(* Properties                                                              *)

TypeOK ==
    /\ row \in Snapshot
    /\ stream \in [step : {"serving", "returned", "over"}, last : -1 .. MaxSequence]
    /\ wire \in Seq(Snapshot) /\ Len(wire) <= MaxWire
    /\ source \in {"connecting", "open", "dead", "closed"}
    /\ lastId \in -1 .. MaxSequence
    /\ mode \in {"running", "error", "done", "left"}
    /\ shown \in [sequence : 0 .. MaxSequence, stage : 0 .. 6, percent : 0 .. 100]
    /\ retryable \in BOOLEAN
    /\ run \in [polling : BOOLEAN, timer : BOOLEAN, strays : 0 .. MaxFaults + 1,
                last : -1 .. MaxSequence, armed : BOOLEAN]
    /\ first \in Request /\ IsABag(polls) /\ BagToSet(polls) \subseteq Request /\ latest \in Request
    /\ faults \in 0 .. MaxFaults

\* As long as the screen counts on polling, and so keeps the watchdog and
\* every further start of it away, a chain of polls is alive: a timer is set
\* or a request under way.  Chains are stopped, left in flight and started
\* again by events, reconnections and the watchdog in any order.
PollingIsAlive ==
    /\ TypeOK
    /\ mode = "running" /\ run.polling =>
          run.timer \/ run.strays > 0 \/ polls # EmptyBag

\* A screen that says the review is done shows it at its last stage and at 100
\* percent, whichever of the event, the first request and a late poll brought
\* the end, and the review did complete.
DoneShowsAll ==
    mode = "done" =>
        /\ shown.stage = 6 /\ shown.percent = 100
        /\ row.state \in {"COMPLETED", "CANCELLED", "EXPIRED"}

\* What the row says of the progress never goes back, whatever order the
\* reports come in, and each change of it is a new sequence, until expiry
\* drops it.  The streams rely on it to find what is new.
ProgressNeverFalls ==
    [][\/ row'.state = "EXPIRED"
       \/ /\ row'.sequence >= row.sequence /\ row'.stage >= row.stage
          /\ row'.percent >= row.percent
          /\ (Progress(row') # Progress(row) => row'.sequence > row.sequence)]_vars

\* Neither does what the screen shows, with answers of the first request, of
\* several polls and of events from before and after a reconnection crossing.
ScreenNeverFalls ==
    [][(mode \in {"running", "error"}) =>
          /\ shown'.sequence >= shown.sequence /\ shown'.stage >= shown.stage
          /\ shown'.percent >= shown.percent]_vars

\* The connection died silently, and the watchdog, which an earlier episode of
\* polling has stopped for good, is not there to notice.
Unwatched == source = "dead" /\ ~run.armed /\ ~run.polling

\* The screen of a review that has ended leaves the running state, through an
\* event, a poll or an error, unless it is Unwatched.
EndIsLearnt == row.state \in Terminal ~> (mode # "running" \/ Unwatched)

=============================================================================
