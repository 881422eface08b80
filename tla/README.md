# Formal models of the contract-review service

The repository is a service that reviews labour contracts: a FastAPI server
(`api/`) in front of SQLite, a local file store, an MCP tool server and LLM
providers, a React client (`web/`) and deployment tasks (`infra/`). What can
go wrong without any single function being wrong is where several of these meet:
reviews are long jobs, run one at a time by a worker of one process, while
requests on the event loop and in threads read and write the same rows, and the
process crashes, is stopped and is restarted; files and rows are changed in two
steps; a browser follows a review over connections that break; an answer breaks
off and is continued; a deployment changes four stores, one call after the other.
That is what these modules are about.

## 1. The system

| Component | State it keeps | Operations | What makes it correct | Modelled in |
|---|---|---|---|---|
| Review aggregate `domains/reviews/domain.py` | one row: state, progress, result, error, version | queued, start, record_progress, complete, fail, mark_interrupted, cancel, expire | only the transitions the methods accept; one active review per session; progress that never falls | `ReviewLifecycle`, `ReviewQueue`, `ReviewStream` |
| Scheduler `domains/reviews/scheduler.py` | `_pending`, `_pending_set`, `current_review_id`, the worker and execution tasks, `_accepting` | admission, enqueue, remove, reconcile, start, stop, `_next`, `_run` | the mirror agrees with the ledger's QUEUED rows, FIFO, bounded; nothing accepted is forgotten | `ReviewQueue` |
| Runner `domains/reviews/runner.py` | local: what it has read, the MCP answer | execute_review, the progress recorder | writes only a row it owns; saves a final state | `ReviewQueue`; weights in `ReviewStream` |
| Review endpoints and service `api/v1/reviews.py`, `domains/reviews/service.py` | what a handler has read | start, retry, cancel, status, results, SSE events | decisions still true when written; cancel is idempotent and answered | `ReviewQueue`, `ReviewStream` |
| Repository and database | SQLite rows | versioned save, lists in creation order | no lost update | `ReviewQueue` |
| Lifespan `lifespan.py` | the process | recovery, overflow, reconcile, stop, periodic cleanup | every row of a dead process is run again, failed as retryable or left alone | `ReviewQueue`, `SessionFiles` |
| Session activity `domains/review_sessions/activity.py` | expiry times | touch, resume, extend | extension changes no state | `ReviewQueue`, `SessionFiles` |
| Upload sessions `domains/review_sessions/` | session rows, storage keys | upload, choose type, confirm, delete | a session that can start has its file; the state shown is the state the row has | `SessionFiles` |
| Files and cleanup `core/storage/` | files on disk | save, delete, expire, sweep orphans | no key without file, no file for ever without key | `SessionFiles` |
| Idempotency `core/idempotency/` | records, per-key guards | guard, find_replay, save_response | one effect and one answer per key | `Idempotency` |
| Admission gate, upload limiter `core/admission/gate.py` | active count, waiters | acquire, release, time out | bounded, FIFO, no lost slot or wake-up | `FifoGate`; limiter in `SessionFiles` |
| Processing screen `review_events`, `web/.../ProcessingScreen.tsx` | last sequence, polling, watchdog | connect, reconnect, poll | monotone; the end is always shown | `ReviewStream` |
| Chat `domains/chat`, `web/.../ChatbotScreen.tsx` | stored contexts, the last token | route, plan, explain, continue | nothing explained twice or skipped | `ChatAnswer` |
| Suggestions, grounding `domains/suggestions`, `domains/grounding` | none | check, ground, call, repair | no text without the grounds it claims | `Suggestion`, `Grounding` |
| Deployment tasks `infra/` | Pods, secrets, binding, local files, lock | ensure, replace, rotate, sync, destroy, bootstrap, purge | a failed task is undone; keys agree; nothing is stranded | `DeployTasks` |
| Metadata, presentation, validation, MCP client, providers, plumbing, scripts, CDK stacks | see section 7 | | | not modelled |

The parts meet in four ways. Handlers call the scheduler, on the same event
loop, where a step runs to its next `await`. Handlers, worker and runner share
the review rows through separate database sessions; `repository.save` compares
a version number and raises `ConcurrentReviewUpdateError` when the row has
moved on (the rows of sessions have no version). Sync endpoints, their
dependencies and the periodic cleanup run in threads and touch the same rows
between any two steps of the loop. Recovery at the start of a process reads what
the process before it left.

## 2. Modules

    ReviewLifecycle          what the ledger of reviews promises (abstract)
      ^ INSTANCE
    ReviewQueue              ledger, scheduler, runner, handlers, process
      ^ EXTENDS
    ReviewQueueProps         type, invariants, action and liveness properties
      ^ EXTENDS        ^ EXTENDS
    MCReviewQueue      ReviewQueueProofs <- ReviewMirrorProofs

    FifoResource <- INSTANCE - FifoGate <- MCFifoGate, FifoGateProofs
    AnsweredOnce <- INSTANCE - Idempotency <- MCIdempotency, IdempotencyProofs
                               SessionFiles <- MCSessionFiles, SessionFilesProofs
                               ReviewStream <- MCReviewStream, ReviewStreamProofs
                               DeployTasks <- MCDeployTasks, DeployTasksProofs
    Grounding <- ChatAnswer, Suggestion <- MCAnswers
                ChatAnswer, Suggestion <- AnswersProofs

`MC*` modules are for TLC (with the `.cfg` files), `*Proofs` for TLAPS; the arrows
without a word are `EXTENDS`. Each specification has its own variables. The review
queue, the stored files and the stream of one review see the same rows, but each
keeps the columns its properties are about, and takes the others' moves as
environment: `SessionFiles` has the states of a review without queue and versions,
`ReviewStream` its progress without sessions. Composing them would multiply states
that do not interact beyond that.

Definitions whose comment begins with "Fault:" or "Mutant:" are deliberately wrong
variants of the definition that follows them; nothing uses them. Each property has
been seen to fail when one of them takes its place.

### The review queue

**ReviewLifecycle** has the state and the session of each review. A step lets
every row stay or make one move of the aggregate (`Moves` lists the states each
method accepts), and a row that is accepted is the only active one of its
session.

**ReviewQueue** is the program. Its state and the code's:

| Variable | Code |
|---|---|
| `state`, `owner`, `retryable` | `ReviewRow.state`, `.session_id`, `error["retryable"]` |
| `hasKey` | the sessions whose row has a `storage_key` |
| `pending`, `current` | `ReviewScheduler._pending` with `_pending_set`, `current_review_id` |
| `worker` | `worker_task`: running, told to stop where it will see it, ended |
| `exec`, `cancelled`, `outcome` | where `execute_review` is, whether its task was cancelled, what the MCP call gave |
| `req` | per client: the request it is in, what it has read, the attempts of cancel |
| `stale` | per actor: would its next save lose the version comparison |
| `proc`, `restarts`, `capacity` | the process, how often it ended, `REVIEW_POLICY.queue_capacity` of the running build |

Review ids are numbers in the order of `created_at`, the order in which the
repository lists rows. Each action is the code from one `await` (or, in a
thread, one database statement) to the next. `LoopFree` says that no task is
between reading rows and its next `await`; steps that begin on the loop need
it. A handler or the runner that has read keeps the loop until it has written,
but the extending thread does not need the loop and may commit in between: that
is why reading and saving are separate actions (`StartRead`/`StartCommit`,
`ExecRead`/`ExecStart`, `ExecAnswer`/`ExecFinish`, ...), each with the action
for the lost comparison.

Cancellation is modelled as asyncio does it. `remove` cancels the execution
(`cancelled`) and its handler joins it. A task cancelled before its first step
never runs (`ExecAbort`); one at the MCP call gets `CancelledError`, which
`execute_review` turns into a return (`ExecCancelled`). When `stop` cancels the
worker, the cancellation goes to the execution the worker awaits; only when that
ends with `CancelledError`, or has ended already, does the worker see it
(`WorkerStops`).

What is abstracted, and why it is sound for the properties:

- One save with its commit is one step: SQLite has one writer, and a save whose
  comparison succeeds holds the write lock until its commit.
- Version numbers become `stale[a]`: a comparison fails exactly when another
  actor saved one of the rows that `a` has read.
- A new row's unique constraints are not modelled: `OneActive` proves that the
  index on active rows never refuses one, and ids are fresh.
- Time is left out. A record that lapsed while its session lives is the action
  `Replay` (allowed by `RecordsLapse`); expiry by the clock and the cleanup
  thread are in `SessionFiles`.
- The MCP call ends `"ok"`, `"retryable"` or `"fatal"`; the classification of
  payloads and exceptions (`runner.py:327-402`) is abstracted to these three.
- `ExecRead` waits while a cancel handler has been resumed by the previous
  execution: the loop's ready queue is FIFO, and that handler was made ready
  before the worker could create the next task. It waits for any handler that has
  joined, also for one of another review, whose order the loop leaves open; the handler's
  step and the reading of another row commute.
- The server stops only after the requests in flight are answered, as uvicorn
  does; `Kill` is the supervisor that does not wait for ever.

### The gate and the keys

The gate is used by suggestion requests, the decorator by chat and suggestions;
neither has state in common with the rest.

**FifoGate** is `BoundedFifoGate`: `active` and `waiters` are `_active` and
`_waiters` (a request is its own token), `pc` says where each request is, and
`notified` holds the waiting tasks whose future a `notify_all` has completed.
The lock of the condition is never held across an `await` (`Condition.wait`
releases it first), so each locked section is one step: `Enter`, `Wait` and
`Refuse` are the three ways through `_acquire` up to its `await`, `Admit` and
`SleepAgain` what a resumed waiter does, `TimeOut` and `BeCancelled` the two
handlers, also for a waiter that has just been notified, `Release` the end of
`slot`. Which notified task runs first is left open. The 60 seconds of
`wait_seconds` are abstracted: a waiter may time out at any moment.
**FifoResource** knows holders and a queue, and serves only the head.

**Idempotency** is the `@idempotent` decorator. `at` says where each request is,
`guards` is `_guards` of each process (an entry is named after the request that
made it; its `users` are the busy requests with that `entry`), `locked` the entries
whose `asyncio.Lock` is taken. `stored` and `lapsed` are the committed records and
those past `expires_at`, and `writer` is the request whose open transaction has
deleted a lapsed record and so holds SQLite's write lock. The decorator awaits in
two places, the lock and the handler: `Arrive` ends at the first, `Execute` at the
second, and `Replay` and `LookupFails` are the other ways from the lock to the end
of the request. `Save` and `Lose` are `save_response` with the commit or the
rollback, `Fail` a handler that raises, is cancelled or finds the database locked (its
rollback, which comes shortly after the lock was given back, is the same step; who meets
the transaction in between fails, as `LookupFails` has it),
`Abandon` a request cancelled while it waits. `Crash(p)` ends everything of one
process; the table stays. A key stands for scope, session and header, a body for a
fingerprint; a request is made once, a retry is another request. A transaction that
reads only does not hold anything (the driver begins one with the first write).
Several processes are what the comment at `service.py:41` speaks of; the deployment
has one, which is the instance with one element in `Processes`.
**AnsweredOnce** has the outcomes of the requests and the answer kept for each
key. The first answer is kept, the same call gets it, another call is refused,
and a failure changes nothing.

### Sessions and files

**SessionFiles** has the row of each upload session (`row`, `NoRow` when there is
none), the state of its latest review (`review`; `older` are the sessions with a
failed review that a retry left behind), and what the storage root holds (`file`:
nothing, the temporary file of `save`, the stored file). A session's file has its
name, since each upload draws a new key. The row of a session carries no version. A
request works on the copy it read in its dependency (`snap`); `repository.save`
SELECTs the row once more (`base`, the step `Reread`), copies all columns onto it, and
the flush at the commit writes those that differ (`Flushed`). What another request
commits before that SELECT is overwritten; what it commits between SELECT and flush
stays in the columns that did not differ (`Save` records both, `restored` and `mixed`).
SELECT and flush are one step only where the transaction has written before and so
holds SQLite's lock: the extension after it has touched the review, the acceptance of a
start, the end of an execution. `req` is where each threaded or asynchronous request is,
`loop` the handler that keeps the event loop from one of its statements to the next
while threads go on: the acceptance of a start, and the second transaction of a cancel
with the deletion after it (`CancelRead`, `CancelReread`, `CancelFlush`, `LoopUnlink`).

`cleaner` is the cleanup, statement by statement and session by session: the list of
expired sessions (`CleanupList`), the look for an active review (`CleanupCheck`), the
SELECT of `save` (`CleanupRead`), the list of the session's reviews (`CleanupReviews`),
and from the first write, which takes SQLite's lock, to the commit one step
(`CleanupCommit`); then it deletes file by file (`CleanupDelete`). A start or a retry
that commits between the look and the first write is not seen: `joined` and `again`
follow what becomes of the reviews the cleanup has listed, `written` whether the version
check of one of them will end the run (`CleanupAborts`), and `overtaken` are the sessions
that expired under a review accepted that way.

The clock is abstracted to what can be compared: expiry times are numbered in the
order in which they are issued for a session, `passed[s]` says how many have been
reached, and `Pass` moves it. `CanIssue` bounds them and reserves one for the touch
with which a running review will end. Uploads of sessions that are not followed hold
slots of the limiter (`others`).

Approximations: a retry is let in on a session that is visible, as the other requests
are; a cancel is let in also when the review's time has passed and the cleanup has not
marked it EXPIRED yet; what a cancel or an execution does to a review beyond its state is
in `ReviewQueue`; a cleanup run that has nothing to do is left out while the process
serves; and of two threads, whose SELECTs and commits interleave, each statement sees all
that was committed before it.

Five sets are history, and the properties say exactly what each excuses:
`orphaned` (files whose only owner was in memory when the process crashed, an upload
cancelled during the MCP call, a failed deletion; emptied by the sweep), `restored`
(a stale copy wrote back a key that another commit had dropped), `mixed` (two saves
crossed and left columns of both), `overtaken` and `halfDeleted`
(a crash between the deletion of a session's file and that of its row). They are
events the code has no answer to; that nothing *else* leaves a file or a key behind
is what is checked.

### The stream and the processing screen

**ReviewStream** follows one review from its row to the screen. `row` is state and
progress (`Recorded` is `record_progress` with the weighting of the stages), `stream`
the generator of `review_events` for the current connection, `wire` the events on
their way, `source` and `lastId` the browser's `EventSource`. The screen's effect is
`run` (whether polling was started, whether a timer is set, the last sequence, whether
the watchdog is armed), its first status request `first`, and `polls`, a bag of
polling requests under way: a second chain of polls may be started while the request
of the first is still in flight, and a timer that a second chain overwrites loses its
name (`strays`) and can no longer be cleared. `mode`, `shown` and `retryable` are what
the user sees; a refused retry reads the status again (`latest`) and mounts the effect
anew. Whether a failure may be retried is in its `error`, which the row of the model has
not: a screen that shows FAILED offers the retry or not.

Abstracted: the label, the list of active steps, the reload of metadata and events
that cannot be parsed; the passing of the deadline and the cleanup of an ended review
are one step (`Expire`), since no request can tell them apart; the recorder's save is
one step (its conflict with a cancellation is in `ReviewQueue`); `hasSseEvent` goes
with the first request, which the first event aborts.

### Answers

**Grounding** is the reply of the law tool and what `get_review_grounding` makes of
it. **ChatAnswer** is the conversation about one review: the panel's question with
the token of the last answer (`last`), `contexts` the stored contexts (a token is its
place in the sequence), and `job` the question under way through both endpoints:
the context is loaded, a fixed reply, a rule or the router settles the category, the
plan is made of clauses and laws (`Ordered`), and explained one segment after the
other. `Pending` is what an offset leaves of a plan; the code cuts all segments before
the first is explained, the model each one when its turn comes (`Cut`), from the same
items under the same budget: an item that comes first and is too large is split into
its paragraphs (`Opened`), and the segment takes the longest prefix that fits. A paragraph
that is too large by itself makes a segment of its own; that the code cuts one of more
than 3,000 characters once more is left out (items without paragraphs, which it cuts so,
have these pieces as their `Paragraphs`). When the model fails, the stream stores a
context with the offset reached and sends its token; `FallBack` is the JSON endpoint
after a stream that could not be opened, `Lost` a connection that is gone. `chain` is
history: the plan of a first question, and what has been explained of it. The words of
a question are kinds (`"continue"`, `"impact"`, `"compare"`, ...), clauses are numbers,
and a text is its weights, because only the budget looks at its length.

**Suggestion** is one draft: the seven things a request needs, in the order in which
they are looked for, the grounding, and at most two calls of the model; `Texts` are
the outputs the checks tell apart, `Failures` the other ways a call ends. A draft and a
conversation share the law tool but no state, so a run of `MCAnswers` explores one or
the other.

### Deployment tasks

**DeployTasks** has four stores that must agree: the Pods of RunPod with the key
each accepts (`podKey`), AWS's secrets, runtime binding, stacks and running containers
(`secret`, `binding`, `stacks`, `applied`), the operator's secret file and recorded
resources (`file`, `resources`), and the lock file. `op` is what a task holds in
memory: the values it loaded, the Pods it found or created, what it has changed, how
far it is. Each step of a task is one call of a provider; every call may raise
(`CallFails`), a Pod may stay behind although its creation failed (`CandidateStays`),
compensations may fail too (`UndoFails`, `GivesUp`), an interruption releases the lock and
compensates nothing (`Interrupt`), and the application's own workflow deploys a release at
any moment (`DeployRelease`). The scripts of the Embed Pod belong to another repository and
are modelled by the contract the tasks use, which is that of the LLM Pod.

Some calls do not raise when they fail. `stack_status` and `parameter` answer `NOT_FOUND`
(`Misread`): `ensure` may take a stack that stands for one it creates, or the binding for
none (`unread`, for which the guard of `tasks.py:431` puts nothing back), and `purge` may
take the stacks for gone. `schedule_secret_deletion` passes over the secrets it cannot
delete (`DropSecrets`). That CloudFormation destroys with a stack those that the CDK app
declares to depend on it (`WithDependents`) is a fact from outside. One fault may stand for
several calls of one step: an outage that lasts over the deletion of stacks and secrets
costs one. `destroy` blanks the keys in the secret file and saves its state in one step
(`Blank`), two writes on the operator's own disk.

The lock is a file whose age alone decides: six hours after it was written it is `"old"`
(`LockAges`), whether its task was killed (`Kill`) or is at work, since nothing refreshes
the file's time and no call has a timeout. Who finds it old unlinks it (`FindOld`, `Unlink`)
and tries to create it; a task that ends unlinks what lies there, whoever wrote it
(`Release`).

`mishaps` is history: what no lock and no compensation of the code covers. Each
property names the mishaps it excepts, and nothing else is excepted.

## 3. Properties and runs

| Run (module) | Bounds | Checks | States |
|---|---|---|---|
| `safety` (MCReviewQueue) | 2 sessions, 2 requests, 1 extender, 2 reviews, capacity 1 or 2 per build, 1 restart, replays | `LedgerInv`, `ExecutionOwnsReview`, `MirrorWellFormed`, `FollowsLifecycle` | 1.06 M |
| `no_extension` (MCReviewQueue) | 2 sessions, 2 requests, 3 reviews, capacity 1 or 2 per build, 1 restart | `ActiveIsInHand`, `QueuedWithinCapacity`, `OneActivePerSession`, `AcceptedIsMirrored`, `StartsInOrder` | 327 k |
| `liveness` (MCReviewQueue) | 1 session, 2 requests, 2 reviews, capacity 1, 1 restart | `QueuedIsServed`, `ReviewingEnds`, `CancelIsAnswered` | 9 k |
| `gate` (MCFifoGate) | 5 requests, 1 slot, 2 places | `GateInv`, `NoLostWakeUp`, `ServesInOrder`, `WaiterIsServed` | 1.3 k |
| `idempotency` (MCIdempotency) | 4 requests of one key, 2 processes | `GuardInv`, `WorksOnce`, `KeepsPromise`, `CallEnds` | 17 k |
| `session_files` (MCSessionFiles) | 1 session, 2 clients with 3 requests, 1 upload slot, 4 deadlines, 2 faults | `FilesAreOwned`, `KeysNameFiles`, `ShownStateIsTrue`, `UploadsAreCounted`, `ServesClean`, `CleanupSparesReviews` | 1.57 M |
| `session_cleaning` (MCSessionFiles) | 1 session, 1 client with 3 requests, 4 deadlines, 1 fault | `LapsedIsCleaned` | 285 k |
| `review_stream` (MCReviewStream) | 2 kinds of reports, 1 report that changes the row, 1 event in flight, 1 fault | `PollingIsAlive`, `DoneShowsAll`, `ProgressNeverFalls`, `ScreenNeverFalls`, `EndIsLearnt` | 441 k |
| `answers` (MCAnswers) | 5 clauses, 1 law, 1 clause split, 3 questions of 7 kinds, 1 fault; or 1 draft | `TokenMarksPlace`, `SuggestionIsGrounded`, `ChainIsWhole` | 2.30 M |
| `deploy` (MCDeployTasks) | 2 operators, 3 tasks, 3 Pods and 2 keys of a kind, 2 failed calls, 1 stop | `OneTaskAtATime`, `KeysAgree`, `NothingIsStranded`, `DeletesNoBoundPod`, `FailureIsUndone` | 3.15 M |

Sessions and requests of the queue, the clients of the files and the operators of the
deployment are symmetric;
no run with liveness uses symmetry.

The queue:

- `FollowsLifecycle`: whatever threads, stale copies, crashes and recoveries
  do, the rows follow `ReviewLifecycle` (a refinement by the identity on `state`
  and `owner`).
- `LedgerInv`: the inductive invariant of section 5.
- `ExecutionOwnsReview`: from its start to its end nobody else changes the state
  of the review that is being executed.
- `OneActivePerSession`, `QueuedWithinCapacity`, `MirrorWellFormed`: one active
  review per session, the queue's bound on the ledger (also after a deployment
  with a shorter queue) and on the mirror, and no id in the mirror twice.
- `ActiveIsInHand`, `AcceptedIsMirrored`, `StartsInOrder`: every active row of a
  serving process waits, runs or is being cancelled; acceptance puts the review
  in the mirror; reviews start in the order of acceptance.
- `QueuedIsServed`, `ReviewingEnds`, `CancelIsAnswered`: a review leaves the
  queue, an execution ends, a cancel request is answered.

The gate and the keys:

- `GateInv`: the slots counted are those held, and within the policy; the
  tokens are those of the waiting requests, once each and within the capacity.
- `ServesInOrder`: with wake-ups, timeouts and cancellations the gate still
  implements `FifoResource` (`holders` are the requests in the body, `queue` is
  `waiters`): nobody overtakes.
- `NoLostWakeUp`, `WaiterIsServed`: a free slot and a waiter mean that the first
  waiter is about to run; every waiter is admitted although nobody times out.
- `GuardInv`: all requests of a key in a process use the same entry, which stays
  as long as one of them is there; one of them executes at a time; an open
  transaction belongs to a request that has found its record lapsed.
- `WorksOnce`: while an answer is kept, no other request of the process that gave
  it executes for the same key.
- `KeepsPromise`: with races between processes, lapses, failures and crashes the
  decorator implements `AnsweredOnce` (`recorded` is the record while it has not
  lapsed).
- `CallEnds`: a request that waits for its key comes to an end.

Sessions and files:

- `FilesAreOwned`: a stored file is named by a row or a handler in progress still
  answers for it, unless a recorded mishap orphaned it.
- `KeysNameFiles`: a row that names a file names one that exists, unless its
  deletion is under way or was cut short, or a stale copy put the key back.
- `ShownStateIsTrue`: READY_TO_REVIEW is exactly what `create_review` lets start,
  and a session that is EXPIRED holds no key, whoever wrote which copy last, unless two
  saves of the session crossed (`mixed`, item 5 of section 6).
- `UploadsAreCounted`: the limiter counts the uploads in progress.
- `ServesClean`: a process serves only after the sweep and the recovery.
- `CleanupSparesReviews`: the cleanup takes no file that a row still names, and none
  under a running review, although it deletes after its commit what it listed before;
  excepted are a key that a stale copy put back and a review that was accepted between
  its check and its commit (`overtaken`, item 6 of section 6).
- `LapsedIsCleaned`: a session whose time is over loses its file, or is extended.

The stream:

- `PollingIsAlive`: as long as the screen counts on polling, and so keeps every
  other start of it away, a timer is set or a request under way.
- `DoneShowsAll`: a screen that says "done" shows the last stage and 100 percent.
- `ProgressNeverFalls`, `ScreenNeverFalls`: neither the row's progress nor what the
  screen shows goes back, with answers and events from before and after a
  reconnection crossing; each change of the row's progress is a new sequence.
- `EndIsLearnt`: the screen of a review that has ended leaves the running state,
  except after a connection that died silently when the watchdog had ended already
  (section 6).

Answers:

- `TokenMarksPlace`: the context of an answer that broke off names the clauses of
  its plan, over any number of failures, fallbacks and lost events; a token on the
  screen is one that is stored. Where no clause was split (`Plain`), its offset
  divides those explained from the others.
- `ChainIsWhole`: when a chain of continuations ends in an answer, every clause of
  the first plan has been explained, if none was split; and also if one was, when the
  answer works from the start of the plan: no cut loses an item. What is left, a
  continuation behind a split clause, is the violation run below.
- `SuggestionIsGrounded`: no draft rests on a law the tool did not find, on a text
  that failed a check or on a third call, and without a law it asks for confirmation.

Deployment:

- `OneTaskAtATime`: the lock keeps tasks apart, over kills and interruptions, until
  somebody unlinks an old lock under a task that still runs (`twoHolders`, item 21 of section 6).
- `KeysAgree`: when no task runs, the bound Pod accepts the key of the secret and of
  the operator's file, and the containers call a Pod with its key.
- `NothingIsStranded`: there are never more than two Pods of a kind, `destroy` has
  found every one of them before it forgets them, and no stack outlives its bootstrap,
  unless one could not be read (item 20 of section 6).
- `DeletesNoBoundPod`: only `destroy` deletes the Pod that the binding names, unless the
  task had no pair of Pods to put back, its compensation failed, or it could not read
  the binding.
- `FailureIsUndone`: a task that raises before it has switched leaves the Pods, the
  binding and every stack that stood as it found them, and a replacement or rotation the
  keys as well, unless it took what it could not read for absent (item 20 of section 6).

Why these bounds. Two requests and one extender are enough for every pair of
actors on one row, with the runner as a third; the version comparison involves
only a reader and one other writer. Two reviews make one run while one waits,
three fill a queue of two behind a running one. `MaxReviews` bounds acceptances
over the whole behaviour and includes retries. At the gate five requests
take the one slot that `SUGGESTION_POLICY` has, fill two places and leave two to
be refused. With three requests of one key in a process one can
execute, one wait and one arrive or give up; the third asks for something else,
and the fourth races from another process. In `liveness` a second review waits
behind the cancelled execution of the first; replays are left out of it because a
replay of an old key can put an id into the mirror twice (section 6). One stop or
crash gives a restart from every state, with another capacity. `CancelAttempts` is
the code's 3.

In `session_files` sessions share only the limiter, whose other users are `others`,
and the cleanup's list, in which one session's failure ends the run (a fault
here); two clients give every pair of a stale copy and another writer and every two saves
that cross, with the loop's handlers and the cleanup as third and fourth; four deadlines
let a review be started, end and be extended, and each of them lapse; two faults are a
crash after a failed deletion or another crash. `session_cleaning` asks for the end of
these behaviours with one client, whose copy the cleanup, the loop and a crash overtake.
In `review_stream` a stage
may be reported after a later one; one event in flight with a generator that skips
what it did not send gives every gap; one fault is a broken, a silently dead or a
refused connection, a failed request or a restart, after which everything goes on;
polling chains multiply already with that one. In `answers` the segment size and the budget
make two or three segments of five clauses, one of them split in two; three questions
are a first one, a continuation and another, or two continuations. In `deploy` three
tasks are enough for one that fails, a second that meets what it left and a third,
with another operator between them; three Pods of a kind are a bound Pod, a leftover
and a candidate; two faults are a failed call and a failed compensation, or a misread
and the failure that makes it matter. `OneHolder` cuts the search where an old lock has
been unlinked under a task that runs, of which every property excepts the rest.
`AgesWhenSeen` lets the lock grow old only while a task is about to look at it: nobody
else looks at its age, so an earlier moment makes no difference to any property.

The queue and the gate never deadlock, and their runs check it; `Idempotency` and
`answers` stop when every request has ended, `session_files` and `deploy` when the
bounds are used up, `review_stream` when the screen has been left.

`NoLostWakeUp` is a property of one slot. With two, both may be released while
one request waits, and another may arrive before the first is resumed. It queues,
since somebody waits; the first is admitted, which notifies nobody, and the
second waits beside a free slot until somebody releases, times out or is
cancelled. Suggestions run with one slot, so the code as deployed is not
affected.

### What the code does otherwise

Two runs each check one statement of the repository that the code does not keep; TLC
shows how. Section 6 lists what else differs.

| Run | Statement | What happens |
|---|---|---|
| `shutdown_hangs` | `ShutdownEnds` | `execute_review` swallows the cancellation that was meant for the worker (`runner.py:376`); the worker goes on, waits for work for ever and `stop()` with it |
| `answer_skips` | `NothingIsSkipped` | after a clause that was split in two, `consumed_offset` has counted its pieces, and the continuation skips as many clauses (`chat/service.py:1054-1062` against `:867`) |

`no_extension` leaves out the extender because of item 1 of section 6 and replays
because of item 4. `safety` keeps both.

## 4. Fairness

asyncio runs ready callbacks in FIFO order, so a task that is ready again and
again is run: strong fairness for the worker, the execution and the cancel
handlers, whose steps are disabled whenever another task holds the loop. A task
that holds the loop goes on (weak fairness of `HoldsLoop`). The MCP call ends
because it carries a read timeout (`EndsCall`). Threads are scheduled by the
operating system and the service manager restarts the process (weak fairness).
`SupervisedSpec` adds that a process that does not stop is killed, which
`ReviewingEnds` and `QueuedIsServed` need because of `shutdown_hangs`. New
requests, replays, crashes and stops are never assumed.

At the gate a notified task runs, and a body ends, because the calls made in it
carry timeouts; requests, timeouts of waiters and cancellations are not assumed.

`asyncio.Lock` serves its waiters in turn: strong fairness of entering the guarded
block, since the lock is taken and given back again and again. A handler ends, for
its calls carry timeouts and the write lock is awaited for `busy_timeout` at most
(weak fairness of `Finishes`).

`SessionFiles`: the cleanup runs every minute (`Clean`), a handler that holds the loop
goes on (`Accept`, `Release`, `LoopUnlink`), a process that died is
restarted and its start-up comes to an end (`Restart`, `Serve`), and a review that
waits or runs is executed (`Execute`). That last is what the liveness of the queue shows
where no extension commits in the middle of an execution; a review that such an extension
strands (item 1 of section 6) stays until a restart, and its session's file with it.
Requests, uploads and the clock are not assumed.

`ReviewStream`: one weak fairness of the generator, the browser, the requests and the
watchdog together. Each of them is driven by a timer or by a server that answers, and
the watchdog is among them because reports are finite: a connection is quiet in the
end. That the review ends, that the user does anything, and faults are not assumed.

`ChatAnswer`, `Suggestion` and `DeployTasks` are checked for safety only: what they
promise to finish depends on calls of others that the code bounds by timeouts in some
places and not in others.

## 5. Proofs

`ReviewQueueProofs` and `ReviewMirrorProofs` prove, for any sets of sessions,
requests and extenders, any number of reviews, restarts and attempts and any set of
positive capacities (the `ASSUME`s of `ReviewQueue`):

| Theorem | Statement |
|---|---|
| `LedgerInvariance` | `Spec => []LedgerInv` |
| `TypeCorrect` | `Spec => []TypeOK` |
| `OneActive` | `Spec => []OneActivePerSession` |
| `RunnerOwnsReview` | `Spec => []ExecutionOwnsReview` |
| `Refinement` | `Spec => FollowsLifecycle` |
| `MirrorIsSound` | `Spec => []MirrorWellFormed` |
| `QueueIsBounded` | `Spec => []QueuedWithinCapacity` |

`OneActivePerSession` is not inductive: a handler that is between its check
and its insert must still be right, and an extension that writes a copy back
must not bring an active state back. `LedgerInv` adds what each actor's reading
is worth: at most one task holds the loop (`OneLoopHolder`); what the runner
read is the row's state (`ExecutionReadsTrue`); a starting handler's session
still has no active review, a cancelling one's review is not over
(`RequestsReadTrue`); a cancel handler that has joined outlived the execution
(`JoinedAfterEnd`); and a copy of the extending thread that would win the
version comparison has the row's state (`CopiesAreCurrent`), which is where
`Save` making every other reader stale is used. `NextTypeOK` and `NextReadings`
go through the actions; `NextFollowsLifecycle` shows from the readings that
every step is one of `ReviewLifecycle`, and `LifecycleKeepsOneActive` gets
`OneActivePerSession` from that step alone.

`ReviewMirrorProofs` adds `MirrorInv` and `PlacesInv`. An id leaves the mirror only at
its head or by being cut out, and enters it only when it is not there, which the
lemmas on sequences turn into `MirrorWellFormed`, replays included (`NextMirror`).
The bound on the ledger needs what admission has promised: a handler that has been
admitted and has not committed still finds a place (`PlacesInv`), and start-up has
failed what the new capacity does not hold (`StartupKeepsPlaces`). Cardinalities are
compared with the lemmas `NoMoreQueued` and `OneMoreQueued`, never counted.

The second half of `ReviewMirrorProofs` proves what `no_extension` checks. Its
theorems are stated under `Alone`, no threaded extension and no lapsed key, because
with either the code does strand reviews (items 1 and 4 of section
6); sessions, requests, reviews, capacities and restarts stay arbitrary:

| Theorem | Statement |
|---|---|
| `ActiveStaysInHand` | `Alone => (Spec => []ActiveIsInHand)` |
| `AcceptedFindsPlace` | `Alone => (Spec => AcceptedIsMirrored)` |
| `StartsAreInOrder` | `Alone => (Spec => StartsInOrder)` |

`HandInv` is the strengthening. Actors on one loop never lose a version comparison
(`NothingStale`). The mirror holds only QUEUED rows nobody cancels, oldest first
(`MirrorIsQueued`, `MirrorInOrder`), so it is no longer than the rows admission has
counted (`MirrorIsNoLonger`) and enqueue finds a place. A serving process cancels an
execution only for a handler that waits for it (`JoinsWait`), which is what is left
of a review when its task is aborted or its call swallows the cancellation.
`QueuedInHand` says more than the property, for a process that is stopping: its worker
still takes reviews until it sees its own cancellation. There is one lemma per group of
steps; a cancellation is treated once for removing, reading and saving
(`CancelKeepsHand`), the execution once for all its steps (`ExecutionKeepsHand`), and
recovery needs that the order it enqueues in reaches every row it keeps
(`StartupFacts`).

`FifoGateProofs` proves of the gate, for any finite set of requests and any
positive numbers of slots and places:

| Theorem | Statement |
|---|---|
| `GateInvariance` | `Spec => []GateInv` |
| `WakeUpsArrive` | `Concurrency = 1 => (Spec => []NoLostWakeUp)` |
| `GateRefinement` | `Spec => ServesInOrder` |

`GateInv` is inductive as it stands: the counter is compared with the number of
holders (`OneHolderMore`, `OneHolderLess`), and the queue after a waiter has
gone is computed from `RemoveAtProperties`. `NoLostWakeUp` is inductive relative
to it: with one slot a step that leaves it free either gave it back and notified
every waiter, or changed neither the head nor who is notified.

`IdempotencyProofs` proves of the decorator, for any requests, keys, bodies and
processes:

| Theorem | Statement |
|---|---|
| `GuardInvariance` | `Spec => []GuardInv` |
| `NoWorkTwice` | `Spec => []WorksOnce` |
| `AnswersOnce` | `Spec => KeepsPromise` |

Exclusion alone is not inductive. `EntriesStay` (an entry stays while it is used)
and `EntriesAreApart` (an entry serves one key of one process) give `SameEntry`:
two busy requests use the same lock exactly if their keys are the same. From that,
a step that releases a lock or removes an entry harms no other request
(`LeaveKeepsGuard`). `WorksOnce` follows with exclusion, and `PromiseSteps` maps
each step to one of `AnsweredOnce`; the insert is the first answer because an open
transaction keeps the lapsed record as it is (`WriterFoundLapsed`).

`ReviewStreamProofs` proves of the stream, for any reports and any bounds:

| Theorem | Statement |
|---|---|
| `RowIsSound` | `Spec => []RowInv` |
| `ProgressGoesOn` | `Spec => ProgressNeverFalls` |
| `StreamInvariant` | `Spec => []StreamInv` |
| `PollingLasts` | `Spec => []PollingIsAlive` |
| `DoneIsComplete` | `Spec => []DoneShowsAll` |
| `ScreenGoesOn` | `Spec => ScreenNeverFalls` |

A step of the row compares its new progress with the old one, which needs that the
old one is in its ranges and that a row that has not started has nothing to lose:
`RowInv`. `RecordedGrows` is the fact about `record_progress` alone.

The screen is fed by three readers of the row that overtake one another, so
`StreamInv` speaks of everything that has been read and not been looked at yet, on
the wire, in the first request and in the polls (`Flight`), and in the status of a
refused retry (`Status`). No reading is ahead of a row that has not expired
(`ReadTrue`); of two readings the newer has got at least as far (`Chain`); a reading
that is newer than the last one shown is not behind what is shown (`News`), nor is
the row (`ShownOld`). `ScreenNeverFalls` follows. For `DoneShowsAll` the completion
must not be mistaken for something already seen: it is newer than every active
reading and than the last one shown (`EndIsNews`), which is where `complete` counting
the sequence up matters.

`PollingIsAlive` is inductive, but the bound on the timers without a name is not. A
chain of polls is a timer or a request under way, and only three things begin one:
a fault, the watchdog, and a connection that is refused. `Budget` adds the chains to
the beginnings that are still to come; `Returned` (a stream that returned sent the
end, or the row has expired) is why a refusal counts once. The polls under way are a
bag, counted as a set of tokens (`OnePollMore`, `OnePollLess`).

`SessionFilesProofs` proves of the stored files, for any sessions and clients and
any numbers of upload slots, deadlines, requests and faults:

| Theorem | Statement |
|---|---|
| `FilesInvariant` | `Spec => []FilesInv` |
| `FilesOwned` | `Spec => []FilesAreOwned` |
| `KeysName` | `Spec => []KeysNameFiles` |
| `StatesAreTrue` | `Spec => []ShownStateIsTrue` |
| `SlotsAreCounted` | `Spec => []UploadsAreCounted` |
| `ServingIsClean` | `Spec => ServesClean` |
| `CleanupSpares` | `Spec => CleanupSparesReviews` |

What a row says is only as true as the copies that may still be written over it, so
`CopiesAreTrue` asks of every copy that a request, the loop or the cleanup
holds what `ShownStateIsTrue` asks of the row, unless the session is `mixed`: a save either
leaves the whole new copy, which is true if the old one was, or is recorded there. `UploadsPrecede` and `UploadFiles`
tie an upload to its slot, its session and what it has written; `Quiet` says what a
process that is down or starting has not got: requests, uploads, a cleanup, a review
that is executed after the recovery. `FilesAccounted` is `FilesAreOwned` with the
ends of a deletion spelled out, and `DoomedUnnamed` is why the deletion after a
commit is safe: a file on its list is named by no row but one that a stale copy has
`restored`. The proof first says, one variable at a time, what a step may do to it
(`FileStep`, `RequestStep`, `RowChanges`, ...); the preservation lemmas use only
these. `CleanupSparesReviews` speaks of running reviews: a queued one may lose its file
without being `overtaken`, when a retry acts on the copy of a review that has expired
since; its execution finds no key and ends.

`DeployTasksProofs` proves of the deployment tasks, for any operators, any number of
Pods, keys, tasks and stops, and any set of calls that may raise:

| Theorem | Statement |
|---|---|
| `DeployInvariantHolds` | `Spec => []DeployInvariant` |
| `TasksExclude` | `Spec => []OneTaskAtATime` |
| `NothingStranded` | `Spec => []NothingIsStranded` |
| `BoundPodsStay` | `Spec => DeletesNoBoundPod` |
| `FailuresAreUndone` | `Spec => FailureIsUndone` |
| `KeysStayTogether` | `Spec => []KeysAgree` |

The assumptions are those of `DeployTasks`: the bounds are natural numbers, `Failing`
is a set of steps that make a call (`Calls`), and no operator is named like a mark of
the lock file (`nobody`, `dead`, `old`), which the code keeps apart as well: the file
holds a process id or is not there.

What a task holds in memory is all its compensation has to go by, so the invariant says
what it holds at each of its steps. `Shaped` gives the steps of each task and which of
its Pods, candidates and marks are set there; `NumbersFit` says that Pods are numbered
as they are created, hence that no candidate is a Pod that was found, recorded or bound
before. `Alone` ties the lock file to the operator that works, as long as no lock was
unlinked under a task, which lets `WorkFits` say what is in the cloud: the binding is the one
before or the one the task has chosen (`BindingFits`), every Pod but the candidates is as
before (`PodsFit`), the stacks that stood before are there and are not among those the task
takes for its own (`StacksFit`), secrets and file are as before but for the key that a
rotation has promoted (`KeysFit`), and destroy has taken what it went over (`DestroyFit`).
What rests on an answer that a stack or a binding is absent is said up to "misread".
`Bootstrapped` (stacks stand on the bootstrap) and `Founded` (a binding needs a foundation)
carry `StacksFit` through a purge and a destruction. `KeysAgree` needs more: two Pods of a kind may
stay after a rotation whose last deletion failed, and accept different keys. `KeysHold`
says for each task and step which Pod accepts which key (`EnsureFits`, `ReplaceFits`,
`RotateFits`), between tasks that the Pods have the key of the file or the binding names
one that has it (`IdleFits`), and of the containers that they fit the Pod they call.
That a replacement starts with keys at all follows from what `_require_runtime_keys` saw
before the lock (`KeysLoaded`) and from "oldValues" not having happened. TLC checked the
invariants on the instance of the run before they were proved.

`AnswersProofs` proves of a draft, for any set of laws, and of the conversation, for
any clauses, laws, weights, questions, budget and segment size and any number of
questions and faults:

| Theorem | Statement |
|---|---|
| `DraftsAreGrounded` | `DraftSpec => []SuggestionIsGrounded` |
| `ChatInvariantHolds` | `ChatSpec => []ChatInv` |
| `TokensMarkPlaces` | `ChatSpec => []TokenMarksPlace` |
| `ChainsAreWhole` | `ChatSpec => ChainIsWhole` |

`DraftInv` adds to the property what a draft knows at each step (`StepInv`): a model
is called only for a request that lacks nothing and has its grounding, and the laws
of a grounding come with the status OK.

`ChatSpec` and `DraftSpec` are the two halves of what a run of `MCAnswers` explores.
The assumptions are those of `ChatAnswer` (`ChatAssumption`): finitely many items,
numbered in the order of the review with the laws behind the clauses; each has a text,
in paragraphs with weights; a segment may have one item; a question names clauses of
the review.

That a token marks the place is not inductive: an offset is stored when a segment
fails, and what it has to agree with was decided when the plan was made, perhaps two
answers earlier. `ChatInv` says of every step between what `TokenMarksPlace` says of
the end. A question works with the context of its token or with none (`JobInv`); a plan
is its clauses in order and then its laws (`PlanInv`), so that a plan made anew from
the stored target is, clause by clause, the plan that broke off; while it is composed,
the clauses explained are those before the offset, and what is left is what comes
behind it (`WorkInv`, `LeftInv`). The place of a clause is its place in the plan
(`UpTo`), which is why the laws, which may be found again or not, do no harm.
`ComposeKeeps` takes up a plan, `SegmentAdvances` and `SegmentLeaves` move the offset
and what is left together, `SegmentFailsKeeps` turns the one into the other half,
`MarkInv`. `CutCovers` is what `ChainIsWhole` needs of plans with split clauses: whatever is split, the segment
and the rest are about all that was left. TLC checked `ChatInv` on the instance of the
run and on one with other questions before it was proved.

The lemmas about data rest on no induction theorem of the library, whose parameters
the provers cannot instantiate: `LeastNumber` takes the least counterexample, and from
it come that ranks number a finite set (`RankIsBijection`), hence that `Ordered` lists
each element once, and that a bounded set has its greatest element (`MaxOfBounded`),
hence that a cut takes a prefix (`CutLeft`, `CutDivides`). What a weight is, a sum, is
not needed: any weights will do.

Only model-checked: liveness (`QueuedIsServed`, `ReviewingEnds`, `CancelIsAnswered`,
`WaiterIsServed`, `CallEnds`, `LapsedIsCleaned`, `EndIsLearnt`), which the proof system
does not do under fairness. Every other property of a passing run is a theorem.

## 6. What was met on the way

Behaviours of the code that the models show or except, beside the two runs above.
Each was seen in a counterexample or by reading, and is stated here so that a reader
knows what the properties do not promise.

Reviews:

1. An extension that commits between the runner's read of the QUEUED row and its `save`
   (`runner.py:304-321`) makes `save` raise outside the `try`. The worker logs it and goes
   on; the row stays QUEUED with a place of the queue and its session, and nobody has it
   until a restart. In a run with an extender TLC shows `ActiveIsInHand` violated so.
2. An extension that commits between the runner's re-read and its final save
   (`runner.py:407-419`) makes the save lose: the answer is rolled back and the row
   stays REVIEWING until a restart.
3. The swallowed cancellation (`runner.py:376`) also lets the worker start the next
   review during shutdown.
4. A start with a key that was used for a review that is over enqueues that review
   again (`reviews.py:139`). Its id takes a place in the mirror, and the next review
   that is accepted may meet "mirror and ledger disagree" after its commit. And the
   deletion of a lapsed record (`idempotency/service.py:121`) is flushed before
   the handler runs and committed after it: SQLite's write lock is held during MCP and
   LLM calls, against `docs/adr/0724-sqlite-persistence.md:52`.

Files, whose session row has no version:

5. Two saves that cross can leave columns of both (`mixed`): a choice of the type and the
   confirmation of an out-of-scope document that both SELECT before either is flushed
   (`review_sessions/repository.py:69`) leave the type, the confirmation and the state
   TYPE_SELECTION_REQUIRED. `can_start_review`, "the final criterion" of `schemas.py:68`,
   is false while `create_review` accepts a start.
6. The cleanup asks for an active review before its transaction has written anything
   (`cleanup.py:81`). A start that commits between that and the first write is not seen:
   the session expires and its file goes under the accepted review (`overtaken`), against
   `docs/adr/0724-anonymous-session-file-storage.md:99`.
7. A stale copy can put a dropped key back (`restored`). An extension that read the
   reviews before the cleanup's commit can move the deadline of a row that the cleanup
   has just expired: the row is live again and has no file. A start refuses it only if
   the row it has read is marked EXPIRED (`service.py:22`); the extension's copy takes
   that mark away as well.
8. A cancel whose second transaction comes after a retry takes the file that the retried
   review would have read (`reviews.py:367`); the review then fails.

The stream:

9. The watchdog stops for good when it finds polling under way
   (`ProcessingScreen.tsx:264`); when the stream reopens, polling stops as well, and a
   connection that then dies silently leaves the screen as it is.
10. The first poll of a second chain can run beside the last of the first one; two
    chains then poll, and one timer can no longer be cleared. Requests in flight are
    not aborted by `stopPolling`.
11. A healthy stream that is quiet for ten seconds starts polling.
12. A poll that fails shows an error although the review goes on; `retryable` then
    offers a retry, which the server refuses.

Answers:

13. The offset of a stored context is applied to any follow-up with its token, not only
    to one that says "continue".
14. A failure in the first segment stores the offset 0, which is not recognised as a
    continuation: the question is routed again, and the law that the plan ended with
    may be left out. A continuation of a signal's impact also loses the law.
15. A button of an older answer sends the latest token; a continuation that fails, or
    whose event is lost, leaves an answer without a token.
16. A context keeps the deadline that the session had when it was stored, also when the
    session is extended.
17. A segment for which the model says nothing counts as explained.
18. A draft that says "insufficient" fails the output check, is repaired once and ends
    as LLM_OUTPUT_INVALID: the branch for INSUFFICIENT_GROUNDING
    (`suggestions/service.py:515-523`) is not reached. After a law that is not explained
    has been taken out, the sources may be empty, although `schemas.py:98` asks for one.

Deployment:

19. A task loads the secret file and the recorded resources before it takes the lock:
    a synchronisation may push keys that another task has replaced ("oldValues").
20. `stack_status` answers NOT_FOUND to every `describe-stacks` that fails
    (`aws.py:322`). `ensure` then counts a stack that stands among those it has created
    (`tasks.py:370`, `:394`) and a later failure destroys it, with the secrets, against
    `troubleshooting.md:71`; the purge destroys the bootstrap under a foundation
    (`aws.py:833`). When the binding cannot be read (`aws.py:616`), `ensure` goes on as if
    there were none; a failure after it has bound new Pods then deletes these and leaves
    the binding (`tasks.py:431`).
21. A lock of more than six hours is unlinked whoever holds it (`state.py:71`): no call of
    a task has a timeout, and nothing refreshes the file. A task that takes that long
    loses its lock to another operator (`twoHolders`), against the docstring at
    `state.py:67` and `troubleshooting.md:21`, and removes its successor's when it ends.
    Two operators that find the same old lock can both take it over (`state.py:71-75`:
    `unlink` removes the new lock of the other).
22. When a deletion after the switch fails, the message says that `infra-status` shows
    the remaining Pod (`tasks.py:585`, `:768`), but `status` raises when there are two
    Pods of a name (`runpod.py:195`), as does every task until one has been removed.
    `destroy` removes the recorded one and then the other.
23. A failed `destroy` leaves a binding that names a deleted Pod; a replacement that
    began without a complete pair cannot put the binding back.
24. `schedule_secret_deletion` passes over every secret it cannot delete (`aws.py:971`), so
    a `destroy` that succeeds may leave secrets with keys that are nowhere else.

## 7. What is not modelled

- **Metadata** `domains/metadata`: a cache with a time to live around one fetch and the
  normalisation of three lists. Two things in it could interest a model, both of one
  step: concurrent fetches may leave the older of two answers in the cache, and a
  failed fetch answers with the copy read before the `await`.
- **Review presentation**, **upload validation**, **scope normalisation**: functions of
  one value, without state, covered by unit tests.
- **MCP client**, **LLM providers**: adapters of services outside; what they return is
  an input of the models (outcomes of a call, replies of a tool). The polling of a
  serverless job ends by its own deadline and shares nothing.
- **Access control**: resolving the owned session or review, with its expiry, is the
  first step of every request; tokens, hashes and cookies are formatting.
- **The results endpoint** reads one row and renders it.
- **Common plumbing, configuration, evaluation and OpenAPI scripts, CDK templates**:
  declarative, offline, or rendering.
- **Other screens of the web client** render what the API returns.
- Within modelled parts: the classification of MCP payloads, the contents of results and
  errors, prompts and wording, key validation of the decorator, the deletion of
  idempotency records with their session; of deployment `check`, `status`, `plan` and
  `github-configure`, which change nothing modelled, replies that are lost after the
  provider acted, and `lifecycle.decide`, which no task uses.
