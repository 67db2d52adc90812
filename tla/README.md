# A TLA+ specification of slurm_manager

slurm_manager submits batch jobs to Slurm through slurmrestd and follows them
over Redis pub/sub. Its Python side is a handful of objects shared by many
threads: callers, a Redis listener, a heartbeat monitor and a pool of callback
threads. Inside the job a Go worker runs the workload and publishes what happens
to it; a release script publishes the worker. This directory models all of
these, checks them with TLC on small instances, and proves the central
invariants with TLAPS for all instances.

## The system

| Component | State | Operations | Interacts with |
|---|---|---|---|
| `JobTracker` (`job_tracker.py`) | future registry, three subscription indexes, manager-wide callbacks, executor | `track`, `apply_status`, `listen`, `add_subscription`, `remove_*`, `begin_scheduler_check`, `get_missing_heartbeats`, `shutdown` | calls `RedisSubClient` and `JobFuture`; called by everybody |
| `JobFuture` (`job_future.py`) | status, inner `Future` (two writes), its own list of callback ids beside the tracker's | `wait`, `cancel`, `listen`, `unlisten`, `_update_status` | delegates to the manager |
| `RedisSubClient` (`redis_sub_client.py`) | callback tables, readiness events, listener thread, PubSub connection | `subscribe`, `unsubscribe`, `unsubscribe_topic`, `wait_until_subscribed`, `shutdown`, `_listener_loop` | Redis; runs the tracker's callbacks |
| `SlurmManager` (`slurm_manager.py`) | monitor thread and its stop flag | `submit_job`, `cancel_job`, `shutdown`, `_heartbeat_monitoring_loop`, `_check_slurm_job` | tracker, REST client |
| `SlurmRestClient` (`slurm_rest_client.py`) | none (settings) | `submit`, `release`, `cancel`, `get_job` | slurmrestd |
| Event messages (`event_messages.py`) | none | decoding of a payload | client decodes, tracker dispatches |
| Worker (`worker/internal/worker`, Go) | process group, goroutines, publish lock, first publish error | `Run` | publishes status, heartbeat and log messages; Slurm signals it and reads its exit code |
| `lineWriter` (the same file) | buffer of at most `maxLogChunk` bytes | `Write`, `flush` | fed by os/exec, publishes log messages |
| Package upload (`worker/scripts/upload-packages.sh`) | what the registries hold | validate, upload, compare on conflict | two Gitea registries, other CI jobs |

What is hard about it:

* `track`, `add_subscription` and the listener leave the tracker's lock around
  Redis calls, so completion, removal and shutdown can happen in the middle.
* Worker message, monitor, cancellation, user removal and setup failure can all
  report the end of one job, in any order, and late.
* Redis calls and REST requests can raise, or succeed without the caller
  learning of it; what was half done must stay consistent.
* Pub/sub loses messages; the monitor has to find out what happened.
* Acknowledgements of channels are matched by name, across resubscriptions.
* Three reentrant locks are taken in nested calls, from callbacks too, and
  shutdown waits for threads that may want them.
* A status is written in two places; readers and waiters take no lock.
* slurmrestd and its accounting service answer in many shapes, incompletely or
  about a job that has moved on.
* In the worker, cancellation, the end of the workload, surviving descendants,
  failing publications and a grace period race.
* A release has no transaction: uploads are independent requests of jobs that
  may overlap, die and be run again.

What makes each component correct:

* tracker: its indexes and the client agree; the first terminal status wins and
  every listener is told once; a job that is no longer tracked leaves nothing
  behind; listeners cannot damage the job's own monitoring; jobs are isolated;
* client: a registered callback's channel is, or will be, subscribed; a set
  readiness event means it; messages accepted for a callback reach it; at most
  one stray call after removal;
* manager: a job runs only when it is monitored; a failed submission leaves
  neither an allocation nor a pending future; success is never reported of a
  workload that failed; jobs are resolved even if all messages are lost;
* REST client: what is concluded from an answer is true of the job; a request
  said to have succeeded was carried out;
* future: whoever finds it done finds the final status; a callback that may
  still be called can still be removed;
* dispatch: each listener gets each message it registered for once and in order,
  a bad payload or a listener that goes away disturbs no one else;
* worker: no process of the workload survives it, descendants get their grace
  period, `finished` is said of a complete success only, one terminal status is
  the last message, a cancelled worker returns;
* line writer: bounded, loses nothing, splits no character;
* upload: a published manifest vouches for what is published beside it, and an
  interrupted publication can be resumed.

## Modules

`JobTracker.tla` models the tracker, the status of each future and the client's
callback table. One action is one stretch under the tracker's `RLock`:
`track()` is `Track`, then `SubscribeInternal` (outside the lock) and
`RegisterInternal` for each of the three topics; `add_subscription` is
`BeginListen`, `SubscribeUser`, `FinishListen`; the listener is `Receive` (copy
of the callbacks) and `RunStatusCallback`; `shutdown()` is `ShutdownClear`,
`ShutdownRedis`, `ShutdownExecutor`. `apply_status`, which all paths share, is
`ApplyReturns` or `ApplyRaises`, with the cleanup included in the same step and
its exceptions (`CleanupRaises`, `ExecutorRefuses`) as alternatives. The callers
are the most general ones: any thread, any time, provided it can know the
identifiers it uses (a user knows a job once `submit_job` returned). The
variables `notices`, `late`, `leaked` and `withdrawn` are history: they record
what listeners were told, which jobs were cleaned up while `track()` was still
running, which cleanups an exception cut short and which removals were asked
for. No guard reads them. The manager's own registration on a topic is
identified with the topic; a listen call has an identifier of its own.

`RedisSubClient.tla` opens up what `JobTracker` takes for granted: the tables,
the readiness events (identified with the registration that created them), the
listener, which takes the lock to read a reply and again to look it up, and
redis-py's `PubSub` with the commands and replies in transit. redis-py and the
server are external and modelled from how the client uses them: commands are
answered in order, a lost connection loses what is in transit, and reconnecting
subscribes the channels PubSub still lists. `SendUnsubscribe` notes the channel
as pending before it sends, so that a failed UNSUBSCRIBE brings the channel back
on reconnection, as redis-py does.

`SlurmManager.tla` extends `JobTracker` with `submit_job` step by step (submit
held, track, wait for acknowledgements, release, and the `except` branch),
`cancel_job` (lookup, request, apply), the monitor thread (select, mark, query,
apply) and shutdown, in an environment of Slurm, worker and lossy messages. Time
is reduced to what the monitor tests: `quiet` (last heartbeat older than
`HEARTBEAT_TIMEOUT`) and `due` (no scheduler check within it). REST requests
succeed, fail without effect, or fail although Slurm acted on them. `outcome` is
the truth about the workload, against which the future's status is judged.
Callbacks passed to `submit_job` and the manager's listen, unlisten and remove
methods are plain delegations and are covered by `JobTracker`'s own actions;
setup may still fail in them (`SetupRaises`).

`JobLifecycle.tla` is the abstract specification of what a user sees of a job:
it is live, it ends once, and whoever is told of the end is told in that step.
`JobTracker` implements it (`KeepsLifecycle`), so does `SlurmManager` through
`JobTracker`, and so does the status a thread reads from a future without taking
its lock (`ReadersSeeLifecycle`).

`JobFuture.tla` opens up one future. `_update_status` is `BeginUpdate` and
`EndUpdate`, since `_status` and the inner `Future` are two writes under the
future's lock and `status`, `done()` and `wait()` read without it. `listen` is
`ListenTracked` (the manager has registered the callback) and `ListenNoted` (its
id is in the future's own list); `unlisten` is `RemoveCallback` and
`RemoveTracked`. The tracker's half of a callback is external here; `tracked` is
all that is kept of it. `JobTracker` takes an update for one step, which is
justified by this module and by `Threads`.

`Threads.tla` justifies the stretches under a lock that the other modules take
for one step. A call is written down as the sequence of what it does with the
three RLocks, the future and the executor's queue (`With(lock, body)`, checks
that leave the call, submissions to the executor, the joins of shutdown), read
off the nesting of the methods; `Step` executes one item of it. A Redis call that
raises unwinds to the end of the call and gives back what it holds.

`Dispatch.tla` follows single messages: `Take` decodes (a payload that is no
message is dropped by `Skip`), `Copy` takes the callbacks from the client's table
(`open`, `installed`) under the client's lock, `CallOwn` and `CallUser` run them
without it. The manager's own callback feeds `apply_status` and the manager-wide
listeners, and waits for the tracker's lock; a user's status listener is told
by `apply_status` only and ignores the call from Redis, since the two paths would
otherwise tell it twice. Completion (`Apply`) and the cleanup after it are separate:
the tracker's lock is held (`cleaning`) while one topic after the other leaves the
client's table (`DropTopic`), and the listener goes on copying meanwhile; an
UNSUBSCRIBE that raises ends the cleanup there (`DropRaises`). `add_subscription` is
`Check`, `Subscribe` (the client's lock only) and `Register`, so that a job may end and
be cleaned up between its halves. `remove_subscription_by_topic` is left to
`JobTracker`.

`SlurmRest.tla` has the decisions of `slurm_rest_client.py` as operators over
answers reduced to what the code distinguishes (`Request`, `MissingJob`, `GetJob`,
`ExitCode`, `Resolve`), and around them a job that starts, ends and is purged
while `_check_slurm_job` asks first the controller and then the accounting
service. slurmrestd is external: it tells the truth, in any of the forms of its
schema, in part, or not at all.

`Worker.tla` models `Run`: the main goroutine from staging to its return value,
the heartbeat goroutine, the watcher that turns a cancellation or the leader's
exit into signals for the process group, and os/exec's copying goroutine per
stream. The workload is arbitrary: it forks, leaves the group, ignores SIGTERM,
keeps pipes open. A publication holds `publishLock` until it ends, and may have
arrived although it failed. `WorkerReport.tla` is the abstraction the manager
relies on: `running` first, at most one terminal status, success as exit code
only after `finished`. The worker actions of `SlurmManager` are this protocol
with lossy delivery.

`LineWriter.tla` is the loop of `Write` step by step on bytes told apart as the
code tells them apart (newline, start of a rune of three bytes, continuation,
other), with `flush`. `Bytewise` is the reference it is compared with: the result of
handing over the same output one byte at a time.

`UploadPackages.tla` has one process per CI job: `Validate` (the script's local
checks, the checksum file included), then one upload after the other. A request
is `Created`, answered with a conflict (`Conflict`, then `Compare` with what is
there), or fails before or after the registry acted on it; `Rerun` starts the
script again with the same artifacts.

Modules named `MC...` hold the values of the constants for TLC, modules named
`...Proofs` the proofs. Definitions introduced by a comment starting with
"Fault:" are not part of any specification: each is a plausible mistake in the
definition it precedes, kept to show that a property notices it.

## Runs

| Run | Configuration | Shows |
|---|---|---|
| tracker | `MCTracker.cfg` | one job, a listener of its status and a manager-wide one, every Redis call allowed to raise: `UntrackedIsClean`, `MonitoringIntact`, `CompletionTold`, the inductive `TrackerInv`, and the refinement `KeepsLifecycle` |
| two_jobs | `MCTwoJobs.cfg` | two jobs: `JobsAreIsolated` |
| client | `MCClient.cfg` | two registrations of one channel, messages and lost connections: `RegisteredIsServed`, `AckSound`, `NoLoss`, `AtMostOneStray`, and with fairness `EventuallyAcknowledged` and `StopIsObeyed` |
| manager | `MCManager.cfg` | one job through the whole system with Redis errors: `ReleasedIsMonitored`, `NoOrphanAllocation`, `FinishedIsTrue`, `QueriesAreDue`, the refinement `UsesTracker`, and with fairness `EventuallyResolved` |
| job_future | `MCJobFuture.cfg` | two updating threads, one waiter, two callbacks: `DoneIsSettled`, `CallbackIsOwned`, and the refinement `ReadersSeeLifecycle` |
| threads | `MCThreads.cfg` | user, listener, monitor and pool thread with every lock operation a step: `NoCircularWait`, `QueuedOnce` (nobody is told before the future is done, or twice), no deadlock |
| dispatch | `MCDispatch.cfg` | three messages to a log and a status listener of the job and a manager-wide log listener, against completion, cleanup and `listen` in their parts: `InOrderOnce`, `NobodyLeftOut`, `NothingAfterTheEnd`, and with fairness `KeepsDispatching` |
| slurm_rest | `MCSlurmRest.cfg` | all answers: `VerdictIsTrue`, `AccountingIsFallback`, `CompleteRecordResolves` |
| worker | `MCWorker.cfg` | one stream, one descendant: `GroupIsGone`, `GraceIsGiven`, `FinishedIsEarned`, the refinement `ReportsCorrectly`, and with fairness `CancelledReturns` |
| line_writer | `MCLineWriter.cfg` | a buffer of four bytes, seven bytes of output in every division into writes: `SplitIndependent` (what is published is all of the output, and the same however it is divided), `NoRuneSplit`, and with fairness `WriteTerminates` |
| upload | `MCUpload.cfg` | two jobs whose builds agree in one file: `BundleIsConsistent`, `AlwaysResumable` |
| monitor_dies | `MCMonitorDies.cfg` | a statement of the code's documentation that TLC refutes, see below |

Properties that the proofs cover and that a run would only repeat are theorems
and not listed again: the type invariants of the modules with proofs,
`TerminalStable`, `ToldOnce`,
`IndexesAgree`, `CleanupReaches`, `DoneIsUntracked` and `RegisteredIsLive`, which
follow from `TrackerInv`; `FailedSetupIsDone`; `FutureInv` and
`WaiterSeesOutcome`; `WorkerInv`, `QuietAfterFailure` and `LastWord`; `WriterInv`,
`Bounded`, `SplitInv` and `LoopAdvances`; `SuccessIsPublished`; `ClientInv`;
`DispatchInv`; `ThreadsInv` and `LocksAreReturned`; `RestInv` and `ConcludesAsManager`.

Bounds. The tracker's indexes are keyed by job, so what goes wrong inside one
job needs one job; isolation needs two. A listener beside the manager's own
registration lets a topic have one owner, two, or lose one of two; three owners
behave as two. Payloads are one that is a status and one that is not; terminal
payloads add nothing that a terminal call of `CallApplyStatus` does not reach,
since both end in `ApplyStatus`. In the client `MaxEvents` caps publications and
lost connections together, and each identifier is used once; two identifiers on
one channel give subscribe, unsubscribe and subscribe again, which is where
acknowledgements can be confused, and two messages are what a second stray call
would take. The theorems hold without any of these bounds.

In `Threads` every pair of kinds of thread meets with one thread of each kind;
the calls a user thread and a callback make are the same, so the user and the
pool thread are two callers; the theorems are for any number of either.
`MaxMessages` bounds the non-terminal messages, each of which repeats the same
lock operations. `Dispatch` has three messages, one more than a listener may hear after the end;
both bounds of `NothingAfterTheEnd` are reached, and exceeded after a cleanup that
raised. `Sent` leaves out heartbeats, which take the same way as logs. The
theorems are for any messages and listeners.
`Worker` has one descendant, which may escape, hold the pipes and outlive the
leader; the two streams of the code share the publish lock and nothing else. The
theorems cover any number of both. In `LineWriter` the smallest buffer the code
could have (`utf8.UTFMax`) makes every position of a character relative to the
cut occur within seven bytes; again the theorems are for any size.
`UploadPackages` has the real number of files and two jobs. `SlurmRest` and
`JobLifecycle` have no bounds.

Deadlock is checked in the runs of the tracker, the future, the threads, the
dispatch, the REST client and the upload: their callers never run out of things
to do. The other systems may really stop: the client after shutdown, the manager
when its one job is over, the worker after it returned, the writer after `flush`.

Fairness. In the client the listener and the server are weakly fair and a lost
connection is re-established: the loop polls until shutdown, and redis-py
reconnects at every poll; the loop tests its stop flag at every turn. Callers owe nothing. In the manager the monitor's
steps are weakly fair, time passes (`HeartbeatAges`, `CheckAges`), and
`MonitorResolves` is strongly fair: slurmrestd may fail or know nothing any
number of times, but a terminal record is not withheld for ever. Delivery of
messages is not assumed at all. `EventuallyResolved` excepts a monitor that has
died (`MonitorSurvives`).

In `Worker` goroutines and timers are weakly fair; `select` picks among
ready cases at random and Go's mutex hands itself to a starving waiter, so noticing
`stopHeartbeat` and getting the publish lock are strongly fair; a publication ends
because it has a timeout. The workload owes nothing. In `Dispatch` the listener thread is weakly fair, and so is the
cleanup, a finite loop that waits for nobody who holds the client's lock for long (at
most one poll). In `LineWriter` the loop of `Write` is weakly fair.

## Where documentation and code disagree

`MonitorSurvives` (monitor_dies): `_heartbeat_monitoring_loop` says "Check missing
heartbeats until shutdown". Only the REST query is guarded: the RedisError of an
UNSUBSCRIBE in the cleanup of one resolved job ends the monitor thread, and no
other job is checked any more.

Some passing properties exempt cases in which the code does less than its
docstrings say. The exempted jobs and callbacks are recorded in history variables;
without the exemption TLC finds the following.

* `late` (`UntrackedIsClean`): the heartbeat topic is indexed first. If setup then
  stalls for longer than the timeout and the held job ends in Slurm, the monitor
  completes the job; `track()` goes on and indexes the remaining topics of a
  completed job, and nothing removes them ("Apply a worker status and clean up
  terminal job subscriptions").
* `leaked` (`CleanupReaches`, `DoneIsUntracked`): if UNSUBSCRIBE raises, the future
  stays in the registry for good, because a later `apply_status` returns at once
  for a completed future.
* `withdrawn` (`RegisteredIsLive`): `remove_subscription_by_topic` between the two
  halves of `add_subscription` leaves an indexed callback the client does not have
  ("Atomically register a Redis callback and its manager ownership").
* `reused` (`AckSound`): the acknowledgement of an earlier subscription of a
  channel sets the event of the later one ("Wait for Redis subscription
  acknowledgements"). Jobs have fresh channels, so `submit_job` is not exposed.
* `Leaked` (`NothingAfterTheEnd`): callbacks on the topics a raising cleanup did not
  reach stay in the client's table and are called for every later message of the
  worker, so there is no bound then. Without a leak, and if another thread completed the
  job, a user's listener may still hear two messages: the one in the listener's hands
  and one copied before the cleanup reaches the topic. Calls of a callback whose
  `listen` is still in progress are not counted, and a worker publishes nothing after
  its terminal status (`StatusIsLast`).
* `StopIsObeyed` excepts a listener that is told to go on: a `subscribe()` that
  runs inside `shutdown()` and finds the listener ended clears the stop flag and
  starts another, which `shutdown()` leaves running.

## Proofs

The assumptions on constants say what the identifiers are: the listen calls name
topics of jobs and the kinds of identifiers are disjoint (`TrackerAssumption`), a
worker's statuses are payloads (`WorkerAssumption` of `SlurmManager`), the owner
of a free lock is no thread (`FutureAssumption`, `ThreadAssumption`, and
`WorkerAssumption` of `Worker` for the publish lock), application threads, pool
threads, the listener and the monitor are different threads (`ThreadAssumption`),
a callback is registered for one topic (`ClientAssumption`) or one event, by a
user or manager-wide, and is not the manager's own, and what is sent is of the known
kinds (`DispatchAssumption`), the buffer holds a character
(`ChunkAssumption`), packages are not the manifest and damaged bytes are no
build's (`UploadAssumption`). Bounds on messages and events are arbitrary numbers.
Sets of jobs, listeners, payloads, threads,
processes, streams and CI jobs are arbitrary, also infinite. Every invariant is
proved by one lemma per action or group of actions.

`SlurmManagerProofs.tla`, first part, about `JobTracker`:

* `TypeCorrect`: `Spec => []TypeOK`; `TrackerInvariant`: `Spec => []TrackerInv`;
* `NothingLeftBehind`, `MonitoringKept`, `NobodyToldTwice`, `CompletionIsTold`,
  `IndexesStayEqual`, `CleanupReachesAll`, `CompletedIsUntracked`,
  `IndexedIsInstalled`: the invariants of the tracker follow from it;
* `FirstTerminalWins`, `CleanupStaysInJob`: the action properties
  `TerminalStable` and `JobsAreIsolated`;
* `TrackerImplementsLifecycle`: `Spec => KeepsLifecycle`, with `told` mapped to
  the notices of the end. That nobody has been told before the end comes from the
  invariant. `JobLifecycle` lets any set of listeners be told; that none is passed over
  is `CompletionIsTold`.

None of the properties is inductive alone. `UntrackedIsClean` needs to know what
the client may hold for a job (`RedisCovered`), that a job without registry
entry owns no topics (`UntrackedOwnsNothing`) and that a job removed during
`track()` has been recorded (`LateIsRecorded`); these need the order in which
`track()` proceeds (`CurrentIsOpen`, `IndexedInOrder`, `UntrackedIsFresh`) and
`listen` (`ListenInOrder`); `MonitoringIntact` is generalised to the topics
already passed (`PassedIsMonitored`). `CompletionTold` needs that a registered
listener of an unfinished job is indexed, which is the last part of
`ListenInOrder`. `ApplyStep` treats `apply_status` with its cleanup once for all
callers.

`SlurmManagerProofs.tla`, second part, about the composed system:

* `ManagerInvariant`: `ManagerSpec => [](TrackerInv /\ MonitorInv)`;
* `ManagerUsesTracker`: `ManagerSpec => UsesTracker`, that is, the composed
  system implements the tracker's specification under the identity mapping. Not
  all steps do so by their form: the monitor applies a verdict without asking how
  far `track()` got, and `MonitorInv` (jobs in a round have their heartbeat topic
  indexed, via `IndexedInOrder`; verdicts are terminal) is what makes its step a
  step of the tracker. All theorems about `JobTracker` thereby carry over, and
  `ManagerKeepsLifecycle` is one of them;
* `QueriesThrottled`: `ManagerSpec => QueriesAreDue`, from the part of
  `MonitorInv` that says the jobs of a round have not been checked since they
  were selected. TLC checks it with one job, the theorem covers rounds of many;
* `FullInvariant`: the above with `ManagerTypeOK`, `SubmissionInv` (how far
  `submit_job`, `track` and Slurm can be apart) and `SuccessInv` (every claim of
  success that is on its way, in a message, in the listener, in the monitor or in
  Slurm's records, is about a workload that succeeded). `ManagerTypeCorrect`,
  `NoOrphans`, `FailedSetupEnds`, `SuccessIsTrue` and `ReleasedJobsAreMonitored`
  follow, for any number of jobs at once.

`SlurmManagerProofs.tla`, third part, about `SlurmRest`, whose state, that of one check,
stands beside the manager's there:

* `RestInvariant`, `VerdictsAreTrue`, `AccountingIsLast`, `CompleteRecordsResolve`, from
  lemmas about what an answer can be read as (`AnswerIsRead`) and what a record can be
  resolved to (`ResolveIsTrue`);
* `ChecksAreTheManagers`: what a check concludes from any answer is what
  `MonitorResolves` of `SlurmManager` concludes from the job's state, or nothing, as in
  `MonitorUnresolved`. The composed model leaves out requests and answers; this is why
  it may.

`JobFutureProofs.tla`: `FutureInvariant` from the two facts that an unfinished
pair of writes is always covered by the lock (`WritesAgree`) and that a waiter's
outcome is the future's (`ToldResult`); `DoneShowsStatus`, `WaitAgrees`,
`CallbacksStayOwned`; `FutureImplementsLifecycle`.

`WorkerProofs.tla`: `WorkerInvariant`, whose parts say which goroutines exist
where in `Run` (`InStep`), when an immediate SIGKILL can be on its way
(`KillInv`), whose message holds the publish lock (`LockInv`), that a stream
copied to its end stays empty (`OutputInv`) and what has been said and why
(`SaidInv`); from it `NoSurvivors`, `GraceAlwaysGiven`, `SuccessIsEarned`,
`FailureIsQuiet`, `StatusIsLast` and the refinement `WorkerImplementsReport`.

`LineWriterProofs.tla`: `WriterInvariant` (the buffer is full only where `Write`
tests for it), `BufferBounded`, and `RunesStayWhole` from a lemma about where
`Cut` cuts. `LoopAlwaysAdvances`: a round of the loop takes up bytes or lowers
`Remaining`, so that of `WriteTerminates` only the fairness is left to TLC.
`OutputIsSplitIndependent` rests on `SplitInv`: in the middle of a `Write` the output
so far falls into bytes `s`, whose bytewise result has been sent and kept, and bytes
`t`, which lie in the buffer behind it and await the scan. A newline found in the
buffer, a cut and the end of a scan each move bytes from `t` to `s`; that the result
is the bytewise one uses `LineGathers` (bytes without newline that fit are only
gathered) and that `s` alone never fills the buffer. `Bytewise` is a recursive
function, and its equations (`BytewiseEquations`) and `LineGathers` are inductions
over the length of the output. The library's induction rule cannot be instantiated
here; they are carried out about a set of numbers (`Induct`), from the
well-foundedness of `<` and the library's theorem that a non-empty set has a minimal
element (`LeastNumber`).

`UploadPackagesProofs.tla`: `UploadInvariant`: an execution past validation has
in the registry everything it has passed (`Published`), and registries hold only
what some build made (`OnlyBuilds`); the latter is why a refusal always has
another build to blame. `ReleaseIsConsistent` uses the order of the
uploads (`UploadOrder`: all packages come before the manifest) and that nothing
published is ever replaced. `SuccessPublishes`, `ResumeNeverRefused`.

`RedisSubClientProofs.tla`: `ClientInvariant`. The tables list the same
registrations (`TablesAgree`) and the listener holds a reply or callbacks only
where its position says so (`ListenerState`). For `CallbacksAreServed` PubSub must
list the channel of every registered callback and not be about to drop it
(`ChannelsListed`), since that is what a reconnection subscribes; the rest is
that the last command about a channel decides what becomes of it, whether commands
are appended, executed or replaced by those of a reconnection. `EventsAreSound` needs that
nothing at all is on its way for a channel nobody has subscribed (`Untouched`), and
that during the first use of a channel no UNSUBSCRIBE is (`FirstEvent`).
`MessagesReachCallbacks` counts copies of a message from the connection through
the listener to the batch of callbacks; `StraysAreBounded` needs that a callback
has no stray call before it is removed and has left the batch (`StraysComeLast`).

`DispatchProofs.tla`: `DispatchInvariant`. Messages are numbered, so that
`MessagesInOrder` becomes an order between what was submitted, the message in
hand and the connection (`OrderInv`, `SubmittedInv`); the point is who may still
be given the message in hand (`MayGet`): a status listener only through
`apply_status`, others only while their callback is in the batch. `OwedInv` says
how a listener that is owed the message will get it (`EverybodyIsServed`),
`TableInv` how the client's table and the tracker's differ
while a `listen` or a cleanup is in progress, and `FinalInv` that nothing but status
callbacks is left when the listener thread itself completes the job. `EndIsTheLast`
counts: `LateUser` and `LateGlobal` say how much of its bound a listener can have used
up, given the callbacks in the batch and whether the cleanup is still going on, and
`LateInv` that calls in progress and status listeners have used none.

`ThreadsProofs.tla`: `ThreadsInvariant`. The invariant is about the future of a
call: the operations a thread has left, run from where it is, lead to outside of
all locks, give back only what is held, and pass through the phases of reporting
the end in order (test, complete, tell the listeners, tell the others) under one
hold of the tracker's lock (`CallsEnd`, `Runs`, `Leads`). Such runs are closed under
concatenation and under `With`, so each call is treated as it is written, by
its nesting, and a raising Redis call is one more run to outside. Only the tracker's
lock is ever held between two operations (`LocksInv`). From this `NoDeadlock`: in any
set of threads the owner of the tracker's lock waits for nobody, as it never
drains the pool while it has the lock; if no one in the set owns the lock, all that
its threads wait for is the pool, which a pool thread never waits for.
`EndIsReportedOnce`, and `LocksComeBack`: an idle thread owns no lock.
TLC cannot evaluate `Runs` as it stands, since it quantifies over functions into an
infinite set; with a recursive definition in its place it finds `ThreadsInv` in every
state of the threads run.

Every safety property that a run expects to hold is also a theorem. Only
model-checked is liveness (`EventuallyAcknowledged`, `StopIsObeyed`,
`EventuallyResolved`, `KeepsDispatching`, `CancelledReturns`, `WriteTerminates`), which
is beyond the prover.

## Plan

Done: all the modules above with their runs, and a theorem for every safety property
they check. Left: the client's tables as an implementation of `JobTracker`'s variable
`redis`, step by step, which would let the tracker's theorems speak of the client's
locks and listener. `redis` is a set of callbacks while the client's calls take several
steps under its own lock and may wait for an acknowledgement, so this needs an abstract
client in between, which may raise after it has registered.

## Not modelled

* The text of the job script and the validation of options
  (`job_options.py`, parts of `slurm_manager.py`): fields and formatting without
  state; a model would repeat the field list.
* REST settings, credentials and headers, TLS and the parsing of environment
  variables: read once, shared by nobody.
* Messages of one kind on the channel of another: the worker, the only writer,
  never sends them.
* Examples and continuous integration: straight-line use of the public calls.
* Log lines and heartbeats reach user callbacks through the same tables as
  statuses; `JobTracker` has only what they change in the tracker, `Dispatch` has
  their way to the listeners. A payload that does not parse reaches no callback:
  it is dropped in `Dispatch` and a lost message in `SlurmManager`.
