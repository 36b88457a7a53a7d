# A TLA+ model of the dr-queues staged runtime

dr-queues runs jobs through a chain of stages. RabbitMQ carries the work,
MongoDB keeps the truth about it (job states, failed attempts, holds, seed
batches, events, worker records), and worker processes and operators act on both
without any transaction across them. These modules model, call by call, what the
worker threads and the operator commands do to the two stores, how a run is set
up, how worker processes are started, watched and stopped, which queues a tagged
job goes to and who consumes them, and how a caller waits for a run while a tap
collects its results. TLC checks them on small instances; TLAPS proves their main
safety properties for every number of jobs, stages, threads, workers, taps and
faults.

Paths below are relative to `src/src/dr_queues/`.

## Inventory

| Component | State | Operations | Interacts by |
|---|---|---|---|
| Run store `runtime/store.py`, `runtime/models.py` | MongoDB collections `job_states`, `job_attempts`, `events`, `target_holds`, `seed_batches`, `terminal` documents, `runs`, `workers` | one method per write, mostly one MongoDB call each; `record_job_failure`, `create_seed_batch` and `record_terminal_batch` make several | called by every process |
| Broker access `amqp/` | durable queues, unacknowledged deliveries | declare, publish without confirms, consume with `prefetch_count=1`, ack, nack with requeue | one connection per thread or command |
| Run manifest `manifest/manifest.py`, `pipeline/runner.py` `setup_run_queues` | stage order and queue names | input and output queue of a stage and partition | read by all |
| Stage execution `pipeline/execution.py`, `pipeline/workers.py` | a thread's position in one delivery, the stop flag of its pool | hold check, state writes, events, handler, failure record, publish, ack | threads share the store and the broker |
| Stage eligibility `pipeline/eligibility.py`, `cli/run.py` | the local lists of one command | seed, replay, set and clear holds | marks states, then publishes |
| Terminal tap `pipeline/tap.py` | a buffer of deliveries from the final queue | batch, record terminal states and events, ack | consumes the final queue |
| Status and waiting `runtime/status.py`, `runtime/observability.py` | none | expected and terminal counts, health, `wait_for_run` | reads the store, starts a tap |
| Worker registry `runtime/lifecycle.py`, `cli/stage_worker.py`, `cli/workers.py` | `workers` documents, heartbeat thread, signal handlers | start, register, heartbeat, request stop, signal, mark stale or stopped, replace | store, pool, signals |
| Targeting `targeting.py`, `pipeline/job.py` | none; the partition key is kept in the envelope | selector matching, partition keys, resolving a key once | hold checks, queue choice |
| In-process runner `pipeline/runner.py` | pools and a tap in one process | start, wait, stop | all of the above |
| Event sinks `events/` | an in-memory or MongoDB list | append | takes the place of the run store in stage execution |
| Workflow `workflow/` | none | pure pipeline definitions and handlers | called by stage execution |
| Command lines, viewer | none | parsing, formatting | thin callers |

### What is hard here, and what makes each part correct

* **Two stores, no transaction.** A delivery makes six or more separate calls:
  hold check, `running`, STAGE_STARTED, STAGE_OUTPUT, publish, `completed`, ack.
  Every pair can be separated by a crash or by another thread. Correct: the log
  precedes the forward (`AppendBeforeForward`), the forward
  precedes `completed` (`CompletedIsCarried`), and a job is never where nobody
  looks (`EveryJobInMotionOrParked`).
* **At-least-once delivery.** A crash between publish and ack duplicates a job;
  copies race on the same documents. Correct: the failure ledger stays truthful
  (`DeadLetterNeedsBudget`, `AttemptCountIsRecorded`).
* **Stale threads.** A thread whose connection was dropped goes on writing while
  its message is processed elsewhere, and may be the last to write. Correct:
  whatever it leaves, `replay` finds the job (`PublishedIsRecoverable`).
* **Check, then act.** `record_job_failure`, `create_seed_batch` and the hold
  check read in one call and write in another (`RetryWaitsWithinBudget`,
  `ActiveBatchesDisjoint`).
* **Commands that fail half-way.** All states are marked pending before anything
  is published, so a failed or killed command leaves jobs pending without a
  message; `replay --status pending` finds them (`PublishedIsRecoverable`).
* **Stopping.** A stopping thread returns deliveries that the broker may hand it
  again; the run must still come to rest (`RunComesToRest`).
* **Collecting results.** A tap buffers deliveries, writes their states, then
  their events, then acknowledges: a crash or a lost connection anywhere in
  between must neither lose a result (`NoTerminalLost`) nor record it out of
  order (`EventHasState`) nor twice (`OneTerminalEventPerJob`).
* **Counting to completion.** Completion compares two counts that are read at
  different moments by different threads, while seeds begin, fail and finish. It
  must not be early by count (`CompletionIsTrue`), the count must stand for the
  seeded jobs (`CompleteMeansEveryJob`), and a wait must end (`WaitReturns`).

* **Redelivery without a record.** Over a plain event sink nothing remembers a
  failed attempt; the nack is all there is. Correct: a started job is always in a
  queue or in a thread whose end returns it (`StartedIsKept`), and tried often
  enough it goes on (`RetriedUntilForwarded`).
* **Choices made once.** Workers and taps list partitions when they start, seeds
  and replays go on declaring others, handlers change the tags meanwhile. Correct:
  no job is sent to a queue that does not exist (`RoutesExist`), and what could be
  known at the start is consumed (`KnownJobsAreServed`, `KnownJobsAreTaken`).
* **A registry about processes that die.** Records are written by the worker, its
  heartbeat thread, its host's operators and everybody who lists workers. Correct:
  a pool that serves is recorded (`ServingIsRecorded`), a status never moves back
  (`StatusMovesOn`), no signal of a stop kills a detached worker in the middle of
  a handler (`StopIsGraceful`), and a stop takes effect (`StopRequestEnds`). It is
  not promised that the handler finishes: once the join of a pool has timed out
  (`cli/stage_worker.py:119`) the process leaves with the handler under way, which
  is `Exit`.
* **Many writers of one manifest.** Correct: a manifest never names a missing
  queue (`HeldQueuesExist`), and all processes hold the same one (`RunIsShared`).
* **What an operator is shown.** Health is the first of several conditions over
  separate reads; a quiet run that is not shown as blocked must have nothing that
  waits for an operator (`QuietHealthIsHonest`).

The full list, line by line, is `hazards` in `PROJECT.json`.

## Modules

```
RunManifest <- RunStore, Broker <- StageExecution  \
                                <- StageEligibility -> StagedRuntime <- RunReport <- MCStagedRuntime
RunManifest <- WriteAheadFlow  - - - refined by - - -> StagedRuntime <- StagedRuntimeProofs
                      \                                     <- StagedRuntimeDeliveryProofs
                       \             RunReport, StagedRuntimeDeliveryProofs <- RunReportProofs
                       \ - - - - - - refined by - - -> SinkExecution
RunManifest <- Broker <- SinkExecution <- MCSinkExecution, SinkExecutionProofs

RunProgress <- TerminalTap <- RunWait <- MCRunWait, RunWaitProofs

RunManifest, Targeting <- PartitionRouting <- MCPartitionRouting, PartitionRoutingProofs
WorkerLifecycle <- MCWorkerLifecycle, WorkerLifecycleProofs
RunSetup <- MCRunSetup, RunSetupProofs
```

`A <- B` reads "B extends A". StagedRuntime and RunWait meet at the final queue.
StagedRuntime ends where a job reaches it, and shows that it gets there, perhaps
more than once (`RunComesToRest`); RunWait begins there, with `Arrive` standing
for the whole chain of stages. They are kept apart because their state spaces
multiply and no variable but that queue and the seed batches is common to them.
The last three groups look at state the others hold fixed: the partitions of a
queue, the life of a worker process, the manifest. What they leave out of a
delivery is what StageExecution is about, and the reverse.

* **RunManifest**: `Job`, `NumStages`, and the queue chain. Stage `s` consumes
  queue `s`; its output queue `s + 1` is the next stage's input, as
  `stage_input_queue` and `stage_output_queue` define it.
* **RunStore**: one variable per collection and one operator per write of
  `MongoRunStore`. `record_job_failure` is three operators because it is three
  MongoDB calls. `_upsert_job_state` is one: it sets fields in a single upsert
  under a unique index, so `attempt_count` survives every status write.
* **Broker**: `ready[<<q, j>>]` counts the waiting messages. Unacknowledged
  deliveries live in the consuming thread.
* **StageExecution**: each thread's `pc` names its next store or broker call
  (`_on_message`, `StageExecution.run`, `record_completed`). A delivery returns
  to its queue when its channel closes (`Requeue`). Three kinds of end:
  `Crash` (kill, store error), `ConnectionError` (a broker call on a lost
  connection raises) and `LeaveLoop` (stop flag). `DropConnection` gives the
  message back while the thread goes on.
* **StageEligibility**: an operator's command as it runs: the two calls of
  `create_seed_batch`, then one `mark_job_pending` per state, then the
  publishes; `Abort` is an exception (a seed marks its batch failed), `Kill` the
  end of the process.
* **StagedRuntime**: composition, fairness, all properties.
* **WriteAheadFlow**: the abstract promise: a job is admitted to the first
  stage, an output is logged only for a job that reached the stage, only a
  logged output moves the job on, nothing is undone. `StagedRuntime` implements
  it with `reached` mapped to "a message, document or live delivery exists" and
  `logged` to the STAGE_OUTPUT events.
* **RunProgress**: what the store says of a run's progress: the seed batches, the
  terminal documents, the TERMINAL events; `expected_job_count` and the terminal
  counts computed from them; the two writes of `record_terminal_batch`.
* **TerminalTap**: one tap per `Tap`, its thread's `tapPc`, buffer and flags. The
  constructor is two steps (it reads the known ids, later the expected count), a
  flush is one step per document, per event and per ack. `Receive` is
  `_on_message`. `DropTapConnection` gives the buffer back to the queue while
  the flush goes on, `CrashTap` is any exception.
* **RunWait**: the callers. A caller of `wait_for_run` polls (two steps: events,
  expected count), builds its tap once, sleeps, gives up; a `Runner` is a call
  of `run_in_process`, which first waits for its own tap's done event and then
  calls `wait_for_run` with timeout 0. A process that ended may be started anew
  (`EndProcess`, `Call`). Seeds run as in StageEligibility, reduced to the batch
  and its jobs.
* **RunReport**: what `observability.py`, `status.py` and the `failures` command
  compute from the store of StagedRuntime: counts, health, the figures of a stage.
  The counts of the tap and of the registry are arguments.
* **SinkExecution**: the same threads when the pool was given an event sink:
  `EventSinkStageExecutionStore` answers every write with nothing and every failure
  with FAILURE_NOT_RECORDED, so `Redeliver` takes the place of the failure ledger.
  It implements WriteAheadFlow too, with the start events as traces.
* **Targeting**: tags are functions from keys to words, a partition key is the set
  of sanitised pairs that it is joined from. `ResolvedPartitionKey` keeps a key
  that is not `default`.
* **PartitionRouting**: `Seed`, `Replay`, `Declare`, `MarkPending`, `PublishPending`
  are the steps of `eligibility.py` with their partitions; `Spawn` and
  `ResolvePartitions` the two looks that `start_stage_workers`, `stage_worker` and
  `_build_pools` take at the job states; `Take` and `Complete` the two ends of a
  delivery; `Park` stands for a hold, found before the handler ran, and for a
  recorded failure, which keeps what the handler had made of the tags until it
  raised; `BuildTap` and `TapTake` the tap.
* **WorkerLifecycle**: `phase` is how far `stage_worker.main` (or `run_in_process`
  for each of its pools) has come. The heartbeat thread updates, then reads
  (`Beat`, `ReadBack`); a stop command finds, updates, signals one by one; anybody
  may list the workers, which marks the late ones stale. `Exit` is the end of the
  process after that; it is never forced, as the caller of `run_in_process` may
  live on, and the daemon threads of its pools with it.
* **RunSetup**: `setup_run_queues` in its steps (look, declare each queue, store),
  each call with a definition and a queue prefix of its own, `attach_run`, and
  processes that read the manifest. A setup may fail before the manifest is written
  (`Fail`) and after it, when the answer of the store is lost (`StoreThenRaise`).
* **MCStagedRuntime**, **MCRunWait**, **MCSinkExecution**, **MCPartitionRouting**,
  **MCWorkerLifecycle**, **MCRunSetup** and the `.cfg` files: small instances.
* The modules whose names end in **Proofs**: TLAPS proofs.

The operators commented "Mutant" are broken variants of their neighbours. They are not part of the specification; replacing
the original by them makes the property named with them in `PROJECT.json` fail,
which shows that the property can see that kind of bug.

### Abstractions

* A job is its identity; payload, lane and step outputs are left out. A handler
  is its outcome, returned or raised, chosen at the call that follows it. It is
  assumed to keep the job's identity, and in StagedRuntime its target; in
  PartitionRouting `HandlerTags` says what it may make of the tags.
* Time is left out: a hold may be due, a retry delay over, a heartbeat missed at
  any moment. `replay --force` is therefore always possible.
* In StagedRuntime and SinkExecution jobs have one partition, so a stage has one
  queue, and a job has one target. In PartitionRouting messages are sets: two
  copies of an envelope in one queue are one, and a worker has one thread.
* Joining the parts of a partition key with `__` is taken to be injective.
* Queue order is not kept. Redelivery, several consumers and per-command
  publishing leave none to rely on.
* `replayable_job_states` makes up to four queries; the model reads once. Status
  writes between the queries can only add or omit single states, which the
  arbitrary subset that `ReadReplayable` selects covers for the states that stay
  replayable.
* A worker's publish may be lost silently when its connection is gone
  (`SilentPublishLoss`). An operator's publish is not: the command closes its
  session after the last publish, which waits for the broker and raises when the
  connection is gone, so such a loss is the failing command that `Abort` is.
* `CheckHold` is one step for the stop flag and the read of the hold: setting the
  flag and changing a hold commute, so an order between the two reads is an order
  of two steps that the model has. `TakeJob` of WorkerLifecycle tests the stop flag
  and starts the handler: the handler counts as under way a little early, which
  only asks more of `StopIsGraceful`.
* The end of a wait reads the expected count and returns in one step: between the
  two `wait_for_run` does nothing that another process can see. A tap compares
  and sets its done event in one step: a later `set` only delays who waits for it.
* In PartitionRouting a delivery is taken in one step and completed in another:
  the module is about where an envelope goes. The calls in between, and the
  crashes between them, are those of StageExecution.
* `Admit` of SinkExecution seeds each job once. `seed_jobs` refuses nothing; the
  guard is a bound, as is the job set, and the copies of a job come from crashes
  and lost connections. Its pools have an output queue, as every pool that
  `runner.py` and `cli/stage_worker.py` build has.
* Over an event sink the append is one step, as `MemoryEventSink` holds a lock; the
  event log is a set, as two appends of one event cannot be told apart by what is
  checked.
* In WorkerLifecycle a pool has one handler under way at most, a pool's threads
  test the stop flag before each delivery, and a heartbeat is late or not:
  `Lapse` may strike a dead worker at any time and a live one `MaxFaults` times.
* In RunSetup a pipeline definition is the number of its steps and its identity,
  and a queue is its prefix and its place in the chain; declaring a queue a second
  time has no effect.
* StagedRuntime does not consume the final queue: reaching it is its end. In
  RunWait there is one final queue, and `Arrive` may put a job there up to
  `MaxArrivals` times: a copy made by a crash between publish and ack, or by a
  replay, is the second arrival.
* A tap reads `TERMINAL` ids in one step and a status reads the events in one
  step: a cursor that sees a part of concurrent inserts sees what an earlier
  read would have seen, or more; both counts only grow with the events.
* `tap.join(timeout=5)` orders nothing, so it is left out: a tap may go on after
  its caller returned, until the process ends (`KillTap`).
* A message of another run, which `_on_message` acknowledges and drops, does not
  occur: the final queues carry the run's id in their names.

## Runs

All bounds are constants: `MaxCrashes`, `MaxDrops`, `MaxStarts`, `MaxBatches`,
`MaxReplays`, `MaxAborts`, `MaxHolds`, `MaxStops`, `MaxParks`, `MaxRequests`,
`MaxFaults`. They bound how often the environment interferes, never what a thread
or a command does. `MaxAttempts = 2` is the least value for which retry and dead
letter differ. Two stages are the least with a first, a next and a final queue.
In RuntimeSilentLoss and RuntimeLiveness one job suffices: their properties speak
of one job at a time, and jobs meet in no variable but the seed batches, of which
that job may be in two. RuntimeOrderly has two, as counts and reports are about
several, with the jobs and the two threads of stage 2 interchangeable
(`SYMMETRY`; the run has no liveness property). RuntimeRecovery has what the
others cannot afford together: a second operator, a dropped connection and a
failing command. One job and a doubled first stage suffice, as a stale thread and
a job that lies pending behind a failed command need no second stage, where the
job only waits. `CHECK_DEADLOCK FALSE`: a run
whose jobs are done and whose budget of interference is spent really stops.

| Run | Faults | Checks |
|---|---|---|
| RuntimeSilentLoss | crash, dropped connection, silent loss, restart, failing and killed commands, a second seed, replay of failed and completed stages | `AppendBeforeForward`, `DeadLetterNeedsBudget`, `AttemptCountIsRecorded`, `ActiveBatchesDisjoint`, `ImplementsWriteAheadFlow` |
| RuntimeOrderly | none; two jobs, stops, a hold, two replays, two threads on stage 2 | `RetryWaitsWithinBudget`, `ExclusiveExecution`, `EveryJobInMotionOrParked`, `QuietHealthIsHonest`, `AttemptCountGrows` |
| RuntimeRecovery | two operators with two replays, of any status; a dropped connection, a failing or killed command; two threads on stage 1 | `PublishedIsRecoverable`, `DeadLetterNeedsBudget` |
| RuntimeLiveness | one crash, a restart, a replay, stops; two pools on stage 2 | `TypeOK`, `EveryJobInMotionOrParked`, `CompletedIsCarried`, `RunComesToRest` |
| WaitFaults | two waits and taps compete for one seed; a tap crash, repeated calls (lost connections are in WaitAgain) | `WaitTypeOK`, `CompletionIsTrue`, `WaitReturns` |
| WaitAgain | tap crash, lost connection, failing and repeated calls, overlapping seeds that fail or are killed; one caller, one arrival of each job | `OneTerminalEventPerJob`, `NoTerminalLost`, `EventHasState` |
| RunnerCompletes | `run_in_process` under two seeds at any moment, repeated arrivals | `CompleteMeansEveryJob`, `WaitReturns` |
| SinkRedelivers | two jobs over an event sink, failing handlers, a crash, a lost connection, a stop; two threads on stage 2 | `SinkTypeOK`, `StartedIsKept`, `ImplementsWriteAheadFlow`, `RetriedUntilForwarded` |
| PartitionsServed | a job with a tag and one in a pool that is "default"; retagging handlers, a parked job, replays with and without a selector, a failing command; a pool of the runner on stage 1, a worker with selectors on stage 2, the tap, restarts | `RoutingTypeOK`, `RoutesExist`, `KnownJobsAreServed`, `KnownJobsAreTaken` |
| Workers | a detached worker and a pool of the runner; two commands of an operator (stop, replace); one kill, stall or heartbeat failure; no signal is ever forced, so `StopRequestEnds` covers a worker on a host that the operator cannot signal | `LifecycleTypeOK`, `ServingIsRecorded`, `StatusMovesOn`, `StopIsGraceful`, `StopRequestEnds` |
| SetupRace | three setups with two definitions and two prefixes, one overwriting, failing anywhere; an attach, a reader | `SetupTypeOK`, `HeldQueuesExist`, `RunIsShared` |

`MaxTapCrashes`, `MaxTapDrops`, `MaxSeedAborts`, `MaxArrivals`, `MaxCalls` and
`MaxFailures` bound the environment of RunWait in the same way. `BatchSize` 2 is
the least with a batch of several deliveries and a flush that the interval
starts. Two jobs are the least with which one can stand in for the other.

In PartitionsServed two words, of which one sanitises to nothing, and two keys, of
which one is `quota_pool`, are the least with a derived key, a pool key, and a
pool that falls back to `default`. In Workers one operator with two commands has
a stop that races another and a replacement that is stopped in turn; one worker of
each kind has all the processes that a signal can meet. In SetupRace three setups
are the least with two that race and one that overwrites the winner.

One run shows where a sentence of the documentation is not what the code does
(`findings` in `PROJECT.json` quotes the sentence):

* **NarrowReplacement**: a worker of the second stage takes the first of two jobs
  and ends. Its replacement, started without selectors, finds a job state of its
  stage, consumes only the partitions of such states, and leaves the other job in
  a queue that nobody consumes.

This behaviour, and some that are one constant away from the passing runs, are
why those runs have the faults they have:

* `ExclusiveExecution` and the exact retry budget are properties of a run without
  faults in which only parked jobs are replayed: after a crash between publish and
  ack two threads hold copies of one job, both count one attempt less than there
  will be, and the job waits for a retry with its budget used up. A second copy also
  comes from two operators who replay the same job, from a seed that fails after it
  published and is repeated, and from a replay of a stage that a job has already
  left.
* `ActiveBatchesDisjoint` needs one seed command at a time: two operators pass the
  duplicate check before either inserts its batch.
* `EveryJobInMotionOrParked` needs commands that finish and connections that stay
  up. With `MaxDrops = 1` a thread that lost its connection marks the job running
  after the redelivered copy was parked, and dies: a running document without a
  message. With `MaxAborts = 1` a replay marks a job pending and does not publish
  it. In both cases the job is not among the statuses that `replay` selects by
  default; an operator who names the status finds it. That is what is left without
  the two conditions, `PublishedIsRecoverable`. It needs publishes that raise when
  they are lost: after a silent loss the thread goes on to `completed`, also over a
  document that another thread has parked, and the job is nowhere.
  `QuietHealthIsHonest` needs the same, as such a job is neither moving nor
  shown as blocked, and one operator: a job of two batches is expected twice, so that
  no stage of the run is ever complete.
* `OneTerminalEventPerJob` needs one arrival per job and one tap at a time: a tap
  records both of two copies of a job in one batch.
* `CompleteMeansEveryJob` needs seeds that do not fail: with `MaxSeedAborts = 1` a
  job that a failed seed published counts as terminal but not as expected, and
  stands in for another.
* `WaitReturns` is, for `wait_for_run`, about a single seed and about callers whose
  own tap lives: a wait does not notice the end of its tap. With a second seed a
  tap may be done with the first batch before the wait looks again; the count is
  then no longer reached and no one consumes the rest. For `run_in_process` it
  needs no wait beside it, whose tap would take messages that the runner's own tap
  then never counts.
* `KnownJobsAreServed` and `KnownJobsAreTaken` are about workers with selectors and
  workers of the first stage, which choose among all jobs of the run; for the
  others see NarrowReplacement. A job that is seeded into a partition of its own
  after all workers have started waits for the next one to start.
* `RoutesExist` needs handlers that keep a job without a partition without one
  (`HandlersKeepDefault`, an assumption of the instance that TLC evaluates). A
  handler that tags such a job has its message sent to a queue that exists, is
  resolved anew at the next stage, and is forwarded to one that may not: the
  publish is dropped without an error.
* `StopRequestEnds` leaves out a worker whose heartbeat thread has died, as a stop
  request on another host rests on that thread alone, and workers marked stale,
  which no stop command finds.
* `RunIsShared` ends with the first overwrite, which replaces the manifest under
  processes that work from the old one.

`NoTerminalLost`, `EventHasState`, `CompletionIsTrue`, the safety properties of
SinkRedelivers, Workers and SetupRace but for `RunIsShared`, and those of
RuntimeSilentLoss but for `ActiveBatchesDisjoint`, need none of this.

Some races are shown by no run, as no property survives them that would be worth a
run: the two threads that make one retry too many, the two operators who seed one
job twice, the reports that mix three moments, the pool that serves on after its
record was closed. The list above and the notes of the hazards in `PROJECT.json`
say so one by one. RuntimeLiveness has no hold and WaitFaults no lost connection
because the graphs that TLC must hold for a liveness property grow beyond use
with either; the safety runs have both.

### Fairness

`Fairness` is weak for each thread's own next call, for each operator's running
command, and for the delivery of a waiting message while some thread of the
stage is idle: threads are scheduled by the operating system, and RabbitMQ
delivers to idle consumers. It is strong for `LeaveLoop`: `process_data_events`
returns within half a second and the stop flag is tested each time, even if the
broker keeps handing the thread messages that it returns. Nothing forces
crashes, drops, stops, starts or commands. `RunComesToRest` assumes that each
stage ends up with a running thread for good; the number of replays is bounded,
as an operator who replays for ever keeps a run from resting.

In RunWait `Fairness` is weak for each tap thread's next step, for the delivery
of a waiting job to some consuming tap, for the first arrival of each published
job, for a running seed command and for each caller's next step, its polls
included. Timeouts, calls, seeds, repeated arrivals and faults are not forced,
with one exception: the last look of `run_in_process`, a `wait_for_run` with
timeout 0, does give up. `WaitReturns` therefore speaks of waits without a
timeout.

In SinkExecution fairness is as in StagedRuntime, and strong for the return of a
handler on a job it is given again and again: without a failure ledger nothing but
the handler ends the redeliveries, so `RetriedUntilForwarded` says that every job
whose handler returns in the end is forwarded, and nothing about one that always
raises. In PartitionRouting consumers take and finish what is in their queues;
nobody has to start, seed or replay. In WorkerLifecycle the main thread and the
heartbeat thread of a process go on: the main thread of the runner leaves because
its wait has a timeout, and joins have one too. Operators, signals, handlers,
listings and the end of a process are not forced, so `StopRequestEnds` rests on the heartbeat alone.

## Proofs

Assumptions: the named `ASSUME`s on the constants, and what a theorem says it
assumes. All runs extend the modules that hold them.

* `TypeCorrect`: `TypeOK`, inductive by itself. Beyond types it says that a
  thread has a delivery exactly at its busy labels, and that only a busy thread
  can have a lost connection.
* `DeadLettersAreEarned`, `AttemptCountsAreRecorded`: the invariant
  `LedgerInv` adds that a thread about to write a failure carries a number that
  the ledger already covers (`CountedInLedger`). The ledger only grows, so this
  survives the very races that break the exact budget.
* `AppendsPrecedeForwards`, `LogIsPrefixClosed` (no gap in the log: what a later
  stage logged, every earlier one has): `FlowInv` adds that a thread
  about to publish has logged its output, and that a thread past its first write
  has left a document. The second is needed because an ack removes the last
  message: the document is the trace that stays.
* `RunImplementsFlow`: each step of each action is shown to leave traces and log
  alone, to add one trace that the log justifies, or to add one output for a job
  that was there (`FlowStep`), which maps to a step of `WriteAheadFlow`.
* `CompletedJobsAreCarried`, under `~SilentPublishLoss`: the invariant adds that
  a thread between its publish and its write of `completed` has its job carried
  further on (`PublishedIsCarried`), and the key lemma `CarriedStays` shows that
  whatever carries a job beyond a stage goes on doing so there or one queue
  later. The assumption is not cosmetic: with a silently lost publish the
  property is false.
* `PublishedJobsAreRecoverable`, under `~SilentPublishLoss`, with every other fault
  and any number of operators: `EnteredInv` says that a job of a published batch has
  a document at its first stage, and that a job of a batch that is being seeded has
  one or is still to be marked by the running command (`SeedsWithin`; the lemma
  `SeedsStep` about it also serves the next theorem). Documents are never removed,
  and one that says `completed` has its job carried further on, by
  `CompletedJobsAreCarried`.
* `JobsAreNeverLost`, under `MaxDrops = 0` and `MaxAborts = 0`, for any number of
  operators, crashes, stops, restarts and replays: a job is followed from its batch
  on. The invariant `KeptInv` says that what a running seed command has not marked
  it will mark (`SeedsAreKept`, which needs to know the locals of every command,
  `CommandShape`), that a marked job is kept at its stage or further on, and that a
  thread between publish and `completed` vouches for its job (`PublishedIsKept`).
  The lemma `KeptMoves` shows that a job kept at a stage stays kept there, goes
  one queue on, or is completed by a thread.
* `SeedBatchesAreDisjoint`, for one operator (`OneOperator`): the invariant
  `BatchInv` says that what was checked for conflicts is still free when the batch
  is inserted (`CheckedIsFree`), and that a command closes only a batch that is
  still `created` (`OpenBatches`), so that a failed batch never becomes active.
* `StagesRunAlone`, `RetriesStayWithinBudget`, `AttemptCountsGrow`, in an
  `Undisturbed` run (no crash, drop or failing command, one operator, replays of
  parked jobs only; handlers may fail, pools may stop, jobs may be held): the
  invariant `TokenInv` says that a job has one trace at a time (`OneToken`): a
  message, a delivery that is not decided, a parked document or an entry in the
  operator's hand. It needs that a thread that has published is behind the trace
  (`PublishedIsBehind`), that a seed meets no trace of its jobs (`SeedsAreFresh`)
  and that a replay finds its documents parked when it marks them
  (`ReplaysAreParked`). One lemma, `TokenSteps`, classifies every action: the trace
  stays, moves, or appears where there was none. Exclusive execution follows, and
  with it that the number which `record_job_failure` computes is the length of the
  ledger (`CountIsExact` of `BudgetInv`).
* `QuietRunsAreReported`, for one operator, `MaxDrops = 0` and `MaxAborts = 0`, with
  crashes, restarts and any replay: a stage that was begun for a job is logged or
  the job is still kept (`BegunIsKept` of `StartInv`), an output is logged after all
  the earlier ones (`LoggedWasBegun`). In a quiet run nothing is in motion and, by
  the health, nothing parked, so what was begun is logged and what was published is
  in the final queue; disjoint batches make the expected count that of the jobs.
* `WaitTypeCorrect`: `WaitTypeOK`, inductive by itself. Its part `PendingFits`
  says that a tap holds deliveries only while its thread works and that a flush
  stands at one of them, which every write of a flush relies on.
* `TerminalsAreKept`, `EventsHaveStates`: the invariant `RecordInv` adds that an
  id a tap knows has its event (`KnownIsRecorded`), which makes acknowledging a
  known id safe; how far each flush has come, delivery by delivery
  (`FlushIsRecorded`), which makes an ack safe and puts events after states; and
  that a status a caller read is not ahead of the store (`StatusIsOld`). The
  lemma `GivenBack` covers every way a session ends: what a tap held is in the
  queue again.
* `CompletionsAreTrue`, an action property: from `KnownIsRecorded` and
  `StatusIsOld` the number that was compared is at most the number of recorded
  jobs at that moment, and the expected count is the one read in the same step.
  Finiteness of `Job` is needed, as cardinalities are compared.
* `CompleteRunsAreWhole`, an action property under `MaxSeedAborts = 0`: the
  invariant `SeededInv` says that whatever is queued, held or recorded was published
  for an active batch. The recorded jobs are then a subset of the seeded ones, the
  expected count is at least the number of those (jobs of two batches count twice),
  and `CompletesByCount` closes the circle: two finite sets, one within the other,
  of the same size.
* `JobsEndOnce`, for one tap (`OneTap`) and `MaxArrivals <= 1`, with every fault of a
  tap and any number of calls: the invariant `OnceInv` says that a copy waits or is
  held, but not both while the session lasts (`OneCopy`); that a tap at work knows or
  holds every recorded job (`KnowsRecorded`), so that what it buffers is not recorded
  yet; and that a buffer has no job twice. A lost connection breaks the first of
  these only for the tap that lost it, which goes on writing what it holds and dies
  before it takes anything else.

* `SinkTypeCorrect`, `StartedJobsAreKept`: the invariant `KeptInv` says that what a
  thread works on is carried by a message or a live delivery, beyond its stage once
  it is published (`WorkIsCarried`), and that only a busy thread has a lost channel
  (`IdleIsConnected`), without which a crash could forget a delivery. The lemma
  `CopiesStep` reduces all actions to four effects on the copies of a job: none,
  one more at the first queue, one more behind the stage, one less after an ack.
* `SinkImplementsFlow`: from the same invariant and `OutputIsLogged`; an ack may
  remove the last message of a stage, and the start event is the trace that stays
  (`StartIsLogged`).
* `RoutingTypeCorrect`: `RoutingTypeOK` with `ParkedInStages`: what a replay finds
  has a stage to go back to.
* `RoutesAlwaysExist`, under `HandlersKeepDefault`: every job has a `Home`, the
  partition of the tags it was seeded with. The invariant `PlacedInv` says that every
  envelope on its way is settled (its key is its home, and will stay so), and that
  its home was declared when it was first marked.
* `KnownJobsAlwaysServed`, under the same assumption: whoever chooses among all jobs
  listed the homes of all it could know. For a worker of the first stage without
  selectors this needs that a job with any document has one of the first stage
  (`Placed`), and for the runner's pools that the two looks agree (`KnownByPools`).
* `LifecycleTypeCorrect`, `ServersAreRecorded`, `StatusesMoveOn`, `StopsAreGraceful`:
  the invariant of WorkerLifecycleProofs ties the phase of a process to its record
  (no record before registration, none closed before the pool was stopped) and its
  handlers to its signal handler (a detached worker with a handler under way has
  installed it).
* `SetupTypeCorrect`, `QueuesAreDeclaredFirst`, `RunsAreShared`: the invariants add
  that a setup about to store has declared all its queues, that the stored manifest
  has all of its, and that queues stay, whatever the prefixes and also when a setup
  raises after its manifest was written.

Every safety and action property of the passing runs is thus a theorem, under
assumptions that its run satisfies (`Operator` and `Tap` have one element where
`OneOperator` and `OneTap` are assumed); what goes wrong without them is listed
under Runs. `OneTap` excludes `run_in_process`, which has two taps.

Only model-checked are the liveness properties `RunComesToRest`, `WaitReturns`,
`RetriedUntilForwarded`, `KnownJobsAreTaken` and `StopRequestEnds`, which are out of
the prover's reach as they rest on fairness.

## Not modelled

* The wait for a single stage: its condition is `StageComplete` of RunReport, and it
  builds no tap, so it is a poll of a function of the store.
* `record_terminal` of the run store and of the event-sink fallback: only a tap
  built over a sink would call the latter.
* Queue snapshots: a passive look at RabbitMQ for display.
* The parsing of arguments, selectors, times and worker counts, the spelling of
  queue names, index creation, queue deletion, listings for display.
* The workflow package and the demo handlers: pure data, and a handler is its
  outcome here.
* The viewer and the notebooks only display. (`notebooks/run_exploration.py` calls
  `queue_snapshot` with one argument where it takes more, and shows the error as
  "RabbitMQ unavailable"; no state depends on it.)
* Broker failures other than lost connections, and losses inside MongoDB.

## What could follow

1. An abstract at-least-once recorder that the taps implement.
2. Partitions in StagedRuntime, so that a stalled partition shows in the health.
