--------------------------- MODULE StageExecution ---------------------------
(***************************************************************************)
(* The worker threads of a run: WorkerPool._run_worker and _on_message     *)
(* (pipeline/workers.py) with StageExecution.run and record_completed      *)
(* (pipeline/execution.py), over a MongoRunStore.  A thread takes one      *)
(* delivery at a time (prefetch_count = 1); each call it makes to the      *)
(* store or the broker is one step, so that the calls of different threads *)
(* interleave.  The handler touches neither, so its outcome is chosen with *)
(* the call that follows it.                                               *)
(*                                                                         *)
(*   pc             the next call of the thread:                           *)
(*     "idle"        in process_data_events, nothing delivered             *)
(*     "received"    reads the stop flag, then the active holds            *)
(*     "holding"     a hold was found: will call hold_job                  *)
(*     "admitted"    no hold was found: will call mark_job_running         *)
(*     "running"     will append STAGE_STARTED                             *)
(*     "started"     runs the handler                                      *)
(*     "counted"     the handler raised; will insert the job_attempt       *)
(*     "ledgered"    will write the failure to the job state               *)
(*     "output"      STAGE_OUTPUT is logged; will publish the job          *)
(*     "published"   will call mark_job_completed                          *)
(*     "settled"     will acknowledge the delivery                         *)
(*     "dead"        an exception or a kill ended the thread               *)
(*     "stopped"     the thread left its loop on the stop flag             *)
(*   delivered      the job of the delivery, NoJob when idle or ended      *)
(*   connected      the channel that holds the delivery is still open      *)
(*   attemptNumber  record_job_failure's local                             *)
(*   stopping       the pools whose stop flag is set                       *)
(***************************************************************************)
EXTENDS RunStore, Broker

CONSTANTS
    Worker,             \* the worker threads
    Pool,               \* the worker pools (one per worker process)
    PoolOf,             \* the pool of a thread
    StageOfPool,        \* the stage a pool works for
    NoJob,              \* no delivery
    SilentPublishLoss,  \* a publish on a lost connection may not raise
    MaxCrashes,         \* bound: ends of threads by exception or kill
    MaxDrops,           \* bound: connections lost under a busy thread
    MaxStarts           \* bound: pools started again

ASSUME ExecutionAssumption ==
    /\ PoolOf \in [Worker -> Pool]
    /\ StageOfPool \in [Pool -> Stage]
    /\ NoJob \notin Job
    /\ SilentPublishLoss \in BOOLEAN
    /\ MaxCrashes \in Nat
    /\ MaxDrops \in Nat
    /\ MaxStarts \in Nat

VARIABLES pc, delivered, connected, attemptNumber, stopping,
          crashes, drops, starts

workerVars == <<pc, delivered, connected, attemptNumber, stopping,
                crashes, drops, starts>>

StageOf(w) == StageOfPool[PoolOf[w]]

Ended == {"dead", "stopped"}
Busy == {"received", "holding", "admitted", "running", "started", "counted",
         "ledgered", "output", "published", "settled"}

WorkerTypeOK ==
    /\ pc \in [Worker -> Busy \cup Ended \cup {"idle"}]
    /\ delivered \in [Worker -> Job \cup {NoJob}]
    /\ connected \in [Worker -> BOOLEAN]
    /\ attemptNumber \in [Worker -> Nat]
    /\ stopping \subseteq Pool
    /\ crashes \in Nat
    /\ drops \in Nat
    /\ starts \in Nat
    /\ \A w \in Worker : /\ delivered[w] # NoJob <=> pc[w] \in Busy
                         /\ pc[w] \notin Busy => connected[w]

WorkerInit ==
    /\ pc = [w \in Worker |-> "idle"]
    /\ delivered = [w \in Worker |-> NoJob]
    /\ connected = [w \in Worker |-> TRUE]
    /\ attemptNumber = [w \in Worker |-> 0]
    /\ stopping = {}
    /\ crashes = 0
    /\ drops = 0
    /\ starts = 0

-----------------------------------------------------------------------------
(* Helpers *)

At(w, label) == pc[w] = label

Goto(w, label) == pc' = [pc EXCEPT ![w] = label]

\* Mutant: the thread forgets to drop the delivery it gave up.
ReleaseKeepingDelivery(w, label) ==
    /\ Goto(w, label)
    /\ attemptNumber' = [attemptNumber EXCEPT ![w] = 0]
    /\ connected' = [connected EXCEPT ![w] = TRUE]
    /\ UNCHANGED delivered

\* The thread gives the delivery up: it is idle again, or it has ended.
Release(w, label) ==
    /\ Goto(w, label)
    /\ delivered' = [delivered EXCEPT ![w] = NoJob]
    /\ attemptNumber' = [attemptNumber EXCEPT ![w] = 0]
    /\ connected' = [connected EXCEPT ![w] = TRUE]

\* Mutant: deliveries are acknowledged as they arrive (auto_ack).
RequeueNothing(w) == UNCHANGED ready

\* A delivery that is not acknowledged goes back to its queue when its
\* channel closes; one whose channel is already lost went back before.
Requeue(w) ==
    IF connected[w]
    THEN Enqueue(StageInputQueue(StageOf(w)), delivered[w])
    ELSE UNCHANGED ready

\* What a step that only moves the thread leaves alone.
KeepDelivery == UNCHANGED <<delivered, connected, attemptNumber>>
KeepControl == UNCHANGED <<stopping, crashes, drops, starts>>

\* A job state write by a thread at label `from`.
WriteState(w, from, to, status) ==
    /\ At(w, from)
    /\ UpsertJobState(delivered[w], StageOf(w), status)
    /\ Goto(w, to)
    /\ KeepDelivery /\ KeepControl
    /\ UNCHANGED <<ready, jobAttempts, events, targetHolds, seedBatches>>

\* An event appended by a thread at label `from`.
WriteEvent(w, from, to, kind) ==
    /\ At(w, from)
    /\ AppendEvent(kind, delivered[w], StageOf(w))
    /\ Goto(w, to)
    /\ KeepDelivery /\ KeepControl
    /\ UNCHANGED <<ready, jobStates, jobAttempts, targetHolds, seedBatches>>

-----------------------------------------------------------------------------
(* One delivery *)

\* The broker delivers a message to an idle thread of the stage.
Deliver(w, j) ==
    /\ At(w, "idle")
    /\ Dequeue(StageInputQueue(StageOf(w)), j)
    /\ Goto(w, "received")
    /\ delivered' = [delivered EXCEPT ![w] = j]
    /\ KeepControl
    /\ UNCHANGED <<storeVars, connected, attemptNumber>>

\* _on_message, stop flag set: nack with requeue.  On a lost connection the
\* nack raises and the thread ends (ConnectionError below).
NackOnStop(w) ==
    /\ At(w, "received")
    /\ PoolOf[w] \in stopping
    /\ connected[w]
    /\ Requeue(w)
    /\ Release(w, "idle")
    /\ KeepControl
    /\ UNCHANGED storeVars

\* active_hold_for_tags.
CheckHold(w) ==
    /\ At(w, "received")
    /\ PoolOf[w] \notin stopping
    /\ Goto(w, IF ActiveHold(delivered[w]) THEN "holding" ELSE "admitted")
    /\ KeepDelivery /\ KeepControl
    /\ UNCHANGED <<storeVars, ready>>

\* hold_job, for the hold that CheckHold read.
HoldJob(w) == WriteState(w, "holding", "settled", "held")

MarkRunning(w) == WriteState(w, "admitted", "running", "running")

AppendStarted(w) == WriteEvent(w, "running", "started", "stage_started")

\* The handler returned.
AppendOutput(w) == WriteEvent(w, "started", "output", "stage_output")

\* Mutant: the insert into job_attempts is skipped.
CountWithoutInsert(w) ==
    /\ At(w, "started")
    /\ attemptNumber' = [attemptNumber EXCEPT ![w] =
                           NextAttemptNumber(delivered[w], StageOf(w))]
    /\ Goto(w, "ledgered")
    /\ KeepControl
    /\ UNCHANGED <<storeVars, ready, delivered, connected>>

\* Mutant: a failed job is returned to its queue instead of recorded.
NackFailure(w) ==
    /\ At(w, "started")
    /\ Requeue(w)
    /\ Release(w, "idle")
    /\ KeepControl
    /\ UNCHANGED storeVars

\* The handler raised: record_job_failure counts the attempts so far.
CountAttempts(w) ==
    /\ At(w, "started")
    /\ attemptNumber' = [attemptNumber EXCEPT ![w] =
                           NextAttemptNumber(delivered[w], StageOf(w))]
    /\ Goto(w, "counted")
    /\ KeepControl
    /\ UNCHANGED <<storeVars, ready, delivered, connected>>

InsertJobAttempt(w) ==
    /\ At(w, "counted")
    /\ InsertAttempt(delivered[w], StageOf(w), attemptNumber[w])
    /\ Goto(w, "ledgered")
    /\ KeepDelivery /\ KeepControl
    /\ UNCHANGED <<ready, jobStates, events, targetHolds, seedBatches>>

\* Mutant: the delivery is settled without a write of the job state.
SettleUnrecorded(w) ==
    /\ At(w, "ledgered")
    /\ Goto(w, "settled")
    /\ KeepDelivery /\ KeepControl
    /\ UNCHANGED <<storeVars, ready>>

RecordFailure(w) ==
    /\ At(w, "ledgered")
    /\ UpsertFailure(delivered[w], StageOf(w), attemptNumber[w])
    /\ Goto(w, "settled")
    /\ KeepDelivery /\ KeepControl
    /\ UNCHANGED <<ready, jobAttempts, events, targetHolds, seedBatches>>

\* Mutant: the job is forwarded before its output is logged.
PublishBeforeAppend(w) ==
    /\ At(w, "started")
    /\ connected[w]
    /\ Enqueue(StageOutputQueue(StageOf(w)), delivered[w])
    /\ Goto(w, "published")
    /\ KeepDelivery /\ KeepControl
    /\ UNCHANGED storeVars

\* publish_job on an open connection.
Publish(w) ==
    /\ At(w, "output")
    /\ connected[w]
    /\ Enqueue(StageOutputQueue(StageOf(w)), delivered[w])
    /\ Goto(w, "published")
    /\ KeepDelivery /\ KeepControl
    /\ UNCHANGED storeVars

\* publish_job on a connection whose loss the client has not noticed: the
\* bytes go to a closed socket and, without publisher confirms, no error.
PublishLost(w) ==
    /\ SilentPublishLoss
    /\ At(w, "output")
    /\ ~connected[w]
    /\ Goto(w, "published")
    /\ KeepDelivery /\ KeepControl
    /\ UNCHANGED <<storeVars, ready>>

\* Mutant: the stage is marked completed before the job is published.
CompleteBeforePublish(w) == WriteState(w, "output", "output", "completed")

MarkCompleted(w) == WriteState(w, "published", "settled", "completed")

Ack(w) ==
    /\ At(w, "settled")
    /\ connected[w]
    /\ Release(w, "idle")
    /\ KeepControl
    /\ UNCHANGED <<storeVars, ready>>

-----------------------------------------------------------------------------
(* Failures and control *)

\* A call on a lost connection raises out of _on_message: the thread ends.
ConnectionError(w) ==
    /\ ~connected[w]
    /\ \/ pc[w] \in {"output", "settled"}
       \/ At(w, "received") /\ PoolOf[w] \in stopping
    /\ Release(w, "dead")
    /\ KeepControl
    /\ UNCHANGED <<storeVars, ready>>

\* The thread ends at any other point: the process is killed, a store call
\* raises, or the connection fails while the thread is idle.
Crash(w) ==
    /\ crashes < MaxCrashes
    /\ pc[w] \notin Ended
    /\ IF pc[w] \in Busy THEN Requeue(w) ELSE UNCHANGED ready
    /\ Release(w, "dead")
    /\ crashes' = crashes + 1
    /\ UNCHANGED <<storeVars, stopping, drops, starts>>

\* The broker closes the connection of a thread that works on a delivery (a
\* long handler misses the heartbeats): the message is ready again while
\* the thread, which does not notice, goes on.
DropConnection(w) ==
    /\ drops < MaxDrops
    /\ pc[w] \in Busy
    /\ connected[w]
    /\ Requeue(w)
    /\ connected' = [connected EXCEPT ![w] = FALSE]
    /\ drops' = drops + 1
    /\ UNCHANGED <<storeVars, pc, delivered, attemptNumber, stopping,
                   crashes, starts>>

\* WorkerPool.stop.
StopPool(p) ==
    /\ p \notin stopping
    /\ stopping' = stopping \cup {p}
    /\ KeepDelivery
    /\ UNCHANGED <<storeVars, ready, pc, crashes, drops, starts>>

\* _run_worker leaves its loop and closes its session.
LeaveLoop(w) ==
    /\ At(w, "idle")
    /\ PoolOf[w] \in stopping
    /\ Release(w, "stopped")
    /\ KeepControl
    /\ UNCHANGED <<storeVars, ready>>

\* An operator starts a worker for the stage again, once every thread of
\* the pool has ended: WorkerPool.start with a new stop flag.
StartPool(p) ==
    /\ starts < MaxStarts
    /\ \A w \in Worker : PoolOf[w] = p => pc[w] \in Ended
    /\ pc' = [w \in Worker |-> IF PoolOf[w] = p THEN "idle" ELSE pc[w]]
    /\ stopping' = stopping \ {p}
    /\ starts' = starts + 1
    /\ KeepDelivery
    /\ UNCHANGED <<storeVars, ready, crashes, drops>>

-----------------------------------------------------------------------------

\* The calls a running thread makes on its own.
WorkerStep(w) ==
    \/ NackOnStop(w) \/ CheckHold(w) \/ HoldJob(w) \/ MarkRunning(w)
    \/ AppendStarted(w) \/ AppendOutput(w) \/ CountAttempts(w)
    \/ InsertJobAttempt(w) \/ RecordFailure(w) \/ Publish(w)
    \/ PublishLost(w) \/ MarkCompleted(w) \/ Ack(w)
    \/ ConnectionError(w) \/ LeaveLoop(w)

WorkerNext ==
    \/ \E w \in Worker : \/ \E j \in Job : Deliver(w, j)
                         \/ WorkerStep(w)
                         \/ Crash(w)
                         \/ DropConnection(w)
    \/ \E p \in Pool : StopPool(p) \/ StartPool(p)
=============================================================================
