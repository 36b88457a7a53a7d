--------------------------- MODULE SinkExecution ----------------------------
(***************************************************************************)
(* Worker threads whose pools were given a plain event sink instead of a   *)
(* MongoRunStore.  StageExecution.from_event_sink (pipeline/execution.py)  *)
(* wraps the sink in EventSinkStageExecutionStore: there are no holds, no  *)
(* job states and no attempts, and a handler that raised is answered with  *)
(* REDELIVER, that is a nack with requeue, without a limit.  The event log *)
(* and the broker are all that remembers a job.                            *)
(*                                                                         *)
(*   events     the sink: MemoryEventSink appends under a lock, so an      *)
(*              append is one step                                         *)
(*   pc         "idle"; "received" (reads the stop flag, then appends      *)
(*              STAGE_STARTED); "started" (runs the handler); "output"     *)
(*              (STAGE_OUTPUT is logged, will publish); "settled" (will    *)
(*              acknowledge); "dead"; "stopped"                            *)
(*   delivered  the job of the delivery, NoJob without one                 *)
(*   connected  the channel that holds the delivery is still open          *)
(*   stopping   the threads whose pool has its stop flag set               *)
(***************************************************************************)
EXTENDS Broker

CONSTANTS
    Worker,       \* the worker threads
    StageOf,      \* the stage a thread works for
    NoJob,        \* no delivery
    MaxCrashes,   \* bound: ends of threads by exception or kill
    MaxDrops,     \* bound: connections lost under a busy thread
    MaxStops      \* bound: threads asked to stop

ASSUME SinkAssumption ==
    /\ StageOf \in [Worker -> Stage]
    /\ NoJob \notin Job
    /\ MaxCrashes \in Nat
    /\ MaxDrops \in Nat
    /\ MaxStops \in Nat

VARIABLES events, pc, delivered, connected, stopping, stops, crashes, drops

faultVars == <<stopping, stops, crashes, drops>>
vars == <<ready, events, pc, delivered, connected, faultVars>>

EventKind == {"stage_started", "stage_output"}
Busy == {"received", "started", "output", "settled"}
Ended == {"dead", "stopped"}

SinkTypeOK ==
    /\ BrokerTypeOK
    /\ events \subseteq EventKind \X Job \X Stage
    /\ pc \in [Worker -> Busy \cup Ended \cup {"idle"}]
    /\ delivered \in [Worker -> Job \cup {NoJob}]
    /\ connected \in [Worker -> BOOLEAN]
    /\ stopping \subseteq Worker
    /\ stops \in Nat /\ crashes \in Nat /\ drops \in Nat
    /\ \A w \in Worker : delivered[w] # NoJob <=> pc[w] \in Busy

Init ==
    /\ BrokerInit
    /\ events = {}
    /\ pc = [w \in Worker |-> "idle"]
    /\ delivered = [w \in Worker |-> NoJob]
    /\ connected = [w \in Worker |-> TRUE]
    /\ stopping = {}
    /\ stops = 0 /\ crashes = 0 /\ drops = 0

-----------------------------------------------------------------------------
(* Helpers *)

Go(w, from, to) == pc[w] = from /\ pc' = [pc EXCEPT ![w] = to]

KeepDelivery == UNCHANGED <<delivered, connected>>

\* Mutant: the thread forgets to drop the delivery it gave up.
ReleaseKeepingDelivery(w, to) ==
    /\ pc' = [pc EXCEPT ![w] = to]
    /\ connected' = [connected EXCEPT ![w] = TRUE]
    /\ UNCHANGED delivered

\* The delivery is over for the thread: it is idle again, or it has ended.
Release(w, to) ==
    /\ pc' = [pc EXCEPT ![w] = to]
    /\ delivered' = [delivered EXCEPT ![w] = NoJob]
    /\ connected' = [connected EXCEPT ![w] = TRUE]

\* Mutant: deliveries are acknowledged as they arrive (auto_ack).
RequeueNothing(w) == UNCHANGED ready

\* An unacknowledged delivery goes back to its queue, unless it went back
\* when the connection was lost.
Requeue(w) == IF connected[w] THEN Enqueue(StageInputQueue(StageOf[w]), delivered[w])
                              ELSE UNCHANGED ready

Append(w, kind) == events' = events \cup {<<kind, delivered[w], StageOf[w]>>}

-----------------------------------------------------------------------------
(* One delivery *)

\* seed_jobs: an application publishes a job to the first stage.
Admit(j) ==
    /\ \A q \in Queue : ready[<<q, j>>] = 0
    /\ \A w \in Worker : delivered[w] # j
    /\ Enqueue(1, j)
    /\ UNCHANGED <<events, pc, delivered, connected, faultVars>>

Deliver(w, j) ==
    /\ Go(w, "idle", "received")
    /\ Dequeue(StageInputQueue(StageOf[w]), j)
    /\ delivered' = [delivered EXCEPT ![w] = j]
    /\ UNCHANGED <<events, connected, faultVars>>

NackOnStop(w) ==
    /\ pc[w] = "received" /\ w \in stopping /\ connected[w]
    /\ Requeue(w)
    /\ Release(w, "idle")
    /\ UNCHANGED <<events, faultVars>>

\* active_hold_for_tags finds nothing and mark_job_running writes nothing.
AppendStarted(w) ==
    /\ w \notin stopping
    /\ Go(w, "received", "started")
    /\ Append(w, "stage_started")
    /\ KeepDelivery
    /\ UNCHANGED <<ready, faultVars>>

\* Mutant: the output is logged only once it is published.
AppendNoOutput(w) ==
    /\ Go(w, "started", "output")
    /\ KeepDelivery
    /\ UNCHANGED <<ready, events, faultVars>>

\* The handler returned.
AppendOutput(w) ==
    /\ Go(w, "started", "output")
    /\ Append(w, "stage_output")
    /\ KeepDelivery
    /\ UNCHANGED <<ready, faultVars>>

\* Mutant: a failure that is not recorded is acknowledged all the same.
AckUnrecorded(w) ==
    /\ Go(w, "started", "settled")
    /\ KeepDelivery
    /\ UNCHANGED <<ready, events, faultVars>>

\* The handler raised: FAILURE_NOT_RECORDED, hence REDELIVER.
Redeliver(w) ==
    /\ pc[w] = "started" /\ connected[w]
    /\ Requeue(w)
    /\ Release(w, "idle")
    /\ UNCHANGED <<events, faultVars>>

\* publish_job; mark_job_completed then writes nothing.
Publish(w) ==
    /\ connected[w]
    /\ Go(w, "output", "settled")
    /\ Enqueue(StageOutputQueue(StageOf[w]), delivered[w])
    /\ KeepDelivery
    /\ UNCHANGED <<events, faultVars>>

Ack(w) ==
    /\ pc[w] = "settled" /\ connected[w]
    /\ Release(w, "idle")
    /\ UNCHANGED <<ready, events, faultVars>>

-----------------------------------------------------------------------------
(* Failures and control *)

\* A nack, a publish or an ack on a lost connection raises.
ConnectionError(w) ==
    /\ ~connected[w]
    /\ \/ pc[w] \in {"started", "output", "settled"}
       \/ pc[w] = "received" /\ w \in stopping
    /\ Release(w, "dead")
    /\ UNCHANGED <<ready, events, faultVars>>

Crash(w) ==
    /\ crashes < MaxCrashes
    /\ pc[w] \notin Ended
    /\ IF pc[w] \in Busy THEN Requeue(w) ELSE UNCHANGED ready
    /\ Release(w, "dead")
    /\ crashes' = crashes + 1
    /\ UNCHANGED <<events, stopping, stops, drops>>

\* The broker gives the delivery of a busy thread to somebody else.
DropConnection(w) ==
    /\ drops < MaxDrops
    /\ pc[w] \in Busy /\ connected[w]
    /\ Requeue(w)
    /\ connected' = [connected EXCEPT ![w] = FALSE]
    /\ drops' = drops + 1
    /\ UNCHANGED <<events, pc, delivered, stopping, stops, crashes>>

Stop(w) ==
    /\ stops < MaxStops
    /\ w \notin stopping
    /\ stopping' = stopping \cup {w}
    /\ stops' = stops + 1
    /\ UNCHANGED <<ready, events, pc, delivered, connected, crashes, drops>>

LeaveLoop(w) ==
    /\ w \in stopping
    /\ Go(w, "idle", "stopped")
    /\ KeepDelivery
    /\ UNCHANGED <<ready, events, faultVars>>

-----------------------------------------------------------------------------

\* The calls a thread makes whatever the handler does.
WorkerStep(w) ==
    \/ NackOnStop(w) \/ AppendStarted(w) \/ Publish(w) \/ Ack(w)
    \/ ConnectionError(w) \/ LeaveLoop(w)

Next ==
    \/ \E j \in Job : Admit(j)
    \/ \E w \in Worker : \/ \E j \in Job : Deliver(w, j)
                         \/ WorkerStep(w)
                         \/ AppendOutput(w) \/ Redeliver(w)
                         \/ Crash(w) \/ DropConnection(w) \/ Stop(w)

Spec == Init /\ [][Next]_vars

(***************************************************************************)
(* Fairness.  Threads go on and the broker delivers.  A handler that is    *)
(* tried again and again on a job at last returns; nothing else bounds the *)
(* redeliveries.  A stopping thread leaves its loop.                       *)
(***************************************************************************)
Fairness ==
    /\ \A w \in Worker :
          /\ WF_vars(WorkerStep(w))
          /\ WF_vars(AppendOutput(w) \/ Redeliver(w))
          /\ SF_vars(LeaveLoop(w))
    /\ \A s \in Stage, j \in Job :
          /\ WF_vars(\E w \in Worker : StageOf[w] = s /\ Deliver(w, j))
          /\ SF_vars(\E w \in Worker : /\ StageOf[w] = s /\ delivered[w] = j
                                       /\ AppendOutput(w))

FairSpec == Spec /\ Fairness

-----------------------------------------------------------------------------
(* Properties *)

Logged(kind, j, s) == <<kind, j, s>> \in events

\* A delivery of j at stage s that the broker would put back if it ended now.
Unacked(w, j, s) ==
    pc[w] \in Busy /\ connected[w] /\ delivered[w] = j /\ StageOf[w] = s

\* A message or a delivery of j in queue q, or an event of its stage.
Reached(j, q) ==
    \/ ready[<<q, j>>] > 0
    \/ \E w \in Worker : Unacked(w, j, q)
    \/ q \in Stage /\ Logged("stage_started", j, q)

(***************************************************************************)
(* The event log keeps every job that left the seeding application: a job  *)
(* with an event waits in a queue or is held by a thread whose end would   *)
(* return it, however often it failed, was redelivered or was dropped      *)
(* (there is no other record of it to recover it from).                    *)
(***************************************************************************)
StartedIsKept ==
    \A j \in Job, s \in Stage :
        Logged("stage_started", j, s)
            => \/ \E q \in Queue : ready[<<q, j>>] > 0
               \/ \E w \in Worker, t \in Stage : Unacked(w, j, t)

(***************************************************************************)
(* Whatever a handler does on the way, a job that is tried often enough    *)
(* reaches the final queue, if every stage keeps a consuming thread:       *)
(* REDELIVER leaves no job behind.                                         *)
(***************************************************************************)
Staffed(s) ==
    \E w \in Worker : StageOf[w] = s /\ pc[w] \notin Ended /\ w \notin stopping

RetriedUntilForwarded ==
    (\A s \in Stage : <>[]Staffed(s))
        => \A j \in Job : ready[<<1, j>>] > 0 ~> ready[<<FinalQueue, j>>] > 0

-----------------------------------------------------------------------------
(* Refinement *)

Flow == INSTANCE WriteAheadFlow WITH
          reached <- {jq \in Job \X Queue : Reached(jq[1], jq[2])},
          logged <- {js \in Job \X Stage : Logged("stage_output", js[1], js[2])}

(***************************************************************************)
(* Without a store the worker threads still implement the write-ahead      *)
(* flow: nothing of a job appears beyond a stage before the output event   *)
(* of that stage, and no trace of it is undone.                            *)
(***************************************************************************)
ImplementsWriteAheadFlow == Flow!Spec
=============================================================================
