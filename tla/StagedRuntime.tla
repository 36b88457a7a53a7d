--------------------------- MODULE StagedRuntime ----------------------------
(***************************************************************************)
(* A run of the staged runtime: the worker threads of every stage and the  *)
(* operators, over one MongoDB store and one RabbitMQ broker.              *)
(***************************************************************************)
EXTENDS StageExecution, StageEligibility

vars == <<storeVars, ready, workerVars, operatorVars>>

Init ==
    /\ StoreInit
    /\ BrokerInit
    /\ WorkerInit
    /\ OperatorInit

Next ==
    \/ WorkerNext /\ UNCHANGED operatorVars
    \/ OperatorNext /\ UNCHANGED workerVars

Spec == Init /\ [][Next]_vars

(***************************************************************************)
(* Fairness.  A thread that is not blocked makes its next call; an         *)
(* operator's command runs on; the broker delivers a waiting message while *)
(* a consumer is idle.  A thread whose pool is stopping tests its loop     *)
(* condition again and again (process_data_events returns within 0.5 s),   *)
(* so it cannot take and return deliveries for ever.  Crashes, lost        *)
(* connections, operator commands, stops and starts are never forced.      *)
(***************************************************************************)
Fairness ==
    /\ \A w \in Worker :
          /\ WF_vars(WorkerStep(w) /\ UNCHANGED operatorVars)
          /\ SF_vars(LeaveLoop(w) /\ UNCHANGED operatorVars)
    /\ \A s \in Stage, j \in Job :
          WF_vars(\E w \in Worker : /\ StageOf(w) = s
                                    /\ Deliver(w, j)
                                    /\ UNCHANGED operatorVars)
    /\ \A o \in Operator : WF_vars(OperatorStep(o) /\ UNCHANGED workerVars)

FairSpec == Spec /\ Fairness

-----------------------------------------------------------------------------
(* Where a job is *)

ParkedStatuses == {"held", "retry_waiting", "dead_lettered"}
OpenStatuses == ParkedStatuses \cup {"pending", "running"}

\* The labels at which a thread has neither published the job nor parked it.
Undecided == Busy \ {"published", "settled"}

\* A delivery of (j, s) the broker would put back if the thread ended now.
Unacked(w, j, s) ==
    /\ pc[w] \in Busy
    /\ connected[w]
    /\ delivered[w] = j
    /\ StageOf(w) = s

\* A message or an undecided delivery of (j, s) exists.
InMotion(j, s) ==
    \/ ready[<<StageInputQueue(s), j>>] > 0
    \/ \E w \in Worker : Unacked(w, j, s) /\ pc[w] \in Undecided

\* Job j is accounted for at stage k or beyond: it is in motion, or its
\* state has one of the given statuses, or it reached the final queue.
CarriedFrom(j, k, statuses) ==
    \/ ready[<<FinalQueue, j>>] > 0
    \/ \E s \in k .. NumStages : \/ InMotion(j, s)
                                 \/ StatusOf(j, s) \in statuses

\* The jobs of the seed batches that were published to the end.
PublishedJobs ==
    UNION {seedBatches[b].job_ids :
             b \in {i \in 1 .. Len(seedBatches) :
                      seedBatches[i].status = "published"}}

\* An operator is about to publish job j.
InOperatorHand(j) == \E o \in Operator, s \in Stage : <<j, s>> \in inHand[o]

\* A message, a delivery or a state of job j exists at queue q.
Reached(j, q) ==
    \/ ready[<<q, j>>] > 0
    \/ q \in Stage /\ HasDocument(j, q)
    \/ \E w \in Worker : Unacked(w, j, q)

\* Something can still act on job j at stage s, a thread whose connection is
\* lost and a command that has not marked the job yet included.
Touched(j, s) ==
    \/ Reached(j, s)
    \/ \E w \in Worker : delivered[w] = j /\ StageOf(w) = s
    \/ \E o \in Operator : <<j, s>> \in toMark[o] \cup inHand[o]

Logged(j, s) == <<"stage_output", j, s>> \in events

-----------------------------------------------------------------------------
(* Properties *)

TypeOK ==
    /\ StoreTypeOK
    /\ BrokerTypeOK
    /\ WorkerTypeOK
    /\ OperatorTypeOK

(***************************************************************************)
(* README.md "append-before-forward": whatever exists of a job beyond      *)
(* stage s (a message, a state, a delivery, a command of an operator), the *)
(* output of stage s was in the event log before it.                       *)
(***************************************************************************)
AppendBeforeForward ==
    \A j \in Job, s \in Stage : Touched(j, s + 1) => Logged(j, s)

(***************************************************************************)
(* The event log of a job has no gap: the output of a stage is logged only *)
(* after the output of the stage before it, so a run can be rebuilt from   *)
(* its events alone.                                                       *)
(***************************************************************************)
LogHasNoGap ==
    \A j \in Job, s \in Stage : s + 1 \in Stage /\ Logged(j, s + 1)
                                => Logged(j, s)

(***************************************************************************)
(* A job state says "completed" only while the job is accounted for beyond *)
(* that stage: on_message publishes, then marks, then acknowledges.        *)
(***************************************************************************)
CompletedIsCarried ==
    \A j \in Job, s \in Stage :
        StatusOf(j, s) = "completed" => CarriedFrom(j, s + 1, OpenStatuses)

(***************************************************************************)
(* No job is lost where no operator can see it: a job whose seed batch is  *)
(* published is in motion, or in the hands of a thread or an operator, or  *)
(* in the final queue, or parked in a status that `failures` lists and     *)
(* `replay` selects.                                                       *)
(***************************************************************************)
EveryJobInMotionOrParked ==
    \A j \in PublishedJobs :
        \/ CarriedFrom(j, 1, ParkedStatuses)
        \/ InOperatorHand(j)
        \/ \E w \in Worker : delivered[w] = j /\ pc[w] \in Undecided

(***************************************************************************)
(* `replay` reaches every job that is not on its way: a job whose seed     *)
(* batch is published is in motion, or in the final queue, or has a        *)
(* document in a status that --status can select and that says more work   *)
(* is due.  A command that fails half-way leaves "pending", a thread that  *)
(* ends leaves "running", and a thread whose connection was lost writes    *)
(* "completed" over a status that another thread recorded meanwhile only   *)
(* when the job is further on (cli/run.py replay, execution.py).           *)
(***************************************************************************)
PublishedIsRecoverable ==
    \A j \in PublishedJobs : CarriedFrom(j, 1, OpenStatuses)

(***************************************************************************)
(* A job is dead-lettered only after the ledger holds a full budget of     *)
(* attempts, whatever is redelivered, replayed or recorded concurrently.   *)
(***************************************************************************)
DeadLetterNeedsBudget ==
    \A js \in Job \X Stage :
        jobStates[js].status = "dead_lettered"
            => Len(jobAttempts[js]) >= MaxAttempts

(***************************************************************************)
(* docs/design/failure_persistence.md "Once the attempt limit is reached,  *)
(* the job is moved to dead_lettered": a job that waits for a retry has    *)
(* attempts left, at every moment of the three calls that record_job_      *)
(* failure makes.                                                          *)
(***************************************************************************)
RetryWaitsWithinBudget ==
    \A js \in Job \X Stage :
        jobStates[js].status = "retry_waiting"
            => Len(jobAttempts[js]) < MaxAttempts

(***************************************************************************)
(* attempt_count, which `failures` shows, never exceeds the attempts that  *)
(* job_attempts records.                                                   *)
(***************************************************************************)
AttemptCountIsRecorded ==
    \A js \in Job \X Stage :
        jobStates[js].attempt_count <= Len(jobAttempts[js])

(***************************************************************************)
(* attempt_count never goes back.                                          *)
(***************************************************************************)
AttemptCountGrows ==
    [][\A js \in Job \X Stage :
         jobStates'[js].attempt_count >= jobStates[js].attempt_count]_vars

(***************************************************************************)
(* Two threads never execute the same stage of the same job at once.       *)
(***************************************************************************)
ExclusiveExecution ==
    \A v, w \in Worker :
        /\ v # w
        /\ pc[v] \in Busy \ {"received", "settled"}
        /\ pc[w] \in Busy \ {"received", "settled"}
        /\ StageOf(v) = StageOf(w)
        => delivered[v] # delivered[w]

(***************************************************************************)
(* No job is in two seed batches that did not fail: create_seed_batch      *)
(* refuses a job that an active batch holds, and expected_job_count adds   *)
(* the batches up.                                                         *)
(***************************************************************************)
ActiveBatchesDisjoint ==
    \A a, b \in 1 .. Len(seedBatches) :
        /\ a # b
        /\ seedBatches[a].status # "failed"
        /\ seedBatches[b].status # "failed"
        => seedBatches[a].job_ids \cap seedBatches[b].job_ids = {}

Finished(j) == ready[<<FinalQueue, j>>] > 0

Parked(j) == \E s \in Stage : StatusOf(j, s) \in ParkedStatuses

\* A thread of stage s that consumes and is not asked to stop.
Staffed(s) ==
    \E w \in Worker : /\ StageOf(w) = s
                      /\ pc[w] \notin Ended
                      /\ PoolOf[w] \notin stopping

Resting ==
    \A j \in Job : /\ \A s \in Stage : ~InMotion(j, s)
                   /\ ~InOperatorHand(j)
                   /\ HasDocument(j, 1) => Finished(j) \/ Parked(j)

(***************************************************************************)
(* If every stage keeps a running thread, the run comes to rest: every     *)
(* message leaves the stage queues, and every job is in the final queue or *)
(* parked for an operator.                                                 *)
(***************************************************************************)
RunComesToRest == (\A s \in Stage : <>[]Staffed(s)) => <>[]Resting

-----------------------------------------------------------------------------
(* Refinement *)

\* The abstract flow that the run implements.
Flow == INSTANCE WriteAheadFlow WITH
          reached <- {jq \in Job \X Queue : Reached(jq[1], jq[2])},
          logged <- {js \in Job \X Stage : Logged(js[1], js[2])}

(***************************************************************************)
(* The run implements the write-ahead flow: every step of every thread,    *)
(* operator and failure is a step of WriteAheadFlow or changes nothing     *)
(* there, so no trace of a job beyond a stage appears before the output of *)
(* that stage is logged and no trace ever disappears.                      *)
(***************************************************************************)
ImplementsWriteAheadFlow == Flow!Spec
=============================================================================
