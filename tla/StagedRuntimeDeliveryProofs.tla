--------------------- MODULE StagedRuntimeDeliveryProofs --------------------
(***************************************************************************)
(* Three proofs about where a job is.  A completed stage never strands its *)
(* job: CompletedIsCarried holds for every run whose publishes raise when  *)
(* they fail.  The claim is not inductive alone: between the publish and   *)
(* the write of "completed" the thread itself vouches for the job, so the  *)
(* invariant also speaks of threads at "published".  From it follows that  *)
(* every published job stays recoverable.  And no seeded job is lost:      *)
(* EveryJobInMotionOrParked holds for every run in which no connection is  *)
(* dropped under a delivery and no command fails half-way.                 *)
(***************************************************************************)
EXTENDS StagedRuntimeProofs

PublishedIsCarried ==
    \A w \in Worker :
        pc[w] = "published"
            => CarriedFrom(delivered[w], StageOf(w) + 1, OpenStatuses)

CarriedInv == PublishedIsCarried /\ CompletedIsCarried

\* Thread w writes "completed" for stage s of job j.
Completes(w, j, s) == MarkCompleted(w) /\ delivered[w] = j /\ StageOf(w) = s

\* Thread w marks stage s of job j running.
Runs(w, j, s) == MarkRunning(w) /\ delivered[w] = j /\ StageOf(w) = s

\* Thread w records a failure of stage s of job j.
Fails(w, j, s) == RecordFailure(w) /\ delivered[w] = j /\ StageOf(w) = s

\* A waiting message stays until a thread of its stage takes it.
LEMMA WaitingStays ==
    ASSUME TypeOK, [Next]_vars, NEW j \in Job, NEW q \in Queue,
           ready[<<q, j>>] > 0,
           ~\E w \in Worker : StageOf(w) = q /\ Deliver(w, j)
    PROVE  ready'[<<q, j>>] > 0
<1>1. ASSUME NEW w \in Worker, NEW i \in Job, Deliver(w, i)
      PROVE  ready'[<<q, j>>] > 0
  <2>1. StageOf(w) # q \/ i # j
    BY <1>1
  <2>2. StageOf(w) \in Queue
    BY StageOfType, ManifestAssumption DEF Stage, Queue
  <2>. QED
    BY <1>1, <2>1, <2>2
       DEF Deliver, Dequeue, StageInputQueue, TypeOK, BrokerTypeOK
<1>2. ASSUME NEW w \in Worker, Publish(w)
      PROVE  ready'[<<q, j>>] > 0
  <2>1. /\ delivered[w] \in Job
        /\ StageOutputQueue(StageOf(w)) \in Queue
    BY <1>2, DeliveryType, StageQueues DEF Publish, At, Busy
  <2>. QED  BY <1>2, <2>1, EnqueueEffect DEF Publish
<1>3. ASSUME NEW w \in Worker, pc[w] \in Busy, Requeue(w)
      PROVE  ready'[<<q, j>>] > 0
  BY <1>3, RequeueEffect
<1>4. ASSUME NEW w \in Worker, WorkerStep(w)
      PROVE  ready'[<<q, j>>] > 0
  <2>1. NackOnStop(w) => pc[w] \in Busy /\ Requeue(w)
    BY DEF NackOnStop, At, Busy
  <2>2. NackOnStop(w) \/ Publish(w) \/ UNCHANGED ready
    BY <1>4
       DEF WorkerStep, CheckHold, HoldJob, MarkRunning, AppendStarted,
           AppendOutput, CountAttempts, InsertJobAttempt, RecordFailure,
           PublishLost, MarkCompleted, Ack, ConnectionError, LeaveLoop,
           WriteState, WriteEvent
  <2>. QED  BY <1>2, <1>3, <2>1, <2>2
<1>5. ASSUME NEW w \in Worker, Crash(w) \/ DropConnection(w)
      PROVE  ready'[<<q, j>>] > 0
  BY <1>3, <1>5 DEF Crash, DropConnection
<1>6. ASSUME NEW p \in Pool, StopPool(p) \/ StartPool(p)
      PROVE  ready'[<<q, j>>] > 0
  BY <1>6 DEF StopPool, StartPool
<1>7. ASSUME NEW o \in Operator, NEW js \in inHand[o], PublishPending(o, js)
      PROVE  ready'[<<q, j>>] > 0
  <2>1. js[1] \in Job /\ StageInputQueue(js[2]) \in Queue
    BY ManifestAssumption
       DEF TypeOK, OperatorTypeOK, StageInputQueue, Stage, Queue
  <2>. QED  BY <1>7, <2>1, EnqueueEffect DEF PublishPending
<1>8. CASE OperatorNext
  BY <1>7, <1>8
     DEF OperatorNext, OperatorStep, CheckSeedBatch, CreateSeedBatch,
         CloseSeedBatch, ReadReplayable, MarkPending, Abort, Kill, Hold,
         ReleaseHold
<1>9. CASE UNCHANGED vars
  BY <1>9 DEF vars
<1>. QED
  BY <1>1, <1>4, <1>5, <1>6, <1>8, <1>9 DEF Next, WorkerNext

\* A document changes when a thread parks, runs or completes the stage, or
\* when an operator marks it pending.
LEMMA StatusMoves ==
    ASSUME TypeOK, [Next]_vars, NEW j \in Job, NEW s \in Stage
    PROVE  \/ StatusOf(j, s)' = StatusOf(j, s)
           \/ /\ StatusOf(j, s)' \in ParkedStatuses
              /\ StatusOf(j, s)' = "held" \/ \E w \in Worker : Fails(w, j, s)
           \/ \E w \in Worker : Completes(w, j, s)
           \/ /\ StatusOf(j, s)' = "running"
              /\ \E w \in Worker : Runs(w, j, s)
           \/ /\ StatusOf(j, s)' = "pending"
              /\ \E o \in Operator : MarkPending(o, <<j, s>>)
<1>. DEFINE Goal == \/ StatusOf(j, s)' = StatusOf(j, s)
                    \/ /\ StatusOf(j, s)' \in ParkedStatuses
                       /\ \/ StatusOf(j, s)' = "held"
                          \/ \E w \in Worker : Fails(w, j, s)
                    \/ \E w \in Worker : Completes(w, j, s)
                    \/ /\ StatusOf(j, s)' = "running"
                       /\ \E w \in Worker : Runs(w, j, s)
                    \/ /\ StatusOf(j, s)' = "pending"
                       /\ \E o \in Operator : MarkPending(o, <<j, s>>)
<1>1. ASSUME NEW w \in Worker, WorkerStep(w)
      PROVE  Goal
  <2>1. ASSUME pc[w] \in Busy, NEW status \in JobStateStatus,
               UpsertJobState(delivered[w], StageOf(w), status)
        PROVE  StatusOf(j, s)' = IF delivered[w] = j /\ StageOf(w) = s
                                 THEN status ELSE StatusOf(j, s)
    BY <2>1, DeliveryType, UpsertEffect
  <2>2. CASE HoldJob(w)
    BY <2>1, <2>2 DEF HoldJob, WriteState, At, Busy, JobStateStatus,
                      ParkedStatuses
  <2>3. CASE MarkRunning(w)
    BY <2>1, <2>3 DEF MarkRunning, WriteState, At, Busy, JobStateStatus, Runs
  <2>4. CASE MarkCompleted(w)
    BY <2>1, <2>4 DEF MarkCompleted, WriteState, At, Busy, JobStateStatus,
                      Completes
  <2>5. CASE RecordFailure(w)
    <3>1. /\ delivered[w] \in Job /\ StageOf(w) \in Stage
          /\ attemptNumber[w] \in Nat
      BY <2>5, DeliveryType
         DEF RecordFailure, At, Busy, TypeOK, WorkerTypeOK
    <3>2. StatusOf(j, s)' = IF delivered[w] = j /\ StageOf(w) = s
                            THEN AttemptAction(attemptNumber[w])
                            ELSE StatusOf(j, s)
      BY <2>5, <3>1, UpsertFailureEffect DEF RecordFailure
    <3>. QED  BY <2>5, <3>2 DEF AttemptAction, ParkedStatuses, Fails
  <2>6. CASE UNCHANGED jobStates
    BY <2>6 DEF StatusOf
  <2>. QED
    BY <1>1, <2>2, <2>3, <2>4, <2>5, <2>6
       DEF WorkerStep, NackOnStop, CheckHold, AppendStarted, AppendOutput,
           CountAttempts, InsertJobAttempt, Publish, PublishLost, Ack,
           ConnectionError, LeaveLoop, WriteEvent, storeVars
<1>2. ASSUME NEW o \in Operator, NEW js \in toMark[o], MarkPending(o, js)
      PROVE  Goal
  <2>1. js \in Job \X Stage
    BY DEF TypeOK, OperatorTypeOK
  <2>2. PICK i \in Job, r \in Stage : js = <<i, r>>
    BY <2>1
  <2>3. StatusOf(j, s)' = IF i = j /\ r = s THEN "pending" ELSE StatusOf(j, s)
    BY <1>2, <2>2, UpsertEffect DEF MarkPending, JobStateStatus
  <2>. QED  BY <1>2, <2>2, <2>3
<1>3. CASE UNCHANGED jobStates
  BY <1>3 DEF StatusOf
<1>4. CASE OperatorNext
  BY <1>2, <1>3, <1>4
     DEF OperatorNext, OperatorStep, CheckSeedBatch, CreateSeedBatch,
         CloseSeedBatch, ReadReplayable, PublishPending, Abort, Kill, Hold,
         ReleaseHold, storeVars
<1>. QED
  BY <1>1, <1>3, <1>4
     DEF Next, WorkerNext, Deliver, Crash, DropConnection, StopPool,
         StartPool, storeVars, vars

\* Every write of a state opens the document, except "completed".
LEMMA StatusStep ==
    ASSUME TypeOK, [Next]_vars, NEW j \in Job, NEW s \in Stage
    PROVE  \/ StatusOf(j, s)' = StatusOf(j, s)
           \/ StatusOf(j, s)' \in OpenStatuses
           \/ \E w \in Worker : Completes(w, j, s)
BY StatusMoves DEF OpenStatuses

\* An undecided delivery is kept, returned to its queue, parked or
\* forwarded: it never just disappears.
LEMMA WorkMoves ==
    ASSUME TypeOK, [Next]_vars, NEW j \in Job, NEW s \in Stage,
           NEW w \in Worker, Unacked(w, j, s), pc[w] \in Undecided
    PROVE  \/ InMotion(j, s)'
           \/ StatusOf(j, s)' \in ParkedStatuses
           \/ ready'[<<s + 1, j>>] > 0
<1>1. /\ pc[w] \in Busy /\ delivered[w] = j /\ StageOf(w) = s
      /\ connected[w]
      /\ s \in Queue /\ s + 1 \in Queue
  BY ManifestAssumption DEF Unacked, Stage, Queue
<1>2. ASSUME pc'[w] \in Undecided, UNCHANGED <<delivered[w], connected[w]>>
      PROVE  InMotion(j, s)'
  BY <1>1, <1>2 DEF InMotion, Unacked, Undecided, StageOf
<1>3. ASSUME Requeue(w)
      PROVE  InMotion(j, s)'
  BY <1>1, <1>3, RequeueEffect DEF InMotion, StageInputQueue
<1>4. CASE WorkerStep(w)
  <2>1. CASE CheckHold(w) \/ MarkRunning(w) \/ AppendStarted(w)
               \/ AppendOutput(w) \/ CountAttempts(w) \/ InsertJobAttempt(w)
    <3>1. pc'[w] \in Undecided
      BY <2>1 DEF CheckHold, MarkRunning, AppendStarted, AppendOutput,
                  CountAttempts, InsertJobAttempt, WriteState, WriteEvent,
                  Goto, Undecided, Busy, TypeOK, WorkerTypeOK
    <3>2. UNCHANGED <<delivered, connected>>
      BY <2>1 DEF CheckHold, MarkRunning, AppendStarted, AppendOutput,
                  CountAttempts, InsertJobAttempt, WriteState, WriteEvent,
                  KeepDelivery
    <3>. QED  BY <1>2, <3>1, <3>2
  <2>2. CASE HoldJob(w)
    BY <1>1, <2>2, UpsertEffect
       DEF HoldJob, WriteState, JobStateStatus, ParkedStatuses
  <2>3. CASE RecordFailure(w)
    <3>1. attemptNumber[w] \in Nat
      BY DEF TypeOK, WorkerTypeOK
    <3>2. StatusOf(j, s)' = AttemptAction(attemptNumber[w])
      BY <1>1, <2>3, <3>1, UpsertFailureEffect DEF RecordFailure
    <3>. QED  BY <3>2 DEF AttemptAction, ParkedStatuses
  <2>4. CASE Publish(w)
    BY <1>1, <2>4, EnqueueEffect DEF Publish, StageOutputQueue
  <2>5. CASE NackOnStop(w)
    BY <1>3, <2>5 DEF NackOnStop
  <2>6. ~(PublishLost(w) \/ MarkCompleted(w) \/ Ack(w)
            \/ ConnectionError(w) \/ LeaveLoop(w))
    BY <1>1 DEF PublishLost, MarkCompleted, WriteState, Ack, ConnectionError,
                LeaveLoop, At, Undecided, Busy
  <2>. QED  BY <1>4, <2>1, <2>2, <2>3, <2>4, <2>5, <2>6 DEF WorkerStep
<1>5. CASE Crash(w) \/ DropConnection(w)
  BY <1>1, <1>3, <1>5 DEF Crash, DropConnection
<1>6. CASE \E i \in Job : Deliver(w, i)
  BY <1>1, <1>6 DEF Deliver, At, Busy
<1>7. ASSUME NEW v \in Worker, v # w,
             WorkerStep(v) \/ Crash(v) \/ DropConnection(v)
               \/ \E i \in Job : Deliver(v, i)
      PROVE  InMotion(j, s)'
  BY <1>1, <1>2, <1>7, OthersKept
<1>8. ASSUME NEW p \in Pool, StopPool(p) \/ StartPool(p)
      PROVE  InMotion(j, s)'
  BY <1>1, <1>2, <1>8
     DEF StopPool, StartPool, KeepDelivery, Busy, Ended, TypeOK, WorkerTypeOK
<1>9. CASE UNCHANGED workerVars
  BY <1>2, <1>9 DEF workerVars
<1>. QED
  BY <1>4, <1>5, <1>6, <1>7, <1>8, <1>9 DEF Next, WorkerNext, vars

\* What accounts for a job at stage s goes on doing so, there or at the next
\* queue, unless a thread completes the stage.
LEMMA CarrierMoves ==
    ASSUME TypeOK, [Next]_vars, NEW j \in Job, NEW s \in Stage,
           InMotion(j, s) \/ StatusOf(j, s) \in OpenStatuses,
           ~\E w \in Worker : Completes(w, j, s)
    PROVE  \/ InMotion(j, s)'
           \/ StatusOf(j, s)' \in OpenStatuses
           \/ ready'[<<s + 1, j>>] > 0
<1>1. CASE ready[<<s, j>>] > 0
  <2>1. ASSUME NEW w \in Worker, StageOf(w) = s, Deliver(w, j)
        PROVE  InMotion(j, s)'
    <3>1. /\ pc'[w] = "received" /\ delivered'[w] = j
          /\ connected'[w] /\ StageOf(w)' = s
      BY <2>1 DEF Deliver, At, Goto, Busy, StageOf, TypeOK, WorkerTypeOK
    <3>. QED  BY <3>1 DEF InMotion, Unacked, Undecided, Busy
  <2>2. s \in Queue
    BY ManifestAssumption DEF Stage, Queue
  <2>. QED  BY <1>1, <2>1, <2>2, WaitingStays DEF InMotion, StageInputQueue
<1>2. CASE \E w \in Worker : Unacked(w, j, s) /\ pc[w] \in Undecided
  BY <1>2, WorkMoves DEF OpenStatuses
<1>3. CASE StatusOf(j, s) \in OpenStatuses
  BY <1>3, StatusStep
<1>. QED  BY <1>1, <1>2, <1>3 DEF InMotion, StageInputQueue

\* A job that is accounted for from stage k on stays so.
LEMMA CarriedStays ==
    ASSUME TypeOK, PublishedIsCarried, [Next]_vars, NEW j \in Job,
           NEW k \in Queue, CarriedFrom(j, k, OpenStatuses)
    PROVE  CarriedFrom(j, k, OpenStatuses)'
<1>1. FinalQueue \in Queue /\ k \in Nat /\ NumStages \in Nat
  BY ManifestAssumption DEF FinalQueue, Queue
<1>2. ASSUME NEW s \in k .. NumStages, ready'[<<s + 1, j>>] > 0
      PROVE  CarriedFrom(j, k, OpenStatuses)'
  <2>1. CASE s = NumStages
    BY <1>2, <2>1 DEF CarriedFrom, FinalQueue
  <2>2. CASE s # NumStages
    <3>1. s + 1 \in k .. NumStages
      BY <1>1, <2>2
    <3>. QED  BY <1>2, <3>1 DEF CarriedFrom, InMotion, StageInputQueue
  <2>. QED  BY <2>1, <2>2
<1>3. CASE ready[<<FinalQueue, j>>] > 0
  <2>1. \A w \in Worker : StageOf(w) # FinalQueue
    BY StageOfType, ManifestAssumption DEF Stage, FinalQueue
  <2>. QED  BY <1>1, <1>3, <2>1, WaitingStays DEF CarriedFrom
<1>4. ASSUME NEW s \in k .. NumStages,
             InMotion(j, s) \/ StatusOf(j, s) \in OpenStatuses,
             ~\E w \in Worker : Completes(w, j, s)
      PROVE  CarriedFrom(j, k, OpenStatuses)'
  <2>1. s \in Stage
    BY <1>1 DEF Stage, Queue
  <2>. QED  BY <1>2, <1>4, <2>1, CarrierMoves DEF CarriedFrom
\* The completed stage was published before; what carries the job beyond it
\* is not touched by the write.
<1>5. ASSUME NEW s \in k .. NumStages, NEW w \in Worker, Completes(w, j, s),
             ready[<<FinalQueue, j>>] = 0
      PROVE  CarriedFrom(j, k, OpenStatuses)'
  <2>1. CarriedFrom(j, s + 1, OpenStatuses)
    BY <1>5 DEF Completes, MarkCompleted, WriteState, At, PublishedIsCarried
  <2>2. PICK r \in s + 1 .. NumStages :
           InMotion(j, r) \/ StatusOf(j, r) \in OpenStatuses
    BY <1>5, <2>1 DEF CarriedFrom
  <2>3. r \in k .. NumStages /\ r # s
    BY <1>1, <2>2
  <2>4. ASSUME NEW v \in Worker, Completes(v, j, r)
        PROVE  FALSE
    <3>1. v # w
      BY <1>5, <2>3, <2>4 DEF Completes
    <3>2. pc'[w] = "settled" /\ pc'[v] = pc[v] /\ pc[v] = "published"
      BY <1>5, <2>4, <3>1
         DEF Completes, MarkCompleted, WriteState, At, Goto, TypeOK,
             WorkerTypeOK
    <3>3. pc'[v] = "settled"
      BY <2>4 DEF Completes, MarkCompleted, WriteState, At, Goto, TypeOK,
                  WorkerTypeOK
    <3>. QED  BY <3>2, <3>3
  <2>. QED  BY <1>4, <2>2, <2>3, <2>4
<1>6. ready[<<FinalQueue, j>>] > 0 \/ ready[<<FinalQueue, j>>] = 0
  BY <1>1 DEF TypeOK, BrokerTypeOK
<1>. QED  BY <1>3, <1>4, <1>5, <1>6 DEF CarriedFrom

\* A thread reaches "published" by publishing on an open connection.
LEMMA PublishedStep ==
    ASSUME TypeOK, [Next]_vars, NEW w \in Worker,
           ~SilentPublishLoss \/ connected[w], pc'[w] = "published"
    PROVE  \/ pc[w] = "published" /\ delivered'[w] = delivered[w]
           \/ Publish(w)
<1>1. CASE UNCHANGED workerVars
  BY <1>1 DEF workerVars
<1>2. ASSUME NEW v \in Worker, v # w,
             WorkerStep(v) \/ Crash(v) \/ DropConnection(v)
               \/ \E i \in Job : Deliver(v, i)
      PROVE  pc[w] = "published" /\ delivered'[w] = delivered[w]
  BY <1>2, OthersKept
<1>3. CASE WorkerStep(w)
  <2>1. ASSUME NEW to, to # "published", pc' = [pc EXCEPT ![w] = to]
        PROVE  FALSE
    BY <2>1 DEF TypeOK, WorkerTypeOK
  <2>2. ~PublishLost(w)
    BY DEF PublishLost
  <2>. QED
    BY <1>3, <2>1, <2>2
       DEF WorkerStep, NackOnStop, CheckHold, HoldJob, MarkRunning,
           AppendStarted, AppendOutput, CountAttempts, InsertJobAttempt,
           RecordFailure, MarkCompleted, Ack, ConnectionError, LeaveLoop,
           WriteState, WriteEvent, Goto, Release
<1>4. CASE Crash(w) \/ DropConnection(w) \/ \E i \in Job : Deliver(w, i)
  BY <1>4 DEF Crash, DropConnection, Deliver, Goto, Release, TypeOK,
              WorkerTypeOK
<1>5. ASSUME NEW p \in Pool, StopPool(p) \/ StartPool(p)
      PROVE  pc[w] = "published" /\ delivered'[w] = delivered[w]
  BY <1>5 DEF StopPool, StartPool, KeepDelivery, TypeOK, WorkerTypeOK
<1>. QED
  BY <1>1, <1>2, <1>3, <1>4, <1>5 DEF Next, WorkerNext, vars

\* One step keeps the invariant.
LEMMA CarriedNext ==
    ASSUME ~SilentPublishLoss, TypeOK, CarriedInv, [Next]_vars
    PROVE  CarriedInv'
<1>1. \A w \in Worker : pc[w] \in Busy => StageOf(w) + 1 \in Queue
  BY StageOfType, ManifestAssumption DEF Stage, Queue
<1>2. ASSUME NEW w \in Worker, pc'[w] = "published"
      PROVE  CarriedFrom(delivered[w], StageOf(w) + 1, OpenStatuses)'
  <2>1. CASE pc[w] = "published" /\ delivered'[w] = delivered[w]
    <3>1. /\ delivered[w] \in Job /\ StageOf(w) + 1 \in Queue
          /\ CarriedFrom(delivered[w], StageOf(w) + 1, OpenStatuses)
      BY <1>1, <2>1, DeliveryType DEF CarriedInv, PublishedIsCarried, Busy
    <3>2. PICK j \in Job, k \in Queue : j = delivered[w] /\ k = StageOf(w) + 1
      BY <3>1
    <3>3. CarriedFrom(j, k, OpenStatuses)'
      BY <3>1, <3>2, CarriedStays DEF CarriedInv
    <3>. QED  BY <2>1, <3>2, <3>3 DEF StageOf, CarriedFrom, InMotion, Unacked
  <2>2. CASE Publish(w)
    <3>1. /\ delivered[w] \in Job /\ StageOf(w) \in Stage
          /\ StageOf(w) + 1 \in Queue /\ delivered'[w] = delivered[w]
      BY <1>1, <2>2, DeliveryType DEF Publish, At, Busy, KeepDelivery
    <3>2. ready'[<<StageOf(w) + 1, delivered[w]>>] > 0
      BY <2>2, <3>1, EnqueueEffect DEF Publish, StageOutputQueue
    <3>3. StageOf(w) + 1 = FinalQueue
            \/ StageOf(w) + 1 \in StageOf(w) + 1 .. NumStages
      BY <3>1, ManifestAssumption DEF Queue, Stage, FinalQueue
    <3>. QED
      BY <3>1, <3>2, <3>3
         DEF CarriedFrom, InMotion, StageInputQueue, StageOf
  <2>. QED  BY <1>2, <2>1, <2>2, PublishedStep
<1>3. ASSUME NEW j \in Job, NEW s \in Stage, StatusOf(j, s)' = "completed"
      PROVE  CarriedFrom(j, s + 1, OpenStatuses)'
  <2>1. s + 1 \in Queue
    BY ManifestAssumption DEF Stage, Queue
  <2>2. CASE StatusOf(j, s) = "completed"
    BY <2>1, <2>2, CarriedStays DEF CarriedInv, CompletedIsCarried
  <2>3. ASSUME NEW w \in Worker, Completes(w, j, s)
        PROVE  CarriedFrom(j, s + 1, OpenStatuses)'
    <3>1. CarriedFrom(j, s + 1, OpenStatuses)
      BY <2>3 DEF Completes, MarkCompleted, WriteState, At, CarriedInv,
                  PublishedIsCarried
    <3>. QED  BY <2>1, <3>1, CarriedStays DEF CarriedInv
  <2>. QED
    BY <1>3, <2>2, <2>3, StatusStep DEF OpenStatuses, ParkedStatuses
<1>. QED
  BY <1>2, <1>3 DEF CarriedInv, PublishedIsCarried, CompletedIsCarried

(***************************************************************************)
(* Completed means carried: whenever a document says "completed", a        *)
(* message, a delivery or an open document of the job exists further on,   *)
(* or the job is in the final queue.  The assumption names what the code   *)
(* takes on trust: a publish that fails raises (no publisher confirms).    *)
(***************************************************************************)
THEOREM CompletedJobsAreCarried ==
    ASSUME ~SilentPublishLoss
    PROVE  Spec => []CompletedIsCarried
<1>1. Init => CarriedInv
  BY DEF Init, StoreInit, WorkerInit, CarriedInv, PublishedIsCarried,
         CompletedIsCarried, StatusOf
<1>2. TypeOK /\ TypeOK' /\ CarriedInv /\ [Next]_vars => CarriedInv'
  BY CarriedNext
<1>3. CarriedInv => CompletedIsCarried
  BY DEF CarriedInv
<1>. QED  BY <1>1, <1>2, <1>3, TypeCorrect, PTL DEF Spec

-----------------------------------------------------------------------------
(* The jobs of a seed batch *)

\* What the locals of a command are, step by step.
CommandShape ==
    \A o \in Operator :
        /\ task[o] = "none" => toMark[o] = {} /\ batch[o] = 0
        /\ task[o] = "checked" => \A js \in toMark[o] : js[2] = 1
        /\ task[o] \in {"publishing", "closing"} => toMark[o] = {}
        /\ task[o] \notin {"marking", "publishing"} => inHand[o] = {}

\* The jobs of batch b are in S, but for those yet to be marked.
BatchWithin(b, S, unmarked) ==
    \A j \in seedBatches[b].job_ids : <<j, 1>> \in unmarked \/ j \in S

\* The jobs of the published batches, and those that a running seed command
\* has marked, are in S.
SeedsWithin(S) ==
    /\ \A b \in 1 .. Len(seedBatches) :
          seedBatches[b].status = "published" => BatchWithin(b, S, {})
    /\ \A o \in Operator : batch[o] # 0 => BatchWithin(batch[o], S, toMark[o])

\* The locals of a command keep their shape.
LEMMA ShapeStep ==
    ASSUME TypeOK, CommandShape, [Next]_vars
    PROVE  CommandShape'
<1>. USE DEF CommandShape
<1>1. CASE UNCHANGED operatorVars
  BY <1>1 DEF operatorVars
<1>2. ASSUME NEW o \in Operator, NEW jobs \in SUBSET Job,
             CheckSeedBatch(o, jobs)
      PROVE  CommandShape'
  BY <1>2 DEF CheckSeedBatch, Does, Become, FirstStage, TypeOK,
              OperatorTypeOK
<1>3. ASSUME NEW o \in Operator, CreateSeedBatch(o) \/ CloseSeedBatch(o)
      PROVE  CommandShape'
  BY <1>3 DEF CreateSeedBatch, CloseSeedBatch, EndCommand, Does, Become,
              TypeOK, OperatorTypeOK
<1>4. ASSUME NEW o \in Operator, NEW statuses, ReadReplayable(o, statuses)
      PROVE  CommandShape'
  BY <1>4 DEF ReadReplayable, Does, Become, TypeOK, OperatorTypeOK
<1>5. ASSUME NEW o \in Operator, NEW js \in toMark[o], MarkPending(o, js)
      PROVE  CommandShape'
  BY <1>5 DEF MarkPending, Does, Become, TypeOK, OperatorTypeOK
<1>6. ASSUME NEW o \in Operator, NEW js \in inHand[o], PublishPending(o, js)
      PROVE  CommandShape'
  BY <1>6 DEF PublishPending, Does, Become, TypeOK, OperatorTypeOK
<1>7. ASSUME NEW o \in Operator, Abort(o) \/ Kill(o)
      PROVE  CommandShape'
  BY <1>7 DEF Abort, Kill, EndCommand, Become, TypeOK, OperatorTypeOK
<1>8. CASE OperatorNext
  BY <1>1, <1>2, <1>3, <1>4, <1>5, <1>6, <1>7, <1>8
     DEF OperatorNext, OperatorStep, Hold, ReleaseHold, operatorVars
<1>. QED  BY <1>1, <1>8 DEF Next, vars

\* A batch keeps its jobs.  Its status changes when its command closes it or
\* fails; a new one is created at the end.
LEMMA BatchStep ==
    ASSUME TypeOK, [Next]_vars, NEW b \in 1 .. Len(seedBatches')
    PROVE  \/ /\ b \in 1 .. Len(seedBatches)
              /\ seedBatches'[b].job_ids = seedBatches[b].job_ids
              /\ \/ seedBatches'[b].status = seedBatches[b].status
                 \/ /\ seedBatches'[b].status = "published"
                    /\ \E o \in Operator : CloseSeedBatch(o) /\ b = batch[o]
                 \/ /\ seedBatches'[b].status = "failed"
                    /\ \E o \in Operator : Abort(o) /\ b = batch[o]
           \/ /\ b = Len(seedBatches) + 1
              /\ seedBatches'[b].status = "created"
              /\ \E o \in Operator :
                    /\ CreateSeedBatch(o)
                    /\ seedBatches'[b].job_ids = {js[1] : js \in toMark[o]}
<1>1. CASE UNCHANGED seedBatches
  BY <1>1
<1>2. seedBatches \in Seq(SeedBatch)
  BY DEF TypeOK, StoreTypeOK
<1>3. ASSUME NEW o \in Operator, NEW status, SetSeedBatchStatus(batch[o], status)
      PROVE  /\ b \in 1 .. Len(seedBatches)
             /\ seedBatches'[b].job_ids = seedBatches[b].job_ids
             /\ \/ seedBatches'[b].status = seedBatches[b].status
                \/ b = batch[o] /\ seedBatches'[b].status = status
  BY <1>2, <1>3 DEF SetSeedBatchStatus, SeedBatch
<1>4. ASSUME NEW o \in Operator, CreateSeedBatch(o)
      PROVE  \/ /\ b \in 1 .. Len(seedBatches)
                /\ seedBatches'[b] = seedBatches[b]
             \/ /\ b = Len(seedBatches) + 1
                /\ seedBatches'[b].status = "created"
                /\ seedBatches'[b].job_ids = {js[1] : js \in toMark[o]}
  <2>. DEFINE new == [job_ids |-> {js[1] : js \in toMark[o]},
                      status |-> "created"]
  <2>1. seedBatches' = Append(seedBatches, new)
    BY <1>4 DEF CreateSeedBatch, InsertSeedBatch
  <2>2. \/ b \in 1 .. Len(seedBatches) /\ seedBatches'[b] = seedBatches[b]
        \/ b = Len(seedBatches) + 1 /\ seedBatches'[b] = new
    <3>. HIDE DEF new
    <3>. QED  BY <1>2, <2>1
  <2>. QED  BY <2>2
<1>5. CASE OperatorNext
  BY <1>1, <1>3, <1>4, <1>5
     DEF OperatorNext, OperatorStep, CheckSeedBatch, CloseSeedBatch,
         ReadReplayable, MarkPending, PublishPending, Abort, Kill, Hold,
         ReleaseHold, storeVars
<1>6. CASE WorkerNext
  BY <1>1, <1>6
     DEF WorkerNext, WorkerStep, Deliver, NackOnStop, CheckHold, HoldJob,
         MarkRunning, AppendStarted, AppendOutput, CountAttempts,
         InsertJobAttempt, RecordFailure, Publish, PublishLost,
         MarkCompleted, Ack, ConnectionError, LeaveLoop, Crash,
         DropConnection, StopPool, StartPool, WriteState, WriteEvent,
         storeVars
<1>. QED  BY <1>1, <1>5, <1>6 DEF Next, vars, storeVars

\* A command with a batch created it in this step, or goes on with it.
LEMMA CommandBatchStep ==
    ASSUME TypeOK, CommandShape, [Next]_vars, NEW o \in Operator,
           batch'[o] # 0
    PROVE  \/ CreateSeedBatch(o)
           \/ /\ batch'[o] = batch[o]
              /\ toMark'[o] \subseteq toMark[o]
              /\ \A js \in toMark[o] : \/ js \in toMark'[o]
                                      \/ MarkPending(o, js)
<1>1. CASE UNCHANGED operatorVars
  BY <1>1 DEF operatorVars
<1>2. ASSUME NEW p \in Operator, NEW jobs \in SUBSET Job,
             CheckSeedBatch(p, jobs) \/ \E x : ReadReplayable(p, x)
      PROVE  /\ batch'[o] = batch[o]
             /\ toMark'[o] = toMark[o]
  <2>1. batch[p] = 0
    BY <1>2 DEF CheckSeedBatch, ReadReplayable, Does, CommandShape
  <2>2. p # o
    BY <1>2, <2>1 DEF CheckSeedBatch, ReadReplayable
  <2>. QED
    BY <1>2, <2>2
       DEF CheckSeedBatch, ReadReplayable, TypeOK, OperatorTypeOK
<1>3. ASSUME NEW p \in Operator, CreateSeedBatch(p)
      PROVE  p = o \/ (batch'[o] = batch[o] /\ toMark'[o] = toMark[o])
  BY <1>3 DEF CreateSeedBatch, TypeOK, OperatorTypeOK
<1>4. ASSUME NEW p \in Operator, CloseSeedBatch(p) \/ Abort(p) \/ Kill(p)
      PROVE  batch'[o] = batch[o] /\ toMark'[o] = toMark[o]
  BY <1>4 DEF CloseSeedBatch, Abort, Kill, EndCommand, TypeOK,
              OperatorTypeOK
<1>5. ASSUME NEW p \in Operator, NEW js \in toMark[p], MarkPending(p, js)
      PROVE  /\ batch'[o] = batch[o]
             /\ toMark'[o] = IF p = o THEN toMark[o] \ {js} ELSE toMark[o]
  BY <1>5 DEF MarkPending, TypeOK, OperatorTypeOK
<1>6. ASSUME NEW p \in Operator, NEW js \in inHand[p], PublishPending(p, js)
      PROVE  batch'[o] = batch[o] /\ toMark'[o] = toMark[o]
  BY <1>6 DEF PublishPending
<1>7. CASE OperatorNext
  BY <1>1, <1>2, <1>3, <1>4, <1>5, <1>6, <1>7
     DEF OperatorNext, OperatorStep, Hold, ReleaseHold, operatorVars
<1>. QED  BY <1>1, <1>7 DEF Next, vars

\* What holds of every job of S, is not given up in the step and comes with
\* mark_job_pending holds of the seeded jobs afterwards.
LEMMA SeedsStep ==
    ASSUME TypeOK, TypeOK', CommandShape, [Next]_vars,
           NEW S, NEW T, SeedsWithin(S), S \subseteq T,
           \A j \in Job, o \in Operator : MarkPending(o, <<j, 1>>) => j \in T
    PROVE  SeedsWithin(T)'
<1>1. \A b \in 1 .. Len(seedBatches) : seedBatches[b].job_ids \subseteq Job
  <2>1. \A b \in 1 .. Len(seedBatches) : seedBatches[b] \in SeedBatch
    BY DEF TypeOK, StoreTypeOK
  <2>. QED  BY <2>1 DEF SeedBatch
<1>2. ASSUME NEW b \in 1 .. Len(seedBatches'),
             seedBatches'[b].status = "published",
             NEW j \in seedBatches'[b].job_ids
      PROVE  j \in T
  <2>1. /\ b \in 1 .. Len(seedBatches) /\ j \in seedBatches[b].job_ids
        /\ \/ seedBatches[b].status = "published"
           \/ \E o \in Operator : CloseSeedBatch(o) /\ b = batch[o]
    BY <1>2, BatchStep
  <2>2. ASSUME NEW o \in Operator, CloseSeedBatch(o), b = batch[o]
        PROVE  j \in S
    <3>1. toMark[o] = {} /\ batch[o] # 0
      BY <2>1, <2>2 DEF CloseSeedBatch, Does, CommandShape, TypeOK, StoreTypeOK
    <3>. QED  BY <2>1, <2>2, <3>1 DEF SeedsWithin, BatchWithin
  <2>3. j \in S
    BY <2>1, <2>2 DEF SeedsWithin, BatchWithin
  <2>. QED  BY <2>3
<1>3. ASSUME NEW o \in Operator, batch'[o] # 0,
             NEW j \in seedBatches'[batch'[o]].job_ids
      PROVE  <<j, 1>> \in toMark'[o] \/ j \in T
  <2>1. CASE CreateSeedBatch(o)
    <3>1. /\ batch'[o] = Len(seedBatches) + 1 /\ toMark' = toMark
          /\ \A js \in toMark[o] : js = <<js[1], 1>>
      BY <2>1 DEF CreateSeedBatch, Does, CommandShape, TypeOK, OperatorTypeOK
    <3>2. seedBatches'[batch'[o]].job_ids = {js[1] : js \in toMark[o]}
      BY <2>1, <3>1 DEF CreateSeedBatch, InsertSeedBatch, TypeOK, StoreTypeOK
    <3>. QED  BY <1>3, <3>1, <3>2
  <2>2. CASE ~CreateSeedBatch(o)
    <3>1. /\ batch'[o] = batch[o]
          /\ \A js \in toMark[o] : js \in toMark'[o] \/ MarkPending(o, js)
      BY <1>3, <2>2, CommandBatchStep
    <3>2. batch[o] \in 1 .. Len(seedBatches)
      BY <1>3, <3>1 DEF TypeOK, OperatorTypeOK, StoreTypeOK
    <3>3. batch'[o] \in 1 .. Len(seedBatches')
      BY <1>3 DEF TypeOK, OperatorTypeOK, StoreTypeOK
    <3>4. j \in seedBatches[batch[o]].job_ids
      <4>1. PICK b \in 1 .. Len(seedBatches') : b = batch'[o]
        BY <3>3
      <4>2. b # Len(seedBatches) + 1
        BY <3>1, <3>2, <4>1 DEF TypeOK, StoreTypeOK
      <4>. QED  BY <1>3, <3>1, <4>1, <4>2, BatchStep
    <3>5. <<j, 1>> \in toMark[o] \/ j \in S
      BY <1>3, <3>1, <3>4 DEF SeedsWithin, BatchWithin
    <3>. QED  BY <1>1, <3>1, <3>2, <3>4, <3>5
  <2>. QED  BY <2>1, <2>2
<1>. QED  BY <1>2, <1>3 DEF SeedsWithin, BatchWithin

-----------------------------------------------------------------------------
(* Every published job is recoverable *)

\* The jobs that have entered the first stage.
Entered == {j \in Job : HasDocument(j, 1)}

EnteredInv == CommandShape /\ SeedsWithin(Entered)

LEMMA EnteredNext ==
    ASSUME TypeOK, TypeOK', EnteredInv, [Next]_vars
    PROVE  EnteredInv'
<1>1. PICK S, T : S = Entered /\ T = Entered'
  OBVIOUS
<1>2. 1 \in Stage
  BY ManifestAssumption DEF Stage
<1>3. S \subseteq T
  BY <1>1, <1>2, StoreGrows DEF Entered
<1>4. ASSUME NEW j \in Job, NEW o \in Operator, MarkPending(o, <<j, 1>>)
      PROVE  j \in T
  BY <1>1, <1>2, <1>4, UpsertEffect
     DEF MarkPending, Entered, JobStateStatus
<1>5. SeedsWithin(S)
  BY <1>1 DEF EnteredInv
<1>6. SeedsWithin(T)'
  BY <1>3, <1>4, <1>5, SeedsStep DEF EnteredInv
<1>7. SeedsWithin(Entered)'
  BY <1>1, <1>6 DEF SeedsWithin, BatchWithin
<1>. QED  BY <1>7, ShapeStep DEF EnteredInv

(***************************************************************************)
(* `replay` reaches every published job that is not on its way, however    *)
(* many threads and operators race, whichever connections drop and         *)
(* commands fail: the document at the first stage is never absent again    *)
(* once the batch is published, and when it says "completed" the job is    *)
(* carried further on.                                                     *)
(***************************************************************************)
THEOREM PublishedJobsAreRecoverable ==
    ASSUME ~SilentPublishLoss
    PROVE  Spec => []PublishedIsRecoverable
<1>1. Init => EnteredInv
  BY DEF Init, StoreInit, OperatorInit, EnteredInv, CommandShape, SeedsWithin
<1>2. TypeOK /\ TypeOK' /\ EnteredInv /\ [Next]_vars => EnteredInv'
  BY EnteredNext
<1>3. TypeOK /\ EnteredInv /\ CompletedIsCarried => PublishedIsRecoverable
  <2>. SUFFICES ASSUME TypeOK, EnteredInv, CompletedIsCarried,
                       NEW j \in PublishedJobs
                PROVE  CarriedFrom(j, 1, OpenStatuses)
    BY DEF PublishedIsRecoverable
  <2>1. j \in Job /\ StatusOf(j, 1) # "absent"
    BY DEF PublishedJobs, EnteredInv, SeedsWithin, BatchWithin, Entered,
           HasDocument
  <2>2. 1 \in Stage /\ 1 \in 1 .. NumStages /\ NumStages \in Nat
    BY ManifestAssumption DEF Stage
  <2>3. CASE StatusOf(j, 1) = "completed"
    <3>1. CarriedFrom(j, 1 + 1, OpenStatuses)
      BY <2>1, <2>2, <2>3 DEF CompletedIsCarried
    <3>2. 1 + 1 .. NumStages \subseteq 1 .. NumStages
      BY <2>2
    <3>. QED  BY <3>1, <3>2 DEF CarriedFrom
  <2>4. CASE StatusOf(j, 1) # "completed"
    <3>1. StatusOf(j, 1) \in OpenStatuses
      BY <2>1, <2>2, <2>4
         DEF StatusOf, TypeOK, StoreTypeOK, JobState, JobStateStatus,
             OpenStatuses, ParkedStatuses
    <3>. QED  BY <2>2, <3>1 DEF CarriedFrom
  <2>. QED  BY <2>3, <2>4
<1>. QED
  BY <1>1, <1>2, <1>3, CompletedJobsAreCarried, TypeCorrect, PTL DEF Spec

-----------------------------------------------------------------------------
(* No job is lost *)

(***************************************************************************)
(* EveryJobInMotionOrParked is about the published batches.  It is made    *)
(* inductive by following a job from its batch: what a running seed        *)
(* command has not marked yet, it will mark; a job that was marked is      *)
(* kept, at its stage or further on; and a thread at "published" vouches   *)
(* for the job that it is about to write "completed" for.                  *)
(***************************************************************************)
HandedAt(j, s) == \E o \in Operator : <<j, s>> \in inHand[o]

Kept(j, s) ==
    \/ InMotion(j, s)
    \/ StatusOf(j, s) \in ParkedStatuses
    \/ HandedAt(j, s)

KeptFrom(j, k) ==
    ready[<<FinalQueue, j>>] > 0 \/ \E s \in k .. NumStages : Kept(j, s)

PublishedIsKept ==
    \A w \in Worker :
        pc[w] = "published" => KeptFrom(delivered[w], StageOf(w) + 1)

SeedsAreKept == SeedsWithin({j \in Job : KeptFrom(j, 1)})

AllConnected == \A w \in Worker : connected[w]

KeptInv == CommandShape /\ AllConnected /\ PublishedIsKept /\ SeedsAreKept

\* Without a bound on dropped connections above zero none is dropped.
LEMMA ConnectedStep ==
    ASSUME MaxDrops = 0, TypeOK, AllConnected, [Next]_vars
    PROVE  AllConnected'
<1>1. CASE UNCHANGED workerVars
  BY <1>1 DEF workerVars, AllConnected
<1>2. ASSUME NEW w \in Worker, DropConnection(w)
      PROVE  FALSE
  BY <1>2 DEF DropConnection, TypeOK, WorkerTypeOK
<1>3. CASE WorkerNext
  BY <1>2, <1>3
     DEF WorkerNext, WorkerStep, Deliver, NackOnStop, CheckHold, HoldJob,
         MarkRunning, AppendStarted, AppendOutput, CountAttempts,
         InsertJobAttempt, RecordFailure, Publish, PublishLost,
         MarkCompleted, Ack, ConnectionError, LeaveLoop, Crash, StopPool,
         StartPool, WriteState, WriteEvent, Release, KeepDelivery, TypeOK,
         WorkerTypeOK, AllConnected
<1>. QED  BY <1>1, <1>3 DEF Next, vars

\* What an operator has marked stays in hand until it is published, if no
\* command fails.
LEMMA HandMoves ==
    ASSUME MaxAborts = 0, TypeOK, CommandShape, [Next]_vars,
           NEW j \in Job, NEW s \in Stage, HandedAt(j, s)
    PROVE  HandedAt(j, s)' \/ InMotion(j, s)'
<1>1. PICK o \in Operator : <<j, s>> \in inHand[o]
  BY DEF HandedAt
<1>2. ASSUME <<j, s>> \in inHand'[o]
      PROVE  HandedAt(j, s)'
  BY <1>2 DEF HandedAt
<1>3. CASE UNCHANGED inHand
  BY <1>1, <1>2, <1>3
<1>4. ASSUME NEW p \in Operator, CloseSeedBatch(p)
      PROVE  <<j, s>> \in inHand'[o]
  <2>1. p # o
    BY <1>1, <1>4 DEF CloseSeedBatch, Does, CommandShape
  <2>. QED
    BY <1>1, <1>4, <2>1
       DEF CloseSeedBatch, EndCommand, TypeOK, OperatorTypeOK
<1>5. ASSUME NEW p \in Operator, NEW js \in toMark[p], MarkPending(p, js)
      PROVE  <<j, s>> \in inHand'[o]
  BY <1>1, <1>5 DEF MarkPending, TypeOK, OperatorTypeOK
<1>6. ASSUME NEW p \in Operator, NEW js \in inHand[p], PublishPending(p, js)
      PROVE  HandedAt(j, s)' \/ InMotion(j, s)'
  <2>1. CASE p = o /\ js = <<j, s>>
    <3>1. s \in Queue
      BY ManifestAssumption DEF Stage, Queue
    <3>2. ready'[<<s, j>>] > 0
      BY <1>6, <2>1, <3>1, EnqueueEffect
         DEF PublishPending, StageInputQueue
    <3>. QED  BY <3>2 DEF InMotion, StageInputQueue
  <2>2. CASE ~(p = o /\ js = <<j, s>>)
    BY <1>1, <1>2, <1>6, <2>2 DEF PublishPending, TypeOK, OperatorTypeOK
  <2>. QED  BY <2>1, <2>2
<1>7. ASSUME NEW p \in Operator
      PROVE  ~Abort(p) /\ ~Kill(p)
  BY DEF Abort, Kill, TypeOK, OperatorTypeOK
<1>8. CASE OperatorNext
  BY <1>2, <1>3, <1>4, <1>5, <1>6, <1>7, <1>8
     DEF OperatorNext, OperatorStep, CheckSeedBatch, CreateSeedBatch,
         ReadReplayable, Hold, ReleaseHold, operatorVars
<1>. QED  BY <1>3, <1>8 DEF Next, vars, operatorVars

\* What keeps a job at stage s goes on doing so, there or at the next queue,
\* unless a thread completes the stage.
LEMMA KeptMoves ==
    ASSUME MaxAborts = 0, TypeOK, CommandShape, AllConnected, [Next]_vars,
           NEW j \in Job, NEW s \in Stage, Kept(j, s),
           ~\E w \in Worker : Completes(w, j, s)
    PROVE  Kept(j, s)' \/ ready'[<<s + 1, j>>] > 0
<1>1. CASE ready[<<s, j>>] > 0
  <2>1. ASSUME NEW w \in Worker, StageOf(w) = s, Deliver(w, j)
        PROVE  InMotion(j, s)'
    <3>1. /\ pc'[w] = "received" /\ delivered'[w] = j
          /\ connected'[w] /\ StageOf(w)' = s
      BY <2>1 DEF Deliver, At, Goto, Busy, StageOf, TypeOK, WorkerTypeOK
    <3>. QED  BY <3>1 DEF InMotion, Unacked, Undecided, Busy
  <2>2. s \in Queue
    BY ManifestAssumption DEF Stage, Queue
  <2>. QED
    BY <1>1, <2>1, <2>2, WaitingStays DEF Kept, InMotion, StageInputQueue
<1>2. CASE \E w \in Worker : Unacked(w, j, s) /\ pc[w] \in Undecided
  BY <1>2, WorkMoves DEF Kept
<1>3. CASE StatusOf(j, s) \in ParkedStatuses
  <2>1. ASSUME NEW w \in Worker, Runs(w, j, s)
        PROVE  InMotion(j, s)'
    <3>1. /\ pc'[w] = "running" /\ delivered'[w] = j /\ connected'[w]
          /\ StageOf(w)' = s
      BY <2>1
         DEF Runs, MarkRunning, WriteState, Goto, KeepDelivery, StageOf,
             AllConnected, TypeOK, WorkerTypeOK
    <3>. QED  BY <3>1 DEF InMotion, Unacked, Undecided, Busy
  <2>2. ASSUME NEW o \in Operator, MarkPending(o, <<j, s>>)
        PROVE  HandedAt(j, s)'
    BY <2>2 DEF MarkPending, HandedAt, TypeOK, OperatorTypeOK
  <2>. QED  BY <1>3, <2>1, <2>2, StatusMoves DEF Kept
<1>4. CASE HandedAt(j, s)
  BY <1>4, HandMoves DEF Kept
<1>. QED  BY <1>1, <1>2, <1>3, <1>4 DEF Kept, InMotion, StageInputQueue

\* A job that is kept from stage k on stays so.
LEMMA KeptFromStays ==
    ASSUME MaxAborts = 0, TypeOK, CommandShape, AllConnected,
           PublishedIsKept, [Next]_vars,
           NEW j \in Job, NEW k \in Queue, KeptFrom(j, k)
    PROVE  KeptFrom(j, k)'
<1>1. FinalQueue \in Queue /\ k \in Nat /\ NumStages \in Nat
  BY ManifestAssumption DEF FinalQueue, Queue
<1>2. ASSUME NEW s \in k .. NumStages, ready'[<<s + 1, j>>] > 0
      PROVE  KeptFrom(j, k)'
  <2>1. CASE s = NumStages
    BY <1>2, <2>1 DEF KeptFrom, FinalQueue
  <2>2. CASE s # NumStages
    <3>1. s + 1 \in k .. NumStages
      BY <1>1, <2>2
    <3>. QED  BY <1>2, <3>1 DEF KeptFrom, Kept, InMotion, StageInputQueue
  <2>. QED  BY <2>1, <2>2
<1>3. CASE ready[<<FinalQueue, j>>] > 0
  <2>1. \A w \in Worker : StageOf(w) # FinalQueue
    BY StageOfType, ManifestAssumption DEF Stage, FinalQueue
  <2>. QED  BY <1>1, <1>3, <2>1, WaitingStays DEF KeptFrom
<1>4. ASSUME NEW s \in k .. NumStages, Kept(j, s),
             ~\E w \in Worker : Completes(w, j, s)
      PROVE  KeptFrom(j, k)'
  <2>1. s \in Stage
    BY <1>1 DEF Stage, Queue
  <2>. QED  BY <1>2, <1>4, <2>1, KeptMoves DEF KeptFrom
<1>5. ASSUME NEW s \in k .. NumStages, NEW w \in Worker, Completes(w, j, s),
             ready[<<FinalQueue, j>>] = 0
      PROVE  KeptFrom(j, k)'
  <2>1. KeptFrom(j, s + 1)
    BY <1>5 DEF Completes, MarkCompleted, WriteState, At, PublishedIsKept
  <2>2. PICK r \in s + 1 .. NumStages : Kept(j, r)
    BY <1>5, <2>1 DEF KeptFrom
  <2>3. r \in k .. NumStages /\ r # s
    BY <1>1, <2>2
  <2>4. ASSUME NEW v \in Worker, Completes(v, j, r)
        PROVE  FALSE
    <3>1. v # w
      BY <1>5, <2>3, <2>4 DEF Completes
    <3>2. pc'[w] = "settled" /\ pc'[v] = pc[v] /\ pc[v] = "published"
      BY <1>5, <2>4, <3>1
         DEF Completes, MarkCompleted, WriteState, At, Goto, TypeOK,
             WorkerTypeOK
    <3>3. pc'[v] = "settled"
      BY <2>4 DEF Completes, MarkCompleted, WriteState, At, Goto, TypeOK,
                  WorkerTypeOK
    <3>. QED  BY <3>2, <3>3
  <2>. QED  BY <1>4, <2>2, <2>3, <2>4
<1>6. ready[<<FinalQueue, j>>] > 0 \/ ready[<<FinalQueue, j>>] = 0
  BY <1>1 DEF TypeOK, BrokerTypeOK
<1>. QED  BY <1>3, <1>4, <1>5, <1>6 DEF KeptFrom

LEMMA PublishedIsKeptStep ==
    ASSUME MaxAborts = 0, TypeOK, KeptInv, [Next]_vars
    PROVE  PublishedIsKept'
<1>1. ASSUME NEW w \in Worker, pc'[w] = "published"
      PROVE  KeptFrom(delivered[w], StageOf(w) + 1)'
  <2>1. CASE pc[w] = "published" /\ delivered'[w] = delivered[w]
    <3>1. /\ delivered[w] \in Job /\ StageOf(w) + 1 \in Queue
          /\ KeptFrom(delivered[w], StageOf(w) + 1)
      BY <2>1, DeliveryType, ManifestAssumption
         DEF KeptInv, PublishedIsKept, Busy, Stage, Queue
    <3>2. PICK j \in Job, k \in Queue : j = delivered[w] /\ k = StageOf(w) + 1
      BY <3>1
    <3>3. KeptFrom(j, k)'
      BY <3>1, <3>2, KeptFromStays DEF KeptInv
    <3>. QED
      BY <2>1, <3>2, <3>3
         DEF StageOf, KeptFrom, Kept, InMotion, Unacked, HandedAt, StatusOf
  <2>2. CASE Publish(w)
    <3>1. /\ delivered[w] \in Job /\ StageOf(w) \in Stage
          /\ StageOf(w) + 1 \in Queue /\ delivered'[w] = delivered[w]
      BY <2>2, DeliveryType, ManifestAssumption
         DEF Publish, At, Busy, KeepDelivery, Stage, Queue
    <3>2. ready'[<<StageOf(w) + 1, delivered[w]>>] > 0
      BY <2>2, <3>1, EnqueueEffect DEF Publish, StageOutputQueue
    <3>3. StageOf(w) + 1 = FinalQueue
            \/ StageOf(w) + 1 \in StageOf(w) + 1 .. NumStages
      BY <3>1, ManifestAssumption DEF Queue, Stage, FinalQueue
    <3>. QED
      BY <3>1, <3>2, <3>3
         DEF KeptFrom, Kept, InMotion, StageInputQueue, StageOf
  <2>. QED
    BY <1>1, <2>1, <2>2, PublishedStep DEF KeptInv, AllConnected
<1>. QED  BY <1>1 DEF PublishedIsKept

LEMMA SeedsAreKeptStep ==
    ASSUME MaxAborts = 0, TypeOK, TypeOK', KeptInv, [Next]_vars
    PROVE  SeedsAreKept'
<1>1. PICK S, T : /\ S = {j \in Job : KeptFrom(j, 1)}
                  /\ T = {j \in Job : KeptFrom(j, 1)}'
  OBVIOUS
<1>2. S \subseteq T
  BY <1>1, KeptFromStays, ManifestAssumption DEF KeptInv, Queue
<1>3. ASSUME NEW j \in Job, NEW o \in Operator, MarkPending(o, <<j, 1>>)
      PROVE  j \in T
  <2>1. HandedAt(j, 1)'
    BY <1>3 DEF MarkPending, HandedAt, TypeOK, OperatorTypeOK
  <2>2. KeptFrom(j, 1)'
    BY <2>1, ManifestAssumption DEF KeptFrom, Kept, HandedAt
  <2>. QED  BY <1>1, <2>2
<1>4. SeedsWithin(S)
  BY <1>1 DEF KeptInv, SeedsAreKept
<1>5. SeedsWithin(T)'
  BY <1>2, <1>3, <1>4, SeedsStep DEF KeptInv
<1>. QED  BY <1>1, <1>5 DEF SeedsAreKept, SeedsWithin, BatchWithin

LEMMA KeptNext ==
    ASSUME MaxDrops = 0, MaxAborts = 0, TypeOK, TypeOK', KeptInv, [Next]_vars
    PROVE  KeptInv'
BY ShapeStep, ConnectedStep, PublishedIsKeptStep, SeedsAreKeptStep
   DEF KeptInv

LEMMA KeptInvariant ==
    ASSUME MaxDrops = 0, MaxAborts = 0
    PROVE  Spec => []KeptInv
<1>1. Init => KeptInv
  BY DEF Init, StoreInit, WorkerInit, OperatorInit, KeptInv, CommandShape,
         AllConnected, PublishedIsKept, SeedsAreKept, SeedsWithin
<1>2. TypeOK /\ TypeOK' /\ KeptInv /\ [Next]_vars => KeptInv'
  BY KeptNext
<1>. QED  BY <1>1, <1>2, TypeCorrect, PTL DEF Spec

(***************************************************************************)
(* No job is lost: as long as no connection is dropped under a delivery    *)
(* and no command fails half-way, a job whose seed batch is published is   *)
(* in motion, or in the hands of an operator, or in the final queue, or    *)
(* parked where `failures` and `replay` find it; whatever threads crash,   *)
(* stop and start, whichever stages are replayed, however many operators   *)
(* there are.                                                              *)
(***************************************************************************)
THEOREM JobsAreNeverLost ==
    ASSUME MaxDrops = 0, MaxAborts = 0
    PROVE  Spec => []EveryJobInMotionOrParked
<1>1. TypeOK /\ KeptInv => EveryJobInMotionOrParked
  <2>. SUFFICES ASSUME TypeOK, KeptInv, NEW j \in PublishedJobs
                PROVE  CarriedFrom(j, 1, ParkedStatuses) \/ InOperatorHand(j)
    BY DEF EveryJobInMotionOrParked
  <2>1. KeptFrom(j, 1)
    BY DEF PublishedJobs, KeptInv, SeedsAreKept, SeedsWithin, BatchWithin
  <2>2. \A s \in 1 .. NumStages : s \in Stage
    BY DEF Stage
  <2>. QED
    BY <2>1, <2>2
       DEF KeptFrom, Kept, HandedAt, CarriedFrom, InOperatorHand
<1>. QED  BY <1>1, KeptInvariant, TypeCorrect, PTL
=============================================================================
