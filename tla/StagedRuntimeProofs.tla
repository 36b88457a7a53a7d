------------------------ MODULE StagedRuntimeProofs -------------------------
(***************************************************************************)
(* Theorems about the staged runtime, for every number of jobs, stages,    *)
(* threads and operators and for every bound on the faults.                *)
(***************************************************************************)
EXTENDS StagedRuntime, TLAPS

-----------------------------------------------------------------------------
(* Type correctness *)

\* A stage has its input and output queue in the chain.
LEMMA StageQueues ==
    ASSUME NEW s \in Stage
    PROVE  /\ StageInputQueue(s) \in Queue
           /\ StageOutputQueue(s) \in Queue
BY ManifestAssumption DEF Stage, Queue, StageInputQueue, StageOutputQueue

LEMMA StageOfType ==
    ASSUME NEW w \in Worker
    PROVE  StageOf(w) \in Stage
BY ExecutionAssumption DEF StageOf

\* Publishing and requeueing keep the message counts natural numbers.
LEMMA EnqueueType ==
    ASSUME BrokerTypeOK, NEW q \in Queue, NEW j \in Job, Enqueue(q, j)
    PROVE  BrokerTypeOK'
BY DEF BrokerTypeOK, Enqueue

LEMMA DequeueType ==
    ASSUME BrokerTypeOK, NEW q \in Queue, NEW j \in Job, Dequeue(q, j)
    PROVE  BrokerTypeOK'
BY DEF BrokerTypeOK, Dequeue

LEMMA RequeueType ==
    ASSUME BrokerTypeOK, WorkerTypeOK, NEW w \in Worker, pc[w] \in Busy,
           Requeue(w)
    PROVE  BrokerTypeOK'
<1>1. delivered[w] \in Job
  BY DEF WorkerTypeOK
<1>2. CASE connected[w]
  BY <1>1, <1>2, StageOfType, StageQueues, EnqueueType DEF Requeue
<1>3. CASE ~connected[w]
  BY <1>3 DEF Requeue, BrokerTypeOK
<1>. QED  BY <1>2, <1>3

\* Every write of a job state keeps the documents well-typed.
LEMMA UpsertType ==
    ASSUME StoreTypeOK, NEW j \in Job, NEW s \in Stage,
           NEW status \in JobStateStatus, UpsertJobState(j, s, status)
    PROVE  jobStates' \in [Job \X Stage -> JobState]
BY DEF StoreTypeOK, UpsertJobState, JobState

LEMMA UpsertFailureType ==
    ASSUME StoreTypeOK, NEW j \in Job, NEW s \in Stage, NEW n \in Nat,
           UpsertFailure(j, s, n)
    PROVE  jobStates' \in [Job \X Stage -> JobState]
BY DEF StoreTypeOK, UpsertFailure, JobState, AttemptAction, JobStateStatus

LEMMA InsertAttemptType ==
    ASSUME StoreTypeOK, NEW j \in Job, NEW s \in Stage, NEW n \in Nat,
           InsertAttempt(j, s, n)
    PROVE  jobAttempts' \in [Job \X Stage -> Seq(Nat)]
BY DEF StoreTypeOK, InsertAttempt

LEMMA NextAttemptType ==
    ASSUME StoreTypeOK, NEW j \in Job, NEW s \in Stage
    PROVE  NextAttemptNumber(j, s) \in Nat
BY DEF StoreTypeOK, NextAttemptNumber

LEMMA ReleaseType ==
    ASSUME WorkerTypeOK, NEW w \in Worker, NEW label \in Ended \cup {"idle"},
           Release(w, label), UNCHANGED stopping,
           crashes' \in Nat, drops' \in Nat, starts' \in Nat
    PROVE  WorkerTypeOK'
BY DEF WorkerTypeOK, Release, Goto, Ended, Busy

LEMMA GotoType ==
    ASSUME WorkerTypeOK, NEW w \in Worker, NEW label \in Busy,
           pc[w] \in Busy, Goto(w, label), KeepDelivery, KeepControl
    PROVE  WorkerTypeOK'
BY DEF WorkerTypeOK, Goto, KeepDelivery, KeepControl, Ended, Busy

LEMMA StoreUnchanged ==
    ASSUME StoreTypeOK, UNCHANGED storeVars
    PROVE  StoreTypeOK'
BY DEF StoreTypeOK, storeVars

LEMMA OperatorUnchanged ==
    ASSUME OperatorTypeOK, UNCHANGED <<operatorVars, seedBatches>>
    PROVE  OperatorTypeOK'
BY DEF OperatorTypeOK, operatorVars

\* A job state write or an event of a thread.
LEMMA WriteStateType ==
    ASSUME TypeOK, NEW w \in Worker, NEW from \in Busy, NEW to \in Busy,
           NEW status \in JobStateStatus, WriteState(w, from, to, status),
           UNCHANGED operatorVars
    PROVE  TypeOK'
<1>1. delivered[w] \in Job /\ pc[w] \in Busy
  BY DEF TypeOK, WorkerTypeOK, WriteState, At
<1>2. StoreTypeOK'
  <2>1. jobStates' \in [Job \X Stage -> JobState]
    BY <1>1, StageOfType, UpsertType DEF TypeOK, WriteState
  <2>. QED  BY <2>1 DEF TypeOK, StoreTypeOK, WriteState
<1>3. BrokerTypeOK'
  BY DEF TypeOK, BrokerTypeOK, WriteState
<1>4. WorkerTypeOK'
  BY <1>1, GotoType DEF TypeOK, WriteState
<1>5. OperatorTypeOK'
  BY OperatorUnchanged DEF TypeOK, WriteState
<1>. QED  BY <1>2, <1>3, <1>4, <1>5 DEF TypeOK

LEMMA WriteEventType ==
    ASSUME TypeOK, NEW w \in Worker, NEW from \in Busy, NEW to \in Busy,
           NEW kind \in EventKind, WriteEvent(w, from, to, kind),
           UNCHANGED operatorVars
    PROVE  TypeOK'
<1>1. delivered[w] \in Job /\ pc[w] \in Busy
  BY DEF TypeOK, WorkerTypeOK, WriteEvent, At
<1>2. StoreTypeOK'
  BY <1>1, StageOfType DEF TypeOK, StoreTypeOK, WriteEvent, AppendEvent
<1>3. BrokerTypeOK'
  BY DEF TypeOK, BrokerTypeOK, WriteEvent
<1>4. WorkerTypeOK'
  BY <1>1, GotoType DEF TypeOK, WriteEvent
<1>5. OperatorTypeOK'
  BY OperatorUnchanged DEF TypeOK, WriteEvent
<1>. QED  BY <1>2, <1>3, <1>4, <1>5 DEF TypeOK

\* Each step of a thread keeps the types.
LEMMA WorkerStepType ==
    ASSUME TypeOK, NEW w \in Worker, WorkerStep(w), UNCHANGED operatorVars
    PROVE  TypeOK'
<1>. USE DEF TypeOK
<1>1. CASE NackOnStop(w)
  BY <1>1, RequeueType, ReleaseType, StoreUnchanged, OperatorUnchanged
     DEF NackOnStop, At, Busy, KeepControl, WorkerTypeOK, storeVars
<1>2. CASE CheckHold(w)
  BY <1>2, GotoType, StoreUnchanged, OperatorUnchanged
     DEF CheckHold, At, Busy, storeVars, BrokerTypeOK
<1>3. CASE HoldJob(w)
  BY <1>3, WriteStateType DEF HoldJob, Busy, JobStateStatus
<1>4. CASE MarkRunning(w)
  BY <1>4, WriteStateType DEF MarkRunning, Busy, JobStateStatus
<1>5. CASE AppendStarted(w)
  BY <1>5, WriteEventType DEF AppendStarted, Busy, EventKind
<1>6. CASE AppendOutput(w)
  BY <1>6, WriteEventType DEF AppendOutput, Busy, EventKind
<1>7. CASE CountAttempts(w)
  <2>1. delivered[w] \in Job
    BY <1>7 DEF CountAttempts, At, WorkerTypeOK, Busy
  <2>2. NextAttemptNumber(delivered[w], StageOf(w)) \in Nat
    BY <2>1, StageOfType, NextAttemptType
  <2>3. WorkerTypeOK'
    BY <1>7, <2>2 DEF CountAttempts, At, Goto, WorkerTypeOK, Busy, Ended,
                      KeepControl
  <2>. QED
    BY <1>7, <2>3, StoreUnchanged, OperatorUnchanged
       DEF CountAttempts, storeVars, BrokerTypeOK
<1>8. CASE InsertJobAttempt(w)
  <2>1. delivered[w] \in Job /\ attemptNumber[w] \in Nat
    BY <1>8 DEF InsertJobAttempt, At, WorkerTypeOK, Busy
  <2>2. jobAttempts' \in [Job \X Stage -> Seq(Nat)]
    BY <1>8, <2>1, StageOfType, InsertAttemptType DEF InsertJobAttempt
  <2>3. WorkerTypeOK'
    BY <1>8, GotoType DEF InsertJobAttempt, At, Busy
  <2>. QED
    BY <1>8, <2>2, <2>3, OperatorUnchanged
       DEF InsertJobAttempt, StoreTypeOK, BrokerTypeOK
<1>9. CASE RecordFailure(w)
  <2>1. delivered[w] \in Job /\ attemptNumber[w] \in Nat
    BY <1>9 DEF RecordFailure, At, WorkerTypeOK, Busy
  <2>2. jobStates' \in [Job \X Stage -> JobState]
    BY <1>9, <2>1, StageOfType, UpsertFailureType DEF RecordFailure
  <2>3. WorkerTypeOK'
    BY <1>9, GotoType DEF RecordFailure, At, Busy
  <2>. QED
    BY <1>9, <2>2, <2>3, OperatorUnchanged
       DEF RecordFailure, StoreTypeOK, BrokerTypeOK
<1>10. CASE Publish(w)
  <2>1. delivered[w] \in Job
    BY <1>10 DEF Publish, At, WorkerTypeOK, Busy
  <2>2. BrokerTypeOK'
    BY <1>10, <2>1, StageOfType, StageQueues, EnqueueType DEF Publish
  <2>3. WorkerTypeOK'
    BY <1>10, GotoType DEF Publish, At, Busy
  <2>. QED
    BY <1>10, <2>2, <2>3, StoreUnchanged, OperatorUnchanged
       DEF Publish, storeVars
<1>11. CASE PublishLost(w)
  BY <1>11, GotoType, StoreUnchanged, OperatorUnchanged
     DEF PublishLost, At, Busy, storeVars, BrokerTypeOK
<1>12. CASE MarkCompleted(w)
  BY <1>12, WriteStateType DEF MarkCompleted, Busy, JobStateStatus
<1>13. CASE Ack(w)
  BY <1>13, ReleaseType, StoreUnchanged, OperatorUnchanged
     DEF Ack, KeepControl, storeVars, BrokerTypeOK, WorkerTypeOK
<1>14. CASE ConnectionError(w)
  BY <1>14, ReleaseType, StoreUnchanged, OperatorUnchanged
     DEF ConnectionError, KeepControl, storeVars, BrokerTypeOK, WorkerTypeOK,
         Ended
<1>15. CASE LeaveLoop(w)
  BY <1>15, ReleaseType, StoreUnchanged, OperatorUnchanged
     DEF LeaveLoop, KeepControl, storeVars, BrokerTypeOK, WorkerTypeOK, Ended
<1>. QED
  BY <1>1, <1>2, <1>3, <1>4, <1>5, <1>6, <1>7, <1>8, <1>9, <1>10, <1>11,
     <1>12, <1>13, <1>14, <1>15 DEF WorkerStep

\* Deliveries, failures and control of the threads keep the types.
LEMMA WorkerNextType ==
    ASSUME TypeOK, WorkerNext, UNCHANGED operatorVars
    PROVE  TypeOK'
<1>. USE DEF TypeOK
<1>1. ASSUME NEW w \in Worker, NEW j \in Job, Deliver(w, j)
      PROVE  TypeOK'
  <2>1. BrokerTypeOK'
    BY <1>1, StageOfType, StageQueues, DequeueType DEF Deliver
  <2>2. WorkerTypeOK'
    BY <1>1, ExecutionAssumption
       DEF Deliver, At, Goto, KeepControl, WorkerTypeOK, Busy, Ended
  <2>. QED
    BY <1>1, <2>1, <2>2, StoreUnchanged, OperatorUnchanged
       DEF Deliver, storeVars
<1>2. ASSUME NEW w \in Worker, WorkerStep(w)
      PROVE  TypeOK'
  BY <1>2, WorkerStepType
<1>3. ASSUME NEW w \in Worker, Crash(w)
      PROVE  TypeOK'
  <2>1. BrokerTypeOK'
    BY <1>3, RequeueType DEF Crash, BrokerTypeOK
  <2>2. WorkerTypeOK'
    BY <1>3, ReleaseType DEF Crash, WorkerTypeOK, Ended
  <2>. QED
    BY <1>3, <2>1, <2>2, StoreUnchanged, OperatorUnchanged
       DEF Crash, storeVars
<1>4. ASSUME NEW w \in Worker, DropConnection(w)
      PROVE  TypeOK'
  BY <1>4, RequeueType, StoreUnchanged, OperatorUnchanged
     DEF DropConnection, WorkerTypeOK, storeVars
<1>5. ASSUME NEW p \in Pool, StopPool(p)
      PROVE  TypeOK'
  BY <1>5, StoreUnchanged, OperatorUnchanged
     DEF StopPool, KeepDelivery, WorkerTypeOK, BrokerTypeOK, storeVars
<1>6. ASSUME NEW p \in Pool, StartPool(p)
      PROVE  TypeOK'
  <2>1. WorkerTypeOK'
    BY <1>6 DEF StartPool, KeepDelivery, WorkerTypeOK, Busy, Ended
  <2>. QED
    BY <1>6, <2>1, StoreUnchanged, OperatorUnchanged
       DEF StartPool, BrokerTypeOK, storeVars
<1>. QED  BY <1>1, <1>2, <1>3, <1>4, <1>5, <1>6 DEF WorkerNext

WorkerUnchanged == UNCHANGED workerVars

LEMMA WorkerVarsType ==
    ASSUME WorkerTypeOK, WorkerUnchanged
    PROVE  WorkerTypeOK'
BY DEF WorkerTypeOK, WorkerUnchanged, workerVars

\* Changing the status of a batch keeps the sequence of batches.
LEMMA SeedBatchStatusType ==
    ASSUME StoreTypeOK, NEW b \in 0 .. Len(seedBatches),
           NEW status \in {"published", "failed"},
           SetSeedBatchStatus(b, status)
    PROVE  seedBatches' \in Seq(SeedBatch) /\ Len(seedBatches') = Len(seedBatches)
<1>. DEFINE n == Len(seedBatches)
<1>1. n \in Nat /\ seedBatches \in [1 .. n -> SeedBatch]
  BY DEF StoreTypeOK
<1>2. seedBatches' \in [1 .. n -> SeedBatch]
  BY <1>1 DEF SetSeedBatchStatus, SeedBatch
<1>. QED  BY <1>1, <1>2

LEMMA EndCommandType ==
    ASSUME OperatorTypeOK, NEW o \in Operator, EndCommand(o),
           Len(seedBatches) \in Nat, Len(seedBatches') = Len(seedBatches),
           replays' \in Nat, aborts' \in Nat, holdsSet' \in Nat
    PROVE  OperatorTypeOK'
BY DEF OperatorTypeOK, EndCommand, Become

\* Each step of an operator keeps the types.
LEMMA OperatorNextType ==
    ASSUME TypeOK, OperatorNext, WorkerUnchanged
    PROVE  TypeOK'
<1>. USE WorkerVarsType DEF TypeOK
<1>0. Len(seedBatches) \in Nat
  BY DEF StoreTypeOK
<1>1. ASSUME NEW o \in Operator, NEW jobs \in SUBSET Job,
             CheckSeedBatch(o, jobs)
      PROVE  TypeOK'
  <2>1. FirstStage(jobs) \subseteq Job \X Stage
    BY ManifestAssumption DEF FirstStage, Stage
  <2>2. OperatorTypeOK'
    BY <1>1, <2>1
       DEF CheckSeedBatch, Become, KeepCounters, OperatorTypeOK, storeVars
  <2>. QED
    BY <1>1, <2>2, StoreUnchanged DEF CheckSeedBatch, BrokerTypeOK
<1>2. ASSUME NEW o \in Operator, CreateSeedBatch(o)
      PROVE  TypeOK'
  <2>1. {js[1] : js \in toMark[o]} \in SUBSET Job
    BY DEF OperatorTypeOK
  <2>2. /\ seedBatches' \in Seq(SeedBatch)
        /\ Len(seedBatches') = Len(seedBatches) + 1
    BY <1>2, <2>1 DEF CreateSeedBatch, InsertSeedBatch, StoreTypeOK, SeedBatch
  <2>3. OperatorTypeOK'
    BY <1>0, <1>2, <2>2
       DEF CreateSeedBatch, Become, KeepCounters, OperatorTypeOK
  <2>. QED
    BY <1>2, <2>2, <2>3 DEF CreateSeedBatch, StoreTypeOK, BrokerTypeOK
<1>3. ASSUME NEW o \in Operator, CloseSeedBatch(o)
      PROVE  TypeOK'
  <2>1. /\ seedBatches' \in Seq(SeedBatch)
        /\ Len(seedBatches') = Len(seedBatches)
    BY <1>3, SeedBatchStatusType DEF CloseSeedBatch, OperatorTypeOK
  <2>2. OperatorTypeOK'
    BY <1>0, <1>3, <2>1, EndCommandType
       DEF CloseSeedBatch, KeepCounters, OperatorTypeOK
  <2>. QED
    BY <1>3, <2>1, <2>2 DEF CloseSeedBatch, StoreTypeOK, BrokerTypeOK
<1>4. ASSUME NEW o \in Operator, NEW statuses \in ReplaySelections,
             ReadReplayable(o, statuses)
      PROVE  TypeOK'
  <2>1. OperatorTypeOK'
    BY <1>4 DEF ReadReplayable, StatesIn, Become, OperatorTypeOK, storeVars
  <2>. QED
    BY <1>4, <2>1, StoreUnchanged DEF ReadReplayable, BrokerTypeOK
<1>5. ASSUME NEW o \in Operator, NEW js \in toMark[o], MarkPending(o, js)
      PROVE  TypeOK'
  <2>1. js \in Job \X Stage
    BY <1>5 DEF OperatorTypeOK
  <2>2. jobStates' \in [Job \X Stage -> JobState]
    BY <1>5, <2>1, UpsertType DEF MarkPending, JobStateStatus
  <2>3. OperatorTypeOK'
    BY <1>5, <2>1 DEF MarkPending, Become, KeepCounters, OperatorTypeOK
  <2>. QED
    BY <1>5, <2>2, <2>3 DEF MarkPending, StoreTypeOK, BrokerTypeOK
<1>6. ASSUME NEW o \in Operator, NEW js \in inHand[o],
             PublishPending(o, js)
      PROVE  TypeOK'
  <2>1. js \in Job \X Stage
    BY <1>6 DEF OperatorTypeOK
  <2>2. BrokerTypeOK'
    BY <1>6, <2>1, StageQueues, EnqueueType DEF PublishPending
  <2>3. OperatorTypeOK'
    BY <1>6 DEF PublishPending, Become, KeepCounters, OperatorTypeOK, storeVars
  <2>. QED
    BY <1>6, <2>2, <2>3, StoreUnchanged DEF PublishPending
<1>7. ASSUME NEW o \in Operator, Abort(o)
      PROVE  TypeOK'
  <2>1. /\ seedBatches' \in Seq(SeedBatch)
        /\ Len(seedBatches') = Len(seedBatches)
    BY <1>7, SeedBatchStatusType DEF Abort, OperatorTypeOK, StoreTypeOK
  <2>2. OperatorTypeOK'
    BY <1>0, <1>7, <2>1, EndCommandType DEF Abort, OperatorTypeOK
  <2>. QED
    BY <1>7, <2>1, <2>2 DEF Abort, StoreTypeOK, BrokerTypeOK
<1>8. ASSUME NEW o \in Operator, Kill(o)
      PROVE  TypeOK'
  <2>1. OperatorTypeOK'
    BY <1>0, <1>8, EndCommandType DEF Kill, OperatorTypeOK, storeVars
  <2>. QED
    BY <1>8, <2>1, StoreUnchanged DEF Kill, BrokerTypeOK
<1>9. ASSUME NEW x \in Target, Hold(x)
      PROVE  TypeOK'
  BY <1>9 DEF Hold, SetTargetHold, StoreTypeOK, BrokerTypeOK, OperatorTypeOK
<1>10. ASSUME NEW x \in Target, ReleaseHold(x)
       PROVE  TypeOK'
  BY <1>10 DEF ReleaseHold, ClearTargetHolds, StoreTypeOK, BrokerTypeOK,
               OperatorTypeOK, operatorVars
<1>. QED
  BY <1>1, <1>2, <1>3, <1>4, <1>5, <1>6, <1>7, <1>8, <1>9, <1>10
     DEF OperatorNext, OperatorStep

(***************************************************************************)
(* Every reachable state is well-typed; in particular an ended or idle     *)
(* thread holds no delivery and a busy one does.                           *)
(***************************************************************************)
THEOREM TypeCorrect == Spec => []TypeOK
<1>1. Init => TypeOK
  BY DEF Init, TypeOK, StoreInit, StoreTypeOK, JobState, BrokerInit,
         BrokerTypeOK, WorkerInit, WorkerTypeOK, Busy, Ended, OperatorInit,
         OperatorTypeOK
<1>2. TypeOK /\ [Next]_vars => TypeOK'
  <2>. SUFFICES ASSUME TypeOK, [Next]_vars PROVE TypeOK'
    OBVIOUS
  <2>1. CASE WorkerNext /\ UNCHANGED operatorVars
    BY <2>1, WorkerNextType
  <2>2. CASE OperatorNext /\ UNCHANGED workerVars
    BY <2>2, OperatorNextType DEF WorkerUnchanged
  <2>3. CASE UNCHANGED vars
    BY <2>3, StoreUnchanged, OperatorUnchanged, WorkerVarsType
       DEF vars, TypeOK, BrokerTypeOK, WorkerUnchanged, storeVars
  <2>. QED  BY <2>1, <2>2, <2>3 DEF Next
<1>. QED  BY <1>1, <1>2, PTL DEF Spec

-----------------------------------------------------------------------------
(* The attempt ledger *)

\* The attempts recorded for the delivery of a thread.
Ledger(w) == Len(jobAttempts[<<delivered[w], StageOf(w)>>])

(***************************************************************************)
(* record_job_failure in two thirds: after count_documents the number it   *)
(* computed is at most one above the ledger, after insert_one the ledger   *)
(* has caught up, however many other threads insert in between.            *)
(***************************************************************************)
CountedInLedger ==
    \A w \in Worker :
        /\ pc[w] = "counted" => attemptNumber[w] <= Ledger(w) + 1
        /\ pc[w] = "ledgered" => attemptNumber[w] <= Ledger(w)

LedgerInv == CountedInLedger /\ DeadLetterNeedsBudget /\ AttemptCountIsRecorded

LEMMA LedgerLength ==
    ASSUME StoreTypeOK, NEW js \in Job \X Stage
    PROVE  Len(jobAttempts[js]) \in Nat
BY DEF StoreTypeOK

\* insert_one makes one ledger longer by one.
LEMMA InsertLength ==
    ASSUME StoreTypeOK, NEW j \in Job, NEW s \in Stage, NEW n \in Nat,
           InsertAttempt(j, s, n), NEW x \in Job \X Stage
    PROVE  Len(jobAttempts'[x]) =
             IF x = <<j, s>> THEN Len(jobAttempts[x]) + 1
                             ELSE Len(jobAttempts[x])
<1>1. jobAttempts[x] \in Seq(Nat)
  BY DEF StoreTypeOK
<1>2. CASE x = <<j, s>>
  <2>1. jobAttempts'[x] = Append(jobAttempts[x], n)
    BY <1>2 DEF InsertAttempt, StoreTypeOK
  <2>. QED  BY <1>1, <1>2, <2>1
<1>3. CASE x # <<j, s>>
  <2>1. jobAttempts'[x] = jobAttempts[x]
    BY <1>3 DEF InsertAttempt, StoreTypeOK
  <2>. QED  BY <1>3, <2>1
<1>. QED  BY <1>2, <1>3

\* Steps that leave the ledger, the documents and the numbers alone.
LEMMA LedgerStutter ==
    ASSUME TypeOK, LedgerInv,
           UNCHANGED <<jobAttempts, jobStates>>,
           \A w \in Worker :
              \/ pc'[w] \notin {"counted", "ledgered"}
              \/ /\ pc'[w] = pc[w]
                 /\ delivered'[w] = delivered[w]
                 /\ attemptNumber'[w] = attemptNumber[w]
    PROVE  LedgerInv'
BY DEF LedgerInv, CountedInLedger, Ledger, StageOf, DeadLetterNeedsBudget,
       AttemptCountIsRecorded

\* A status that is not "dead_lettered" is written to one document.
LEMMA LedgerUpsert ==
    ASSUME TypeOK, LedgerInv, NEW js \in Job \X Stage,
           NEW status \in JobStateStatus \ {"dead_lettered"},
           UpsertJobState(js[1], js[2], status),
           UNCHANGED jobAttempts,
           \A w \in Worker :
              \/ pc'[w] \notin {"counted", "ledgered"}
              \/ /\ pc'[w] = pc[w]
                 /\ delivered'[w] = delivered[w]
                 /\ attemptNumber'[w] = attemptNumber[w]
    PROVE  LedgerInv'
<1>1. CountedInLedger'
  BY DEF LedgerInv, CountedInLedger, Ledger, StageOf
<1>2. DeadLetterNeedsBudget' /\ AttemptCountIsRecorded'
  BY DEF LedgerInv, DeadLetterNeedsBudget, AttemptCountIsRecorded, TypeOK,
         StoreTypeOK, JobState, UpsertJobState
<1>. QED  BY <1>1, <1>2 DEF LedgerInv

LEMMA LedgerWriteState ==
    ASSUME TypeOK, LedgerInv, NEW w \in Worker, NEW from \in Busy,
           NEW to \in Busy \ {"counted", "ledgered"},
           NEW status \in JobStateStatus \ {"dead_lettered"},
           WriteState(w, from, to, status)
    PROVE  LedgerInv'
<1>1. <<delivered[w], StageOf(w)>> \in Job \X Stage
  BY StageOfType DEF TypeOK, WorkerTypeOK, WriteState, At
<1>. QED
  BY <1>1, LedgerUpsert
     DEF WriteState, At, Goto, KeepDelivery, TypeOK, WorkerTypeOK

LEMMA LedgerWorkerStep ==
    ASSUME TypeOK, LedgerInv, NEW w \in Worker, WorkerStep(w)
    PROVE  LedgerInv'
<1>. DEFINE js == <<delivered[w], StageOf(w)>>
<1>0. pc[w] \in Busy => js \in Job \X Stage
  BY StageOfType DEF TypeOK, WorkerTypeOK
<1>. USE DEF At, Goto, KeepDelivery, KeepControl, Release, storeVars
<1>1. CASE NackOnStop(w)
  BY <1>1, LedgerStutter DEF NackOnStop, TypeOK, WorkerTypeOK
<1>2. CASE CheckHold(w)
  BY <1>2, LedgerStutter DEF CheckHold, TypeOK, WorkerTypeOK
<1>3. CASE HoldJob(w)
  BY <1>3, LedgerWriteState DEF HoldJob, Busy, JobStateStatus
<1>4. CASE MarkRunning(w)
  BY <1>4, LedgerWriteState DEF MarkRunning, Busy, JobStateStatus
<1>5. CASE AppendStarted(w)
  BY <1>5, LedgerStutter DEF AppendStarted, WriteEvent, TypeOK, WorkerTypeOK
<1>6. CASE AppendOutput(w)
  BY <1>6, LedgerStutter DEF AppendOutput, WriteEvent, TypeOK, WorkerTypeOK
<1>7. CASE CountAttempts(w)
  <2>1. ASSUME NEW v \in Worker
        PROVE  /\ pc'[v] = "counted" => attemptNumber'[v] <= Ledger(v)' + 1
               /\ pc'[v] = "ledgered" => attemptNumber'[v] <= Ledger(v)'
    <3>1. Ledger(v)' = Ledger(v)
      BY <1>7 DEF CountAttempts, Ledger, StageOf
    <3>2. CASE v = w
      <4>1. js \in Job \X Stage
        BY <1>0, <1>7 DEF CountAttempts, Busy
      <4>2. pc'[w] = "counted" /\ attemptNumber'[w] = Ledger(w) + 1
        BY <1>7 DEF CountAttempts, NextAttemptNumber, Ledger, TypeOK,
                    WorkerTypeOK
      <4>3. Ledger(w) \in Nat
        BY <4>1, LedgerLength DEF Ledger, TypeOK
      <4>. QED  BY <3>1, <3>2, <4>2, <4>3
    <3>3. CASE v # w
      BY <1>7, <3>1, <3>3 DEF CountAttempts, LedgerInv, CountedInLedger,
                              TypeOK, WorkerTypeOK
    <3>. QED  BY <3>2, <3>3
  <2>2. CountedInLedger'
    BY <2>1 DEF CountedInLedger
  <2>. QED
    BY <1>7, <2>2 DEF CountAttempts, LedgerInv, DeadLetterNeedsBudget,
                      AttemptCountIsRecorded
<1>8. CASE InsertJobAttempt(w)
  <2>1. js \in Job \X Stage /\ attemptNumber[w] \in Nat
    BY <1>0, <1>8 DEF InsertJobAttempt, TypeOK, WorkerTypeOK, Busy
  <2>2. \A x \in Job \X Stage :
           /\ Len(jobAttempts[x]) \in Nat
           /\ Len(jobAttempts'[x]) =
                IF x = js THEN Len(jobAttempts[x]) + 1 ELSE Len(jobAttempts[x])
    BY <1>8, <2>1, InsertLength, LedgerLength DEF InsertJobAttempt, TypeOK
  <2>3. ASSUME NEW v \in Worker
        PROVE  /\ pc'[v] = "counted" => attemptNumber'[v] <= Ledger(v)' + 1
               /\ pc'[v] = "ledgered" => attemptNumber'[v] <= Ledger(v)'
    <3>1. CASE pc[v] \in Busy
      <4>1. <<delivered[v], StageOf(v)>> \in Job \X Stage
        BY <3>1, StageOfType DEF TypeOK, WorkerTypeOK
      <4>2. /\ Ledger(v) \in Nat
            /\ Ledger(v)' = IF <<delivered[v], StageOf(v)>> = js
                            THEN Ledger(v) + 1 ELSE Ledger(v)
        BY <1>8, <2>2, <4>1 DEF InsertJobAttempt, Ledger, StageOf
      <4>3. attemptNumber[v] \in Nat /\ attemptNumber'[v] = attemptNumber[v]
        BY <1>8 DEF InsertJobAttempt, TypeOK, WorkerTypeOK
      <4>4. CASE v = w
        BY <1>8, <4>2, <4>3, <4>4
           DEF InsertJobAttempt, LedgerInv, CountedInLedger, TypeOK,
               WorkerTypeOK
      <4>5. CASE v # w
        BY <1>8, <4>2, <4>3, <4>5
           DEF InsertJobAttempt, LedgerInv, CountedInLedger, TypeOK,
               WorkerTypeOK
      <4>. QED  BY <4>4, <4>5
    <3>2. CASE pc[v] \notin Busy
      BY <1>8, <3>2 DEF InsertJobAttempt, TypeOK, WorkerTypeOK, Busy
    <3>. QED  BY <3>1, <3>2
  <2>4. CountedInLedger'
    BY <2>3 DEF CountedInLedger
  <2>5. ASSUME NEW x \in Job \X Stage
        PROVE  /\ jobStates'[x].status = "dead_lettered"
                    => Len(jobAttempts'[x]) >= MaxAttempts
               /\ jobStates'[x].attempt_count <= Len(jobAttempts'[x])
    <3>1. /\ jobStates[x].attempt_count \in Nat
          /\ jobStates[x].attempt_count <= Len(jobAttempts[x])
      BY DEF TypeOK, StoreTypeOK, JobState, LedgerInv, AttemptCountIsRecorded
    <3>2. /\ jobStates' = jobStates
          /\ Len(jobAttempts[x]) \in Nat
          /\ \/ Len(jobAttempts'[x]) = Len(jobAttempts[x])
             \/ Len(jobAttempts'[x]) = Len(jobAttempts[x]) + 1
      BY <1>8, <2>2 DEF InsertJobAttempt
    <3>. QED
      BY <3>1, <3>2, RunStoreAssumption DEF LedgerInv, DeadLetterNeedsBudget
  <2>. QED
    BY <2>4, <2>5 DEF LedgerInv, DeadLetterNeedsBudget, AttemptCountIsRecorded
<1>9. CASE RecordFailure(w)
  <2>1. js \in Job \X Stage /\ attemptNumber[w] \in Nat
    BY <1>0, <1>9 DEF RecordFailure, TypeOK, WorkerTypeOK, Busy
  <2>2. attemptNumber[w] <= Len(jobAttempts[js])
    BY <1>9 DEF RecordFailure, LedgerInv, CountedInLedger, Ledger
  <2>3. CountedInLedger'
    BY <1>9 DEF RecordFailure, LedgerInv, CountedInLedger, Ledger, StageOf,
                TypeOK, WorkerTypeOK
  <2>4. ASSUME NEW x \in Job \X Stage
        PROVE  /\ jobStates'[x].status = "dead_lettered"
                    => Len(jobAttempts'[x]) >= MaxAttempts
               /\ jobStates'[x].attempt_count <= Len(jobAttempts'[x])
    <3>1. jobAttempts' = jobAttempts /\ Len(jobAttempts[x]) \in Nat
      BY <1>9, LedgerLength DEF RecordFailure, TypeOK
    <3>2. CASE x = js
      <4>1. jobStates'[x] = [status |-> AttemptAction(attemptNumber[w]),
                             attempt_count |-> attemptNumber[w]]
        BY <1>9, <2>1, <3>2
           DEF RecordFailure, UpsertFailure, TypeOK, StoreTypeOK
      <4>2. AttemptAction(attemptNumber[w]) = "dead_lettered"
              => attemptNumber[w] >= MaxAttempts
        BY DEF AttemptAction
      <4>. QED
        BY <2>1, <2>2, <3>1, <3>2, <4>1, <4>2, RunStoreAssumption
    <3>3. CASE x # js
      <4>1. jobStates'[x] = jobStates[x]
        BY <1>9, <3>3 DEF RecordFailure, UpsertFailure, TypeOK, StoreTypeOK
      <4>. QED
        BY <3>1, <4>1 DEF LedgerInv, DeadLetterNeedsBudget,
                          AttemptCountIsRecorded
    <3>. QED  BY <3>2, <3>3
  <2>. QED
    BY <2>3, <2>4 DEF LedgerInv, DeadLetterNeedsBudget, AttemptCountIsRecorded
<1>10. CASE Publish(w)
  BY <1>10, LedgerStutter DEF Publish, TypeOK, WorkerTypeOK
<1>11. CASE PublishLost(w)
  BY <1>11, LedgerStutter DEF PublishLost, TypeOK, WorkerTypeOK
<1>12. CASE MarkCompleted(w)
  BY <1>12, LedgerWriteState DEF MarkCompleted, Busy, JobStateStatus
<1>13. CASE Ack(w)
  BY <1>13, LedgerStutter DEF Ack, TypeOK, WorkerTypeOK
<1>14. CASE ConnectionError(w)
  BY <1>14, LedgerStutter DEF ConnectionError, TypeOK, WorkerTypeOK
<1>15. CASE LeaveLoop(w)
  BY <1>15, LedgerStutter DEF LeaveLoop, TypeOK, WorkerTypeOK
<1>. QED
  BY <1>1, <1>2, <1>3, <1>4, <1>5, <1>6, <1>7, <1>8, <1>9, <1>10, <1>11,
     <1>12, <1>13, <1>14, <1>15 DEF WorkerStep

LEMMA LedgerNext ==
    ASSUME TypeOK, LedgerInv, [Next]_vars
    PROVE  LedgerInv'
<1>. USE DEF storeVars, workerVars
<1>1. ASSUME NEW w \in Worker, NEW j \in Job, Deliver(w, j)
      PROVE  LedgerInv'
  BY <1>1, LedgerStutter
     DEF Deliver, At, Goto, KeepControl, TypeOK, WorkerTypeOK
<1>2. ASSUME NEW w \in Worker, WorkerStep(w)
      PROVE  LedgerInv'
  BY <1>2, LedgerWorkerStep
<1>3. ASSUME NEW w \in Worker, Crash(w)
      PROVE  LedgerInv'
  BY <1>3, LedgerStutter DEF Crash, Release, Goto, TypeOK, WorkerTypeOK
<1>4. ASSUME NEW w \in Worker, DropConnection(w)
      PROVE  LedgerInv'
  BY <1>4, LedgerStutter DEF DropConnection
<1>5. ASSUME NEW p \in Pool, StopPool(p)
      PROVE  LedgerInv'
  BY <1>5, LedgerStutter DEF StopPool, KeepDelivery
<1>6. ASSUME NEW p \in Pool, StartPool(p)
      PROVE  LedgerInv'
  BY <1>6, LedgerStutter DEF StartPool, KeepDelivery
<1>7. ASSUME NEW o \in Operator, NEW js \in toMark[o], MarkPending(o, js),
             UNCHANGED workerVars
      PROVE  LedgerInv'
  <2>1. js \in Job \X Stage
    BY DEF TypeOK, OperatorTypeOK
  <2>. QED
    BY <1>7, <2>1, LedgerUpsert DEF MarkPending, JobStateStatus
<1>8. ASSUME UNCHANGED <<jobStates, jobAttempts, workerVars>>
      PROVE  LedgerInv'
  BY <1>8, LedgerStutter
<1>9. ASSUME OperatorNext, UNCHANGED workerVars
      PROVE  LedgerInv'
  BY <1>7, <1>8, <1>9
     DEF OperatorNext, OperatorStep, CheckSeedBatch, CreateSeedBatch,
         CloseSeedBatch, ReadReplayable, PublishPending, Abort, Kill, Hold,
         ReleaseHold
<1>10. CASE UNCHANGED vars
  BY <1>8, <1>10 DEF vars
<1>. QED
  BY <1>1, <1>2, <1>3, <1>4, <1>5, <1>6, <1>9, <1>10 DEF Next, WorkerNext

LEMMA LedgerInvariant == Spec => []LedgerInv
<1>1. Init => LedgerInv
  BY DEF Init, StoreInit, WorkerInit, LedgerInv, CountedInLedger,
         DeadLetterNeedsBudget, AttemptCountIsRecorded
<1>2. TypeOK /\ LedgerInv /\ [Next]_vars => LedgerInv'
  BY LedgerNext
<1>. QED  BY <1>1, <1>2, TypeCorrect, PTL DEF Spec

(***************************************************************************)
(* No job is dead-lettered before its ledger holds a full attempt budget,  *)
(* under any crashes, lost connections, duplicates and replays.            *)
(***************************************************************************)
THEOREM DeadLettersAreEarned == Spec => []DeadLetterNeedsBudget
BY LedgerInvariant, PTL DEF LedgerInv

(***************************************************************************)
(* The attempt_count of a document is covered by recorded attempts.        *)
(***************************************************************************)
THEOREM AttemptCountsAreRecorded == Spec => []AttemptCountIsRecorded
BY LedgerInvariant, PTL DEF LedgerInv

-----------------------------------------------------------------------------
(* Propagation *)

\* The labels behind mark_job_running, hold_job or record_job_failure.
Documented == {"running", "started", "counted", "ledgered", "output",
               "published", "settled"}

(***************************************************************************)
(* The invariant behind append-before-forward.  A thread that will publish *)
(* has logged its output; a thread past its first state write, and so past *)
(* everything it can log or acknowledge, left a document.                  *)
(***************************************************************************)
OutputIsLogged ==
    \A w \in Worker :
        pc[w] \in {"output", "published"} => Logged(delivered[w], StageOf(w))

WorkIsDocumented ==
    \A w \in Worker :
        pc[w] \in Documented => HasDocument(delivered[w], StageOf(w))

FlowInv ==
    /\ OutputIsLogged
    /\ WorkIsDocumented
    /\ AppendBeforeForward
    /\ LogHasNoGap

\* A requeued delivery puts its own job into its own queue.
LEMMA RequeueEffect ==
    ASSUME TypeOK, NEW w \in Worker, pc[w] \in Busy, Requeue(w),
           NEW j \in Job, NEW q \in Queue
    PROVE  /\ ready'[<<q, j>>] > 0
                => ready[<<q, j>>] > 0 \/ (delivered[w] = j /\ StageOf(w) = q)
           /\ ready[<<q, j>>] > 0 => ready'[<<q, j>>] > 0
           /\ connected[w] /\ delivered[w] = j /\ StageOf(w) = q
                => ready'[<<q, j>>] > 0
<1>1. delivered[w] \in Job /\ StageInputQueue(StageOf(w)) \in Queue
  BY StageOfType, StageQueues DEF TypeOK, WorkerTypeOK
<1>2. ready[<<q, j>>] \in Nat
  BY DEF TypeOK, BrokerTypeOK
<1>3. CASE connected[w]
  BY <1>1, <1>2, <1>3
     DEF Requeue, Enqueue, TypeOK, BrokerTypeOK, StageInputQueue
<1>4. CASE ~connected[w]
  BY <1>4 DEF Requeue
<1>. QED  BY <1>3, <1>4

\* Publishing to a queue.
LEMMA EnqueueEffect ==
    ASSUME TypeOK, NEW p \in Queue, NEW i \in Job, Enqueue(p, i),
           NEW j \in Job, NEW q \in Queue
    PROVE  /\ ready'[<<q, j>>] > 0 => ready[<<q, j>>] > 0 \/ (i = j /\ p = q)
           /\ ready[<<q, j>>] > 0 => ready'[<<q, j>>] > 0
           /\ i = j /\ p = q => ready'[<<q, j>>] > 0
<1>1. ready[<<q, j>>] \in Nat
  BY DEF TypeOK, BrokerTypeOK
<1>. QED  BY <1>1 DEF Enqueue, TypeOK, BrokerTypeOK

\* A write of one document creates at most that document, and keeps all.
LEMMA UpsertEffect ==
    ASSUME TypeOK, NEW i \in Job, NEW r \in Stage,
           NEW status \in JobStateStatus, UpsertJobState(i, r, status),
           NEW j \in Job, NEW s \in Stage
    PROVE  /\ HasDocument(j, s)' <=> HasDocument(j, s) \/ (i = j /\ r = s)
           /\ StatusOf(j, s)' = IF i = j /\ r = s THEN status
                                                ELSE StatusOf(j, s)
BY DEF UpsertJobState, HasDocument, StatusOf, TypeOK, StoreTypeOK, JobState,
       JobStateStatus

LEMMA UpsertFailureEffect ==
    ASSUME TypeOK, NEW i \in Job, NEW r \in Stage, NEW n \in Nat,
           UpsertFailure(i, r, n), NEW j \in Job, NEW s \in Stage
    PROVE  /\ HasDocument(j, s)' <=> HasDocument(j, s) \/ (i = j /\ r = s)
           /\ StatusOf(j, s)' = IF i = j /\ r = s THEN AttemptAction(n)
                                                ELSE StatusOf(j, s)
BY DEF UpsertFailure, HasDocument, StatusOf, TypeOK, StoreTypeOK, JobState,
       AttemptAction

\* The delivery of a busy thread.
LEMMA DeliveryType ==
    ASSUME TypeOK, NEW w \in Worker, pc[w] \in Busy
    PROVE  delivered[w] \in Job /\ StageOf(w) \in Stage
BY StageOfType DEF TypeOK, WorkerTypeOK

\* Documents are never deleted, the event log only grows, and a new event
\* is the output of the thread that logs it.
LEMMA StoreGrows ==
    ASSUME TypeOK, [Next]_vars, NEW j \in Job, NEW s \in Stage
    PROVE  /\ HasDocument(j, s) => HasDocument(j, s)'
           /\ Logged(j, s) => Logged(j, s)'
<1>. USE DEF HasDocument, StatusOf, Logged
<1>1. ASSUME NEW w \in Worker, WorkerStep(w)
      PROVE  /\ HasDocument(j, s) => HasDocument(j, s)'
             /\ Logged(j, s) => Logged(j, s)'
  <2>1. ASSUME NEW from \in Busy, NEW to \in Busy,
               NEW status \in JobStateStatus, WriteState(w, from, to, status)
        PROVE  /\ HasDocument(j, s) => HasDocument(j, s)'
               /\ Logged(j, s) => Logged(j, s)'
    BY <2>1, DeliveryType, UpsertEffect DEF WriteState, At
  <2>2. ASSUME NEW from, NEW to, NEW kind, WriteEvent(w, from, to, kind)
        PROVE  /\ HasDocument(j, s) => HasDocument(j, s)'
               /\ Logged(j, s) => Logged(j, s)'
    BY <2>2 DEF WriteEvent, AppendEvent
  <2>3. ASSUME RecordFailure(w)
        PROVE  /\ HasDocument(j, s) => HasDocument(j, s)'
               /\ Logged(j, s) => Logged(j, s)'
    <3>1. delivered[w] \in Job /\ StageOf(w) \in Stage
      BY <2>3, DeliveryType DEF RecordFailure, At, Busy
    <3>2. attemptNumber[w] \in Nat
      BY DEF TypeOK, WorkerTypeOK
    <3>. QED  BY <2>3, <3>1, <3>2, UpsertFailureEffect DEF RecordFailure
  <2>4. CASE HoldJob(w) \/ MarkRunning(w) \/ MarkCompleted(w)
    BY <2>1, <2>4 DEF HoldJob, MarkRunning, MarkCompleted, Busy,
                      JobStateStatus
  <2>5. CASE AppendStarted(w) \/ AppendOutput(w)
    BY <2>2, <2>5 DEF AppendStarted, AppendOutput
  <2>6. ASSUME UNCHANGED <<jobStates, events>>
        PROVE  /\ HasDocument(j, s) => HasDocument(j, s)'
               /\ Logged(j, s) => Logged(j, s)'
    BY <2>6
  <2>. QED
    BY <1>1, <2>3, <2>4, <2>5, <2>6
       DEF WorkerStep, NackOnStop, CheckHold, CountAttempts,
           InsertJobAttempt, Publish, PublishLost, Ack, ConnectionError,
           LeaveLoop, storeVars
<1>2. ASSUME NEW o \in Operator, NEW js \in toMark[o], MarkPending(o, js)
      PROVE  /\ HasDocument(j, s) => HasDocument(j, s)'
             /\ Logged(j, s) => Logged(j, s)'
  <2>1. js[1] \in Job /\ js[2] \in Stage
    BY DEF TypeOK, OperatorTypeOK
  <2>. QED  BY <1>2, <2>1, UpsertEffect DEF MarkPending, JobStateStatus
<1>3. ASSUME UNCHANGED <<jobStates, events>>
      PROVE  /\ HasDocument(j, s) => HasDocument(j, s)'
             /\ Logged(j, s) => Logged(j, s)'
  BY <1>3
<1>4. CASE WorkerNext
  BY <1>1, <1>3, <1>4 DEF WorkerNext, Deliver, Crash, DropConnection,
                          StopPool, StartPool, storeVars
<1>5. CASE OperatorNext
  BY <1>2, <1>3, <1>5
     DEF OperatorNext, OperatorStep, CheckSeedBatch, CreateSeedBatch,
         CloseSeedBatch, ReadReplayable, PublishPending, Abort, Kill, Hold,
         ReleaseHold, storeVars
<1>6. CASE UNCHANGED vars
  BY <1>3, <1>6 DEF vars, storeVars
<1>. QED  BY <1>4, <1>5, <1>6 DEF Next

\* A thread that moves to a documented label does so by writing a document,
\* or it was at one before.
LEMMA DocumentedStep ==
    ASSUME TypeOK, FlowInv, [Next]_vars
    PROVE  WorkIsDocumented' /\ OutputIsLogged'
<1>. DEFINE Doc(v) == pc[v] \in Documented
                        => HasDocument(delivered[v], StageOf(v))
            Out(v) == pc[v] \in {"output", "published"}
                        => Logged(delivered[v], StageOf(v))
<1>0. \A v \in Worker : StageOf(v)' = StageOf(v)
  BY DEF StageOf
\* Threads that do not move keep what they have.
<1>1. ASSUME NEW v \in Worker, pc'[v] = pc[v], delivered'[v] = delivered[v]
      PROVE  Doc(v)' /\ Out(v)'
  <2>1. CASE pc[v] \in Busy
    <3>1. PICK j \in Job, s \in Stage : delivered[v] = j /\ StageOf(v) = s
      BY <2>1, DeliveryType
    <3>2. Doc(v) /\ Out(v)
      BY DEF FlowInv, WorkIsDocumented, OutputIsLogged
    <3>3. delivered'[v] = j /\ StageOf(v)' = s
      BY <1>0, <1>1, <3>1
    <3>4. /\ HasDocument(j, s) => HasDocument(j, s)'
          /\ Logged(j, s) => Logged(j, s)'
      BY StoreGrows
    <3>. QED
      BY <1>1, <3>1, <3>2, <3>3, <3>4 DEF HasDocument, StatusOf, Logged
  <2>2. CASE pc[v] \notin Busy
    BY <1>1, <2>2 DEF Busy, Documented
  <2>. QED  BY <2>1, <2>2
<1>2. ASSUME NEW v \in Worker,
             pc'[v] \notin Documented
      PROVE  Doc(v)' /\ Out(v)'
  BY <1>2 DEF Documented
<1>3. ASSUME NEW w \in Worker, WorkerStep(w), NEW v \in Worker
      PROVE  Doc(v)' /\ Out(v)'
  <2>1. CASE v # w
    <3>1. pc'[v] = pc[v] /\ delivered'[v] = delivered[v]
      BY <1>3, <2>1
         DEF WorkerStep, NackOnStop, CheckHold, HoldJob, MarkRunning,
             AppendStarted, AppendOutput, CountAttempts, InsertJobAttempt,
             RecordFailure, Publish, PublishLost, MarkCompleted, Ack,
             ConnectionError, LeaveLoop, WriteState, WriteEvent, Goto,
             Release, KeepDelivery, TypeOK, WorkerTypeOK
    <3>. QED  BY <1>1, <3>1
  <2>2. CASE v = w
    <3>1. CASE pc[w] \notin Busy
      BY <1>2, <1>3, <2>2, <3>1
         DEF WorkerStep, NackOnStop, CheckHold, HoldJob, MarkRunning,
             AppendStarted, AppendOutput, CountAttempts, InsertJobAttempt,
             RecordFailure, Publish, PublishLost, MarkCompleted, Ack,
             ConnectionError, LeaveLoop, WriteState, WriteEvent, At, Goto,
             Release, Busy, Documented, TypeOK, WorkerTypeOK
    <3>2. CASE pc[w] \in Busy
      <4>1. PICK j \in Job, s \in Stage : delivered[w] = j /\ StageOf(w) = s
        BY <3>2, DeliveryType
      <4>2. ASSUME HasDocument(j, s)', delivered' = delivered,
                   pc'[w] \in {"output", "published"} => Logged(j, s)'
            PROVE  Doc(v)' /\ Out(v)'
        <5>1. delivered'[v] = j /\ StageOf(v)' = s
          BY <1>0, <2>2, <4>1, <4>2
        <5>. QED
          BY <2>2, <4>2, <5>1 DEF HasDocument, StatusOf, Logged
      \* Steps that write the document of the delivery.
      <4>3. ASSUME NEW from \in Busy,
                   NEW to \in Documented \ {"output", "published"},
                   NEW status \in JobStateStatus,
                   WriteState(w, from, to, status)
            PROVE  Doc(v)' /\ Out(v)'
        <5>1. HasDocument(j, s)'
          BY <4>1, <4>3, UpsertEffect DEF WriteState
        <5>2. delivered' = delivered /\ pc'[w] = to
          BY <4>3 DEF WriteState, KeepDelivery, Goto, TypeOK, WorkerTypeOK
        <5>. QED  BY <4>2, <5>1, <5>2
      <4>4. CASE RecordFailure(w)
        <5>1. HasDocument(j, s)'
          BY <4>1, <4>4, UpsertFailureEffect
             DEF RecordFailure, TypeOK, WorkerTypeOK
        <5>2. delivered' = delivered /\ pc'[w] = "settled"
          BY <4>4 DEF RecordFailure, KeepDelivery, Goto, TypeOK, WorkerTypeOK
        <5>. QED  BY <4>2, <5>1, <5>2
      \* Steps from one documented label to another.
      <4>5. ASSUME NEW from \in Documented, NEW to \in Documented,
                   At(w, from), Goto(w, to), delivered' = delivered,
                   to \in {"output", "published"} => Logged(j, s)'
            PROVE  Doc(v)' /\ Out(v)'
        <5>1. HasDocument(j, s)
          BY <4>1, <4>5 DEF At, FlowInv, WorkIsDocumented
        <5>2. HasDocument(j, s)' /\ pc'[w] = to
          BY <4>5, <5>1, StoreGrows DEF Goto, TypeOK, WorkerTypeOK
        <5>. QED  BY <4>2, <4>5, <5>2
      <4>6. CASE AppendStarted(w)
        BY <4>5, <4>6 DEF AppendStarted, WriteEvent, KeepDelivery, Documented
      <4>7. CASE AppendOutput(w)
        <5>1. Logged(j, s)'
          BY <4>1, <4>7 DEF AppendOutput, WriteEvent, AppendEvent, Logged
        <5>. QED
          BY <4>5, <4>7, <5>1
             DEF AppendOutput, WriteEvent, KeepDelivery, Documented
      <4>8. CASE CountAttempts(w)
        BY <4>5, <4>8 DEF CountAttempts, Documented
      <4>9. CASE InsertJobAttempt(w)
        BY <4>5, <4>9 DEF InsertJobAttempt, KeepDelivery, Documented
      <4>10. CASE Publish(w) \/ PublishLost(w)
        <5>1. /\ At(w, "output") /\ Goto(w, "published")
              /\ delivered' = delivered
          BY <4>10 DEF Publish, PublishLost, KeepDelivery
        <5>2. Logged(j, s)
          BY <4>1, <5>1 DEF At, FlowInv, OutputIsLogged
        <5>. QED  BY <4>5, <5>1, <5>2, StoreGrows DEF Documented
      <4>11. CASE HoldJob(w) \/ MarkRunning(w) \/ MarkCompleted(w)
        BY <4>3, <4>11 DEF HoldJob, MarkRunning, MarkCompleted, Busy,
                           Documented, JobStateStatus
      <4>12. CASE NackOnStop(w) \/ CheckHold(w) \/ Ack(w)
                  \/ ConnectionError(w) \/ LeaveLoop(w)
        BY <1>2, <2>2, <4>12
           DEF NackOnStop, CheckHold, Ack, ConnectionError, LeaveLoop, Goto,
               Release, TypeOK, WorkerTypeOK, Documented
      <4>. QED
        BY <1>3, <4>4, <4>6, <4>7, <4>8, <4>9, <4>10, <4>11, <4>12
           DEF WorkerStep
    <3>. QED  BY <3>1, <3>2
  <2>. QED  BY <2>1, <2>2
<1>4. ASSUME WorkerNext, NEW v \in Worker
      PROVE  Doc(v)' /\ Out(v)'
  <2>1. ASSUME NEW w \in Worker, NEW j \in Job, Deliver(w, j)
        PROVE  Doc(v)' /\ Out(v)'
    BY <1>1, <1>2, <2>1
       DEF Deliver, Goto, Documented, TypeOK, WorkerTypeOK
  <2>2. ASSUME NEW w \in Worker, Crash(w)
        PROVE  Doc(v)' /\ Out(v)'
    BY <1>1, <1>2, <2>2
       DEF Crash, Release, Goto, Documented, TypeOK, WorkerTypeOK
  <2>3. ASSUME NEW w \in Worker, DropConnection(w)
        PROVE  Doc(v)' /\ Out(v)'
    BY <1>1, <2>3 DEF DropConnection
  <2>4. ASSUME NEW p \in Pool, StopPool(p) \/ StartPool(p)
        PROVE  Doc(v)' /\ Out(v)'
    BY <1>1, <1>2, <2>4
       DEF StopPool, StartPool, KeepDelivery, Documented, TypeOK,
           WorkerTypeOK
  <2>. QED  BY <1>3, <1>4, <2>1, <2>2, <2>3, <2>4 DEF WorkerNext
<1>5. ASSUME UNCHANGED workerVars, NEW v \in Worker
      PROVE  Doc(v)' /\ Out(v)'
  BY <1>1, <1>5 DEF workerVars
<1>6. \A v \in Worker : Doc(v)' /\ Out(v)'
  BY <1>4, <1>5 DEF Next, vars
<1>. QED
  BY <1>6 DEF WorkIsDocumented, OutputIsLogged

\* What comes into being at a queue beyond the first was there before in
\* another form, or it was published by a thread that had logged its output.
LEMMA TouchedStep ==
    ASSUME TypeOK, FlowInv, [Next]_vars, NEW j \in Job, NEW s \in Stage,
           Touched(j, s + 1)'
    PROVE  Touched(j, s + 1) \/ Logged(j, s)
<1>. DEFINE q == s + 1
            Held == \E w \in Worker : delivered[w] = j /\ StageOf(w) = q
            Queued == ready[<<q, j>>] > 0
            Filed == q \in Stage /\ HasDocument(j, q)
            Commanded == \E o \in Operator :
                            <<j, q>> \in toMark[o] \cup inHand[o]
<1>0. /\ q \in Queue /\ q # 1
      /\ \A w \in Worker : StageOf(w)' = StageOf(w)
  BY ManifestAssumption DEF Stage, Queue, StageOf
<1>1. Touched(j, q) <=> Held \/ Queued \/ Filed \/ Commanded
  BY DEF Touched, Reached, Unacked
<1>2. Touched(j, q)' <=> Held' \/ Queued' \/ Filed' \/ Commanded'
  BY DEF Touched, Reached, Unacked
<1>. HIDE DEF Held, Queued, Filed, Commanded
\* A step that writes one document, of a delivery or of a command.
<1>3. ASSUME NEW i \in Job, NEW r \in Stage, NEW status \in JobStateStatus,
             UpsertJobState(i, r, status), Filed'
      PROVE  Filed \/ (i = j /\ r = q)
  BY <1>3, UpsertEffect DEF Filed
<1>4. ASSUME NEW w \in Worker, pc[w] \in Busy, delivered[w] = j,
             StageOf(w) = q
      PROVE  Held
  BY <1>4 DEF Held
<1>5. ASSUME UNCHANGED delivered, Held'
      PROVE  Held
  BY <1>0, <1>5 DEF Held
<1>6. ASSUME NEW w \in Worker, WorkerStep(w), UNCHANGED operatorVars
      PROVE  Held \/ Queued \/ Filed \/ Commanded \/ Logged(j, s)
  <2>1. Commanded' => Commanded
    BY <1>6 DEF operatorVars, Commanded
  <2>2. ASSUME Held' PROVE Held
    <3>1. \A v \in Worker : delivered'[v] \in {delivered[v], NoJob}
      BY <1>6 DEF WorkerStep, NackOnStop, CheckHold, HoldJob, MarkRunning,
             AppendStarted, AppendOutput, CountAttempts, InsertJobAttempt,
             RecordFailure, Publish, PublishLost, MarkCompleted, Ack,
             ConnectionError, LeaveLoop, WriteState, WriteEvent,
             Release, KeepDelivery, TypeOK, WorkerTypeOK
    <3>. QED  BY <1>0, <2>2, <3>1, ExecutionAssumption DEF Held
  <2>3. ASSUME Filed' PROVE Filed \/ Held
    <3>1. ASSUME NEW from \in Busy, NEW to, NEW status \in JobStateStatus,
                 WriteState(w, from, to, status)
          PROVE  Filed \/ Held
      BY <1>3, <1>4, <2>3, <3>1, DeliveryType DEF WriteState, At
    <3>2. CASE HoldJob(w) \/ MarkRunning(w) \/ MarkCompleted(w)
      BY <3>1, <3>2 DEF HoldJob, MarkRunning, MarkCompleted, Busy,
                        JobStateStatus
    <3>3. CASE RecordFailure(w)
      <4>1. pc[w] \in Busy /\ attemptNumber[w] \in Nat
        BY <3>3 DEF RecordFailure, At, Busy, TypeOK, WorkerTypeOK
      <4>. QED
        BY <1>4, <2>3, <3>3, <4>1, DeliveryType, UpsertFailureEffect
           DEF RecordFailure, Filed
    <3>4. CASE UNCHANGED jobStates
      BY <2>3, <3>4 DEF Filed, HasDocument, StatusOf
    <3>. QED
      BY <1>6, <3>2, <3>3, <3>4
         DEF WorkerStep, NackOnStop, CheckHold, AppendStarted, AppendOutput,
             CountAttempts, InsertJobAttempt, Publish, PublishLost, Ack,
             ConnectionError, LeaveLoop, WriteEvent, storeVars
  <2>4. ASSUME Queued' PROVE Queued \/ Held \/ Logged(j, s)
    <3>1. CASE NackOnStop(w)
      BY <1>0, <1>4, <2>4, <3>1, RequeueEffect
         DEF NackOnStop, At, Busy, Queued
    <3>2. CASE Publish(w)
      <4>1. /\ delivered[w] \in Job /\ StageOf(w) \in Stage
            /\ Logged(delivered[w], StageOf(w))
        BY <3>2, DeliveryType
           DEF Publish, At, Busy, FlowInv, OutputIsLogged
      <4>2. Queued \/ (delivered[w] = j /\ StageOf(w) + 1 = q)
        BY <1>0, <2>4, <3>2, <4>1, StageQueues, EnqueueEffect
           DEF Publish, Queued, StageOutputQueue
      <4>. QED  BY <4>1, <4>2, ManifestAssumption DEF Stage
    <3>3. CASE UNCHANGED ready
      BY <2>4, <3>3 DEF Queued
    <3>. QED
      BY <1>6, <3>1, <3>2, <3>3
         DEF WorkerStep, CheckHold, HoldJob, MarkRunning, AppendStarted,
             AppendOutput, CountAttempts, InsertJobAttempt, RecordFailure,
             PublishLost, MarkCompleted, Ack, ConnectionError, LeaveLoop,
             WriteState, WriteEvent
  <2>. QED  BY <1>2, <2>1, <2>2, <2>3, <2>4
<1>7. ASSUME WorkerNext, UNCHANGED operatorVars
      PROVE  Held \/ Queued \/ Filed \/ Commanded \/ Logged(j, s)
  <2>1. Commanded' => Commanded
    BY <1>7 DEF operatorVars, Commanded
  <2>2. ASSUME NEW w \in Worker, NEW i \in Job, Deliver(w, i)
        PROVE  Held \/ Queued \/ Filed \/ Commanded
    <3>1. Held' => Held \/ Queued
      BY <1>0, <2>2
         DEF Deliver, Dequeue, StageInputQueue, Held, Queued, TypeOK,
             WorkerTypeOK
    <3>2. Queued' => Queued
      BY <1>0, <2>2, StageOfType, StageQueues
         DEF Deliver, Dequeue, StageInputQueue, Queued, TypeOK, BrokerTypeOK
    <3>3. Filed' => Filed
      BY <2>2 DEF Deliver, storeVars, Filed, HasDocument, StatusOf
    <3>. QED  BY <1>2, <2>1, <3>1, <3>2, <3>3
  <2>3. ASSUME NEW w \in Worker, Crash(w) \/ DropConnection(w)
        PROVE  Held \/ Queued \/ Filed \/ Commanded
    <3>1. Held' => Held
      BY <1>0, <2>3, ExecutionAssumption
         DEF Crash, DropConnection, Release, Held, TypeOK, WorkerTypeOK
    <3>2. Queued' => Queued \/ Held
      BY <1>0, <1>4, <2>3, RequeueEffect DEF Crash, DropConnection, Queued
    <3>3. Filed' => Filed
      BY <2>3 DEF Crash, DropConnection, storeVars, Filed, HasDocument,
                  StatusOf
    <3>. QED  BY <1>2, <2>1, <3>1, <3>2, <3>3
  <2>4. ASSUME NEW p \in Pool, StopPool(p) \/ StartPool(p)
        PROVE  Held \/ Queued \/ Filed \/ Commanded
    <3>1. (Held' => Held) /\ (Queued' => Queued) /\ (Filed' => Filed)
      BY <1>5, <2>4 DEF StopPool, StartPool, KeepDelivery, storeVars, Queued,
                        Filed, HasDocument, StatusOf
    <3>. QED  BY <1>2, <2>1, <3>1
  <2>. QED  BY <1>6, <1>7, <2>2, <2>3, <2>4 DEF WorkerNext
<1>8. ASSUME OperatorNext, UNCHANGED workerVars
      PROVE  Held \/ Queued \/ Filed \/ Commanded
  <2>1. Held' => Held
    BY <1>5, <1>8 DEF workerVars
  <2>2. ASSUME NEW o \in Operator, NEW js \in toMark[o], MarkPending(o, js)
        PROVE  (Queued' => Queued) /\ (Filed' \/ Commanded' => Filed \/ Commanded)
    <3>1. js \in Job \X Stage
      BY DEF TypeOK, OperatorTypeOK
    <3>2. Filed' => Filed \/ Commanded
      <4>1. js = <<js[1], js[2]>> /\ js[1] \in Job /\ js[2] \in Stage
        BY <3>1
      <4>2. Filed' => Filed \/ (js[1] = j /\ js[2] = q)
        BY <1>3, <2>2, <4>1 DEF MarkPending, JobStateStatus
      <4>. QED  BY <4>1, <4>2 DEF Commanded
    <3>3. Commanded' => Commanded
      BY <2>2 DEF MarkPending, Commanded, TypeOK, OperatorTypeOK
    <3>. QED  BY <2>2, <3>2, <3>3 DEF MarkPending, Queued
  <2>3. ASSUME NEW o \in Operator, NEW js \in inHand[o],
               PublishPending(o, js)
        PROVE  (Queued' => Queued \/ Commanded) /\ (Filed' => Filed)
                 /\ (Commanded' => Commanded)
    <3>1. js \in Job \X Stage
      BY DEF TypeOK, OperatorTypeOK
    <3>2. Queued' => Queued \/ Commanded
      <4>1. js = <<js[1], js[2]>> /\ js[1] \in Job /\ js[2] \in Stage
        BY <3>1
      <4>2. Queued' => Queued \/ (js[1] = j /\ js[2] = q)
        BY <1>0, <2>3, <4>1, StageQueues, EnqueueEffect
           DEF PublishPending, StageInputQueue, Queued
      <4>. QED  BY <4>1, <4>2 DEF Commanded
    <3>3. Commanded' => Commanded
      BY <2>3 DEF PublishPending, Commanded, TypeOK, OperatorTypeOK
    <3>. QED
      BY <2>3, <3>2, <3>3
         DEF PublishPending, storeVars, Filed, HasDocument, StatusOf
  <2>4. ASSUME NEW o \in Operator, NEW jobs \in SUBSET Job,
               CheckSeedBatch(o, jobs)
        PROVE  (Queued' => Queued) /\ (Filed' => Filed)
                 /\ (Commanded' => Commanded)
    BY <1>0, <2>4
       DEF CheckSeedBatch, FirstStage, storeVars, Queued, Filed, HasDocument,
           StatusOf, Commanded, TypeOK, OperatorTypeOK
  <2>5. ASSUME NEW o \in Operator, NEW statuses \in ReplaySelections,
               ReadReplayable(o, statuses)
        PROVE  (Queued' => Queued) /\ (Filed' => Filed)
                 /\ (Commanded' => Commanded \/ Filed)
    <3>1. \A x \in StatesIn(statuses) :
             x \in Job \X Stage /\ HasDocument(x[1], x[2])
      BY EligibilityAssumption
         DEF StatesIn, HasDocument, StatusOf, JobStateStatus
    <3>2. Commanded' => Commanded \/ Filed
      BY <2>5, <3>1
         DEF ReadReplayable, Commanded, Filed, TypeOK, OperatorTypeOK
    <3>. QED
      BY <2>5, <3>2
         DEF ReadReplayable, storeVars, Queued, Filed, HasDocument, StatusOf
  <2>6. ASSUME NEW o \in Operator,
               CreateSeedBatch(o) \/ CloseSeedBatch(o) \/ Abort(o) \/ Kill(o)
        PROVE  (Queued' => Queued) /\ (Filed' => Filed)
                 /\ (Commanded' => Commanded)
    BY <2>6
       DEF CreateSeedBatch, CloseSeedBatch, Abort, Kill, EndCommand,
           storeVars, Queued, Filed, HasDocument, StatusOf, Commanded,
           TypeOK, OperatorTypeOK
  <2>7. ASSUME NEW x \in Target, Hold(x) \/ ReleaseHold(x)
        PROVE  (Queued' => Queued) /\ (Filed' => Filed)
                 /\ (Commanded' => Commanded)
    BY <2>7 DEF Hold, ReleaseHold, operatorVars, Queued, Filed, HasDocument,
                StatusOf, Commanded
  <2>. QED
    BY <1>2, <1>8, <2>1, <2>2, <2>3, <2>4, <2>5, <2>6, <2>7
       DEF OperatorNext, OperatorStep
<1>9. ASSUME UNCHANGED vars
      PROVE  Held \/ Queued \/ Filed \/ Commanded
  BY <1>2, <1>5, <1>9
     DEF vars, storeVars, workerVars, operatorVars, Queued, Filed,
         HasDocument, StatusOf, Commanded
<1>. QED  BY <1>1, <1>7, <1>8, <1>9 DEF Next

LEMMA FlowNext ==
    ASSUME TypeOK, FlowInv, [Next]_vars
    PROVE  FlowInv'
<1>1. WorkIsDocumented' /\ OutputIsLogged'
  BY DocumentedStep
<1>2. AppendBeforeForward'
  <2>. SUFFICES ASSUME NEW j \in Job, NEW s \in Stage, Touched(j, s + 1)'
                PROVE  Logged(j, s)'
    BY DEF AppendBeforeForward
  <2>1. Logged(j, s)
    BY TouchedStep DEF FlowInv, AppendBeforeForward
  <2>. QED  BY <2>1, StoreGrows
<1>3. LogHasNoGap'
  <2>. SUFFICES ASSUME NEW j \in Job, NEW s \in Stage, s + 1 \in Stage,
                       Logged(j, s + 1)'
                PROVE  Logged(j, s)'
    BY DEF LogHasNoGap
  <2>1. CASE Logged(j, s + 1)
    BY <2>1, StoreGrows DEF FlowInv, LogHasNoGap
  \* A new output comes from a thread that works on the job's next stage.
  <2>2. CASE ~Logged(j, s + 1)
    <3>1. events' # events
      BY <2>2 DEF Logged
    <3>2. PICK w \in Worker : AppendOutput(w) \/ AppendStarted(w)
      BY <3>1
         DEF Next, vars, WorkerNext, WorkerStep, OperatorNext, OperatorStep,
             Deliver, Crash, DropConnection, StopPool, StartPool, NackOnStop,
             CheckHold, HoldJob, MarkRunning, CountAttempts,
             InsertJobAttempt, RecordFailure, Publish, PublishLost,
             MarkCompleted, Ack, ConnectionError, LeaveLoop, WriteState,
             CheckSeedBatch, CreateSeedBatch, CloseSeedBatch, ReadReplayable,
             MarkPending, PublishPending, Abort, Kill, Hold, ReleaseHold,
             storeVars
    <3>3. delivered[w] = j /\ StageOf(w) = s + 1
      BY <2>2, <3>2
         DEF AppendOutput, AppendStarted, WriteEvent, AppendEvent, Logged
    <3>4. Touched(j, s + 1)
      BY <3>3 DEF Touched
    <3>. QED  BY <3>4, StoreGrows DEF FlowInv, AppendBeforeForward
  <2>. QED  BY <2>1, <2>2
<1>. QED  BY <1>1, <1>2, <1>3 DEF FlowInv

LEMMA FlowInvariant == Spec => []FlowInv
<1>1. Init => FlowInv
  <2>. SUFFICES ASSUME Init PROVE FlowInv
    OBVIOUS
  <2>1. \A j \in Job, s \in Stage : ~Touched(j, s + 1) /\ ~Logged(j, s)
    BY ManifestAssumption, ExecutionAssumption
       DEF Init, StoreInit, BrokerInit, WorkerInit, OperatorInit, Touched,
           Reached, Unacked, HasDocument, StatusOf, Logged, Stage, Queue,
           Busy
  <2>2. \A w \in Worker : pc[w] = "idle"
    BY DEF Init, WorkerInit
  <2>. QED
    BY <2>1, <2>2 DEF FlowInv, OutputIsLogged, WorkIsDocumented, Documented,
                      AppendBeforeForward, LogHasNoGap
<1>2. TypeOK /\ FlowInv /\ [Next]_vars => FlowInv'
  BY FlowNext
<1>. QED  BY <1>1, <1>2, TypeCorrect, PTL DEF Spec

(***************************************************************************)
(* README.md's append-before-forward invariant, for every pipeline length, *)
(* number of workers and fault, silently lost publishes included.          *)
(***************************************************************************)
THEOREM AppendsPrecedeForwards == Spec => []AppendBeforeForward
BY FlowInvariant, PTL DEF FlowInv

(***************************************************************************)
(* The outputs of a job are logged in stage order, without a gap.          *)
(***************************************************************************)
THEOREM LogIsPrefixClosed == Spec => []LogHasNoGap
BY FlowInvariant, PTL DEF FlowInv

-----------------------------------------------------------------------------
(* Refinement of WriteAheadFlow *)

\* A trace may appear at the first queue, or behind a logged output.
Justified(i, r) == r = 1 \/ (r - 1 \in Stage /\ Logged(i, r - 1))

LogUnchanged == \A j \in Job, s \in Stage : Logged(j, s)' <=> Logged(j, s)

TracesUnchanged ==
    \A j \in Job, q \in Queue : Reached(j, q)' <=> Reached(j, q)

TraceAppears(i, r) ==
    /\ Justified(i, r)
    /\ \A j \in Job, q \in Queue :
          Reached(j, q)' <=> Reached(j, q) \/ (j = i /\ q = r)

OutputAppears(i, r) ==
    /\ Reached(i, r)
    /\ \A j \in Job, s \in Stage :
          Logged(j, s)' <=> Logged(j, s) \/ (j = i /\ s = r)

FlowStep ==
    \/ LogUnchanged /\ TracesUnchanged
    \/ LogUnchanged /\ \E i \in Job, r \in Queue : TraceAppears(i, r)
    \/ TracesUnchanged /\ \E i \in Job, r \in Stage : OutputAppears(i, r)

LEMMA TouchedIsJustified ==
    ASSUME FlowInv, NEW i \in Job, NEW r \in Queue, Touched(i, r)
    PROVE  Justified(i, r)
<1>1. CASE r = 1
  BY <1>1 DEF Justified
<1>2. CASE r # 1
  <2>1. r - 1 \in Stage /\ (r - 1) + 1 = r
    BY <1>2, ManifestAssumption DEF Stage, Queue
  <2>. QED  BY <2>1 DEF Justified, FlowInv, AppendBeforeForward
<1>. QED  BY <1>1, <1>2

\* A thread that stays busy on the same delivery and connection holds the
\* same traces; one that holds none before and after does not matter.
LEMMA UnackedKept ==
    ASSUME NEW w \in Worker, NEW j, NEW q,
           \/ /\ pc[w] \in Busy /\ pc'[w] \in Busy
              /\ delivered'[w] = delivered[w] /\ connected'[w] = connected[w]
           \/ /\ pc[w] \notin Busy \/ ~connected[w]
              /\ pc'[w] \notin Busy \/ ~connected'[w]
           \/ /\ pc'[w] = pc[w] /\ delivered'[w] = delivered[w]
              /\ connected'[w] = connected[w]
    PROVE  Unacked(w, j, q)' <=> Unacked(w, j, q)
BY DEF Unacked, StageOf

\* Steps that change neither queue nor document nor any live delivery.
LEMMA QuietStep ==
    ASSUME UNCHANGED <<ready, jobStates, events>>,
           \A w \in Worker, j \in Job, q \in Queue :
              Unacked(w, j, q)' <=> Unacked(w, j, q)
    PROVE  FlowStep
BY DEF FlowStep, LogUnchanged, TracesUnchanged, Reached, HasDocument,
       StatusOf, Logged

\* A document written for a touched pair.
LEMMA DocumentStep ==
    ASSUME FlowInv, NEW i \in Job, NEW r \in Stage, Touched(i, r),
           UNCHANGED <<ready, events>>,
           \A w \in Worker, j \in Job, q \in Queue :
              Unacked(w, j, q)' <=> Unacked(w, j, q),
           \A j \in Job, s \in Stage :
              HasDocument(j, s)' <=> HasDocument(j, s) \/ (i = j /\ r = s)
    PROVE  FlowStep
<1>1. r \in Queue
  BY ManifestAssumption DEF Stage, Queue
<1>2. Justified(i, r)
  BY <1>1, TouchedIsJustified
<1>3. LogUnchanged
  BY DEF LogUnchanged, Logged
<1>4. TraceAppears(i, r)
  BY <1>2 DEF TraceAppears, Reached
<1>. QED  BY <1>1, <1>3, <1>4 DEF FlowStep

\* A message published for a justified pair.
LEMMA MessageStep ==
    ASSUME TypeOK, NEW i \in Job, NEW r \in Queue, Justified(i, r),
           Enqueue(r, i), UNCHANGED <<jobStates, events>>,
           \A w \in Worker, j \in Job, q \in Queue :
              Unacked(w, j, q)' <=> Unacked(w, j, q)
    PROVE  FlowStep
<1>1. LogUnchanged
  BY DEF LogUnchanged, Logged
<1>2. \A j \in Job, q \in Queue :
         ready'[<<q, j>>] > 0 <=> ready[<<q, j>>] > 0 \/ (i = j /\ r = q)
  BY EnqueueEffect
<1>3. TraceAppears(i, r)
  BY <1>2 DEF TraceAppears, Reached, HasDocument, StatusOf
<1>. QED  BY <1>1, <1>3 DEF FlowStep

\* A delivery that goes back to its queue.
LEMMA RequeueStep ==
    ASSUME TypeOK, NEW w \in Worker, pc[w] \in Busy, Requeue(w),
           UNCHANGED <<jobStates, events>>,
           \A v \in Worker, j \in Job, q \in Queue :
              v # w => (Unacked(v, j, q)' <=> Unacked(v, j, q)),
           \A j \in Job, q \in Queue : ~Unacked(w, j, q)'
    PROVE  FlowStep
<1>1. LogUnchanged
  BY DEF LogUnchanged, Logged
<1>2. ASSUME NEW j \in Job, NEW q \in Queue
      PROVE  Reached(j, q)' <=> Reached(j, q)
  <2>1. CASE Unacked(w, j, q)
    BY <2>1, RequeueEffect DEF Unacked, Reached
  <2>2. CASE ~Unacked(w, j, q)
    <3>1. ready'[<<q, j>>] > 0 <=> ready[<<q, j>>] > 0
      <4>1. CASE connected[w]
        BY <2>2, <4>1, RequeueEffect DEF Unacked
      <4>2. CASE ~connected[w]
        BY <4>2 DEF Requeue
      <4>. QED  BY <4>1, <4>2
    <3>2. (\E v \in Worker : Unacked(v, j, q))'
             <=> (\E v \in Worker : Unacked(v, j, q))
      BY <2>2
    <3>. QED  BY <3>1, <3>2 DEF Reached, HasDocument, StatusOf
  <2>. QED  BY <2>1, <2>2
<1>. QED  BY <1>1, <1>2 DEF FlowStep, TracesUnchanged

\* The threads other than w in a step of w.
LEMMA OthersKept ==
    ASSUME NEW w \in Worker, NEW v \in Worker, v # w, TypeOK,
           WorkerStep(w) \/ Crash(w) \/ DropConnection(w)
             \/ \E i \in Job : Deliver(w, i)
    PROVE  /\ pc'[v] = pc[v]
           /\ delivered'[v] = delivered[v]
           /\ connected'[v] = connected[v]
<1>1. CASE WorkerStep(w)
  BY <1>1
     DEF WorkerStep, NackOnStop, CheckHold, HoldJob, MarkRunning,
         AppendStarted, AppendOutput, CountAttempts, InsertJobAttempt,
         RecordFailure, Publish, PublishLost, MarkCompleted, Ack,
         ConnectionError, LeaveLoop, WriteState, WriteEvent, Goto, Release,
         KeepDelivery, TypeOK, WorkerTypeOK
<1>2. CASE ~WorkerStep(w)
  BY <1>2 DEF Crash, DropConnection, Deliver, Goto, Release, TypeOK,
              WorkerTypeOK
<1>. QED  BY <1>1, <1>2

LEMMA FlowWorkerStep ==
    ASSUME TypeOK, FlowInv, NEW w \in Worker, WorkerStep(w)
    PROVE  FlowStep
<1>1. ASSUME NEW v \in Worker, v # w, NEW j \in Job, NEW q \in Queue
      PROVE  Unacked(v, j, q)' <=> Unacked(v, j, q)
  BY <1>1, OthersKept, UnackedKept
\* Steps on which the thread keeps its delivery.
<1>2. ASSUME pc[w] \in Busy, NEW to \in Busy, Goto(w, to),
             UNCHANGED <<delivered, connected>>
      PROVE  \A v \in Worker, j \in Job, q \in Queue :
                Unacked(v, j, q)' <=> Unacked(v, j, q)
  <2>1. pc'[w] \in Busy
    BY <1>2 DEF Goto, TypeOK, WorkerTypeOK
  <2>2. \A j \in Job, q \in Queue : Unacked(w, j, q)' <=> Unacked(w, j, q)
    BY <1>2, <2>1, UnackedKept
  <2>. QED  BY <1>1, <2>2
<1>3. ASSUME pc[w] \in Busy
      PROVE  /\ delivered[w] \in Job /\ StageOf(w) \in Stage
             /\ Touched(delivered[w], StageOf(w))
  BY <1>3, DeliveryType DEF Touched
<1>4. ASSUME NEW from \in Busy, NEW to \in Busy,
             NEW status \in JobStateStatus, WriteState(w, from, to, status)
      PROVE  FlowStep
  <2>1. pc[w] \in Busy /\ UNCHANGED <<ready, events, delivered, connected>>
    BY <1>4 DEF WriteState, At, KeepDelivery
  <2>. QED
    BY <1>2, <1>3, <1>4, <2>1, UpsertEffect, DocumentStep DEF WriteState
<1>5. CASE HoldJob(w) \/ MarkRunning(w) \/ MarkCompleted(w)
  BY <1>4, <1>5 DEF HoldJob, MarkRunning, MarkCompleted, Busy, JobStateStatus
<1>6. CASE RecordFailure(w)
  <2>1. /\ pc[w] \in Busy /\ Goto(w, "settled") /\ "settled" \in Busy
        /\ UNCHANGED <<ready, events, delivered, connected>>
        /\ attemptNumber[w] \in Nat
    BY <1>6 DEF RecordFailure, At, Busy, KeepDelivery, TypeOK, WorkerTypeOK
  <2>. QED
    BY <1>2, <1>3, <1>6, <2>1, UpsertFailureEffect, DocumentStep
       DEF RecordFailure
<1>7. CASE CheckHold(w) \/ CountAttempts(w) \/ InsertJobAttempt(w)
             \/ PublishLost(w)
  <2>1. pc[w] \in Busy /\ \E to \in Busy : Goto(w, to)
    BY <1>7 DEF CheckHold, CountAttempts, InsertJobAttempt, PublishLost, At,
                Busy
  <2>2. UNCHANGED <<ready, jobStates, events, delivered, connected>>
    BY <1>7 DEF CheckHold, CountAttempts, InsertJobAttempt, PublishLost,
                KeepDelivery, storeVars
  <2>. QED  BY <1>2, <2>1, <2>2, QuietStep
<1>8. CASE AppendStarted(w)
  <2>1. pc[w] \in Busy /\ Goto(w, "started") /\ "started" \in Busy
    BY <1>8 DEF AppendStarted, WriteEvent, At, Busy
  <2>2. UNCHANGED <<ready, jobStates, delivered, connected>>
    BY <1>8 DEF AppendStarted, WriteEvent, KeepDelivery
  <2>3. LogUnchanged
    BY <1>8 DEF AppendStarted, WriteEvent, AppendEvent, LogUnchanged, Logged
  <2>. QED
    BY <1>2, <2>1, <2>2, <2>3
       DEF FlowStep, TracesUnchanged, Reached, HasDocument, StatusOf
<1>9. CASE AppendOutput(w)
  <2>1. pc[w] \in Busy /\ pc[w] \in Documented
        /\ Goto(w, "output") /\ "output" \in Busy
    BY <1>9 DEF AppendOutput, WriteEvent, At, Busy, Documented
  <2>2. UNCHANGED <<ready, jobStates, delivered, connected>>
    BY <1>9 DEF AppendOutput, WriteEvent, KeepDelivery
  <2>3. TracesUnchanged
    BY <1>2, <2>1, <2>2 DEF TracesUnchanged, Reached, HasDocument, StatusOf
  <2>4. OutputAppears(delivered[w], StageOf(w))
    BY <1>3, <1>9, <2>1
       DEF AppendOutput, WriteEvent, AppendEvent, OutputAppears, Logged,
           Reached, FlowInv, WorkIsDocumented
  <2>. QED  BY <1>3, <2>1, <2>3, <2>4 DEF FlowStep
<1>10. CASE Publish(w)
  <2>1. /\ pc[w] \in Busy /\ Goto(w, "published") /\ "published" \in Busy
        /\ UNCHANGED <<jobStates, events, delivered, connected>>
        /\ Logged(delivered[w], StageOf(w))
    BY <1>10 DEF Publish, At, Busy, KeepDelivery, storeVars, FlowInv,
                 OutputIsLogged
  <2>2. /\ StageOutputQueue(StageOf(w)) \in Queue
        /\ Justified(delivered[w], StageOutputQueue(StageOf(w)))
    BY <1>3, <2>1, StageQueues, ManifestAssumption
       DEF Justified, StageOutputQueue, Stage
  <2>. QED  BY <1>2, <1>3, <1>10, <2>1, <2>2, MessageStep DEF Publish
<1>11. CASE NackOnStop(w)
  <2>1. /\ pc[w] \in Busy /\ UNCHANGED <<jobStates, events>>
        /\ \A j \in Job, q \in Queue : ~Unacked(w, j, q)'
    BY <1>11 DEF NackOnStop, At, Busy, storeVars, Release, Goto, Unacked,
                 TypeOK, WorkerTypeOK
  <2>. QED  BY <1>1, <1>11, <2>1, RequeueStep DEF NackOnStop
\* An acknowledged job left a document.
<1>12. CASE Ack(w)
  <2>1. /\ pc[w] \in Busy /\ pc[w] \in Documented
        /\ UNCHANGED <<ready, jobStates, events>>
    BY <1>12 DEF Ack, At, Busy, Documented, storeVars
  <2>2. \A j \in Job, q \in Queue : ~Unacked(w, j, q)'
    BY <1>12 DEF Ack, Release, Goto, Unacked, Busy, TypeOK, WorkerTypeOK
  <2>3. ASSUME NEW j \in Job, NEW q \in Queue, Unacked(w, j, q)
        PROVE  q \in Stage /\ HasDocument(j, q)
    BY <1>3, <2>1, <2>3 DEF Unacked, FlowInv, WorkIsDocumented
  <2>4. TracesUnchanged
    BY <1>1, <2>1, <2>2, <2>3
       DEF TracesUnchanged, Reached, HasDocument, StatusOf
  <2>. QED  BY <2>1, <2>4 DEF FlowStep, LogUnchanged, Logged
<1>13. CASE ConnectionError(w) \/ LeaveLoop(w)
  <2>1. /\ pc[w] \notin Busy \/ ~connected[w]
        /\ pc'[w] \notin Busy
        /\ UNCHANGED <<ready, jobStates, events>>
    BY <1>13 DEF ConnectionError, LeaveLoop, At, Busy, storeVars, Release,
                 Goto, TypeOK, WorkerTypeOK
  <2>2. \A j \in Job, q \in Queue : Unacked(w, j, q)' <=> Unacked(w, j, q)
    BY <2>1, UnackedKept
  <2>. QED  BY <1>1, <2>1, <2>2, QuietStep
<1>. QED
  BY <1>5, <1>6, <1>7, <1>8, <1>9, <1>10, <1>11, <1>12, <1>13 DEF WorkerStep

LEMMA FlowNextStep ==
    ASSUME TypeOK, FlowInv, [Next]_vars
    PROVE  FlowStep
<1>1. ASSUME NEW w \in Worker, NEW i \in Job, Deliver(w, i)
      PROVE  FlowStep
  <2>1. /\ StageOf(w) \in Queue
        /\ UNCHANGED <<jobStates, events>>
        /\ pc[w] \notin Busy
    BY <1>1, StageOfType, ManifestAssumption
       DEF Deliver, At, Busy, storeVars, Stage, Queue
  <2>2. \A j \in Job, q \in Queue :
           /\ Unacked(w, j, q)' <=> j = i /\ q = StageOf(w)
           /\ ~Unacked(w, j, q)
    BY <1>1, <2>1 DEF Deliver, At, Goto, Unacked, StageOf, Busy, TypeOK,
                      WorkerTypeOK
  <2>3. \A j \in Job, q \in Queue :
           /\ ready'[<<q, j>>] > 0 => ready[<<q, j>>] > 0
           /\ ready[<<q, j>>] > 0
                => ready'[<<q, j>>] > 0 \/ (j = i /\ q = StageOf(w))
           /\ j = i /\ q = StageOf(w) => ready[<<q, j>>] > 0
    BY <1>1, <2>1 DEF Deliver, Dequeue, StageInputQueue, TypeOK, BrokerTypeOK
  <2>4. \A v \in Worker, j \in Job, q \in Queue :
           v # w => (Unacked(v, j, q)' <=> Unacked(v, j, q))
    BY <1>1, OthersKept, UnackedKept
  <2>5. TracesUnchanged
    BY <2>1, <2>2, <2>3, <2>4
       DEF TracesUnchanged, Reached, HasDocument, StatusOf
  <2>. QED  BY <2>1, <2>5 DEF FlowStep, LogUnchanged, Logged
<1>2. ASSUME NEW w \in Worker, WorkerStep(w)
      PROVE  FlowStep
  BY <1>2, FlowWorkerStep
<1>3. ASSUME NEW w \in Worker, Crash(w) \/ DropConnection(w)
      PROVE  FlowStep
  <2>1. \A v \in Worker, j \in Job, q \in Queue :
           v # w => (Unacked(v, j, q)' <=> Unacked(v, j, q))
    BY <1>3, OthersKept, UnackedKept
  <2>2. /\ UNCHANGED <<jobStates, events>>
        /\ pc'[w] \notin Busy \/ ~connected'[w]
    BY <1>3 DEF Crash, DropConnection, storeVars, Release, Goto, Busy,
                TypeOK, WorkerTypeOK
  <2>3. \A j \in Job, q \in Queue : ~Unacked(w, j, q)'
    BY <2>2 DEF Unacked
  <2>4. CASE pc[w] \in Busy
    BY <1>3, <2>1, <2>2, <2>3, <2>4, RequeueStep DEF Crash, DropConnection
  <2>5. CASE pc[w] \notin Busy
    <3>1. UNCHANGED ready
      BY <1>3, <2>5 DEF Crash, DropConnection
    <3>2. \A j \in Job, q \in Queue : ~Unacked(w, j, q)
      BY <2>5 DEF Unacked
    <3>. QED  BY <2>1, <2>2, <2>3, <3>1, <3>2, QuietStep
  <2>. QED  BY <2>4, <2>5
<1>4. ASSUME NEW p \in Pool, StopPool(p) \/ StartPool(p)
      PROVE  FlowStep
  <2>1. UNCHANGED <<ready, jobStates, events>>
    BY <1>4 DEF StopPool, StartPool, storeVars
  <2>2. ASSUME NEW v \in Worker
        PROVE  /\ delivered'[v] = delivered[v] /\ connected'[v] = connected[v]
               /\ \/ pc'[v] = pc[v]
                  \/ pc[v] \notin Busy /\ pc'[v] \notin Busy
    BY <1>4 DEF StopPool, StartPool, KeepDelivery, Busy, Ended, TypeOK,
                WorkerTypeOK
  <2>3. \A v \in Worker, j \in Job, q \in Queue :
           Unacked(v, j, q)' <=> Unacked(v, j, q)
    BY <2>2, UnackedKept
  <2>. QED  BY <2>1, <2>3, QuietStep
<1>5. ASSUME UNCHANGED workerVars
      PROVE  \A v \in Worker, j \in Job, q \in Queue :
                Unacked(v, j, q)' <=> Unacked(v, j, q)
  BY <1>5, UnackedKept DEF workerVars
<1>6. ASSUME NEW o \in Operator, NEW js \in toMark[o], MarkPending(o, js),
             UNCHANGED workerVars
      PROVE  FlowStep
  <2>1. js = <<js[1], js[2]>> /\ js[1] \in Job /\ js[2] \in Stage
    BY DEF TypeOK, OperatorTypeOK
  <2>2. Touched(js[1], js[2])
    BY <2>1 DEF Touched
  <2>. QED
    BY <1>5, <1>6, <2>1, <2>2, UpsertEffect, DocumentStep
       DEF MarkPending, JobStateStatus
<1>7. ASSUME NEW o \in Operator, NEW js \in inHand[o],
             PublishPending(o, js), UNCHANGED workerVars
      PROVE  FlowStep
  <2>1. js = <<js[1], js[2]>> /\ js[1] \in Job /\ js[2] \in Stage
    BY DEF TypeOK, OperatorTypeOK
  <2>2. Touched(js[1], js[2]) /\ js[2] \in Queue
    BY <2>1, ManifestAssumption DEF Touched, Stage, Queue
  <2>3. Justified(js[1], js[2])
    BY <2>1, <2>2, TouchedIsJustified
  <2>. QED
    BY <1>5, <1>7, <2>1, <2>2, <2>3, MessageStep
       DEF PublishPending, storeVars, StageInputQueue
<1>8. ASSUME OperatorNext, UNCHANGED workerVars
      PROVE  FlowStep
  <2>1. ASSUME UNCHANGED <<ready, jobStates, events>>
        PROVE  FlowStep
    BY <1>5, <1>8, <2>1, QuietStep
  <2>. QED
    BY <1>6, <1>7, <1>8, <2>1
       DEF OperatorNext, OperatorStep, CheckSeedBatch, CreateSeedBatch,
           CloseSeedBatch, ReadReplayable, Abort, Kill, Hold, ReleaseHold,
           storeVars
<1>9. CASE UNCHANGED vars
  BY <1>5, <1>9, QuietStep DEF vars, storeVars
<1>. QED
  BY <1>1, <1>2, <1>3, <1>4, <1>8, <1>9 DEF Next, WorkerNext

FlowReached == {jq \in Job \X Queue : Reached(jq[1], jq[2])}
FlowLogged == {js \in Job \X Stage : Logged(js[1], js[2])}

\* A step of the run, seen through the mapping, is a step of the flow.
LEMMA FlowStepRefines ==
    ASSUME FlowStep
    PROVE  [Flow!Next]_<<FlowReached, FlowLogged>>
<1>1. LogUnchanged => FlowLogged' = FlowLogged
  BY DEF LogUnchanged, FlowLogged
<1>2. TracesUnchanged => FlowReached' = FlowReached
  BY DEF TracesUnchanged, FlowReached
<1>3. ASSUME LogUnchanged, NEW i \in Job, NEW r \in Queue, TraceAppears(i, r)
      PROVE  Flow!Next
  <2>1. FlowReached' = FlowReached \cup {<<i, r>>}
    BY <1>3 DEF TraceAppears, FlowReached
  <2>2. CASE r = 1
    <3>1. Flow!Admit(i)
      BY <1>1, <1>3, <2>1, <2>2 DEF Flow!Admit, FlowReached, FlowLogged
    <3>. QED  BY <3>1 DEF Flow!Next
  <2>3. CASE r # 1
    <3>1. r - 1 \in Stage /\ <<i, r - 1>> \in FlowLogged
      BY <1>3, <2>3 DEF TraceAppears, Justified, FlowLogged
    <3>2. r = StageOutputQueue(r - 1)
      BY ManifestAssumption DEF StageOutputQueue, Queue
    <3>3. Flow!Forward(i, r - 1)
      BY <1>1, <1>3, <2>1, <3>1, <3>2
         DEF Flow!Forward, Flow!StageOutputQueue, StageOutputQueue,
             FlowReached, FlowLogged
    <3>. QED  BY <3>1, <3>3 DEF Flow!Next, Flow!Stage, Stage
  <2>. QED  BY <2>2, <2>3
<1>4. ASSUME TracesUnchanged, NEW i \in Job, NEW r \in Stage,
             OutputAppears(i, r)
      PROVE  Flow!Next
  <2>1. FlowLogged' = FlowLogged \cup {<<i, r>>}
    BY <1>4 DEF OutputAppears, FlowLogged
  <2>2. <<i, r>> \in FlowReached
    BY <1>4, ManifestAssumption DEF OutputAppears, FlowReached, Stage, Queue
  <2>3. Flow!Log(i, r)
    BY <1>2, <1>4, <2>1, <2>2 DEF Flow!Log, FlowReached, FlowLogged
  <2>. QED  BY <2>3 DEF Flow!Next, Flow!Stage, Stage
<1>. QED  BY <1>1, <1>2, <1>3, <1>4 DEF FlowStep

(***************************************************************************)
(* The run implements WriteAheadFlow: for every number of jobs, stages,    *)
(* threads and operators, and under every fault of the model, propagation  *)
(* follows the event log and no trace of a job disappears.                 *)
(***************************************************************************)
THEOREM RunImplementsFlow == Spec => ImplementsWriteAheadFlow
<1>1. Init => Flow!Init
  <2>. SUFFICES ASSUME Init PROVE Flow!Init
    OBVIOUS
  <2>1. \A j \in Job, q \in Queue : ~Reached(j, q)
    BY DEF Init, StoreInit, BrokerInit, WorkerInit, Reached, Unacked,
           HasDocument, StatusOf, Busy
  <2>2. \A j \in Job, s \in Stage : ~Logged(j, s)
    BY DEF Init, StoreInit, Logged
  <2>. QED  BY <2>1, <2>2 DEF Flow!Init
<1>2. TypeOK /\ FlowInv /\ [Next]_vars => [Flow!Next]_<<FlowReached, FlowLogged>>
  BY FlowNextStep, FlowStepRefines
<1>. QED
  BY <1>1, <1>2, TypeCorrect, FlowInvariant, PTL
     DEF Spec, ImplementsWriteAheadFlow, Flow!Spec, FlowReached, FlowLogged
=============================================================================
