------------------------ MODULE SinkExecutionProofs -------------------------
(***************************************************************************)
(* Theorems about worker threads over a plain event sink, for every number *)
(* of jobs, stages and threads and for every bound on the faults.          *)
(***************************************************************************)
EXTENDS SinkExecution, TLAPS

-----------------------------------------------------------------------------
(* Types *)

LEMMA StageQueues ==
    ASSUME NEW s \in Stage
    PROVE  /\ s \in Queue /\ s + 1 \in Queue /\ s \in Nat
           /\ StageInputQueue(s) = s /\ StageOutputQueue(s) = s + 1
BY ManifestAssumption DEF Stage, Queue, StageInputQueue, StageOutputQueue

LEMMA EnqueueType ==
    ASSUME BrokerTypeOK, NEW q \in Queue, NEW j \in Job, Enqueue(q, j)
    PROVE  BrokerTypeOK'
BY DEF BrokerTypeOK, Enqueue

LEMMA RequeueType ==
    ASSUME SinkTypeOK, NEW w \in Worker, pc[w] \in Busy, Requeue(w)
    PROVE  BrokerTypeOK'
<1>1. delivered[w] \in Job /\ StageOf[w] \in Stage
  BY SinkAssumption DEF SinkTypeOK
<1>2. CASE connected[w]
  BY <1>1, <1>2, StageQueues, EnqueueType DEF Requeue, SinkTypeOK
<1>3. CASE ~connected[w]
  BY <1>3 DEF Requeue, SinkTypeOK, BrokerTypeOK
<1>. QED  BY <1>2, <1>3

LEMMA SinkTypeStep ==
    ASSUME SinkTypeOK, [Next]_vars
    PROVE  SinkTypeOK'
<1>1. ASSUME UNCHANGED ready
      PROVE  BrokerTypeOK'
  BY <1>1 DEF SinkTypeOK, BrokerTypeOK
<1>2. \A w \in Worker : StageOf[w] \in Stage
  BY SinkAssumption
<1>3. ASSUME NEW j \in Job, Admit(j)
      PROVE  SinkTypeOK'
  <2>1. BrokerTypeOK'
    BY <1>3, EnqueueType, ManifestAssumption DEF Admit, SinkTypeOK, Queue
  <2>. QED  BY <1>3, <2>1 DEF Admit, SinkTypeOK, faultVars
<1>4. ASSUME NEW w \in Worker, NEW j \in Job, Deliver(w, j)
      PROVE  SinkTypeOK'
  <2>1. BrokerTypeOK'
    BY <1>2, <1>4, StageQueues DEF Deliver, Dequeue, BrokerTypeOK, SinkTypeOK
  <2>. QED
    BY <1>4, <2>1, SinkAssumption DEF Deliver, Go, SinkTypeOK, faultVars, Busy, Ended
<1>5. ASSUME NEW w \in Worker, NackOnStop(w) \/ Redeliver(w)
      PROVE  SinkTypeOK'
  <2>1. BrokerTypeOK'
    BY <1>5, RequeueType DEF NackOnStop, Redeliver, Busy
  <2>. QED
    BY <1>5, <2>1 DEF NackOnStop, Redeliver, Release, SinkTypeOK, faultVars, Busy, Ended
<1>6. ASSUME NEW w \in Worker, AppendStarted(w) \/ AppendOutput(w)
      PROVE  SinkTypeOK'
  <2>1. delivered[w] \in Job /\ StageOf[w] \in Stage
    BY <1>2, <1>6 DEF AppendStarted, AppendOutput, Go, SinkTypeOK, Busy
  <2>2. events' \subseteq EventKind \X Job \X Stage
    BY <1>6, <2>1 DEF AppendStarted, AppendOutput, Append, EventKind, SinkTypeOK
  <2>. QED
    BY <1>1, <1>6, <2>2
       DEF AppendStarted, AppendOutput, Go, KeepDelivery, SinkTypeOK, faultVars,
           Busy, Ended
<1>7. ASSUME NEW w \in Worker, Publish(w)
      PROVE  SinkTypeOK'
  <2>1. delivered[w] \in Job /\ StageOf[w] \in Stage
    BY <1>2, <1>7 DEF Publish, Go, SinkTypeOK, Busy
  <2>2. BrokerTypeOK'
    BY <1>7, <2>1, StageQueues, EnqueueType DEF Publish, SinkTypeOK
  <2>. QED
    BY <1>7, <2>2 DEF Publish, Go, KeepDelivery, SinkTypeOK, faultVars, Busy, Ended
<1>8. ASSUME NEW w \in Worker, Ack(w) \/ ConnectionError(w) \/ LeaveLoop(w)
      PROVE  SinkTypeOK'
  BY <1>1, <1>8
     DEF Ack, ConnectionError, LeaveLoop, Release, Go, KeepDelivery, SinkTypeOK,
         faultVars, Busy, Ended
<1>9. ASSUME NEW w \in Worker, Crash(w)
      PROVE  SinkTypeOK'
  <2>1. BrokerTypeOK'
    BY <1>1, <1>9, RequeueType DEF Crash
  <2>. QED
    BY <1>9, <2>1 DEF Crash, Release, SinkTypeOK, Busy, Ended
<1>10. ASSUME NEW w \in Worker, DropConnection(w)
       PROVE  SinkTypeOK'
  <2>1. BrokerTypeOK'
    BY <1>10, RequeueType DEF DropConnection
  <2>. QED  BY <1>10, <2>1 DEF DropConnection, SinkTypeOK
<1>11. ASSUME NEW w \in Worker, Stop(w)
       PROVE  SinkTypeOK'
  BY <1>1, <1>11 DEF Stop, SinkTypeOK
<1>12. CASE UNCHANGED vars
  BY <1>1, <1>12 DEF vars, faultVars, SinkTypeOK
<1>. QED
  BY <1>3, <1>4, <1>5, <1>6, <1>7, <1>8, <1>9, <1>10, <1>11, <1>12
     DEF Next, WorkerStep

(***************************************************************************)
(* Every reachable state is well-typed: a thread has a delivery exactly    *)
(* while it is busy with one.                                              *)
(***************************************************************************)
THEOREM SinkTypeCorrect == Spec => []SinkTypeOK
<1>1. Init => SinkTypeOK
  BY ManifestAssumption
     DEF Init, SinkTypeOK, BrokerInit, BrokerTypeOK, Busy, Ended
<1>. QED  BY <1>1, SinkTypeStep, PTL DEF Spec

-----------------------------------------------------------------------------
(* Copies of a job: what a step does to them *)

\* A message of j in queue q, or a delivery of it that would return there.
Copy(q, j) ==
    \/ ready[<<q, j>>] > 0
    \/ \E w \in Worker : Unacked(w, j, q)

CopiesSame == \A q \in Queue, j \in Job : Copy(q, j)' <=> Copy(q, j)

CopyAppears(r, i) ==
    \A q \in Queue, j \in Job : Copy(q, j)' <=> Copy(q, j) \/ (q = r /\ j = i)

\* The thread w, which has published, acknowledges its delivery.
CopyGoes(w) ==
    /\ pc[w] = "settled"
    /\ \A q \in Queue, j \in Job :
          /\ Copy(q, j)' => Copy(q, j)
          /\ Copy(q, j) => Copy(q, j)' \/ (q = StageOf[w] /\ j = delivered[w])

\* Only a thread without a delivery was never given a channel that is lost.
IdleIsConnected == \A w \in Worker : pc[w] \notin Busy => connected[w]

ThreadSame(v) == pc'[v] = pc[v] /\ delivered'[v] = delivered[v] /\ connected'[v] = connected[v]

LEMMA ThreadSameUnacked ==
    ASSUME NEW v \in Worker, ThreadSame(v)
    PROVE  \A j, q : Unacked(v, j, q)' <=> Unacked(v, j, q)
BY DEF ThreadSame, Unacked

\* A step of one thread leaves the deliveries of the others alone.
OthersSame(w) == \A v \in Worker \ {w} : ThreadSame(v)

LEMMA OthersAreSame ==
    ASSUME SinkTypeOK, NEW w \in Worker,
           \/ \E j \in Job : Deliver(w, j)
           \/ WorkerStep(w) \/ AppendOutput(w) \/ Redeliver(w)
           \/ Crash(w) \/ DropConnection(w) \/ Stop(w)
    PROVE  OthersSame(w)
BY DEF SinkTypeOK, OthersSame, ThreadSame, Deliver, WorkerStep, NackOnStop, AppendStarted,
       AppendOutput, Redeliver, Publish, Ack, ConnectionError, LeaveLoop, Crash,
       DropConnection, Stop, Release, Go, KeepDelivery

\* No message and no live delivery changes.
LEMMA QuietStep ==
    ASSUME NEW w \in Worker, OthersSame(w), UNCHANGED ready,
           \A q \in Queue, j \in Job : Unacked(w, j, q)' <=> Unacked(w, j, q)
    PROVE  CopiesSame
<1>1. \A v \in Worker, q \in Queue, j \in Job : Unacked(v, j, q)' <=> Unacked(v, j, q)
  BY ThreadSameUnacked DEF OthersSame
<1>. QED  BY <1>1 DEF CopiesSame, Copy

\* The delivery of w becomes a message again, if it was live.
LEMMA RequeueStep ==
    ASSUME SinkTypeOK, NEW w \in Worker, OthersSame(w), pc[w] \in Busy, Requeue(w),
           pc'[w] \notin Busy \/ ~connected'[w]
    PROVE  CopiesSame
<1>1. \A v \in Worker, q \in Queue, j \in Job :
         v # w => (Unacked(v, j, q)' <=> Unacked(v, j, q))
  BY ThreadSameUnacked DEF OthersSame
<1>2. \A q \in Queue, j \in Job : ~Unacked(w, j, q)'
  BY DEF Unacked
<1>3. CASE ~connected[w]
  <2>1. UNCHANGED ready
    BY <1>3 DEF Requeue
  <2>2. \A q \in Queue, j \in Job : ~Unacked(w, j, q)
    BY <1>3 DEF Unacked
  <2>. QED  BY <1>2, <2>1, <2>2, QuietStep
<1>4. CASE connected[w]
  <2>1. delivered[w] \in Job /\ StageOf[w] \in Queue
    BY SinkAssumption, StageQueues DEF SinkTypeOK
  <2>2. ready' = [ready EXCEPT ![<<StageOf[w], delivered[w]>>] = @ + 1]
    BY <1>4 DEF Requeue, Enqueue, StageInputQueue
  <2>3. \A q \in Queue, j \in Job :
           ready'[<<q, j>>] > 0
             <=> ready[<<q, j>>] > 0 \/ (q = StageOf[w] /\ j = delivered[w])
    BY <2>1, <2>2 DEF SinkTypeOK, BrokerTypeOK
  <2>4. \A q \in Queue, j \in Job :
           Unacked(w, j, q) <=> q = StageOf[w] /\ j = delivered[w]
    BY <1>4 DEF Unacked
  <2>5. ASSUME NEW q \in Queue, NEW j \in Job, Copy(q, j)
        PROVE  Copy(q, j)'
    BY <1>1, <2>3, <2>4, <2>5 DEF Copy
  <2>6. ASSUME NEW q \in Queue, NEW j \in Job, Copy(q, j)'
        PROVE  Copy(q, j)
    BY <1>1, <1>2, <2>3, <2>4, <2>6 DEF Copy
  <2>. QED  BY <2>5, <2>6 DEF CopiesSame
<1>. QED  BY <1>3, <1>4

\* A message is added and no live delivery changes.
LEMMA EnqueueStep ==
    ASSUME SinkTypeOK, NEW r \in Queue, NEW i \in Job, Enqueue(r, i),
           \A v \in Worker : ThreadSame(v) \/ \A q \in Queue, j \in Job :
                                                 Unacked(v, j, q)' <=> Unacked(v, j, q)
    PROVE  CopyAppears(r, i)
<1>1. \A v \in Worker, q \in Queue, j \in Job : Unacked(v, j, q)' <=> Unacked(v, j, q)
  BY ThreadSameUnacked
<1>2. \A q \in Queue, j \in Job :
         ready'[<<q, j>>] > 0 <=> ready[<<q, j>>] > 0 \/ (q = r /\ j = i)
  BY DEF SinkTypeOK, BrokerTypeOK, Enqueue
<1>. QED  BY <1>1, <1>2 DEF CopyAppears, Copy

LEMMA DeliverCopies ==
    ASSUME SinkTypeOK, IdleIsConnected, NEW w \in Worker, NEW i \in Job, Deliver(w, i)
    PROVE  CopiesSame
<1>1. StageOf[w] \in Queue /\ pc[w] \notin Busy /\ connected[w]
  BY SinkAssumption, StageQueues DEF Deliver, Go, Busy, IdleIsConnected
<1>2. \A v \in Worker, q \in Queue, j \in Job :
         v # w => (Unacked(v, j, q)' <=> Unacked(v, j, q))
  BY OthersAreSame, ThreadSameUnacked DEF OthersSame
<1>3. \A q \in Queue, j \in Job :
         /\ Unacked(w, j, q)' <=> q = StageOf[w] /\ j = i
         /\ ~Unacked(w, j, q)
  BY <1>1 DEF Deliver, Go, Unacked, Busy, SinkTypeOK
<1>4. \A q \in Queue, j \in Job :
         /\ ready'[<<q, j>>] > 0 => ready[<<q, j>>] > 0
         /\ ready[<<q, j>>] > 0 => ready'[<<q, j>>] > 0 \/ (q = StageOf[w] /\ j = i)
         /\ q = StageOf[w] /\ j = i => ready[<<q, j>>] > 0
  BY <1>1 DEF Deliver, Dequeue, StageInputQueue, SinkTypeOK, BrokerTypeOK
<1>. QED  BY <1>2, <1>3, <1>4 DEF CopiesSame, Copy

LEMMA PublishCopies ==
    ASSUME SinkTypeOK, NEW w \in Worker, Publish(w)
    PROVE  CopyAppears(StageOf[w] + 1, delivered[w])
<1>1. delivered[w] \in Job /\ StageOf[w] \in Stage
  BY SinkAssumption DEF Publish, Go, SinkTypeOK, Busy
<1>2. Enqueue(StageOf[w] + 1, delivered[w]) /\ StageOf[w] + 1 \in Queue
  BY <1>1, StageQueues DEF Publish
<1>3. \A q \in Queue, j \in Job : Unacked(w, j, q)' <=> Unacked(w, j, q)
  BY DEF Publish, Go, KeepDelivery, Unacked, Busy, SinkTypeOK
<1>4. OthersSame(w)
  BY OthersAreSame DEF WorkerStep
<1>. QED  BY <1>1, <1>2, <1>3, <1>4, EnqueueStep DEF OthersSame

LEMMA AckCopies ==
    ASSUME SinkTypeOK, NEW w \in Worker, Ack(w)
    PROVE  CopyGoes(w)
<1>1. \A v \in Worker, q \in Queue, j \in Job :
         v # w => (Unacked(v, j, q)' <=> Unacked(v, j, q))
  BY OthersAreSame, ThreadSameUnacked DEF OthersSame, WorkerStep
<1>2. /\ \A q \in Queue, j \in Job : ~Unacked(w, j, q)'
      /\ \A q \in Queue, j \in Job :
            Unacked(w, j, q) => q = StageOf[w] /\ j = delivered[w]
  BY DEF Ack, Release, Unacked, Busy, SinkTypeOK
<1>3. UNCHANGED ready /\ pc[w] = "settled"
  BY DEF Ack
<1>. QED  BY <1>1, <1>2, <1>3 DEF CopyGoes, Copy

\* What any step does to the copies.
LEMMA CopiesStep ==
    ASSUME SinkTypeOK, IdleIsConnected, [Next]_vars
    PROVE  \/ CopiesSame
           \/ \E j \in Job : Admit(j) /\ CopyAppears(1, j)
           \/ \E w \in Worker : /\ Publish(w)
                                /\ CopyAppears(StageOf[w] + 1, delivered[w])
           \/ \E w \in Worker : Ack(w) /\ CopyGoes(w)
<1>1. ASSUME NEW j \in Job, Admit(j)
      PROVE  CopyAppears(1, j)
  BY <1>1, EnqueueStep, ManifestAssumption DEF Admit, Queue, ThreadSame
<1>2. ASSUME NEW w \in Worker, NackOnStop(w) \/ Redeliver(w)
      PROVE  CopiesSame
  <2>1. OthersSame(w)
    BY <1>2, OthersAreSame DEF WorkerStep
  <2>. QED
    BY <1>2, <2>1, RequeueStep DEF NackOnStop, Redeliver, Release, Busy, SinkTypeOK
<1>3. ASSUME NEW w \in Worker,
             AppendStarted(w) \/ AppendOutput(w) \/ ConnectionError(w) \/ LeaveLoop(w)
                \/ Stop(w)
      PROVE  CopiesSame
  <2>1. OthersSame(w) /\ UNCHANGED ready
    BY <1>3, OthersAreSame
       DEF WorkerStep, AppendStarted, AppendOutput, ConnectionError, LeaveLoop, Stop
  <2>2. \A q \in Queue, j \in Job : Unacked(w, j, q)' <=> Unacked(w, j, q)
    BY <1>3
       DEF AppendStarted, AppendOutput, ConnectionError, LeaveLoop, Stop, Go,
           Release, KeepDelivery, Unacked, Busy, SinkTypeOK
  <2>. QED  BY <2>1, <2>2, QuietStep
<1>4. ASSUME NEW w \in Worker, Crash(w) \/ DropConnection(w)
      PROVE  CopiesSame
  <2>1. OthersSame(w)
    BY <1>4, OthersAreSame
  <2>2. CASE pc[w] \in Busy
    BY <1>4, <2>1, <2>2, RequeueStep
       DEF Crash, DropConnection, Release, Busy, SinkTypeOK
  <2>3. CASE pc[w] \notin Busy
    <3>1. UNCHANGED ready
      BY <1>4, <2>3 DEF Crash, DropConnection
    <3>2. \A q \in Queue, j \in Job : Unacked(w, j, q)' <=> Unacked(w, j, q)
      BY <1>4, <2>3 DEF Crash, DropConnection, Release, Unacked, Busy, SinkTypeOK
    <3>. QED  BY <2>1, <3>1, <3>2, QuietStep
  <2>. QED  BY <2>2, <2>3
<1>5. CASE UNCHANGED vars
  BY <1>5 DEF vars, CopiesSame, Copy, Unacked
<1>. QED
  BY <1>1, <1>2, <1>3, <1>4, <1>5, DeliverCopies, PublishCopies, AckCopies
     DEF Next, WorkerStep

-----------------------------------------------------------------------------
(* The invariant *)

\* A copy of j in a queue beyond stage s.
CarriedBeyond(j, s) == \E q \in Queue : q > s /\ Copy(q, j)

HasStarted == {"started", "output", "settled"}

StartIsLogged ==
    \A w \in Worker :
        pc[w] \in HasStarted => Logged("stage_started", delivered[w], StageOf[w])

OutputIsLogged ==
    \A w \in Worker :
        pc[w] \in {"output", "settled"}
            => Logged("stage_output", delivered[w], StageOf[w])

\* What a thread works on has left a trace in the queue of its stage.
WorkIsReached == \A w \in Worker : pc[w] \in Busy => Reached(delivered[w], StageOf[w])

\* What a thread works on is carried, and beyond its stage once published.
WorkIsCarried ==
    \A w \in Worker :
        /\ pc[w] \in Busy => CarriedBeyond(delivered[w], 0)
        /\ pc[w] = "settled" => CarriedBeyond(delivered[w], StageOf[w])

StartIsCarried ==
    \A j \in Job, s \in Stage : Logged("stage_started", j, s) => CarriedBeyond(j, 0)

KeptInv ==
    /\ IdleIsConnected
    /\ StartIsLogged /\ OutputIsLogged
    /\ WorkIsReached /\ WorkIsCarried /\ StartIsCarried

\* Events stay.
LEMMA EventsStay ==
    ASSUME [Next]_vars
    PROVE  events \subseteq events'
BY DEF Next, vars, faultVars, Admit, Deliver, WorkerStep, NackOnStop, AppendStarted,
       AppendOutput, Redeliver, Publish, Ack, ConnectionError, LeaveLoop, Crash,
       DropConnection, Stop, Append

\* How a thread comes to be where it is after a step.
LEMMA ThreadStep ==
    ASSUME SinkTypeOK, [Next]_vars, NEW v \in Worker
    PROVE  /\ \/ pc'[v] \notin Busy
              \/ pc[v] \in Busy /\ delivered'[v] = delivered[v]
              \/ \E j \in Job : Deliver(v, j) /\ delivered'[v] = j /\ pc'[v] = "received"
           /\ pc'[v] \in HasStarted => pc[v] \in HasStarted \/ AppendStarted(v)
           /\ pc'[v] \in {"output", "settled"}
                 => pc[v] \in {"output", "settled"} \/ AppendOutput(v)
           /\ pc'[v] = "settled" => pc[v] = "settled" \/ Publish(v)
<1>. DEFINE Goal ==
           /\ \/ pc'[v] \notin Busy
              \/ pc[v] \in Busy /\ delivered'[v] = delivered[v]
              \/ \E j \in Job : Deliver(v, j) /\ delivered'[v] = j /\ pc'[v] = "received"
           /\ pc'[v] \in HasStarted => pc[v] \in HasStarted \/ AppendStarted(v)
           /\ pc'[v] \in {"output", "settled"}
                 => pc[v] \in {"output", "settled"} \/ AppendOutput(v)
           /\ pc'[v] = "settled" => pc[v] = "settled" \/ Publish(v)
<1>1. ASSUME pc'[v] = pc[v], delivered'[v] = delivered[v]
      PROVE  Goal
  BY <1>1
<1>2. ASSUME NEW w \in Worker, w # v, OthersSame(w)
      PROVE  Goal
  BY <1>1, <1>2 DEF OthersSame, ThreadSame
<1>3. ASSUME NEW j \in Job, Deliver(v, j)
      PROVE  Goal
  BY <1>3 DEF Deliver, Go, SinkTypeOK, HasStarted
<1>4. ASSUME NackOnStop(v) \/ Redeliver(v) \/ Ack(v) \/ ConnectionError(v)
                \/ LeaveLoop(v) \/ Crash(v)
      PROVE  Goal
  BY <1>4 DEF NackOnStop, Redeliver, Ack, ConnectionError, LeaveLoop, Crash, Release,
              Go, KeepDelivery, SinkTypeOK, Busy, HasStarted
<1>5. ASSUME AppendStarted(v) \/ AppendOutput(v) \/ Publish(v)
      PROVE  Goal
  BY <1>5 DEF AppendStarted, AppendOutput, Publish, Go, KeepDelivery, SinkTypeOK, Busy,
              HasStarted
<1>6. ASSUME DropConnection(v) \/ Stop(v)
      PROVE  Goal
  BY <1>1, <1>6 DEF DropConnection, Stop
<1>7. CASE UNCHANGED vars
  BY <1>1, <1>7 DEF vars
<1>8. ASSUME NEW j \in Job, Admit(j)
      PROVE  Goal
  BY <1>1, <1>8 DEF Admit
<1>9. ASSUME NEW w \in Worker,
             \/ \E j \in Job : Deliver(w, j)
             \/ WorkerStep(w) \/ AppendOutput(w) \/ Redeliver(w)
             \/ Crash(w) \/ DropConnection(w) \/ Stop(w)
      PROVE  Goal
  <2>1. CASE w = v
    BY <1>3, <1>4, <1>5, <1>6, <1>9, <2>1 DEF WorkerStep
  <2>2. CASE w # v
    BY <1>2, <1>9, <2>2, OthersAreSame
  <2>. QED  BY <2>1, <2>2
<1>10. Goal
  BY <1>7, <1>8, <1>9 DEF Next
<1>. QED  BY <1>10

LEMMA IdleIsConnectedStep ==
    ASSUME SinkTypeOK, IdleIsConnected, [Next]_vars
    PROVE  IdleIsConnected'
<1>1. ASSUME NEW w \in Worker,
             \/ \E j \in Job : Deliver(w, j)
             \/ WorkerStep(w) \/ AppendOutput(w) \/ Redeliver(w)
             \/ Crash(w) \/ DropConnection(w) \/ Stop(w)
      PROVE  pc'[w] \notin Busy => connected'[w]
  BY <1>1 DEF Deliver, WorkerStep, NackOnStop, AppendStarted, AppendOutput, Redeliver,
              Publish, Ack, ConnectionError, LeaveLoop, Crash, DropConnection, Stop,
              Release, Go, KeepDelivery, SinkTypeOK, Busy, IdleIsConnected
<1>2. CASE UNCHANGED vars \/ \E j \in Job : Admit(j)
  BY <1>2 DEF vars, Admit, IdleIsConnected
<1>. QED
  BY <1>1, <1>2, OthersAreSame DEF Next, IdleIsConnected, OthersSame, ThreadSame

\* A job that is carried beyond a stage goes on being carried beyond it.
LEMMA CarriedStays ==
    ASSUME SinkTypeOK, KeptInv, [Next]_vars, NEW j \in Job, NEW s \in Nat,
           CarriedBeyond(j, s)
    PROVE  CarriedBeyond(j, s)'
<1>1. PICK q \in Queue : q > s /\ Copy(q, j)
  BY DEF CarriedBeyond
<1>2. CASE CopiesSame
  BY <1>1, <1>2 DEF CopiesSame, CarriedBeyond
<1>3. ASSUME NEW r, NEW i, CopyAppears(r, i)
      PROVE  CarriedBeyond(j, s)'
  BY <1>1, <1>3 DEF CopyAppears, CarriedBeyond
<1>4. ASSUME NEW w \in Worker, CopyGoes(w)
      PROVE  CarriedBeyond(j, s)'
  <2>1. CASE q # StageOf[w] \/ j # delivered[w]
    BY <1>1, <1>4, <2>1 DEF CopyGoes, CarriedBeyond
  <2>2. CASE q = StageOf[w] /\ j = delivered[w]
    <3>1. CarriedBeyond(j, q)
      BY <1>4, <2>2 DEF CopyGoes, KeptInv, WorkIsCarried
    <3>2. PICK r \in Queue : r > q /\ Copy(r, j)
      BY <3>1 DEF CarriedBeyond
    <3>3. r > s /\ r # StageOf[w]
      BY <1>1, <2>2, <3>2, ManifestAssumption DEF Queue
    <3>4. Copy(r, j)'
      BY <1>4, <3>2, <3>3 DEF CopyGoes
    <3>. QED  BY <3>3, <3>4 DEF CarriedBeyond
  <2>. QED  BY <2>1, <2>2
<1>. QED  BY <1>2, <1>3, <1>4, CopiesStep DEF KeptInv

\* Traces stay.
LEMMA ReachedStays ==
    ASSUME SinkTypeOK, KeptInv, [Next]_vars, NEW j \in Job, NEW q \in Queue,
           Reached(j, q)
    PROVE  Reached(j, q)'
<1>1. ASSUME q \in Stage, Logged("stage_started", j, q)
      PROVE  Reached(j, q)'
  BY <1>1, EventsStay DEF Logged, Reached
<1>2. ASSUME Copy(q, j)'
      PROVE  Reached(j, q)'
  BY <1>2 DEF Copy, Reached
<1>3. ASSUME Copy(q, j)
      PROVE  Reached(j, q)'
  <2>1. CASE CopiesSame
    BY <1>2, <1>3, <2>1 DEF CopiesSame
  <2>2. ASSUME NEW r, NEW i, CopyAppears(r, i)
        PROVE  Reached(j, q)'
    BY <1>2, <1>3, <2>2 DEF CopyAppears
  <2>3. ASSUME NEW w \in Worker, CopyGoes(w)
        PROVE  Reached(j, q)'
    <3>1. CASE q = StageOf[w] /\ j = delivered[w]
      BY <1>1, <2>3, <3>1, SinkAssumption
         DEF CopyGoes, KeptInv, StartIsLogged, HasStarted
    <3>. QED  BY <1>2, <1>3, <2>3, <3>1 DEF CopyGoes
  <2>. QED  BY <2>1, <2>2, <2>3, CopiesStep DEF KeptInv
<1>. QED  BY <1>1, <1>3 DEF Reached, Copy

\* A thread that goes on with its delivery keeps it.
LEMMA DeliveryKept ==
    ASSUME SinkTypeOK, [Next]_vars, NEW v \in Worker, pc'[v] \in HasStarted
    PROVE  pc[v] \in Busy /\ delivered'[v] = delivered[v] /\ delivered[v] \in Job
<1>1. pc'[v] \in Busy /\ pc'[v] # "received"
  BY DEF HasStarted, Busy
<1>2. pc[v] \in Busy /\ delivered'[v] = delivered[v]
  BY <1>1, ThreadStep
<1>3. delivered[v] \in Job
  BY <1>2 DEF SinkTypeOK
<1>. QED  BY <1>2, <1>3

\* A busy thread works on a job that was there before the step.
LEMMA WorkStep ==
    ASSUME SinkTypeOK, KeptInv, [Next]_vars, NEW v \in Worker, pc'[v] \in Busy
    PROVE  \E j \in Job : /\ delivered'[v] = j
                          /\ Reached(j, StageOf[v])
                          /\ CarriedBeyond(j, 0)
<1>1. StageOf[v] \in Stage /\ StageOf[v] \in Queue /\ StageOf[v] > 0
  BY SinkAssumption, StageQueues DEF Stage
<1>2. ASSUME NEW j \in Job, Deliver(v, j)
      PROVE  Reached(j, StageOf[v]) /\ CarriedBeyond(j, 0)
  <2>1. ready[<<StageOf[v], j>>] > 0
    BY <1>2 DEF Deliver, Dequeue, StageInputQueue
  <2>2. Copy(StageOf[v], j) /\ Reached(j, StageOf[v])
    BY <2>1 DEF Reached, Copy
  <2>. QED  BY <1>1, <2>2 DEF CarriedBeyond
<1>3. CASE pc[v] \in Busy /\ delivered'[v] = delivered[v]
  <2>1. delivered[v] \in Job
    BY <1>3 DEF SinkTypeOK
  <2>. QED  BY <1>3, <2>1 DEF KeptInv, WorkIsReached, WorkIsCarried
<1>4. CASE \E j \in Job : Deliver(v, j) /\ delivered'[v] = j
  BY <1>2, <1>4
<1>. QED  BY <1>3, <1>4, ThreadStep

LEMMA StartIsLoggedStep ==
    ASSUME SinkTypeOK, KeptInv, [Next]_vars
    PROVE  StartIsLogged'
<1>. SUFFICES ASSUME NEW v \in Worker, pc'[v] \in HasStarted
              PROVE  <<"stage_started", delivered'[v], StageOf[v]>> \in events'
  BY DEF StartIsLogged, Logged
<1>1. delivered'[v] = delivered[v]
  BY DeliveryKept
<1>2. CASE AppendStarted(v)
  BY <1>1, <1>2 DEF AppendStarted, Append
<1>3. CASE pc[v] \in HasStarted
  BY <1>1, <1>3, EventsStay DEF KeptInv, StartIsLogged, Logged
<1>. QED  BY <1>2, <1>3, ThreadStep

LEMMA OutputIsLoggedStep ==
    ASSUME SinkTypeOK, KeptInv, [Next]_vars
    PROVE  OutputIsLogged'
<1>. SUFFICES ASSUME NEW v \in Worker, pc'[v] \in {"output", "settled"}
              PROVE  <<"stage_output", delivered'[v], StageOf[v]>> \in events'
  BY DEF OutputIsLogged, Logged
<1>1. delivered'[v] = delivered[v]
  BY DeliveryKept DEF HasStarted
<1>2. CASE AppendOutput(v)
  BY <1>1, <1>2 DEF AppendOutput, Append
<1>3. CASE pc[v] \in {"output", "settled"}
  BY <1>1, <1>3, EventsStay DEF KeptInv, OutputIsLogged, Logged
<1>. QED  BY <1>2, <1>3, ThreadStep

LEMMA WorkIsReachedStep ==
    ASSUME SinkTypeOK, KeptInv, [Next]_vars
    PROVE  WorkIsReached'
<1>. SUFFICES ASSUME NEW v \in Worker, pc'[v] \in Busy
              PROVE  Reached(delivered[v], StageOf[v])'
  BY DEF WorkIsReached
<1>1. PICK j \in Job : delivered'[v] = j /\ Reached(j, StageOf[v])
  BY WorkStep
<1>2. StageOf[v] \in Queue
  BY SinkAssumption, StageQueues
<1>3. Reached(j, StageOf[v])'
  BY <1>1, <1>2, ReachedStays
<1>. QED  BY <1>1, <1>3 DEF Reached, Unacked, Logged

LEMMA WorkIsCarriedStep ==
    ASSUME SinkTypeOK, KeptInv, [Next]_vars
    PROVE  WorkIsCarried'
<1>1. ASSUME NEW v \in Worker, pc'[v] \in Busy
      PROVE  CarriedBeyond(delivered[v], 0)'
  <2>1. PICK j \in Job : delivered'[v] = j /\ CarriedBeyond(j, 0)
    BY <1>1, WorkStep
  <2>2. CarriedBeyond(j, 0)'
    BY <2>1, CarriedStays
  <2>. QED  BY <2>1, <2>2 DEF CarriedBeyond, Copy, Unacked
<1>2. ASSUME NEW v \in Worker, pc'[v] = "settled"
      PROVE  CarriedBeyond(delivered[v], StageOf[v])'
  <2>1. delivered'[v] = delivered[v] /\ delivered[v] \in Job
    BY <1>2, DeliveryKept DEF HasStarted
  <2>2. PICK j \in Job : j = delivered[v]
    BY <2>1
  <2>3. StageOf[v] \in Stage /\ StageOf[v] \in Nat /\ StageOf[v] + 1 \in Queue
    BY SinkAssumption, StageQueues
  <2>4. CASE pc[v] = "settled"
    <3>1. CarriedBeyond(j, StageOf[v])
      BY <2>2, <2>4 DEF KeptInv, WorkIsCarried
    <3>2. CarriedBeyond(j, StageOf[v])'
      BY <2>1, <2>2, <2>3, <3>1, CarriedStays
    <3>. QED  BY <2>1, <2>2, <3>2 DEF CarriedBeyond, Copy, Unacked
  <2>5. CASE Publish(v)
    <3>1. CopyAppears(StageOf[v] + 1, delivered[v])
      BY <2>5, PublishCopies
    <3>2. Copy(StageOf[v] + 1, j)'
      BY <2>2, <2>3, <3>1 DEF CopyAppears
    <3>3. CarriedBeyond(j, StageOf[v])'
      BY <2>3, <3>2 DEF CarriedBeyond
    <3>. QED  BY <2>1, <2>2, <3>3 DEF CarriedBeyond, Copy, Unacked
  <2>. QED  BY <1>2, <2>4, <2>5, ThreadStep
<1>. QED  BY <1>1, <1>2 DEF WorkIsCarried

\* The one step that logs a start.
LEMMA StartStep ==
    ASSUME [Next]_vars, NEW j \in Job, NEW s \in Stage,
           Logged("stage_started", j, s)', ~Logged("stage_started", j, s)
    PROVE  \E w \in Worker : AppendStarted(w) /\ j = delivered[w] /\ s = StageOf[w]
BY DEF Logged, Next, vars, faultVars, Admit, Deliver, WorkerStep, NackOnStop,
       AppendStarted, AppendOutput, Redeliver, Publish, Ack, ConnectionError,
       LeaveLoop, Crash, DropConnection, Stop, Append

LEMMA StartIsCarriedStep ==
    ASSUME SinkTypeOK, KeptInv, [Next]_vars
    PROVE  StartIsCarried'
<1>. SUFFICES ASSUME NEW j \in Job, NEW s \in Stage, Logged("stage_started", j, s)'
              PROVE  CarriedBeyond(j, 0)'
  BY DEF StartIsCarried
<1>1. CASE Logged("stage_started", j, s)
  BY <1>1, CarriedStays DEF KeptInv, StartIsCarried
<1>2. CASE ~Logged("stage_started", j, s)
  <2>1. PICK w \in Worker : AppendStarted(w) /\ j = delivered[w]
    BY <1>2, StartStep
  <2>2. pc[w] \in Busy
    BY <2>1 DEF AppendStarted, Go, Busy
  <2>3. CarriedBeyond(j, 0)
    BY <2>1, <2>2 DEF KeptInv, WorkIsCarried
  <2>. QED  BY <2>3, CarriedStays
<1>. QED  BY <1>1, <1>2

LEMMA KeptStep ==
    ASSUME SinkTypeOK, KeptInv, [Next]_vars
    PROVE  KeptInv'
<1>1. IdleIsConnected'
  BY IdleIsConnectedStep DEF KeptInv
<1>. QED
  BY <1>1, StartIsLoggedStep, OutputIsLoggedStep, WorkIsReachedStep, WorkIsCarriedStep,
     StartIsCarriedStep DEF KeptInv

LEMMA KeptInvariant == Spec => []KeptInv
<1>1. Init => KeptInv
  BY DEF Init, KeptInv, IdleIsConnected, StartIsLogged, OutputIsLogged, WorkIsReached,
         WorkIsCarried, StartIsCarried, HasStarted, Busy, Logged
<1>. QED  BY <1>1, KeptStep, SinkTypeCorrect, PTL DEF Spec

(***************************************************************************)
(* However often handlers fail, threads end and connections are lost, a    *)
(* job that was started is in a queue or in the hands of a thread whose    *)
(* end would return it.                                                    *)
(***************************************************************************)
THEOREM StartedJobsAreKept == Spec => []StartedIsKept
<1>1. SinkTypeOK /\ KeptInv => StartedIsKept
  <2>. SUFFICES ASSUME KeptInv, NEW j \in Job, NEW s \in Stage,
                       Logged("stage_started", j, s)
                PROVE  \/ \E q \in Queue : ready[<<q, j>>] > 0
                       \/ \E w \in Worker, t \in Stage : Unacked(w, j, t)
    BY DEF StartedIsKept
  <2>1. PICK q \in Queue : Copy(q, j)
    BY DEF KeptInv, StartIsCarried, CarriedBeyond
  <2>. QED  BY <2>1, SinkAssumption DEF Copy, Unacked
<1>. QED  BY <1>1, SinkTypeCorrect, KeptInvariant, PTL

-----------------------------------------------------------------------------
(* The refinement *)

FlowReached == {jq \in Job \X Queue : Reached(jq[1], jq[2])}
FlowLogged == {js \in Job \X Stage : Logged("stage_output", js[1], js[2])}
FlowStep == [Flow!Next]_<<FlowReached, FlowLogged>>

LEMMA EventsStep ==
    ASSUME [Next]_vars
    PROVE  UNCHANGED events \/ \E w \in Worker : AppendStarted(w) \/ AppendOutput(w)
BY DEF Next, vars, faultVars, Admit, Deliver, WorkerStep, NackOnStop, Redeliver, Publish,
       Ack, ConnectionError, LeaveLoop, Crash, DropConnection, Stop

\* The thread of these steps has a job and a stage of the run.
LEMMA WorkOfThread ==
    ASSUME SinkTypeOK, NEW w \in Worker, pc[w] \in Busy
    PROVE  /\ delivered[w] \in Job /\ StageOf[w] \in Stage
           /\ StageOf[w] \in Queue /\ StageOf[w] + 1 \in Queue
BY SinkAssumption, StageQueues DEF SinkTypeOK

LEMMA ReachedIsCopy ==
    ASSUME NEW j, NEW q
    PROVE  Reached(j, q) <=> Copy(q, j) \/ (q \in Stage /\ Logged("stage_started", j, q))
BY DEF Reached, Copy

LEMMA LogSame ==
    ASSUME UNCHANGED events
    PROVE  /\ FlowLogged' = FlowLogged
           /\ \A k, j, s : Logged(k, j, s)' <=> Logged(k, j, s)
BY DEF FlowLogged, Logged

\* A step that keeps the log and adds one copy adds one trace.
LEMMA TraceAppears ==
    ASSUME UNCHANGED events, NEW r \in Queue, NEW i \in Job, CopyAppears(r, i)
    PROVE  FlowReached' = FlowReached \cup {<<i, r>>}
<1>1. \A j \in Job, q \in Queue :
         /\ Reached(j, q)' => Reached(j, q) \/ (q = r /\ j = i)
         /\ Reached(j, q) \/ (q = r /\ j = i) => Reached(j, q)'
  BY LogSame DEF Reached, Copy, CopyAppears
<1>. QED  BY <1>1 DEF FlowReached

\* A step that only keeps or removes copies of traces adds none.
LEMMA TracesSame ==
    ASSUME SinkTypeOK, KeptInv, [Next]_vars,
           \A j \in Job, q \in Queue : Reached(j, q)' => Reached(j, q)
    PROVE  FlowReached' = FlowReached
<1>1. \A j \in Job, q \in Queue : Reached(j, q) => Reached(j, q)'
  BY ReachedStays
<1>. QED  BY <1>1 DEF FlowReached

LEMMA FlowNextStep ==
    ASSUME SinkTypeOK, KeptInv, [Next]_vars
    PROVE  FlowStep
<1>1. ASSUME UNCHANGED events, \A q \in Queue, j \in Job : Copy(q, j)' => Copy(q, j)
      PROVE  FlowStep
  <2>1. \A j \in Job, q \in Queue : Reached(j, q)' => Reached(j, q)
    BY <1>1, LogSame DEF Reached, Copy
  <2>. QED  BY <1>1, <2>1, TracesSame, LogSame DEF FlowStep
<1>2. ASSUME NEW j \in Job, Admit(j), CopyAppears(1, j)
      PROVE  FlowStep
  <2>1. UNCHANGED events /\ 1 \in Queue
    BY <1>2, ManifestAssumption DEF Admit, Queue
  <2>2. Flow!Admit(j)
    BY <1>2, <2>1, TraceAppears, LogSame DEF Flow!Admit, FlowReached, FlowLogged
  <2>. QED  BY <2>2 DEF FlowStep, Flow!Next
<1>3. ASSUME NEW w \in Worker, Publish(w), CopyAppears(StageOf[w] + 1, delivered[w])
      PROVE  FlowStep
  <2>1. UNCHANGED events /\ pc[w] = "output" /\ pc[w] \in Busy
    BY <1>3 DEF Publish, Go, Busy
  <2>2. <<delivered[w], StageOf[w]>> \in FlowLogged
    BY <2>1, WorkOfThread DEF KeptInv, OutputIsLogged, FlowLogged
  <2>3. FlowReached' = FlowReached \cup {<<delivered[w], StageOf[w] + 1>>}
    BY <1>3, <2>1, WorkOfThread, TraceAppears
  <2>4. Flow!Forward(delivered[w], StageOf[w])
    BY <2>1, <2>2, <2>3, LogSame
       DEF Flow!Forward, Flow!StageOutputQueue, FlowReached, FlowLogged
  <2>. QED  BY <2>1, <2>4, WorkOfThread DEF FlowStep, Flow!Next, Flow!Stage, Stage
<1>4. ASSUME NEW w \in Worker, CopiesSame, AppendStarted(w)
      PROVE  FlowStep
  <2>1. /\ pc[w] \in Busy
        /\ events' = events \cup {<<"stage_started", delivered[w], StageOf[w]>>}
    BY <1>4 DEF AppendStarted, Go, Append, Busy
  <2>2. \A j \in Job, q \in Queue : Reached(j, q)' => Reached(j, q)
    <3>. SUFFICES ASSUME NEW j \in Job, NEW q \in Queue, Reached(j, q)'
                  PROVE  Reached(j, q)
      OBVIOUS
    <3>1. CASE Copy(q, j)'
      BY <1>4, <3>1, ReachedIsCopy DEF CopiesSame
    <3>2. CASE q \in Stage /\ Logged("stage_started", j, q)'
      <4>1. CASE Logged("stage_started", j, q)
        BY <3>2, <4>1, ReachedIsCopy
      <4>2. CASE j = delivered[w] /\ q = StageOf[w]
        BY <2>1, <4>2 DEF KeptInv, WorkIsReached
      <4>. QED  BY <2>1, <3>2, <4>1, <4>2 DEF Logged
    <3>. QED  BY <3>1, <3>2 DEF Reached, Copy
  <2>3. FlowLogged' = FlowLogged
    BY <2>1 DEF FlowLogged, Logged
  <2>. QED  BY <2>2, <2>3, TracesSame DEF FlowStep
<1>5. ASSUME NEW w \in Worker, CopiesSame, AppendOutput(w)
      PROVE  FlowStep
  <2>1. /\ pc[w] = "started" /\ pc[w] \in Busy
        /\ events' = events \cup {<<"stage_output", delivered[w], StageOf[w]>>}
    BY <1>5 DEF AppendOutput, Go, Append, Busy
  <2>2. \A j \in Job, q \in Queue : Reached(j, q)' => Reached(j, q)
    BY <1>5, <2>1 DEF Reached, Copy, CopiesSame, Logged
  <2>3. FlowLogged' = FlowLogged \cup {<<delivered[w], StageOf[w]>>}
    BY <2>1, WorkOfThread DEF FlowLogged, Logged
  <2>4. <<delivered[w], StageOf[w]>> \in FlowReached
    BY <2>1, WorkOfThread DEF KeptInv, WorkIsReached, FlowReached
  <2>5. Flow!Log(delivered[w], StageOf[w])
    BY <2>2, <2>3, <2>4, TracesSame DEF Flow!Log, FlowReached, FlowLogged
  <2>. QED  BY <2>1, <2>5, WorkOfThread DEF FlowStep, Flow!Next, Flow!Stage, Stage
<1>6. CASE CopiesSame
  BY <1>1, <1>4, <1>5, <1>6, EventsStep DEF CopiesSame
<1>7. ASSUME NEW w \in Worker, Ack(w), CopyGoes(w)
      PROVE  FlowStep
  BY <1>1, <1>7 DEF Ack, CopyGoes
<1>. QED  BY <1>2, <1>3, <1>6, <1>7, CopiesStep DEF KeptInv

(***************************************************************************)
(* Threads without a store implement the write-ahead flow: under every     *)
(* fault of the model a job appears beyond a stage only after the output   *)
(* event of that stage, and no trace of a job disappears.                  *)
(***************************************************************************)
THEOREM SinkImplementsFlow == Spec => ImplementsWriteAheadFlow
<1>1. Init => Flow!Init
  BY DEF Init, BrokerInit, Flow!Init, Reached, Unacked, Busy, Logged
<1>2. SinkTypeOK /\ KeptInv /\ [Next]_vars => [Flow!Next]_<<FlowReached, FlowLogged>>
  BY FlowNextStep DEF FlowStep
<1>. QED
  BY <1>1, <1>2, SinkTypeCorrect, KeptInvariant, PTL
     DEF Spec, ImplementsWriteAheadFlow, Flow!Spec, FlowReached, FlowLogged
=============================================================================
