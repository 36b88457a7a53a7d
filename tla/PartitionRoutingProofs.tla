----------------------- MODULE PartitionRoutingProofs -----------------------
(***************************************************************************)
(* Theorems about the routing of tagged jobs, for every set of jobs, tags, *)
(* selectors, workers and operators and for every bound on the faults.     *)
(***************************************************************************)
EXTENDS PartitionRouting, TLAPS

-----------------------------------------------------------------------------
(* Types *)

LEMMA DerivedType ==
    ASSUME NEW t \in Tags
    PROVE  DerivePartitionKey(t) \in Partition
<1>1. DOMAIN t \subseteq Key /\ \A k \in DOMAIN t : t[k] \in Word
  BY DEF Tags
<1>2. \A n \in Key \cup Word : Sanitize[n] \in Name
  BY TargetingAssumption DEF Name
<1>3. CASE QuotaPool \in DOMAIN t
  BY <1>1, <1>2, <1>3 DEF DerivePartitionKey, Partition
<1>4. CASE QuotaPool \notin DOMAIN t
  <2>1. \A k \in DOMAIN t : <<Sanitize[k], Sanitize[t[k]]>> \in Name \X Name
    BY <1>1, <1>2
  <2>. QED  BY <1>4, <2>1 DEF DerivePartitionKey, Partition
<1>. QED  BY <1>3, <1>4

LEMMA ResolveType ==
    ASSUME NEW e \in Envelope
    PROVE  /\ Resolve(e) \in Envelope
           /\ Resolve(e).job = e.job /\ Resolve(e).target_tags = e.target_tags
           /\ Resolve(e).partition_key =
                 IF e.partition_key = Default THEN DerivePartitionKey(e.target_tags)
                                              ELSE e.partition_key
BY DerivedType DEF Resolve, ResolvedPartitionKey, Envelope

LEMMA NewEnvelopeType ==
    ASSUME NEW j \in Job
    PROVE  NewEnvelope(j) \in Envelope
BY RoutingAssumption DEF NewEnvelope, Envelope, Partition, Default

LEMMA StageIsQueue ==
    /\ 1 \in Stage /\ FinalQueue \in Queue
    /\ \A s \in Stage : s \in Queue /\ StageInputQueue(s) \in Queue
                        /\ StageOutputQueue(s) \in Queue
BY ManifestAssumption DEF Stage, Queue, FinalQueue, StageInputQueue, StageOutputQueue

StatesOK ==
    /\ DOMAIN jobStates \subseteq Job \X Queue
    /\ \A js \in DOMAIN jobStates :
          jobStates[js] \in JobState /\ jobStates[js].job.job = js[1]

LEMMA UpsertType ==
    ASSUME StatesOK, NEW s \in Queue, NEW e \in Envelope, NEW status \in JobStateStatus,
           UpsertJobState(s, e, status)
    PROVE  StatesOK'
<1>1. e.job \in Job /\ <<e.job, s>> \in Job \X Queue
  BY DEF Envelope
<1>2. DOMAIN jobStates' \subseteq Job \X Queue
  BY <1>1 DEF StatesOK, UpsertJobState
<1>3. ASSUME NEW js \in DOMAIN jobStates'
      PROVE  jobStates'[js] \in JobState /\ jobStates'[js].job.job = js[1]
  <2>1. CASE js = <<e.job, s>>
    BY <2>1 DEF JobState, UpsertJobState
  <2>2. CASE js # <<e.job, s>>
    BY <2>2 DEF StatesOK, UpsertJobState
  <2>. QED  BY <2>1, <2>2
<1>. QED  BY <1>2, <1>3 DEF StatesOK

\* A listed partition is that of a document, or "default".
LEMMA Listed ==
    /\ ListRunPartitions \subseteq PartitionsOf(RunStates) \cup {Default}
    /\ \A s, include, exclude :
          ListStagePartitions(s, include, exclude)
             \subseteq PartitionsOf(RunStates) \cup {Default}
BY DEF ListRunPartitions, ListStagePartitions, MatchingStates, PartitionsOf, RunStates,
       StageStates

LEMMA ListedType ==
    ASSUME StatesOK
    PROVE  /\ PartitionsOf(RunStates) \cup {Default} \subseteq Partition
           /\ JobsOf(RunStates) \subseteq Job
BY DEF StatesOK, JobState, Envelope, PartitionsOf, JobsOf, RunStates, Partition, Default

LEMMA ChosenType ==
    ASSUME RoutingTypeOK, NEW w \in Worker
    PROVE  ChosenPartitions(w) \subseteq Partition /\ ChosenJobs(w) \subseteq Job
<1>1. StatesOK
  BY DEF RoutingTypeOK, StatesOK
<1>. QED
  BY <1>1, Listed, ListedType
     DEF RoutingTypeOK, ChosenPartitions, ChosenJobs, JobsOf, MatchingStates

\* Only stages park jobs: what a replay finds can go back to its stage.
ParkedInStages ==
    \A js \in DOMAIN jobStates : jobStates[js].status = "parked" => js[2] \in Stage

RoutingInv == RoutingTypeOK /\ ParkedInStages

LEMMA UpsertParked ==
    ASSUME ParkedInStages, NEW s, NEW e, NEW status, UpsertJobState(s, e, status),
           status = "parked" => s \in Stage
    PROVE  ParkedInStages'
BY DEF ParkedInStages, UpsertJobState

LEMMA PairType ==
    ASSUME NEW m \in Stage \X Envelope
    PROVE  /\ m = <<m[1], m[2]>> /\ m[1] \in Stage /\ m[1] \in Queue
           /\ StageInputQueue(m[1]) \in Queue /\ m[2] \in Envelope
           /\ Resolve(m[2]) \in Envelope /\ Resolve(m[2]).partition_key \in Partition
BY ResolveType, StageIsQueue DEF Envelope

\* What a worker does to a document of its stage is well-typed.
LEMMA WorkerUpsert ==
    ASSUME RoutingInv, NEW s \in Queue, NEW e \in Envelope, NEW status \in JobStateStatus,
           UpsertJobState(s, e, status), status = "parked" => s \in Stage
    PROVE  StatesOK' /\ ParkedInStages'
BY UpsertType, UpsertParked DEF RoutingInv, RoutingTypeOK, StatesOK

\* The commands.
LEMMA CommandTypeStep ==
    ASSUME RoutingInv, NEW o \in Operator,
           \/ \E jobs \in SUBSET Job : Seed(o, jobs)
           \/ \E include \in SUBSET Selector : Replay(o, include)
           \/ \E m \in toMark[o] : Declare(o, m) \/ MarkPending(o, m)
           \/ \E m \in inHand[o] : PublishPending(o, m)
           \/ Abort(o)
    PROVE  RoutingInv'
<1>1. RoutingTypeOK /\ ParkedInStages /\ StatesOK
  BY DEF RoutingInv, RoutingTypeOK, StatesOK
<1>2. ASSUME UNCHANGED jobStates
      PROVE  StatesOK' /\ ParkedInStages'
  BY <1>1, <1>2 DEF StatesOK, ParkedInStages
<1>3. \A m \in toMark[o] \cup inHand[o] : m \in Stage \X Envelope
  BY <1>1 DEF RoutingTypeOK
<1>4. ASSUME NEW jobs \in SUBSET Job, Seed(o, jobs)
      PROVE  RoutingInv'
  <2>1. {<<1, NewEnvelope(j)>> : j \in jobs} \in SUBSET (Stage \X Envelope)
    BY NewEnvelopeType, StageIsQueue
  <2>. QED
    BY <1>1, <1>2, <1>4, <2>1
       DEF Seed, Begin, RoutingInv, RoutingTypeOK, StatesOK, workerVars, tapVars
<1>5. ASSUME NEW include \in SUBSET Selector, Replay(o, include)
      PROVE  RoutingInv'
  <2>1. \A d \in DOMAIN jobStates :
           jobStates[d].status = "parked" => <<d[2], jobStates[d].job>> \in Stage \X Envelope
    BY <1>1 DEF ParkedInStages, StatesOK, JobState
  <2>2. ReplayablePairs(include) \in SUBSET (Stage \X Envelope)
    BY <2>1 DEF ReplayablePairs
  <2>. QED
    BY <1>1, <1>2, <1>5, <2>2
       DEF Replay, Begin, RoutingInv, RoutingTypeOK, StatesOK, workerVars, tapVars
<1>6. ASSUME NEW m \in toMark[o], Declare(o, m)
      PROVE  RoutingInv'
  BY <1>1, <1>2, <1>3, <1>6, PairType
     DEF Declare, RoutingInv, RoutingTypeOK, StatesOK, workerVars, tapVars
<1>7. ASSUME NEW m \in toMark[o], MarkPending(o, m)
      PROVE  RoutingInv'
  <2>1. StatesOK' /\ ParkedInStages'
    BY <1>3, <1>7, PairType, WorkerUpsert DEF MarkPending, JobStateStatus
  <2>2. <<m[1], Resolve(m[2])>> \in Stage \X Envelope
    BY <1>3, PairType
  <2>. QED
    BY <1>1, <1>7, <2>1, <2>2
       DEF MarkPending, RoutingInv, RoutingTypeOK, StatesOK, workerVars, tapVars
<1>8. ASSUME NEW m \in inHand[o], PublishPending(o, m)
      PROVE  RoutingInv'
  <2>1. ready' \subseteq Queue \X Envelope
    BY <1>1, <1>3, <1>8, PairType DEF PublishPending, Publish, RoutingTypeOK
  <2>2. CASE inHand[o] = {m}
    BY <1>1, <1>2, <1>8, <2>1, <2>2
       DEF PublishPending, Clear, RoutingInv, RoutingTypeOK, StatesOK, workerVars, tapVars
  <2>3. CASE inHand[o] # {m}
    BY <1>1, <1>2, <1>8, <2>1, <2>3
       DEF PublishPending, RoutingInv, RoutingTypeOK, StatesOK, workerVars, tapVars
  <2>. QED  BY <2>2, <2>3
<1>9. ASSUME Abort(o)
      PROVE  RoutingInv'
  BY <1>1, <1>2, <1>9
     DEF Abort, Clear, RoutingInv, RoutingTypeOK, StatesOK, workerVars, tapVars
<1>. QED  BY <1>4, <1>5, <1>6, <1>7, <1>8, <1>9

\* The workers.
LEMMA WorkerTypeStep ==
    ASSUME RoutingInv, NEW w \in Worker,
           \/ Spawn(w) \/ ResolvePartitions(w) \/ StopWorker(w)
           \/ \E m \in ready : Take(w, m)
           \/ \E e \in delivered[w] :
                 \/ \E tags \in HandlerTags[e.target_tags] : Complete(w, e, tags)
                 \/ \E tags \in TagsLeft(e) : Park(w, e, tags)
    PROVE  RoutingInv'
<1>1. RoutingTypeOK /\ ParkedInStages /\ StatesOK
  BY DEF RoutingInv, RoutingTypeOK, StatesOK
<1>2. ASSUME UNCHANGED jobStates
      PROVE  StatesOK' /\ ParkedInStages'
  BY <1>1, <1>2 DEF StatesOK, ParkedInStages
<1>3. /\ StageOf[w] \in Stage /\ StageOf[w] \in Queue
      /\ StageInputQueue(StageOf[w]) \in Queue /\ StageOutputQueue(StageOf[w]) \in Queue
  BY RoutingAssumption, StageIsQueue
<1>4. \A e \in delivered[w] : e \in Envelope /\ Resolve(e) \in Envelope
  BY <1>1, ResolveType DEF RoutingTypeOK
<1>5. ASSUME Spawn(w)
      PROVE  RoutingInv'
  <2>1. ListRunPartitions \subseteq Partition /\ JobsOf(RunStates) \subseteq Job
    BY <1>1, Listed, ListedType
  <2>. QED
    BY <1>1, <1>2, <1>5, <2>1
       DEF Spawn, KeepDeliveries, RoutingInv, RoutingTypeOK, StatesOK, commandVars, tapVars
<1>6. ASSUME ResolvePartitions(w)
      PROVE  RoutingInv'
  BY <1>1, <1>2, <1>6, ChosenType
     DEF ResolvePartitions, KeepDeliveries, RoutingInv, RoutingTypeOK, StatesOK,
         commandVars, tapVars
<1>7. ASSUME StopWorker(w)
      PROVE  RoutingInv'
  <2>1. ready' \subseteq Queue \X Envelope
    BY <1>1, <1>3, <1>4, <1>7 DEF StopWorker, RoutingTypeOK
  <2>. QED
    BY <1>1, <1>2, <1>7, <2>1
       DEF StopWorker, RoutingInv, RoutingTypeOK, StatesOK, commandVars, tapVars
<1>8. ASSUME NEW m \in ready, Take(w, m)
      PROVE  RoutingInv'
  <2>1. m[2] \in Envelope /\ Resolve(m[2]) \in Envelope
    BY <1>1, ResolveType DEF RoutingTypeOK
  <2>2. StatesOK' /\ ParkedInStages'
    BY <1>3, <1>8, <2>1, WorkerUpsert DEF Take, JobStateStatus
  <2>. QED
    BY <1>1, <1>8, <2>1, <2>2
       DEF Take, RoutingInv, RoutingTypeOK, StatesOK, commandVars, tapVars
<1>9. ASSUME NEW e \in delivered[w], NEW tags \in HandlerTags[e.target_tags],
             Complete(w, e, tags)
      PROVE  RoutingInv'
  <2>. DEFINE done == [Resolve(e) EXCEPT !.target_tags = tags]
  <2>1. tags \in Tags
    BY <1>4, RoutingAssumption DEF Envelope
  <2>2. done \in Envelope
    BY <1>4, <2>1 DEF Envelope
  <2>3. StatesOK' /\ ParkedInStages'
    BY <1>3, <1>9, <2>2, WorkerUpsert DEF Complete, JobStateStatus
  <2>4. ready' \subseteq Queue \X Envelope
    <3>1. ready' \subseteq ready \cup {<<StageOutputQueue(StageOf[w]), done>>}
      BY <1>9 DEF Complete, Publish
    <3>. HIDE DEF done
    <3>. QED  BY <1>1, <1>3, <2>2, <3>1 DEF RoutingTypeOK
  <2>. QED
    BY <1>1, <1>9, <2>3, <2>4
       DEF Complete, RoutingInv, RoutingTypeOK, StatesOK, commandVars, tapVars
<1>10. ASSUME NEW e \in delivered[w], NEW tags \in TagsLeft(e), Park(w, e, tags)
       PROVE  RoutingInv'
  <2>. DEFINE left == [Resolve(e) EXCEPT !.target_tags = tags]
  <2>0. left \in Envelope
    BY <1>4, RoutingAssumption DEF Envelope, TagsLeft
  <2>1. StatesOK' /\ ParkedInStages'
    BY <1>3, <1>10, <2>0, WorkerUpsert DEF Park, JobStateStatus
  <2>. QED
    BY <1>1, <1>10, <2>1
       DEF Park, RoutingInv, RoutingTypeOK, StatesOK, commandVars, tapVars
<1>. QED  BY <1>5, <1>6, <1>7, <1>8, <1>9, <1>10

\* The tap.
LEMMA TapTypeStep ==
    ASSUME RoutingInv, BuildTap \/ \E m \in ready : TapTake(m)
    PROVE  RoutingInv'
<1>1. RoutingTypeOK /\ ParkedInStages /\ StatesOK
  BY DEF RoutingInv, RoutingTypeOK, StatesOK
<1>2. ASSUME BuildTap
      PROVE  RoutingInv'
  <2>1. ListRunPartitions \subseteq Partition /\ JobsOf(RunStates) \subseteq Job
    BY <1>1, Listed, ListedType
  <2>. QED
    BY <1>1, <1>2, <2>1
       DEF BuildTap, RoutingInv, RoutingTypeOK, ParkedInStages, commandVars, workerVars
<1>3. ASSUME NEW m \in ready, TapTake(m)
      PROVE  RoutingInv'
  <2>1. m[2] \in Envelope
    BY <1>1 DEF RoutingTypeOK
  <2>2. StatesOK' /\ ParkedInStages'
    BY <1>3, <2>1, StageIsQueue, WorkerUpsert DEF TapTake, JobStateStatus
  <2>. QED
    BY <1>1, <1>3, <2>2
       DEF TapTake, RoutingInv, RoutingTypeOK, StatesOK, commandVars, workerVars, tapVars
<1>. QED  BY <1>2, <1>3

LEMMA RoutingInvariant == Spec => []RoutingInv
<1>1. Init => RoutingInv
  BY DEF Init, RoutingInv, RoutingTypeOK, ParkedInStages, Partition, Default
<1>2. RoutingInv /\ [Next]_vars => RoutingInv'
  <2>1. RoutingInv /\ UNCHANGED vars => RoutingInv'
    BY DEF vars, commandVars, workerVars, tapVars, RoutingInv, RoutingTypeOK,
           ParkedInStages
  <2>. QED  BY <2>1, CommandTypeStep, WorkerTypeStep, TapTypeStep DEF Next
<1>. QED  BY <1>1, <1>2, PTL DEF Spec

(***************************************************************************)
(* Every reachable state is well-typed: a thread has at most one delivery  *)
(* and only while its process consumes, and a document carries the         *)
(* envelope of its own job.                                                *)
(***************************************************************************)
THEOREM RoutingTypeCorrect == Spec => []RoutingTypeOK
BY RoutingInvariant, PTL DEF RoutingInv

-----------------------------------------------------------------------------
(* Where the partitions of jobs come from *)

\* The partition that a job gets from the tags it is seeded with.
Home(j) == DerivePartitionKey(TagsOf[j])

\* An envelope whose partition nobody will change.
Settled(e) ==
    /\ e.partition_key = Home(e.job)
    /\ Home(e.job) = Default => DerivePartitionKey(e.target_tags) = Default

\* A job that was marked: its queues exist, and a document of stage 1 for it.
Placed(j) == Home(j) \in declared /\ <<j, 1>> \in DOMAIN jobStates

DocumentsPlaced ==
    \A js \in DOMAIN jobStates : Settled(jobStates[js].job) /\ Placed(js[1])

MessagesPlaced == \A m \in ready : Settled(m[2]) /\ Placed(m[2].job)

HandsPlaced ==
    \A o \in Operator : \A m \in inHand[o] : Settled(m[2]) /\ Placed(m[2].job)

WorkPlaced == \A w \in Worker : \A e \in delivered[w] : Settled(e) /\ Placed(e.job)

MarksSettled ==
    \A o \in Operator : \A m \in toMark[o] :
        Settled(Resolve(m[2])) /\ (m[1] = 1 \/ Placed(m[2].job))

NamesDeclared ==
    /\ Default \in declared
    /\ \A o \in Operator : declaredHere[o] \subseteq declared
    /\ \A w \in Worker : consumes[w] \subseteq declared
    /\ tapConsumes \subseteq declared

PlacedInv ==
    /\ DocumentsPlaced /\ MessagesPlaced /\ HandsPlaced
    /\ WorkPlaced /\ MarksSettled /\ NamesDeclared

LEMMA SettledResolves ==
    ASSUME NEW e \in Envelope, Settled(e)
    PROVE  Resolve(e) = e
BY ResolveType DEF Settled, Resolve, ResolvedPartitionKey, Envelope

LEMMA NewIsSettled ==
    ASSUME NEW j \in Job
    PROVE  Settled(Resolve(NewEnvelope(j)))
<1>1. /\ Resolve(NewEnvelope(j)).job = j
      /\ Resolve(NewEnvelope(j)).target_tags = TagsOf[j]
      /\ Resolve(NewEnvelope(j)).partition_key = Home(j)
  BY NewEnvelopeType, ResolveType DEF NewEnvelope, Home
<1>. QED  BY <1>1 DEF Settled, Home

LEMMA DoneIsSettled ==
    ASSUME HandlersKeepDefault, NEW e \in Envelope, Settled(e),
           NEW tags \in TagsLeft(e)
    PROVE  /\ Settled([Resolve(e) EXCEPT !.target_tags = tags])
           /\ [Resolve(e) EXCEPT !.target_tags = tags] \in Envelope
           /\ [Resolve(e) EXCEPT !.target_tags = tags].job = e.job
<1>1. e.target_tags \in Tags /\ tags \in Tags
  BY RoutingAssumption DEF Envelope, TagsLeft
<1>2. Resolve(e) = e
  BY SettledResolves
<1>. QED  BY <1>1, <1>2 DEF Settled, Envelope, HandlersKeepDefault, TagsLeft

\* Queues and documents stay.
Grows == declared \subseteq declared' /\ DOMAIN jobStates \subseteq DOMAIN jobStates'

LEMMA PlacedStays ==
    ASSUME [Next]_vars
    PROVE  /\ declared \subseteq declared'
           /\ \A j : Placed(j) => Placed(j)'
<1>1. ASSUME UNCHANGED <<declared, jobStates>>
      PROVE  Grows
  BY <1>1 DEF Grows
<1>2. ASSUME NEW o \in Operator,
             \/ \E jobs \in SUBSET Job : Seed(o, jobs)
             \/ \E include \in SUBSET Selector : Replay(o, include)
             \/ \E m \in toMark[o] : Declare(o, m) \/ MarkPending(o, m)
             \/ \E m \in inHand[o] : PublishPending(o, m)
             \/ Abort(o)
      PROVE  Grows
  <2>1. ASSUME NEW m \in toMark[o], Declare(o, m)
        PROVE  Grows
    BY <2>1 DEF Declare, Grows
  <2>2. ASSUME NEW m \in toMark[o], MarkPending(o, m)
        PROVE  Grows
    BY <2>2 DEF MarkPending, UpsertJobState, Grows
  <2>3. ASSUME \/ \E jobs \in SUBSET Job : Seed(o, jobs)
               \/ \E include \in SUBSET Selector : Replay(o, include)
               \/ \E m \in inHand[o] : PublishPending(o, m)
               \/ Abort(o)
        PROVE  Grows
    BY <1>1, <2>3 DEF Seed, Replay, PublishPending, Abort
  <2>. QED  BY <1>2, <2>1, <2>2, <2>3
<1>3. ASSUME BuildTap
      PROVE  Grows
  BY <1>1, <1>3 DEF BuildTap
<1>4. ASSUME NEW w \in Worker, Spawn(w) \/ ResolvePartitions(w) \/ StopWorker(w)
      PROVE  Grows
  BY <1>1, <1>4 DEF Spawn, ResolvePartitions, StopWorker
<1>5. ASSUME NEW w \in Worker, NEW m \in ready, Take(w, m)
      PROVE  Grows
  BY <1>5 DEF Take, UpsertJobState, Grows
<1>6. ASSUME NEW w \in Worker, NEW e \in delivered[w],
             \/ \E tags \in HandlerTags[e.target_tags] : Complete(w, e, tags)
             \/ \E tags \in TagsLeft(e) : Park(w, e, tags)
      PROVE  Grows
  BY <1>6 DEF Complete, Park, UpsertJobState, Grows
<1>7. ASSUME NEW m \in ready, TapTake(m)
      PROVE  Grows
  BY <1>7 DEF TapTake, UpsertJobState, Grows
<1>8. ASSUME UNCHANGED vars
       PROVE  Grows
  BY <1>1, <1>8 DEF vars
<1>9. Grows
  BY <1>2, <1>3, <1>4, <1>5, <1>6, <1>7, <1>8 DEF Next
<1>10. declared \subseteq declared' /\ DOMAIN jobStates \subseteq DOMAIN jobStates'
  BY <1>9 DEF Grows
<1>. QED  BY <1>10 DEF Placed

\* A document is written with a settled envelope of a job that was marked.
LEMMA UpsertPlaced ==
    ASSUME RoutingInv, DocumentsPlaced, NEW s \in Queue, NEW e \in Envelope, NEW status,
           UpsertJobState(s, e, status), Settled(e), Placed(e.job)',
           \A j : Placed(j) => Placed(j)'
    PROVE  DocumentsPlaced'
<1>. SUFFICES ASSUME NEW js \in DOMAIN jobStates'
              PROVE  Settled(jobStates'[js].job) /\ Placed(js[1])'
  BY DEF DocumentsPlaced
<1>1. CASE js = <<e.job, s>>
  BY <1>1 DEF UpsertJobState
<1>2. CASE js # <<e.job, s>>
  BY <1>2 DEF UpsertJobState, DocumentsPlaced
<1>. QED  BY <1>1, <1>2

\* Listed partitions have queues.
LEMMA ListedDeclared ==
    ASSUME RoutingInv, PlacedInv
    PROVE  /\ PartitionsOf(RunStates) \cup {Default} \subseteq declared
           /\ ListRunPartitions \subseteq declared
           /\ \A w \in Worker : ChosenPartitions(w) \subseteq declared
<1>1. \A js \in DOMAIN jobStates : jobStates[js].job.partition_key \in declared
  <2>. SUFFICES ASSUME NEW js \in DOMAIN jobStates
                PROVE  jobStates[js].job.partition_key \in declared
    OBVIOUS
  <2>1. jobStates[js].job.job = js[1]
    BY DEF RoutingInv, RoutingTypeOK
  <2>2. Home(js[1]) \in declared
    BY DEF PlacedInv, DocumentsPlaced, Placed
  <2>3. jobStates[js].job.partition_key = Home(jobStates[js].job.job)
    BY DEF PlacedInv, DocumentsPlaced, Settled
  <2>. QED  BY <2>1, <2>2, <2>3
<1>2. PartitionsOf(RunStates) \cup {Default} \subseteq declared
  BY <1>1 DEF PartitionsOf, RunStates, PlacedInv, NamesDeclared
<1>. QED  BY <1>2, Listed DEF ChosenPartitions

LEMMA CommandPlacedStep ==
    ASSUME RoutingInv, PlacedInv, [Next]_vars, NEW o \in Operator,
           \/ \E jobs \in SUBSET Job : Seed(o, jobs)
           \/ \E include \in SUBSET Selector : Replay(o, include)
           \/ \E m \in toMark[o] : Declare(o, m) \/ MarkPending(o, m)
           \/ \E m \in inHand[o] : PublishPending(o, m)
           \/ Abort(o)
    PROVE  PlacedInv'
<1>. USE PlacedStays DEF PlacedInv
<1>1. RoutingTypeOK /\ ParkedInStages
  BY DEF RoutingInv
<1>2. \A m \in toMark[o] \cup inHand[o] : m \in Stage \X Envelope
  BY <1>1 DEF RoutingTypeOK
<1>3. UNCHANGED jobStates => DocumentsPlaced'
  BY DEF DocumentsPlaced
<1>4. UNCHANGED <<delivered, consumes, tapConsumes>>
        => WorkPlaced' /\ (declaredHere' = declaredHere => NamesDeclared')
  BY DEF WorkPlaced, NamesDeclared
<1>5. UNCHANGED ready => MessagesPlaced'
  BY DEF MessagesPlaced
<1>6. ASSUME NEW jobs \in SUBSET Job, Seed(o, jobs)
      PROVE  PlacedInv'
  <2>1. MarksSettled'
    <3>1. toMark' = [toMark EXCEPT ![o] = {<<1, NewEnvelope(j)>> : j \in jobs}]
      BY <1>6 DEF Seed, Begin
    <3>. QED  BY <1>1, <3>1, NewIsSettled DEF MarksSettled, RoutingTypeOK
  <2>. QED
    BY <1>3, <1>4, <1>5, <1>6, <2>1 DEF Seed, HandsPlaced, workerVars, tapVars
<1>7. ASSUME NEW include \in SUBSET Selector, Replay(o, include)
      PROVE  PlacedInv'
  <2>1. \A d \in DOMAIN jobStates :
           /\ jobStates[d].job \in Envelope /\ jobStates[d].job.job = d[1]
           /\ Settled(jobStates[d].job) /\ Placed(d[1])
    BY <1>1 DEF RoutingTypeOK, JobState, DocumentsPlaced
  <2>2. \A m \in ReplayablePairs(include) :
           Settled(Resolve(m[2])) /\ Placed(m[2].job)
    BY <2>1, SettledResolves DEF ReplayablePairs
  <2>3. toMark' = [toMark EXCEPT ![o] = ReplayablePairs(include)]
    BY <1>7 DEF Replay, Begin
  <2>4. MarksSettled'
    BY <1>1, <2>2, <2>3 DEF MarksSettled, RoutingTypeOK
  <2>. QED
    BY <1>3, <1>4, <1>5, <1>7, <2>4 DEF Replay, HandsPlaced, workerVars, tapVars
<1>8. ASSUME NEW m \in toMark[o], Declare(o, m)
      PROVE  PlacedInv'
  <2>1. NamesDeclared'
    BY <1>1, <1>8 DEF Declare, NamesDeclared, RoutingTypeOK, workerVars, tapVars
  <2>. QED
    BY <1>3, <1>4, <1>5, <1>8, <2>1
       DEF Declare, HandsPlaced, MarksSettled, workerVars, tapVars
<1>9. ASSUME NEW m \in toMark[o], MarkPending(o, m)
      PROVE  PlacedInv'
  <2>1. /\ m[1] \in Queue /\ m[2] \in Envelope
        /\ Resolve(m[2]) \in Envelope /\ Resolve(m[2]).job = m[2].job
    BY <1>2, PairType, ResolveType
  <2>2. Settled(Resolve(m[2])) /\ (m[1] = 1 \/ Placed(m[2].job))
    BY DEF MarksSettled
  <2>3. Placed(m[2].job)'
    <3>1. Home(m[2].job) \in declared
      BY <1>9, <2>1, <2>2 DEF MarkPending, NamesDeclared, Settled
    <3>2. CASE m[1] = 1
      BY <1>9, <2>1, <3>1, <3>2 DEF MarkPending, UpsertJobState, Placed
    <3>. QED  BY <2>2, <3>2
  <2>4. DocumentsPlaced'
    <3>1. UpsertJobState(m[1], Resolve(m[2]), "pending")
      BY <1>9 DEF MarkPending
    <3>2. PICK e \in Envelope : e = Resolve(m[2])
      BY <2>1
    <3>. QED  BY <2>1, <2>2, <2>3, <3>1, <3>2, UpsertPlaced
  <2>5. HandsPlaced'
    <3>1. inHand' = [inHand EXCEPT ![o] = @ \cup {<<m[1], Resolve(m[2])>>}]
      BY <1>9 DEF MarkPending
    <3>. QED  BY <1>1, <2>1, <2>2, <2>3, <3>1 DEF HandsPlaced, RoutingTypeOK
  <2>6. MarksSettled'
    BY <1>1, <1>9 DEF MarkPending, MarksSettled, RoutingTypeOK
  <2>. QED
    BY <1>4, <1>5, <1>9, <2>4, <2>5, <2>6 DEF MarkPending, workerVars, tapVars
<1>10. ASSUME NEW m \in inHand[o], PublishPending(o, m)
       PROVE  PlacedInv'
  <2>1. MessagesPlaced'
    <3>1. ready' \subseteq ready \cup {<<StageInputQueue(m[1]), m[2]>>}
      BY <1>10 DEF PublishPending, Publish
    <3>. QED  BY <3>1 DEF MessagesPlaced, HandsPlaced
  <2>2. /\ \A p \in Operator : /\ toMark'[p] \subseteq toMark[p]
                               /\ inHand'[p] \subseteq inHand[p]
                               /\ declaredHere'[p] \subseteq declaredHere[p]
        /\ UNCHANGED <<declared, jobStates, delivered, consumes, tapConsumes>>
    BY <1>1, <1>10
       DEF PublishPending, Clear, RoutingTypeOK, workerVars, tapVars
  <2>. QED
    BY <1>3, <1>4, <2>1, <2>2 DEF HandsPlaced, MarksSettled, NamesDeclared
<1>11. ASSUME Abort(o)
       PROVE  PlacedInv'
  <2>1. /\ \A p \in Operator : /\ toMark'[p] \subseteq toMark[p]
                               /\ inHand'[p] \subseteq inHand[p]
                               /\ declaredHere'[p] \subseteq declaredHere[p]
        /\ UNCHANGED <<declared, ready, jobStates, delivered, consumes, tapConsumes>>
    BY <1>1, <1>11 DEF Abort, Clear, RoutingTypeOK, workerVars, tapVars
  <2>. QED
    BY <1>3, <1>4, <1>5, <2>1 DEF HandsPlaced, MarksSettled, NamesDeclared
<1>. QED  BY <1>6, <1>7, <1>8, <1>9, <1>10, <1>11

LEMMA WorkerPlacedStep ==
    ASSUME HandlersKeepDefault, RoutingInv, PlacedInv, [Next]_vars, NEW w \in Worker,
           \/ Spawn(w) \/ ResolvePartitions(w) \/ StopWorker(w)
           \/ \E m \in ready : Take(w, m)
           \/ \E e \in delivered[w] :
                 \/ \E tags \in HandlerTags[e.target_tags] : Complete(w, e, tags)
                 \/ \E tags \in TagsLeft(e) : Park(w, e, tags)
    PROVE  PlacedInv'
<1>. USE PlacedStays DEF PlacedInv
<1>1. RoutingTypeOK /\ StageOf[w] \in Queue
  BY RoutingAssumption, StageIsQueue DEF RoutingInv
<1>2. UNCHANGED <<toMark, inHand>> => HandsPlaced' /\ MarksSettled'
  BY DEF HandsPlaced, MarksSettled
<1>3. UNCHANGED jobStates => DocumentsPlaced'
  BY DEF DocumentsPlaced
<1>4. UNCHANGED <<declaredHere, consumes, tapConsumes>> => NamesDeclared'
  BY DEF NamesDeclared
<1>5. \A e \in delivered[w] :
         e \in Envelope /\ Settled(e) /\ Placed(e.job) /\ Resolve(e) = e
  BY <1>1, SettledResolves DEF RoutingTypeOK, WorkPlaced
<1>6. ASSUME Spawn(w) \/ ResolvePartitions(w)
      PROVE  PlacedInv'
  <2>1. consumes'[w] \subseteq declared /\ \A v \in Worker \ {w} : consumes'[v] = consumes[v]
    BY <1>1, <1>6, ListedDeclared DEF Spawn, ResolvePartitions, RoutingTypeOK
  <2>2. UNCHANGED <<declared, ready, jobStates, commandVars, delivered, tapConsumes>>
    BY <1>6 DEF Spawn, ResolvePartitions, KeepDeliveries, commandVars, tapVars
  <2>3. NamesDeclared'
    BY <2>1, <2>2 DEF NamesDeclared, commandVars
  <2>. QED
    BY <1>2, <1>3, <2>2, <2>3 DEF MessagesPlaced, WorkPlaced, commandVars
<1>7. ASSUME StopWorker(w)
      PROVE  PlacedInv'
  <2>1. MessagesPlaced'
    BY <1>5, <1>7 DEF StopWorker, MessagesPlaced
  <2>2. WorkPlaced' /\ NamesDeclared'
    BY <1>1, <1>7
       DEF StopWorker, WorkPlaced, NamesDeclared, RoutingTypeOK, commandVars, tapVars
  <2>. QED  BY <1>2, <1>3, <1>7, <2>1, <2>2 DEF StopWorker, commandVars
<1>8. ASSUME NEW m \in ready, Take(w, m)
      PROVE  PlacedInv'
  <2>1. m[2] \in Envelope /\ Settled(m[2]) /\ Placed(m[2].job) /\ Resolve(m[2]) = m[2]
    BY <1>1, SettledResolves DEF RoutingTypeOK, MessagesPlaced
  <2>2. UpsertJobState(StageOf[w], m[2], "running")
    BY <1>8, <2>1 DEF Take
  <2>3. DocumentsPlaced'
    BY <1>1, <2>1, <2>2, UpsertPlaced
  <2>4. MessagesPlaced' /\ WorkPlaced'
    BY <1>1, <1>8, <2>1 DEF Take, MessagesPlaced, WorkPlaced, RoutingTypeOK
  <2>. QED  BY <1>2, <1>4, <1>8, <2>3, <2>4 DEF Take, commandVars, tapVars
<1>9. ASSUME NEW e \in delivered[w], NEW tags \in HandlerTags[e.target_tags],
             Complete(w, e, tags)
      PROVE  PlacedInv'
  <2>. DEFINE done == [Resolve(e) EXCEPT !.target_tags = tags]
  <2>1. Settled(done) /\ done \in Envelope /\ done.job = e.job
    BY <1>5, DoneIsSettled DEF TagsLeft
  <2>2. /\ UpsertJobState(StageOf[w], done, "completed")
        /\ ready' \subseteq ready \cup {<<StageOutputQueue(StageOf[w]), done>>}
        /\ delivered' = [delivered EXCEPT ![w] = {}]
        /\ UNCHANGED <<commandVars, consumes, tapVars>>
    BY <1>9 DEF Complete, Publish
  <2>. HIDE DEF done
  <2>3. DocumentsPlaced'
    BY <1>1, <1>5, <2>1, <2>2, UpsertPlaced
  <2>4. MessagesPlaced'
    BY <1>5, <2>1, <2>2 DEF MessagesPlaced
  <2>5. WorkPlaced'
    BY <1>1, <2>2 DEF WorkPlaced, RoutingTypeOK
  <2>. QED  BY <1>2, <1>4, <2>2, <2>3, <2>4, <2>5 DEF commandVars, tapVars
<1>10. ASSUME NEW e \in delivered[w], NEW tags \in TagsLeft(e), Park(w, e, tags)
       PROVE  PlacedInv'
  <2>. DEFINE left == [Resolve(e) EXCEPT !.target_tags = tags]
  <2>0. Settled(left) /\ left \in Envelope /\ left.job = e.job
    BY <1>5, DoneIsSettled
  <2>1. UpsertJobState(StageOf[w], left, "parked")
    BY <1>10 DEF Park
  <2>. HIDE DEF left
  <2>2. DocumentsPlaced'
    BY <1>1, <1>5, <2>0, <2>1, UpsertPlaced
  <2>3. MessagesPlaced' /\ WorkPlaced'
    BY <1>1, <1>10 DEF Park, MessagesPlaced, WorkPlaced, RoutingTypeOK
  <2>. QED  BY <1>2, <1>4, <1>10, <2>2, <2>3 DEF Park, commandVars, tapVars
<1>. QED  BY <1>6, <1>7, <1>8, <1>9, <1>10

LEMMA TapPlacedStep ==
    ASSUME RoutingInv, PlacedInv, [Next]_vars, BuildTap \/ \E m \in ready : TapTake(m)
    PROVE  PlacedInv'
<1>. USE PlacedStays DEF PlacedInv
<1>1. RoutingTypeOK
  BY DEF RoutingInv
<1>2. HandsPlaced' /\ MarksSettled' /\ WorkPlaced'
  BY DEF BuildTap, TapTake, HandsPlaced, MarksSettled, WorkPlaced, commandVars, workerVars
<1>3. ASSUME BuildTap
      PROVE  PlacedInv'
  <2>1. NamesDeclared'
    BY <1>3, ListedDeclared DEF BuildTap, NamesDeclared, commandVars, workerVars
  <2>. QED  BY <1>2, <1>3, <2>1 DEF BuildTap, DocumentsPlaced, MessagesPlaced
<1>4. ASSUME NEW m \in ready, TapTake(m)
      PROVE  PlacedInv'
  <2>1. m[2] \in Envelope /\ Settled(m[2]) /\ Placed(m[2].job)
    BY <1>1 DEF RoutingTypeOK, MessagesPlaced
  <2>2. DocumentsPlaced'
    BY <1>4, <2>1, StageIsQueue, UpsertPlaced DEF TapTake
  <2>3. MessagesPlaced' /\ NamesDeclared'
    BY <1>4 DEF TapTake, MessagesPlaced, NamesDeclared, commandVars, workerVars, tapVars
  <2>. QED  BY <1>2, <2>2, <2>3
<1>. QED  BY <1>3, <1>4

LEMMA PlacedInvariant ==
    ASSUME HandlersKeepDefault
    PROVE  Spec => []PlacedInv
<1>1. Init => PlacedInv
  BY DEF Init, PlacedInv, DocumentsPlaced, MessagesPlaced, HandsPlaced, WorkPlaced,
         MarksSettled, NamesDeclared
<1>2. RoutingInv /\ PlacedInv /\ [Next]_vars => PlacedInv'
  <2>1. PlacedInv /\ UNCHANGED vars => PlacedInv'
    BY DEF vars, commandVars, workerVars, tapVars, PlacedInv, DocumentsPlaced,
           MessagesPlaced, HandsPlaced, WorkPlaced, MarksSettled, NamesDeclared, Placed
  <2>. QED  BY <2>1, CommandPlacedStep, WorkerPlacedStep, TapPlacedStep DEF Next
<1>. QED  BY <1>1, <1>2, RoutingInvariant, PTL DEF Spec

(***************************************************************************)
(* If handlers do not tag a job without a partition into one, no job is    *)
(* ever on its way to a partition without queues, and nobody consumes one. *)
(***************************************************************************)
THEOREM RoutesAlwaysExist ==
    ASSUME HandlersKeepDefault
    PROVE  Spec => []RoutesExist
<1>1. RoutingInv /\ PlacedInv => RoutesExist
  <2>. SUFFICES ASSUME RoutingInv, PlacedInv
                PROVE  RoutesExist
    OBVIOUS
  <2>1. \A e : Settled(e) /\ Placed(e.job) => e.partition_key \in declared
    BY DEF Settled, Placed
  <2>2. \A m \in ready \cup UNION {inHand[o] : o \in Operator} :
           m[2].partition_key \in declared
    BY <2>1 DEF PlacedInv, MessagesPlaced, HandsPlaced
  <2>3. ASSUME NEW w \in Worker, NEW e \in delivered[w]
        PROVE  Resolve(e).partition_key \in declared
    <3>1. e \in Envelope /\ Settled(e) /\ Placed(e.job)
      BY DEF PlacedInv, WorkPlaced, RoutingInv, RoutingTypeOK
    <3>. QED  BY <2>1, <3>1, SettledResolves
  <2>4. PartitionsInPlay \subseteq declared
    BY <2>2, <2>3, ListedDeclared DEF PartitionsInPlay
  <2>5. PartitionsConsumed \subseteq declared
    BY DEF PartitionsConsumed, PlacedInv, NamesDeclared
  <2>. QED  BY <2>4, <2>5 DEF RoutesExist
<1>. QED  BY <1>1, RoutingInvariant, PlacedInvariant, PTL

-----------------------------------------------------------------------------
(* Who serves the jobs a consumer could know *)

KnownByWorkers ==
    \A w \in Worker :
        Selects(w) /\ pc[w] = "consuming" => \A j \in known[w] : Home(j) \in consumes[w]

\* A pool between the list of the run's partitions and its own choice.
KnownByPools ==
    \A w \in InProcess :
        pc[w] = "spawned" => \A j \in known[w] : Home(j) \in consumes[w]

KnownByTap == \A j \in tapKnown : Home(j) \in tapConsumes

KnownInv == KnownByWorkers /\ KnownByPools /\ KnownByTap

\* The partition of every document of the run is listed.
LEMMA RunListed ==
    ASSUME RoutingInv, PlacedInv, NEW j \in JobsOf(RunStates)
    PROVE  Home(j) \in ListRunPartitions
<1>1. PICK js \in DOMAIN jobStates : jobStates[js].job.job = j
  BY DEF JobsOf, RunStates
<1>2. jobStates[js] \in RunStates /\ jobStates[js].job.partition_key = Home(j)
  BY <1>1 DEF RunStates, PlacedInv, DocumentsPlaced, Settled
<1>. QED  BY <1>2 DEF ListRunPartitions, PartitionsOf

\* What a worker that chooses among all jobs lists: a matching document of
\* any stage comes with one of the first stage.
LEMMA MatchingListed ==
    ASSUME RoutingInv, PlacedInv, NEW w \in Worker, Selects(w),
           NEW j \in JobsOf(MatchingStates(RunStates, Include[w], Exclude[w]))
    PROVE  Home(j) \in ListStagePartitions(StageOf[w], Include[w], Exclude[w])
<1>1. PICK js \in DOMAIN jobStates :
         /\ jobStates[js].job.job = j
         /\ jobStates[js] \in MatchingStates(RunStates, Include[w], Exclude[w])
  BY DEF JobsOf, MatchingStates, RunStates
<1>2. \A d \in DOMAIN jobStates :
         jobStates[d].job.job = d[1] /\ jobStates[d].job.partition_key = Home(d[1])
  BY DEF RoutingInv, RoutingTypeOK, PlacedInv, DocumentsPlaced, Settled
<1>3. RunStates # {}
  BY <1>1 DEF RunStates
<1>4. CASE Include[w] \cup Exclude[w] # {} \/ StageStates(StageOf[w]) = {}
  BY <1>1, <1>2, <1>3, <1>4 DEF ListStagePartitions, PartitionsOf
<1>5. CASE Include[w] \cup Exclude[w] = {} /\ StageStates(StageOf[w]) # {}
  <2>1. StageOf[w] = 1 /\ Include[w] = {} /\ Exclude[w] = {}
    BY <1>5 DEF Selects
  <2>2. <<j, 1>> \in DOMAIN jobStates
    BY <1>1, <1>2 DEF PlacedInv, DocumentsPlaced, Placed
  <2>3. jobStates[<<j, 1>>] \in StageStates(1)
    BY <2>2 DEF StageStates
  <2>4. jobStates[<<j, 1>>]
           \in MatchingStates(StageStates(StageOf[w]), Include[w], Exclude[w])
    BY <2>1, <2>3 DEF MatchingStates, TargetMatches
  <2>5. jobStates[<<j, 1>>].job.partition_key = Home(j)
    BY <1>2, <2>2
  <2>. QED  BY <1>3, <1>5, <2>4, <2>5 DEF ListStagePartitions, PartitionsOf
<1>. QED  BY <1>4, <1>5

LEMMA KnownStep ==
    ASSUME RoutingInv, PlacedInv, KnownInv, [Next]_vars
    PROVE  KnownInv'
<1>1. RoutingTypeOK
  BY DEF RoutingInv
<1>2. ASSUME UNCHANGED <<pc, known, consumes>>
      PROVE  KnownByWorkers' /\ KnownByPools'
  BY <1>2 DEF KnownInv, KnownByWorkers, KnownByPools, Selects
<1>3. ASSUME UNCHANGED tapVars
      PROVE  KnownByTap'
  BY <1>3 DEF KnownInv, KnownByTap, tapVars
<1>4. ASSUME NEW w \in Worker, Spawn(w)
      PROVE  KnownInv'
  <2>1. w \in InProcess => \A j \in known'[w] : Home(j) \in consumes'[w]
    BY <1>1, <1>4, RunListed DEF Spawn, RoutingTypeOK
  <2>2. /\ pc'[w] = "spawned"
        /\ \A v \in Worker \ {w} :
              pc'[v] = pc[v] /\ known'[v] = known[v] /\ consumes'[v] = consumes[v]
        /\ UNCHANGED tapVars
    BY <1>1, <1>4 DEF Spawn, RoutingTypeOK
  <2>. QED
    BY <1>3, <2>1, <2>2, RoutingAssumption
       DEF KnownInv, KnownByWorkers, KnownByPools, Selects
<1>5. ASSUME NEW w \in Worker, ResolvePartitions(w)
      PROVE  KnownInv'
  <2>1. /\ pc'[w] # "spawned"
        /\ pc'[w] = "consuming" => /\ consumes'[w] = ChosenPartitions(w)
                                   /\ known'[w] = ChosenJobs(w)
        /\ \A v \in Worker \ {w} :
              pc'[v] = pc[v] /\ known'[v] = known[v] /\ consumes'[v] = consumes[v]
        /\ UNCHANGED tapVars
    BY <1>1, <1>5 DEF ResolvePartitions, RoutingTypeOK
  <2>2. Selects(w) => \A j \in ChosenJobs(w) : Home(j) \in ChosenPartitions(w)
    BY <1>5, MatchingListed
       DEF ChosenJobs, ChosenPartitions, ResolvePartitions, KnownInv, KnownByPools
  <2>. QED
    BY <1>3, <2>1, <2>2, RoutingAssumption
       DEF KnownInv, KnownByWorkers, KnownByPools, Selects
<1>6. ASSUME NEW w \in Worker, StopWorker(w)
      PROVE  KnownInv'
  <2>1. /\ pc'[w] = "off"
        /\ \A v \in Worker \ {w} :
              pc'[v] = pc[v] /\ known'[v] = known[v] /\ consumes'[v] = consumes[v]
        /\ UNCHANGED tapVars
    BY <1>1, <1>6 DEF StopWorker, RoutingTypeOK
  <2>. QED
    BY <1>3, <2>1, RoutingAssumption
       DEF KnownInv, KnownByWorkers, KnownByPools, Selects
<1>7. ASSUME BuildTap
      PROVE  KnownInv'
  <2>1. KnownByTap'
    BY <1>7, RunListed DEF BuildTap, KnownByTap
  <2>. QED  BY <1>2, <1>7, <2>1 DEF BuildTap, KnownInv, workerVars
<1>8. ASSUME UNCHANGED <<pc, known, consumes, tapVars>>
      PROVE  KnownInv'
  BY <1>2, <1>3, <1>8 DEF KnownInv
<1>9. ASSUME NEW o \in Operator,
             \/ \E jobs \in SUBSET Job : Seed(o, jobs)
             \/ \E include \in SUBSET Selector : Replay(o, include)
             \/ \E m \in toMark[o] : Declare(o, m) \/ MarkPending(o, m)
             \/ \E m \in inHand[o] : PublishPending(o, m)
             \/ Abort(o)
      PROVE  KnownInv'
  BY <1>8, <1>9
     DEF Seed, Replay, Declare, MarkPending, PublishPending, Abort, workerVars
<1>10. ASSUME NEW w \in Worker, \E m \in ready : Take(w, m)
       PROVE  KnownInv'
  BY <1>8, <1>10 DEF Take
<1>11. ASSUME NEW w \in Worker, NEW e \in delivered[w],
              \/ \E tags \in HandlerTags[e.target_tags] : Complete(w, e, tags)
              \/ \E tags \in TagsLeft(e) : Park(w, e, tags)
       PROVE  KnownInv'
  BY <1>8, <1>11 DEF Complete, Park
<1>12. ASSUME NEW m \in ready, TapTake(m)
       PROVE  KnownInv'
  BY <1>8, <1>12 DEF TapTake, workerVars
<1>13. CASE UNCHANGED vars
  BY <1>8, <1>13 DEF vars, workerVars
<1>. QED
  BY <1>4, <1>5, <1>6, <1>7, <1>9, <1>10, <1>11, <1>12, <1>13 DEF Next

(***************************************************************************)
(* Under the same assumption a worker with selectors, a worker of the      *)
(* first stage and the tap consume the queue of every job they could know  *)
(* when they started, whatever became of its tags.                         *)
(***************************************************************************)
THEOREM KnownJobsAlwaysServed ==
    ASSUME HandlersKeepDefault
    PROVE  Spec => []KnownJobsAreServed
<1>1. Init => KnownInv
  BY RoutingAssumption DEF Init, KnownInv, KnownByWorkers, KnownByPools, KnownByTap
<1>2. PlacedInv /\ KnownInv => KnownJobsAreServed
  BY DEF PlacedInv, MessagesPlaced, Settled, KnownInv, KnownByWorkers, KnownByTap,
         KnownJobsAreServed, ServedBy
<1>. QED  BY <1>1, <1>2, KnownStep, RoutingInvariant, PlacedInvariant, PTL DEF Spec
=============================================================================
