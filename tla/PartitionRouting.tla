-------------------------- MODULE PartitionRouting --------------------------
(***************************************************************************)
(* Which queue a tagged job goes to, and who consumes that queue.  Every   *)
(* stage queue of the run exists once per partition; seeding and replaying *)
(* declare the queues of a partition before they use it                    *)
(* (pipeline/eligibility.py), while workers (cli/stage_worker.py,          *)
(* lifecycle.start_stage_workers, runner._build_pools) and taps decide     *)
(* once, when they start, from the job states of the run, which partitions *)
(* they consume.                                                           *)
(*                                                                         *)
(*   declared      the partitions whose queues exist                       *)
(*   ready         the waiting messages: a queue and an envelope, which is *)
(*                 in that queue of its partition                          *)
(*   jobStates     the documents <<job, stage>> that exist; the stage      *)
(*                 "terminal" is FinalQueue                                *)
(*   batch         the jobs of the seed batch that operator o created      *)
(*   active        the jobs of active seed batches                         *)
(*   command       what operator o does: "none", "seed", "replay"          *)
(*   toMark        the <<stage, envelope>> pairs still to mark pending     *)
(*   inHand        those marked and not published (jobs_by_queue)          *)
(*   declaredHere  the local declared_partitions of the command            *)
(*   pc            worker process w: "off", "spawned" (the parent found    *)
(*                 partitions), "consuming"                                *)
(*   consumes      the partitions whose input queues w consumes            *)
(*   delivered     the envelopes the thread of w works on (at most one)    *)
(*   known         the jobs that had a matching document when w chose      *)
(*   tapConsumes, tapKnown   the same for the terminal tap, {} before it   *)
(*                 is built                                                *)
(*                                                                         *)
(* Messages are sets: copies of one envelope in one queue are one.  What a *)
(* delivery does between its calls is the subject of StageExecution; here  *)
(* it has a start and an end.                                              *)
(***************************************************************************)
EXTENDS RunManifest, Targeting, FiniteSets

CONSTANTS
    TagsOf,      \* the tags a job is seeded with
    HandlerTags, \* the tags a handler may leave on a job that has some tags
    Operator,    \* processes that seed and replay
    Worker,      \* worker processes, of one thread each
    StageOf,     \* the stage of a worker
    Include,     \* its --include selectors
    Exclude,     \* its --exclude selectors
    InProcess,   \* the workers that are pools of run_in_process
    MaxParks,    \* bound: deliveries that end held or failed
    MaxStarts,   \* bound: worker processes started
    MaxAborts    \* bound: commands that fail half-way

ASSUME RoutingAssumption ==
    /\ TagsOf \in [Job -> Tags]
    /\ HandlerTags \in [Tags -> SUBSET Tags]
    /\ StageOf \in [Worker -> Stage]
    /\ Include \in [Worker -> SUBSET Selector]
    /\ Exclude \in [Worker -> SUBSET Selector]
    /\ InProcess \subseteq Worker
    /\ MaxParks \in Nat /\ MaxStarts \in Nat /\ MaxAborts \in Nat

VARIABLES declared, ready, jobStates, active, command, batch, toMark, inHand,
          declaredHere, pc, consumes, delivered, known, tapConsumes, tapKnown,
          parks, starts, aborts

commandVars == <<active, command, batch, toMark, inHand, declaredHere, aborts>>
workerVars == <<pc, consumes, delivered, known, parks, starts>>
tapVars == <<tapConsumes, tapKnown>>
vars == <<declared, ready, jobStates, commandVars, workerVars, tapVars>>

Envelope == [job : Job, target_tags : Tags, partition_key : Partition]
JobStateStatus == {"pending", "running", "parked", "completed", "terminal"}
JobState == [status : JobStateStatus, job : Envelope]

RoutingTypeOK ==
    /\ declared \subseteq Partition
    /\ ready \subseteq Queue \X Envelope
    /\ DOMAIN jobStates \subseteq Job \X Queue
    /\ \A js \in DOMAIN jobStates :
          jobStates[js] \in JobState /\ jobStates[js].job.job = js[1]
    /\ active \subseteq Job
    /\ batch \in [Operator -> SUBSET Job]
    /\ command \in [Operator -> {"none", "seed", "replay"}]
    /\ toMark \in [Operator -> SUBSET (Stage \X Envelope)]
    /\ inHand \in [Operator -> SUBSET (Stage \X Envelope)]
    /\ declaredHere \in [Operator -> SUBSET Partition]
    /\ pc \in [Worker -> {"off", "spawned", "consuming"}]
    /\ consumes \in [Worker -> SUBSET Partition]
    /\ delivered \in [Worker -> SUBSET Envelope]
    /\ known \in [Worker -> SUBSET Job]
    /\ tapConsumes \subseteq Partition /\ tapKnown \subseteq Job
    /\ parks \in Nat /\ starts \in Nat /\ aborts \in Nat
    /\ \A w \in Worker :
          /\ \A e, f \in delivered[w] : e = f
          /\ pc[w] # "consuming" => delivered[w] = {}

\* setup_run_queues has declared the stage queues, which "default" uses.
Init ==
    /\ declared = {Default}
    /\ ready = {}
    /\ jobStates = <<>>
    /\ active = {}
    /\ batch = [o \in Operator |-> {}]
    /\ command = [o \in Operator |-> "none"]
    /\ toMark = [o \in Operator |-> {}]
    /\ inHand = [o \in Operator |-> {}]
    /\ declaredHere = [o \in Operator |-> {}]
    /\ pc = [w \in Worker |-> "off"]
    /\ consumes = [w \in Worker |-> {}]
    /\ delivered = [w \in Worker |-> {}]
    /\ known = [w \in Worker |-> {}]
    /\ tapConsumes = {} /\ tapKnown = {}
    /\ parks = 0 /\ starts = 0 /\ aborts = 0

-----------------------------------------------------------------------------
(* Job states and partitions *)

\* _upsert_job_state; the document carries the envelope.
UpsertJobState(s, e, status) ==
    jobStates' = [js \in DOMAIN jobStates \cup {<<e.job, s>>} |->
                    IF js = <<e.job, s>> THEN [status |-> status, job |-> e]
                                         ELSE jobStates[js]]

\* list_job_states of the run, and of one stage.
RunStates == {jobStates[js] : js \in DOMAIN jobStates}
StageStates(s) == {jobStates[js] : js \in {d \in DOMAIN jobStates : d[2] = s}}

PartitionsOf(states) == {state.job.partition_key : state \in states}
JobsOf(states) == {state.job.job : state \in states}

ListRunPartitions ==
    IF RunStates = {} THEN {Default} ELSE PartitionsOf(RunStates)

MatchingStates(states, include, exclude) ==
    {state \in states : TargetMatches(state.job.target_tags, include, exclude)}

ListStagePartitions(s, include, exclude) ==
    IF RunStates = {}
    THEN ListRunPartitions
    ELSE PartitionsOf(MatchingStates(
           IF include \cup exclude # {} \/ StageStates(s) = {}
           THEN RunStates ELSE StageStates(s), include, exclude))

\* JobEnvelope.resolve_partition_key.
Resolve(e) ==
    [e EXCEPT !.partition_key = ResolvedPartitionKey(@, e.target_tags)]

-----------------------------------------------------------------------------
(* Operators: seed_stage_eligible_jobs and replay_stage_eligible_jobs *)

Begin(o, label, pairs) ==
    /\ command[o] = "none"
    /\ pairs # {}
    /\ command' = [command EXCEPT ![o] = label]
    /\ toMark' = [toMark EXCEPT ![o] = pairs]

NewEnvelope(j) ==
    [job |-> j, target_tags |-> TagsOf[j], partition_key |-> Default]

\* create_seed_batch refuses the jobs of an active batch.
Seed(o, jobs) ==
    /\ jobs \cap active = {}
    /\ Begin(o, "seed", {<<1, NewEnvelope(j)>> : j \in jobs})
    /\ active' = active \cup jobs
    /\ batch' = [batch EXCEPT ![o] = jobs]
    /\ UNCHANGED <<declared, ready, jobStates, inHand, declaredHere, aborts,
                   workerVars, tapVars>>

\* replayable_job_states, then the documents' own stages and envelopes.
ReplayablePairs(include) ==
    {<<js[2], jobStates[js].job>> : js \in
        {d \in DOMAIN jobStates :
            /\ jobStates[d].status = "parked"
            /\ TargetMatches(jobStates[d].job.target_tags, include, {})}}

Replay(o, include) ==
    /\ Begin(o, "replay", ReplayablePairs(include))
    /\ UNCHANGED <<declared, ready, jobStates, active, batch, inHand, declaredHere,
                   aborts, workerVars, tapVars>>

\* declare_partition_queues, for the queues of all stages.
Declare(o, m) ==
    /\ Resolve(m[2]).partition_key \notin declaredHere[o]
    /\ declared' = declared \cup {Resolve(m[2]).partition_key}
    /\ declaredHere' =
          [declaredHere EXCEPT ![o] = @ \cup {Resolve(m[2]).partition_key}]
    /\ UNCHANGED <<ready, jobStates, active, command, batch, toMark, inHand,
                   aborts, workerVars, tapVars>>

\* Mutant: a partition is marked before its queues are declared.
MarkUndeclared(o, m) ==
    /\ toMark' = [toMark EXCEPT ![o] = @ \ {m}]
    /\ inHand' = [inHand EXCEPT ![o] = @ \cup {<<m[1], Resolve(m[2])>>}]
    /\ UpsertJobState(m[1], Resolve(m[2]), "pending")
    /\ UNCHANGED <<declared, ready, active, command, batch, declaredHere,
                   aborts, workerVars, tapVars>>

MarkPending(o, m) ==
    /\ Resolve(m[2]).partition_key \in declaredHere[o]
    /\ toMark' = [toMark EXCEPT ![o] = @ \ {m}]
    /\ inHand' = [inHand EXCEPT ![o] = @ \cup {<<m[1], Resolve(m[2])>>}]
    /\ UpsertJobState(m[1], Resolve(m[2]), "pending")
    /\ UNCHANGED <<declared, ready, active, command, batch, declaredHere,
                   aborts, workerVars, tapVars>>

\* The command is over and forgets what it had in hand.
Clear(o) ==
    /\ command' = [command EXCEPT ![o] = "none"]
    /\ toMark' = [toMark EXCEPT ![o] = {}]
    /\ inHand' = [inHand EXCEPT ![o] = {}]
    /\ declaredHere' = [declaredHere EXCEPT ![o] = {}]
    /\ batch' = [batch EXCEPT ![o] = {}]

\* basic_publish drops what goes to a queue that does not exist.
Publish(q, e) ==
    ready' = IF e.partition_key \in declared THEN ready \cup {<<q, e>>} ELSE ready

\* Publishing starts when all is marked; the last message ends the command.
PublishPending(o, m) ==
    /\ toMark[o] = {}
    /\ Publish(StageInputQueue(m[1]), m[2])
    /\ IF inHand[o] = {m}
       THEN Clear(o)
       ELSE /\ inHand' = [inHand EXCEPT ![o] = @ \ {m}]
            /\ UNCHANGED <<command, batch, toMark, declaredHere>>
    /\ UNCHANGED <<declared, jobStates, active, aborts, workerVars, tapVars>>

\* A command fails: a seed that raises marks its batch failed and frees its
\* jobs, one that is killed does not.
Abort(o) ==
    /\ aborts < MaxAborts
    /\ command[o] # "none"
    /\ Clear(o)
    /\ aborts' = aborts + 1
    /\ active' \in {active, active \ batch[o]}
    /\ UNCHANGED <<declared, ready, jobStates, workerVars, tapVars>>

-----------------------------------------------------------------------------
(* Worker processes *)

KeepDeliveries == UNCHANGED <<delivered, parks>>

\* Mutant: the threads consume input_queues[0] only.
ConsumedFirst(w) == {CHOOSE p \in consumes[w] : TRUE}

\* WorkerPool.input_queues.
Consumed(w) == consumes[w]

\* _validate_stage_worker_partitions.
SomePartitionMatches(w) ==
    ListStagePartitions(StageOf[w], Include[w], Exclude[w]) # {}

\* start_stage_workers checks before it starts the process; _build_pools
\* reads the partitions of the run first.
Spawn(w) ==
    /\ starts < MaxStarts
    /\ pc[w] = "off"
    /\ w \notin InProcess => SomePartitionMatches(w)
    /\ pc' = [pc EXCEPT ![w] = "spawned"]
    /\ consumes' =
          [consumes EXCEPT ![w] = IF w \in InProcess THEN ListRunPartitions ELSE {}]
    /\ known' = [known EXCEPT ![w] = IF w \in InProcess THEN JobsOf(RunStates) ELSE {}]
    /\ starts' = starts + 1
    /\ KeepDeliveries
    /\ UNCHANGED <<declared, ready, jobStates, commandVars, tapVars>>

\* The partitions and, for the properties, the jobs with a matching document.
ChosenPartitions(w) ==
    LET listed == ListStagePartitions(StageOf[w], Include[w], Exclude[w])
    IN  IF w \in InProcess THEN consumes[w] \cap listed ELSE listed

ChosenJobs(w) ==
    LET matching == JobsOf(MatchingStates(RunStates, Include[w], Exclude[w]))
    IN  IF w \in InProcess THEN known[w] \cap matching ELSE matching

\* cli/stage_worker.main, _build_pools: without a partition there is no pool.
ResolvePartitions(w) ==
    /\ pc[w] = "spawned"
    /\ IF ChosenPartitions(w) = {}
       THEN /\ pc' = [pc EXCEPT ![w] = "off"]
            /\ consumes' = [consumes EXCEPT ![w] = {}]
            /\ known' = [known EXCEPT ![w] = {}]
       ELSE /\ pc' = [pc EXCEPT ![w] = "consuming"]
            /\ consumes' = [consumes EXCEPT ![w] = ChosenPartitions(w)]
            /\ known' = [known EXCEPT ![w] = ChosenJobs(w)]
    /\ KeepDeliveries
    /\ UNCHANGED <<declared, ready, jobStates, starts, commandVars, tapVars>>

\* A delivery; the execution resolves the partition and marks the job running.
Take(w, m) ==
    /\ pc[w] = "consuming" /\ delivered[w] = {}
    /\ m \in ready
    /\ m[1] = StageInputQueue(StageOf[w])
    /\ m[2].partition_key \in Consumed(w)
    /\ ready' = ready \ {m}
    /\ delivered' = [delivered EXCEPT ![w] = {m[2]}]
    /\ UpsertJobState(StageOf[w], Resolve(m[2]), "running")
    /\ UNCHANGED <<declared, commandVars, pc, consumes, known, parks, starts,
                   tapVars>>

\* The handler returned the job with tags; it is published, marked, acked.
Complete(w, e, tags) ==
    /\ e \in delivered[w]
    /\ tags \in HandlerTags[e.target_tags]
    /\ LET done == [Resolve(e) EXCEPT !.target_tags = tags]
       IN  /\ Publish(StageOutputQueue(StageOf[w]), done)
           /\ UpsertJobState(StageOf[w], done, "completed")
    /\ delivered' = [delivered EXCEPT ![w] = {}]
    /\ UNCHANGED <<declared, commandVars, pc, consumes, known, parks, starts,
                   tapVars>>

\* The tags of a job whose handler did not run or raised: it may have changed
\* them before.
TagsLeft(e) == HandlerTags[e.target_tags] \cup {e.target_tags}

\* hold_job, record_job_failure; the document keeps what the handler did.
Park(w, e, tags) ==
    /\ parks < MaxParks
    /\ e \in delivered[w]
    /\ tags \in TagsLeft(e)
    /\ UpsertJobState(StageOf[w], [Resolve(e) EXCEPT !.target_tags = tags], "parked")
    /\ delivered' = [delivered EXCEPT ![w] = {}]
    /\ parks' = parks + 1
    /\ UNCHANGED <<declared, ready, commandVars, pc, consumes, known, starts,
                   tapVars>>

\* Mutant: the process ends with its delivery in its hands.
StopHoldingDelivery(w) ==
    /\ pc[w] # "off"
    /\ pc' = [pc EXCEPT ![w] = "off"]
    /\ consumes' = [consumes EXCEPT ![w] = {}]
    /\ known' = [known EXCEPT ![w] = {}]
    /\ UNCHANGED <<declared, ready, jobStates, delivered, parks, starts,
                   commandVars, tapVars>>

\* The process ends, by a stop or a crash; the broker requeues its delivery.
StopWorker(w) ==
    /\ pc[w] # "off"
    /\ pc' = [pc EXCEPT ![w] = "off"]
    /\ consumes' = [consumes EXCEPT ![w] = {}]
    /\ known' = [known EXCEPT ![w] = {}]
    /\ delivered' = [delivered EXCEPT ![w] = {}]
    /\ ready' = ready \cup {<<StageInputQueue(StageOf[w]), e>> : e \in delivered[w]}
    /\ UNCHANGED <<declared, jobStates, parks, starts, commandVars, tapVars>>

-----------------------------------------------------------------------------
(* The terminal tap *)

BuildTap ==
    /\ tapConsumes = {}
    /\ tapConsumes' = ListRunPartitions
    /\ tapKnown' = JobsOf(RunStates)
    /\ UNCHANGED <<declared, ready, jobStates, commandVars, workerVars>>

TapTake(m) ==
    /\ m \in ready
    /\ m[1] = FinalQueue
    /\ m[2].partition_key \in tapConsumes
    /\ ready' = ready \ {m}
    /\ UpsertJobState(FinalQueue, m[2], "terminal")
    /\ UNCHANGED <<declared, commandVars, workerVars, tapVars>>

-----------------------------------------------------------------------------

Next ==
    \/ \E o \in Operator :
          \/ \E jobs \in SUBSET Job : Seed(o, jobs)
          \/ \E include \in SUBSET Selector : Replay(o, include)
          \/ \E m \in toMark[o] : Declare(o, m) \/ MarkPending(o, m)
          \/ \E m \in inHand[o] : PublishPending(o, m)
          \/ Abort(o)
    \/ \E w \in Worker :
          \/ Spawn(w) \/ ResolvePartitions(w) \/ StopWorker(w)
          \/ \E m \in ready : Take(w, m)
          \/ \E e \in delivered[w] :
                \/ \E tags \in HandlerTags[e.target_tags] : Complete(w, e, tags)
                \/ \E tags \in TagsLeft(e) : Park(w, e, tags)
    \/ BuildTap
    \/ \E m \in ready : TapTake(m)

Spec == Init /\ [][Next]_vars

(***************************************************************************)
(* Fairness.  A consumer that has a message is given one, and handlers     *)
(* return.  Nobody has to start, seed or replay anything.                  *)
(***************************************************************************)
Fairness ==
    /\ \A w \in Worker :
          /\ WF_vars(\E m \in ready : Take(w, m))
          /\ WF_vars(\E e \in delivered[w] :
                        \/ \E tags \in HandlerTags[e.target_tags] : Complete(w, e, tags)
                        \/ \E tags \in TagsLeft(e) : Park(w, e, tags))
    /\ WF_vars(\E m \in ready : TapTake(m))

FairSpec == Spec /\ Fairness

-----------------------------------------------------------------------------
(* Properties *)

\* What the handlers must grant: one that is given a job without a partition
\* does not tag it into one.
HandlersKeepDefault ==
    \A t \in Tags :
        DerivePartitionKey(t) = Default
            => \A u \in HandlerTags[t] : DerivePartitionKey(u) = Default

\* The partitions of the jobs on their way, and those somebody consumes.
PartitionsInPlay ==
    PartitionsOf(RunStates)
    \cup {Resolve(e).partition_key : e \in UNION {delivered[w] : w \in Worker}}
    \cup {m[2].partition_key : m \in ready \cup UNION {inHand[o] : o \in Operator}}

PartitionsConsumed == tapConsumes \cup UNION {consumes[w] : w \in Worker}

(***************************************************************************)
(* The queues of a partition exist before a job can be published to one of *)
(* them, whatever handlers that keep "default" make of the tags, and       *)
(* before anybody consumes one: no job goes to a queue that the broker     *)
(* does not know, where it would be dropped without an error, and no       *)
(* consumer dies of a missing queue.                                       *)
(***************************************************************************)
RoutesExist == PartitionsInPlay \cup PartitionsConsumed \subseteq declared

\* The workers whose partitions come from all jobs of the run.
Selects(w) == Include[w] \cup Exclude[w] # {} \/ StageOf[w] = 1

Waits(j, q) == \E m \in ready : m[1] = q /\ m[2].job = j

(***************************************************************************)
(* A worker that was started with selectors, or for the first stage, and   *)
(* the tap consume the queue in which a job waits that they could know     *)
(* when they started, even when handlers have retagged it since and it has *)
(* been replayed.                                                          *)
(***************************************************************************)
ServedBy(w) ==
    \A m \in ready :
        (m[1] = StageOf[w] /\ m[2].job \in known[w] /\ pc[w] = "consuming")
            => m[2].partition_key \in consumes[w]

KnownJobsAreServed ==
    /\ \A w \in Worker : Selects(w) => ServedBy(w)
    /\ \A m \in ready : m[1] = FinalQueue /\ m[2].job \in tapKnown
                           => m[2].partition_key \in tapConsumes

(***************************************************************************)
(* Such a job does not wait for ever while the worker or the tap is there. *)
(***************************************************************************)
KnownJobsAreTaken ==
    /\ \A w \in Worker, j \in Job :
          Selects(w) =>
             ((pc[w] = "consuming" /\ j \in known[w] /\ Waits(j, StageOf[w]))
                 ~> ~(pc[w] = "consuming" /\ j \in known[w] /\ Waits(j, StageOf[w])))
    /\ \A j \in Job :
          (j \in tapKnown /\ Waits(j, FinalQueue)) ~> ~Waits(j, FinalQueue)

(***************************************************************************)
(* Every worker, a replacement too, serves the jobs the run had when it    *)
(* started ("replacement workers can continue from RabbitMQ queues").      *)
(***************************************************************************)
ReplacementsServe == \A w \in Worker : ServedBy(w)
=============================================================================
