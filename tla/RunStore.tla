------------------------------ MODULE RunStore ------------------------------
(***************************************************************************)
(* The part of MongoRunStore (runtime/store.py) that the stage workers and *)
(* the operator commands of one run share.  Every MongoDB collection of    *)
(* that run is a variable and every method that writes one is an action    *)
(* fragment, used by the modules that call it:                             *)
(*                                                                         *)
(*   jobStates    job_states     one document per (job, stage)             *)
(*   jobAttempts  job_attempts   the attempt numbers, in insertion order   *)
(*   events       events         the append-only event log                 *)
(*   targetHolds  target_holds   the targets with an uncleared hold        *)
(*   seedBatches  seed_batches   the seed batches, in insertion order      *)
(*                                                                         *)
(* A job has one target (its target_tags, reduced to what selectors tell   *)
(* apart).  Time is not modelled: a hold or a retry delay may be due at    *)
(* any moment.                                                             *)
(***************************************************************************)
EXTENDS RunManifest, Sequences

CONSTANTS
    Target,       \* the targets a hold can select
    TargetOf,     \* the target of each job
    MaxAttempts   \* WorkerPool's max_attempts

ASSUME RunStoreAssumption ==
    /\ MaxAttempts \in Nat \ {0}
    /\ TargetOf \in [Job -> Target]

(***************************************************************************)
(* JobStateStatus.  "failed" is in the enumeration but no code writes it,  *)
(* and "terminal" is only written to documents of the pseudo-stage         *)
(* "terminal" (pipeline/tap.py).  "absent" stands for no document.         *)
(***************************************************************************)
JobStateStatus ==
    {"pending", "running", "held", "retry_waiting", "dead_lettered",
     "completed"}

\* Mutant: `replay` also recovers what a worker may still be running.
ReplayRunningToo == {"retry_waiting", "held", "dead_lettered", "running"}

\* The statuses from which `replay` recovers a job without naming a status.
DefaultReplayStatuses == {"retry_waiting", "held", "dead_lettered"}

VARIABLES jobStates, jobAttempts, events, targetHolds, seedBatches

storeVars == <<jobStates, jobAttempts, events, targetHolds, seedBatches>>

JobState == [status : JobStateStatus \cup {"absent"}, attempt_count : Nat]
EventKind == {"stage_started", "stage_output"}
SeedBatch == [job_ids : SUBSET Job, status : {"created", "published", "failed"}]

StoreTypeOK ==
    /\ jobStates \in [Job \X Stage -> JobState]
    /\ jobAttempts \in [Job \X Stage -> Seq(Nat)]
    /\ events \subseteq EventKind \X Job \X Stage
    /\ targetHolds \subseteq Target
    /\ seedBatches \in Seq(SeedBatch)

StoreInit ==
    /\ jobStates = [js \in Job \X Stage |->
                      [status |-> "absent", attempt_count |-> 0]]
    /\ jobAttempts = [js \in Job \X Stage |-> <<>>]
    /\ events = {}
    /\ targetHolds = {}
    /\ seedBatches = <<>>

-----------------------------------------------------------------------------
(* Queries *)

StatusOf(j, s) == jobStates[<<j, s>>].status

HasDocument(j, s) == StatusOf(j, s) # "absent"

\* active_hold_for_tags: an uncleared hold selects the job's target.
ActiveHold(j) == TargetOf[j] \in targetHolds

\* Mutant: only batches that are published already count as active.
PublishedSeedJobs ==
    UNION {seedBatches[b].job_ids :
             b \in {i \in 1 .. Len(seedBatches) :
                      seedBatches[i].status = "published"}}

\* _active_seed_job_ids: the jobs of every batch that did not fail.
ActiveSeedJobs ==
    UNION {seedBatches[b].job_ids :
             b \in {i \in 1 .. Len(seedBatches) :
                      seedBatches[i].status # "failed"}}

\* The documents in one of the given statuses (list_job_states).
StatesIn(statuses) ==
    {js \in Job \X Stage : jobStates[js].status \in statuses}

-----------------------------------------------------------------------------
(* Writes *)

\* Mutant: the write replaces the document instead of setting its fields.
ReplaceJobState(j, s, status) ==
    jobStates' = [jobStates EXCEPT ![<<j, s>>] =
                    [status |-> status, attempt_count |-> 0]]

\* _upsert_job_state without extra fields: attempt_count survives.  The
\* unique index on (run_id, job_id, stage) makes the upsert atomic.
UpsertJobState(j, s, status) ==
    jobStates' = [jobStates EXCEPT ![<<j, s>>] =
                    [status |-> status, attempt_count |-> @.attempt_count]]

\* record_job_failure, first call: count_documents.
NextAttemptNumber(j, s) == Len(jobAttempts[<<j, s>>]) + 1

\* Mutants: the limit is hit one attempt early, or one late.
AttemptActionEarly(n) ==
    IF n + 1 >= MaxAttempts THEN "dead_lettered" ELSE "retry_waiting"

AttemptActionLate(n) ==
    IF n > MaxAttempts THEN "dead_lettered" ELSE "retry_waiting"

AttemptAction(n) ==
    IF n >= MaxAttempts THEN "dead_lettered" ELSE "retry_waiting"

\* record_job_failure, second call: insert_one into job_attempts.
InsertAttempt(j, s, n) ==
    jobAttempts' = [jobAttempts EXCEPT ![<<j, s>>] = Append(@, n)]

\* record_job_failure, last call: the state takes the attempt's action.
UpsertFailure(j, s, n) ==
    jobStates' = [jobStates EXCEPT ![<<j, s>>] =
                    [status |-> AttemptAction(n), attempt_count |-> n]]

AppendEvent(kind, j, s) == events' = events \cup {<<kind, j, s>>}

InsertSeedBatch(jobs) ==
    seedBatches' = Append(seedBatches,
                          [job_ids |-> jobs, status |-> "created"])

\* mark_seed_batch_published and mark_seed_batch_failed.
SetSeedBatchStatus(b, status) ==
    seedBatches' = [seedBatches EXCEPT ![b].status = status]

SetTargetHold(x) == targetHolds' = targetHolds \cup {x}

ClearTargetHolds(x) == targetHolds' = targetHolds \ {x}
=============================================================================
