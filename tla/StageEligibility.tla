-------------------------- MODULE StageEligibility --------------------------
(***************************************************************************)
(* The operators of a run: processes that seed jobs, replay parked jobs    *)
(* and set or clear target holds (pipeline/eligibility.py, and the demo,   *)
(* replay, hold and release commands of cli/).  Each store or broker call  *)
(* is one step.                                                            *)
(*                                                                         *)
(*   task[o]    "none" when o runs no command; "checked" between the two   *)
(*              calls of create_seed_batch; "marking" while                *)
(*              _mark_pending_and_publish marks states pending;            *)
(*              "publishing" once all are marked; "closing" before the     *)
(*              seed batch is marked published                             *)
(*   toMark[o]  the (job, stage) pairs still to mark pending               *)
(*   inHand[o]  the pairs marked pending and not yet published             *)
(*   batch[o]   the seed batch of the command, 0 for a replay              *)
(***************************************************************************)
EXTENDS RunStore, Broker

CONSTANTS
    Operator,         \* the operator processes
    ReplaySelections, \* the status sets a replay command may select
    MaxBatches,       \* bound: no seed starts once there are this many
    MaxReplays,       \* bound: replay commands
    MaxAborts,        \* bound: commands that fail half-way
    MaxHolds          \* bound: holds set

ASSUME EligibilityAssumption ==
    /\ ReplaySelections \subseteq SUBSET JobStateStatus
    /\ MaxBatches \in Nat
    /\ MaxReplays \in Nat
    /\ MaxAborts \in Nat
    /\ MaxHolds \in Nat

VARIABLES task, toMark, inHand, batch, replays, aborts, holdsSet

operatorVars == <<task, toMark, inHand, batch, replays, aborts, holdsSet>>

OperatorTypeOK ==
    /\ task \in [Operator ->
                   {"none", "checked", "marking", "publishing", "closing"}]
    /\ toMark \in [Operator -> SUBSET (Job \X Stage)]
    /\ inHand \in [Operator -> SUBSET (Job \X Stage)]
    /\ batch \in [Operator -> 0 .. Len(seedBatches)]
    /\ replays \in Nat
    /\ aborts \in Nat
    /\ holdsSet \in Nat

OperatorInit ==
    /\ task = [o \in Operator |-> "none"]
    /\ toMark = [o \in Operator |-> {}]
    /\ inHand = [o \in Operator |-> {}]
    /\ batch = [o \in Operator |-> 0]
    /\ replays = 0
    /\ aborts = 0
    /\ holdsSet = 0

-----------------------------------------------------------------------------
(* Helpers *)

Does(o, label) == task[o] = label

Become(o, label) == task' = [task EXCEPT ![o] = label]

\* The command of o is over.
EndCommand(o) ==
    /\ Become(o, "none")
    /\ toMark' = [toMark EXCEPT ![o] = {}]
    /\ inHand' = [inHand EXCEPT ![o] = {}]
    /\ batch' = [batch EXCEPT ![o] = 0]

KeepCounters == UNCHANGED <<replays, aborts, holdsSet>>

\* Pairs that enter the first stage, stages[0].
FirstStage(jobs) == {<<j, 1>> : j \in jobs}

-----------------------------------------------------------------------------
(* seed_stage_eligible_jobs *)

\* create_seed_batch reads the active batches and finds no conflict.
CheckSeedBatch(o, jobs) ==
    /\ Does(o, "none")
    /\ Len(seedBatches) < MaxBatches
    /\ jobs \cap ActiveSeedJobs = {}
    /\ Become(o, "checked")
    /\ toMark' = [toMark EXCEPT ![o] = FirstStage(jobs)]
    /\ KeepCounters
    /\ UNCHANGED <<storeVars, ready, inHand, batch>>

\* create_seed_batch inserts the batch it checked.
CreateSeedBatch(o) ==
    /\ Does(o, "checked")
    /\ InsertSeedBatch({js[1] : js \in toMark[o]})
    /\ batch' = [batch EXCEPT ![o] = Len(seedBatches) + 1]
    /\ Become(o, "marking")
    /\ KeepCounters
    /\ UNCHANGED <<jobStates, jobAttempts, events, targetHolds, ready,
                   toMark, inHand>>

\* mark_seed_batch_published.
CloseSeedBatch(o) ==
    /\ Does(o, "closing")
    /\ SetSeedBatchStatus(batch[o], "published")
    /\ EndCommand(o)
    /\ KeepCounters
    /\ UNCHANGED <<jobStates, jobAttempts, events, targetHolds, ready>>

-----------------------------------------------------------------------------
(* replay_stage_eligible_jobs *)

\* replayable_job_states: --job-id, --selector and the retry delay leave
\* some of the documents in the selected statuses.
ReadReplayable(o, statuses) ==
    /\ Does(o, "none")
    /\ replays < MaxReplays
    /\ \E states \in SUBSET StatesIn(statuses) \ {{}} :
          toMark' = [toMark EXCEPT ![o] = states]
    /\ Become(o, "marking")
    /\ replays' = replays + 1
    /\ UNCHANGED <<storeVars, ready, inHand, batch, aborts, holdsSet>>

-----------------------------------------------------------------------------
(* _mark_pending_and_publish *)

\* mark_job_pending for the next pair.
MarkPending(o, js) ==
    /\ Does(o, "marking")
    /\ js \in toMark[o]
    /\ UpsertJobState(js[1], js[2], "pending")
    /\ toMark' = [toMark EXCEPT ![o] = @ \ {js}]
    /\ inHand' = [inHand EXCEPT ![o] = @ \cup {js}]
    /\ Become(o, IF toMark[o] = {js} THEN "publishing" ELSE "marking")
    /\ KeepCounters
    /\ UNCHANGED <<jobAttempts, events, targetHolds, seedBatches, ready,
                   batch>>

\* publish_job for the next pair.  After the last one a seed closes its
\* batch and a replay is over.
PublishPending(o, js) ==
    /\ Does(o, "publishing")
    /\ js \in inHand[o]
    /\ Enqueue(StageInputQueue(js[2]), js[1])
    /\ inHand' = [inHand EXCEPT ![o] = @ \ {js}]
    /\ Become(o, IF inHand[o] # {js} THEN "publishing"
                 ELSE IF batch[o] = 0 THEN "none" ELSE "closing")
    /\ KeepCounters
    /\ UNCHANGED <<storeVars, toMark, batch>>

\* An exception ends the command: a seed marks its batch failed and raises,
\* a replay only raises.
Abort(o) ==
    /\ task[o] \in {"marking", "publishing"}
    /\ aborts < MaxAborts
    /\ IF batch[o] = 0 THEN UNCHANGED seedBatches
                       ELSE SetSeedBatchStatus(batch[o], "failed")
    /\ EndCommand(o)
    /\ aborts' = aborts + 1
    /\ UNCHANGED <<jobStates, jobAttempts, events, targetHolds, ready,
                   replays, holdsSet>>

\* The operator's process is killed: the batch keeps its status.
Kill(o) ==
    /\ task[o] # "none"
    /\ aborts < MaxAborts
    /\ EndCommand(o)
    /\ aborts' = aborts + 1
    /\ UNCHANGED <<storeVars, ready, replays, holdsSet>>

-----------------------------------------------------------------------------
(* Holds *)

Hold(x) ==
    /\ holdsSet < MaxHolds
    /\ x \notin targetHolds
    /\ SetTargetHold(x)
    /\ holdsSet' = holdsSet + 1
    /\ UNCHANGED <<jobStates, jobAttempts, events, seedBatches, ready, task,
                   toMark, inHand, batch, replays, aborts>>

ReleaseHold(x) ==
    /\ x \in targetHolds
    /\ ClearTargetHolds(x)
    /\ UNCHANGED <<jobStates, jobAttempts, events, seedBatches, ready,
                   operatorVars>>

-----------------------------------------------------------------------------

\* The next call of the command that o runs.
OperatorStep(o) ==
    \/ CreateSeedBatch(o)
    \/ CloseSeedBatch(o)
    \/ \E js \in toMark[o] : MarkPending(o, js)
    \/ \E js \in inHand[o] : PublishPending(o, js)

OperatorNext ==
    \/ \E o \in Operator :
          \/ \E jobs \in SUBSET Job \ {{}} : CheckSeedBatch(o, jobs)
          \/ \E statuses \in ReplaySelections : ReadReplayable(o, statuses)
          \/ OperatorStep(o)
          \/ Abort(o)
          \/ Kill(o)
    \/ \E x \in Target : Hold(x) \/ ReleaseHold(x)
=============================================================================
