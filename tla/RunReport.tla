----------------------------- MODULE RunReport ------------------------------
(***************************************************************************)
(* What an operator is shown of a run: the summary of                      *)
(* runtime/observability.py, the stage figures of runtime/status.py and    *)
(* the list of `failures` (cli/run.py), as functions of the store of       *)
(* StagedRuntime.  The taps and the worker registry are not part of that   *)
(* module: how many jobs are terminal and how many workers are active or   *)
(* stale are arguments here.                                               *)
(***************************************************************************)
EXTENDS StagedRuntime, FiniteSets

\* count_job_states.
CountJobStates == [status \in JobStateStatus |-> Cardinality(StatesIn({status}))]

\* expected_job_count.
ExpectedJobCount ==
    Cardinality({bj \in (DOMAIN seedBatches) \X Job :
                   /\ seedBatches[bj[1]].status # "failed"
                   /\ bj[2] \in seedBatches[bj[1]].job_ids})

\* BLOCKED_JOB_STATUSES; `failures` lists the documents in one of them.
BlockedJobStates == StatesIn({"retry_waiting", "held", "dead_lettered"})

\* Mutant: a run with held jobs is simply running.
RunHealthWithoutHolds(terminal, stale, active) ==
    LET counts == CountJobStates
    IN  CASE counts["dead_lettered"] > 0 -> "dead_lettered"
          [] counts["retry_waiting"] > 0 -> "retry_waiting"
          [] stale > 0 -> "stale_workers"
          [] ExpectedJobCount > 0 /\ terminal >= ExpectedJobCount -> "complete"
          [] OTHER -> "running"

\* derive_run_health: the first condition that holds.
DeriveRunHealth(terminal, stale, active) ==
    LET counts == CountJobStates
    IN  IF counts["dead_lettered"] > 0 THEN "dead_lettered"
        ELSE IF counts["held"] > 0 THEN "held"
        ELSE IF counts["retry_waiting"] > 0 THEN "retry_waiting"
        ELSE IF stale > 0 THEN "stale_workers"
        ELSE IF ExpectedJobCount > 0 /\ terminal >= ExpectedJobCount THEN "complete"
        ELSE IF active > 0 \/ \E status \in JobStateStatus : counts[status] > 0
             THEN "running"
        ELSE "created"

\* EventProgress.from_events, for one stage.
StartedJobs(s) == {j \in Job : <<"stage_started", j, s>> \in events}
CompletedJobs(s) == {j \in Job : <<"stage_output", j, s>> \in events}

\* StageRunStatus.in_flight_jobs and is_complete, _target_complete.
InFlightJobs(s) == Cardinality(StartedJobs(s)) - Cardinality(CompletedJobs(s))
StageComplete(s) == Cardinality(CompletedJobs(s)) >= ExpectedJobCount

-----------------------------------------------------------------------------

\* Nothing moves: no message, delivery or command is on its way.
Quiet ==
    /\ \A j \in Job : ~InOperatorHand(j) /\ \A s \in Stage : ~InMotion(j, s)
    /\ \A o \in Operator : toMark[o] = {}
    /\ \A w \in Worker : pc[w] \notin Undecided

FinishedJobs == {j \in Job : Finished(j)}

(***************************************************************************)
(* A quiet run that is not reported as blocked has nothing to wait for:    *)
(* however far the tap has come and whoever is active, unless the health   *)
(* is "dead_lettered", "held" or "retry_waiting", every published job is   *)
(* in the final queue, no stage has a job in flight, and a wait for any    *)
(* stage returns.                                                          *)
(***************************************************************************)
QuietHealthIsHonest ==
    \A terminal \in 0 .. Cardinality(FinishedJobs), active \in {0, 1} :
        Quiet /\ DeriveRunHealth(terminal, 0, active)
                    \in {"created", "running", "complete"}
            => /\ PublishedJobs \subseteq FinishedJobs
               /\ \A s \in Stage : InFlightJobs(s) = 0
               /\ \A s \in Stage : ActiveSeedJobs = PublishedJobs => StageComplete(s)
=============================================================================
