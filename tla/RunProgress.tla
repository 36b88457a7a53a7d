---------------------------- MODULE RunProgress -----------------------------
(***************************************************************************)
(* What MongoRunStore (runtime/store.py) knows of the progress of a run:   *)
(*                                                                         *)
(*   seedBatches     seed_batches: what was seeded, in insertion order     *)
(*   terminalStates  the jobs with a job_states document of the            *)
(*                   pseudo-stage "terminal"                               *)
(*   terminalEvents  how many TERMINAL events the log has of a job         *)
(*                                                                         *)
(* The stages between the two ends are the subject of StagedRuntime; its   *)
(* RunStore holds the other collections.                                   *)
(***************************************************************************)
EXTENDS Naturals, Sequences, FiniteSets

CONSTANT Job    \* the job_id values of the run

ASSUME ProgressAssumption == IsFiniteSet(Job)

VARIABLES seedBatches, terminalStates, terminalEvents

progressVars == <<seedBatches, terminalStates, terminalEvents>>

SeedBatch == [job_ids : SUBSET Job, status : {"created", "published", "failed"}]

ProgressTypeOK ==
    /\ seedBatches \in Seq(SeedBatch)
    /\ terminalStates \in SUBSET Job
    /\ terminalEvents \in [Job -> Nat]

ProgressInit ==
    /\ seedBatches = <<>>
    /\ terminalStates = {}
    /\ terminalEvents = [j \in Job |-> 0]

\* The batches that expected_job_count and create_seed_batch look at.
ActiveBatches == {b \in DOMAIN seedBatches : seedBatches[b].status # "failed"}

ActiveSeedJobs == UNION {seedBatches[b].job_ids : b \in ActiveBatches}

\* expected_job_count: the counts of the active batches add up, so a job of
\* two batches counts twice.
ExpectedJobCount ==
    Cardinality({bj \in ActiveBatches \X Job :
                   bj[2] \in seedBatches[bj[1]].job_ids})

\* The jobs with a TERMINAL event: EventProgress.terminal_jobs, and what a
\* new tap reads.
TerminalJobs == {j \in Job : terminalEvents[j] > 0}

\* Mutant: progress is counted from the states instead of the events.
TerminalStateCount == Cardinality(terminalStates)

\* Mutant: the events are counted instead of the jobs.
TerminalEventCount ==
    Cardinality(UNION {{j} \X (1 .. terminalEvents[j]) : j \in Job})

\* RunStatus.terminal_jobs.
TerminalCount == Cardinality(TerminalJobs)

\* One document of record_terminal_batch's bulk_write, and one of its
\* insert_many.
UpsertTerminalState(j) == terminalStates' = terminalStates \cup {j}

InsertTerminalEvent(j) ==
    terminalEvents' = [terminalEvents EXCEPT ![j] = @ + 1]
=============================================================================
