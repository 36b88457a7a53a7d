---------------------------- MODULE RunManifest -----------------------------
(***************************************************************************)
(* The fixed part of a run: its jobs, its stages and the chain of durable  *)
(* queues between them (manifest/manifest.py, setup_run_queues).  Stage s  *)
(* consumes queue s; its output queue s + 1 is the input queue of the next *)
(* stage.  The output queue of the last stage, FinalQueue, has no worker.  *)
(* A stage has such a queue for every partition; PartitionRouting tells    *)
(* them apart, the other modules look at the queues of one partition.      *)
(***************************************************************************)
EXTENDS Naturals

CONSTANTS
    Job,          \* the job_id values of the run
    NumStages     \* the number of stages of the pipeline

ASSUME ManifestAssumption == NumStages \in Nat \ {0}

Stage == 1 .. NumStages
Queue == 1 .. NumStages + 1
FinalQueue == NumStages + 1

StageInputQueue(s) == s
StageOutputQueue(s) == s + 1
=============================================================================
