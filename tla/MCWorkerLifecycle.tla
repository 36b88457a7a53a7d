------------------------- MODULE MCWorkerLifecycle --------------------------
(* WorkerLifecycle for TLC: a detached worker and a pool of the runner.    *)
EXTENDS WorkerLifecycle

CONSTANTS d1, r1, o1
=============================================================================
