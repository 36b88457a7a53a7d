------------------------ MODULE WorkerLifecycleProofs ------------------------
(***************************************************************************)
(* Theorems about the worker registry, for any set of workers, detached or *)
(* in process, local or remote, and any number of operators.               *)
(***************************************************************************)
EXTENDS WorkerLifecycle, TLAPS

LEMMA PhasesAre ==
    Phase = {"none", "starting", "registered", "beating", "guarded", "serving",
             "leaving", "quiet", "marked", "gone"}
<1>1. 1 .. 10 = {1, 2, 3, 4, 5, 6, 7, 8, 9, 10}
  OBVIOUS
<1>2. QED
  BY <1>1 DEF Phase, Order

-----------------------------------------------------------------------------
(* Types *)

LEMMA LifecycleTypeStep ==
    ASSUME LifecycleTypeOK, [Next]_vars
    PROVE  LifecycleTypeOK'
<1> USE LifecycleAssumption, PhasesAre DEF LifecycleTypeOK, WorkerStatus, Started
<1>1. ASSUME NEW started \in SUBSET Worker, Start(started)
      PROVE  LifecycleTypeOK'
  BY <1>1 DEF Start, Launch, Detached, registryVars, processVars, operatorVars
<1>2. ASSUME NEW w \in Worker, FailStart(w)
      PROVE  LifecycleTypeOK'
  BY <1>2 DEF FailStart, Vanish, Housemates, registryVars, processVars, operatorVars
<1>3. ASSUME NEW w \in Worker, Register(w)
      PROVE  LifecycleTypeOK'
  BY <1>3 DEF Register, Go, SetStatus, registryVars, processVars, operatorVars
<1>4. ASSUME NEW w \in Worker, StartHeartbeat(w)
      PROVE  LifecycleTypeOK'
  BY <1>4 DEF StartHeartbeat, Go, registryVars, processVars, operatorVars
<1>5. ASSUME NEW w \in Worker, InstallHandlers(w)
      PROVE  LifecycleTypeOK'
  BY <1>5 DEF InstallHandlers, Go, registryVars, processVars, operatorVars
<1>6. ASSUME NEW w \in Worker, StartPool(w)
      PROVE  LifecycleTypeOK'
  BY <1>6 DEF StartPool, Go, registryVars, processVars, operatorVars
<1>7. ASSUME NEW w \in Worker, Leave(w)
      PROVE  LifecycleTypeOK'
  BY <1>7 DEF Leave, Go, registryVars, processVars, operatorVars
<1>8. ASSUME NEW w \in Worker, StopHeartbeat(w)
      PROVE  LifecycleTypeOK'
  BY <1>8 DEF StopHeartbeat, Go, registryVars, processVars, operatorVars
<1>9. ASSUME NEW w \in Worker, MarkStopped(w)
      PROVE  LifecycleTypeOK'
  BY <1>9 DEF MarkStopped, Go, SetStatus, registryVars, processVars, operatorVars
<1>10. ASSUME NEW w \in Worker, Exit(w)
      PROVE  LifecycleTypeOK'
  BY <1>10 DEF Exit, Vanish, Housemates, registryVars, processVars, operatorVars
<1>11. ASSUME NEW w \in Worker, TakeJob(w)
      PROVE  LifecycleTypeOK'
  BY <1>11 DEF TakeJob, registryVars, processVars, operatorVars
<1>12. ASSUME NEW w \in Worker, FinishJob(w)
      PROVE  LifecycleTypeOK'
  BY <1>12 DEF FinishJob, registryVars, processVars, operatorVars
<1>13. ASSUME NEW w \in Worker, Beat(w)
      PROVE  LifecycleTypeOK'
  BY <1>13 DEF Beat, Beating, registryVars, processVars, operatorVars
<1>14. ASSUME NEW w \in Worker, ReadBack(w)
      PROVE  LifecycleTypeOK'
  BY <1>14 DEF ReadBack, Beating, registryVars, processVars, operatorVars
<1>15. ASSUME NEW w \in Worker, EndHeartbeat(w)
      PROVE  LifecycleTypeOK'
  BY <1>15 DEF EndHeartbeat, Beating, registryVars, processVars, operatorVars
<1>16. ASSUME NEW w \in Worker, HeartbeatFails(w)
      PROVE  LifecycleTypeOK'
  BY <1>16 DEF HeartbeatFails, Beating, Fault, registryVars, processVars, operatorVars
<1>17. ASSUME NEW w \in Worker, Lapse(w)
      PROVE  LifecycleTypeOK'
  BY <1>17 DEF Lapse, Fault, registryVars, processVars, operatorVars
<1>18. ASSUME NEW w \in Worker, Kill(w)
      PROVE  LifecycleTypeOK'
  BY <1>18 DEF Kill, Vanish, Housemates, Fault, registryVars, processVars, operatorVars
<1>19. CASE ListWorkers
  BY <1>19 DEF ListWorkers, MarkedStale, registryVars, processVars, operatorVars
<1>20. ASSUME NEW o \in Operator, NEW workers \in SUBSET Worker, FindRunning(o, workers)
      PROVE  LifecycleTypeOK'
  BY <1>20 DEF FindRunning, Become, Running, registryVars, processVars, operatorVars
<1>21. ASSUME NEW o \in Operator, RequestStop(o)
      PROVE  LifecycleTypeOK'
  BY <1>21 DEF RequestStop, Become, Running, registryVars, processVars, operatorVars
<1>22. ASSUME NEW o \in Operator, FinishStop(o)
      PROVE  LifecycleTypeOK'
  BY <1>22 DEF FinishStop, EndCommand, Become, registryVars, processVars, operatorVars
<1>23. ASSUME NEW o \in Operator, NEW w \in Worker, Signal(o, w)
      PROVE  LifecycleTypeOK'
  BY <1>23 DEF Signal, Vanish, Housemates, registryVars, processVars, operatorVars
<1>24. ASSUME NEW o \in Operator, NEW w \in Worker, Replace(o, w)
      PROVE  LifecycleTypeOK'
  BY <1>24 DEF Replace, EndCommand, Become, Launch, Detached, registryVars, processVars, operatorVars
<1>25. CASE UNCHANGED vars
  BY <1>25 DEF vars, registryVars, processVars, operatorVars
<1>26. QED
  BY <1>1, <1>2, <1>3, <1>4, <1>5, <1>6, <1>7, <1>8, <1>9, <1>10, <1>11,
     <1>12, <1>13, <1>14, <1>15, <1>16, <1>17, <1>18, <1>19, <1>20, <1>21,
     <1>22, <1>23, <1>24, <1>25
     DEF Next, MainStep, HeartbeatStep

(***************************************************************************)
(* Every reachable state of the registry is well-typed; handlers run only  *)
(* in processes whose pool was started and that still exist, and so do     *)
(* heartbeat threads.                                                      *)
(***************************************************************************)
THEOREM LifecycleTypeCorrect == Spec => []LifecycleTypeOK
<1>1. Init => LifecycleTypeOK
  BY LifecycleAssumption, PhasesAre DEF Init, LifecycleTypeOK
<1>2. LifecycleTypeOK /\ [Next]_vars => LifecycleTypeOK'
  BY LifecycleTypeStep
<1>3. QED
  BY <1>1, <1>2, PTL DEF Spec

-----------------------------------------------------------------------------
(* Records *)

(***************************************************************************)
(* How the record of a worker goes with its main thread: there is none     *)
(* before it registers, it is not closed before the thread has come to the *)
(* end, and between the loop and the end the pool has its stop flag.       *)
(***************************************************************************)
RecordFits ==
    \A w \in Worker :
        /\ phase[w] \in {"none", "starting"} => record[w] = "none"
        /\ phase[w] \in {"registered", "beating", "guarded"} \cup Started
              => record[w] # "none"
        /\ record[w] = "stopped" => phase[w] \in {"marked", "gone"}
        /\ phase[w] \in {"leaving", "quiet", "marked"} => w \in poolStop

LEMMA RecordStep ==
    ASSUME LifecycleTypeOK, RecordFits, [Next]_vars
    PROVE  RecordFits'
<1> USE PhasesAre DEF LifecycleTypeOK, WorkerStatus, RecordFits, Started
<1>1. ASSUME NEW started \in SUBSET Worker, Start(started)
      PROVE  RecordFits'
  BY <1>1 DEF Start, Launch, Detached, registryVars, processVars, operatorVars
<1>2. ASSUME NEW w \in Worker, FailStart(w)
      PROVE  RecordFits'
  BY <1>2 DEF FailStart, Vanish, Housemates, registryVars, processVars, operatorVars
<1>3. ASSUME NEW w \in Worker, Register(w)
      PROVE  RecordFits'
  BY <1>3 DEF Register, Go, SetStatus, registryVars, processVars, operatorVars
<1>4. ASSUME NEW w \in Worker, StartHeartbeat(w)
      PROVE  RecordFits'
  BY <1>4 DEF StartHeartbeat, Go, registryVars, processVars, operatorVars
<1>5. ASSUME NEW w \in Worker, InstallHandlers(w)
      PROVE  RecordFits'
  BY <1>5 DEF InstallHandlers, Go, registryVars, processVars, operatorVars
<1>6. ASSUME NEW w \in Worker, StartPool(w)
      PROVE  RecordFits'
  BY <1>6 DEF StartPool, Go, registryVars, processVars, operatorVars
<1>7. ASSUME NEW w \in Worker, Leave(w)
      PROVE  RecordFits'
  BY <1>7 DEF Leave, Go, registryVars, processVars, operatorVars
<1>8. ASSUME NEW w \in Worker, StopHeartbeat(w)
      PROVE  RecordFits'
  BY <1>8 DEF StopHeartbeat, Go, registryVars, processVars, operatorVars
<1>9. ASSUME NEW w \in Worker, MarkStopped(w)
      PROVE  RecordFits'
  BY <1>9 DEF MarkStopped, Go, SetStatus, registryVars, processVars, operatorVars
<1>10. ASSUME NEW w \in Worker, Exit(w)
      PROVE  RecordFits'
  BY <1>10 DEF Exit, Vanish, Housemates, registryVars, processVars, operatorVars
<1>11. ASSUME NEW w \in Worker, TakeJob(w)
      PROVE  RecordFits'
  BY <1>11 DEF TakeJob, registryVars, processVars, operatorVars
<1>12. ASSUME NEW w \in Worker, FinishJob(w)
      PROVE  RecordFits'
  BY <1>12 DEF FinishJob, registryVars, processVars, operatorVars
<1>13. ASSUME NEW w \in Worker, Beat(w)
      PROVE  RecordFits'
  BY <1>13 DEF Beat, Beating, registryVars, processVars, operatorVars
<1>14. ASSUME NEW w \in Worker, ReadBack(w)
      PROVE  RecordFits'
  BY <1>14 DEF ReadBack, Beating, registryVars, processVars, operatorVars
<1>15. ASSUME NEW w \in Worker, EndHeartbeat(w)
      PROVE  RecordFits'
  BY <1>15 DEF EndHeartbeat, Beating, registryVars, processVars, operatorVars
<1>16. ASSUME NEW w \in Worker, HeartbeatFails(w)
      PROVE  RecordFits'
  BY <1>16 DEF HeartbeatFails, Beating, Fault, registryVars, processVars, operatorVars
<1>17. ASSUME NEW w \in Worker, Lapse(w)
      PROVE  RecordFits'
  BY <1>17 DEF Lapse, Fault, registryVars, processVars, operatorVars
<1>18. ASSUME NEW w \in Worker, Kill(w)
      PROVE  RecordFits'
  BY <1>18 DEF Kill, Vanish, Housemates, Fault, registryVars, processVars, operatorVars
<1>19. CASE ListWorkers
  BY <1>19 DEF ListWorkers, MarkedStale, registryVars, processVars, operatorVars
<1>20. ASSUME NEW o \in Operator, NEW workers \in SUBSET Worker, FindRunning(o, workers)
      PROVE  RecordFits'
  BY <1>20 DEF FindRunning, Become, Running, registryVars, processVars, operatorVars
<1>21. ASSUME NEW o \in Operator, RequestStop(o)
      PROVE  RecordFits'
  BY <1>21 DEF RequestStop, Become, Running, registryVars, processVars, operatorVars
<1>22. ASSUME NEW o \in Operator, FinishStop(o)
      PROVE  RecordFits'
  BY <1>22 DEF FinishStop, EndCommand, Become, registryVars, processVars, operatorVars
<1>23. ASSUME NEW o \in Operator, NEW w \in Worker, Signal(o, w)
      PROVE  RecordFits'
  BY <1>23 DEF Signal, Vanish, Housemates, registryVars, processVars, operatorVars
<1>24. ASSUME NEW o \in Operator, NEW w \in Worker, Replace(o, w)
      PROVE  RecordFits'
  BY <1>24 DEF Replace, EndCommand, Become, Launch, Detached, registryVars, processVars, operatorVars
<1>25. CASE UNCHANGED vars
  BY <1>25 DEF vars, registryVars, processVars, operatorVars
<1>26. QED
  BY <1>1, <1>2, <1>3, <1>4, <1>5, <1>6, <1>7, <1>8, <1>9, <1>10, <1>11,
     <1>12, <1>13, <1>14, <1>15, <1>16, <1>17, <1>18, <1>19, <1>20, <1>21,
     <1>22, <1>23, <1>24, <1>25
     DEF Next, MainStep, HeartbeatStep

LEMMA RecordInvariant == Spec => []RecordFits
<1>1. Init => RecordFits
  BY DEF Init, RecordFits, Started
<1>2. LifecycleTypeOK /\ RecordFits /\ [Next]_vars => RecordFits'
  BY RecordStep
<1>3. QED
  BY <1>1, <1>2, LifecycleTypeCorrect, PTL DEF Spec

(***************************************************************************)
(* A pool that can take a job has an open record, in every interleaving of *)
(* heartbeats, stop requests, stale marking, signals and kills.            *)
(***************************************************************************)
THEOREM ServersAreRecorded == Spec => []ServingIsRecorded
<1>1. LifecycleTypeOK /\ RecordFits => ServingIsRecorded
  BY DEF LifecycleTypeOK, RecordFits, ServingIsRecorded, WorkerStatus, Started
<1>2. QED
  BY <1>1, LifecycleTypeCorrect, RecordInvariant, PTL

LEMMA StatusStep ==
    ASSUME LifecycleTypeOK, RecordFits, [Next]_vars
    PROVE  \A w \in Worker : record'[w] # record[w] => record'[w] \in Later(record[w])
<1> DEFINE StatusAdvances ==
        \A v \in Worker : record'[v] # record[v] => record'[v] \in Later(record[v])
<1> USE PhasesAre
        DEF LifecycleTypeOK, WorkerStatus, RecordFits, Started, Later
<1>1. ASSUME NEW started \in SUBSET Worker, Start(started)
      PROVE  StatusAdvances
  BY <1>1 DEF Start, Launch, Detached, registryVars, processVars, operatorVars
<1>2. ASSUME NEW w \in Worker, FailStart(w)
      PROVE  StatusAdvances
  BY <1>2 DEF FailStart, Vanish, Housemates, registryVars, processVars, operatorVars
<1>3. ASSUME NEW w \in Worker, Register(w)
      PROVE  StatusAdvances
  BY <1>3 DEF Register, Go, SetStatus, registryVars, processVars, operatorVars
<1>4. ASSUME NEW w \in Worker, StartHeartbeat(w)
      PROVE  StatusAdvances
  BY <1>4 DEF StartHeartbeat, Go, registryVars, processVars, operatorVars
<1>5. ASSUME NEW w \in Worker, InstallHandlers(w)
      PROVE  StatusAdvances
  BY <1>5 DEF InstallHandlers, Go, registryVars, processVars, operatorVars
<1>6. ASSUME NEW w \in Worker, StartPool(w)
      PROVE  StatusAdvances
  BY <1>6 DEF StartPool, Go, registryVars, processVars, operatorVars
<1>7. ASSUME NEW w \in Worker, Leave(w)
      PROVE  StatusAdvances
  BY <1>7 DEF Leave, Go, registryVars, processVars, operatorVars
<1>8. ASSUME NEW w \in Worker, StopHeartbeat(w)
      PROVE  StatusAdvances
  BY <1>8 DEF StopHeartbeat, Go, registryVars, processVars, operatorVars
<1>9. ASSUME NEW w \in Worker, MarkStopped(w)
      PROVE  StatusAdvances
  BY <1>9 DEF MarkStopped, Go, SetStatus, registryVars, processVars, operatorVars
<1>10. ASSUME NEW w \in Worker, Exit(w)
      PROVE  StatusAdvances
  BY <1>10 DEF Exit, Vanish, Housemates, registryVars, processVars, operatorVars
<1>11. ASSUME NEW w \in Worker, TakeJob(w)
      PROVE  StatusAdvances
  BY <1>11 DEF TakeJob, registryVars, processVars, operatorVars
<1>12. ASSUME NEW w \in Worker, FinishJob(w)
      PROVE  StatusAdvances
  BY <1>12 DEF FinishJob, registryVars, processVars, operatorVars
<1>13. ASSUME NEW w \in Worker, Beat(w)
      PROVE  StatusAdvances
  BY <1>13 DEF Beat, Beating, registryVars, processVars, operatorVars
<1>14. ASSUME NEW w \in Worker, ReadBack(w)
      PROVE  StatusAdvances
  BY <1>14 DEF ReadBack, Beating, registryVars, processVars, operatorVars
<1>15. ASSUME NEW w \in Worker, EndHeartbeat(w)
      PROVE  StatusAdvances
  BY <1>15 DEF EndHeartbeat, Beating, registryVars, processVars, operatorVars
<1>16. ASSUME NEW w \in Worker, HeartbeatFails(w)
      PROVE  StatusAdvances
  BY <1>16 DEF HeartbeatFails, Beating, Fault, registryVars, processVars, operatorVars
<1>17. ASSUME NEW w \in Worker, Lapse(w)
      PROVE  StatusAdvances
  BY <1>17 DEF Lapse, Fault, registryVars, processVars, operatorVars
<1>18. ASSUME NEW w \in Worker, Kill(w)
      PROVE  StatusAdvances
  BY <1>18 DEF Kill, Vanish, Housemates, Fault, registryVars, processVars, operatorVars
<1>19. CASE ListWorkers
  BY <1>19 DEF ListWorkers, MarkedStale, registryVars, processVars, operatorVars
<1>20. ASSUME NEW o \in Operator, NEW workers \in SUBSET Worker, FindRunning(o, workers)
      PROVE  StatusAdvances
  BY <1>20 DEF FindRunning, Become, Running, registryVars, processVars, operatorVars
<1>21. ASSUME NEW o \in Operator, RequestStop(o)
      PROVE  StatusAdvances
  BY <1>21 DEF RequestStop, Become, Running, registryVars, processVars, operatorVars
<1>22. ASSUME NEW o \in Operator, FinishStop(o)
      PROVE  StatusAdvances
  BY <1>22 DEF FinishStop, EndCommand, Become, registryVars, processVars, operatorVars
<1>23. ASSUME NEW o \in Operator, NEW w \in Worker, Signal(o, w)
      PROVE  StatusAdvances
  BY <1>23 DEF Signal, Vanish, Housemates, registryVars, processVars, operatorVars
<1>24. ASSUME NEW o \in Operator, NEW w \in Worker, Replace(o, w)
      PROVE  StatusAdvances
  BY <1>24 DEF Replace, EndCommand, Become, Launch, Detached, registryVars, processVars, operatorVars
<1>25. CASE UNCHANGED vars
  BY <1>25 DEF vars, registryVars, processVars, operatorVars
<1>26. QED
  BY <1>1, <1>2, <1>3, <1>4, <1>5, <1>6, <1>7, <1>8, <1>9, <1>10, <1>11,
     <1>12, <1>13, <1>14, <1>15, <1>16, <1>17, <1>18, <1>19, <1>20, <1>21,
     <1>22, <1>23, <1>24, <1>25
     DEF Next, MainStep, HeartbeatStep

(***************************************************************************)
(* No race between a stop request, a heartbeat, mark_stale_workers and the *)
(* end of a worker takes its status back.                                  *)
(***************************************************************************)
THEOREM StatusesMoveOn == Spec => StatusMovesOn
<1>1. LifecycleTypeOK /\ RecordFits /\ [Next]_vars
        => [\A w \in Worker : record'[w] # record[w]
                                  => record'[w] \in Later(record[w])]_vars
  BY StatusStep
<1>2. QED
  BY <1>1, LifecycleTypeCorrect, RecordInvariant, PTL DEF Spec, StatusMovesOn

-----------------------------------------------------------------------------
(* Signals *)

\* A detached worker whose pool was started has its handlers installed.
PoolsAreGuarded ==
    \A w \in Detached : phase[w] \in {"guarded"} \cup Started => w \in guarded

LEMMA GuardStep ==
    ASSUME LifecycleTypeOK, PoolsAreGuarded, [Next]_vars
    PROVE  PoolsAreGuarded'
<1> USE PhasesAre DEF LifecycleTypeOK, PoolsAreGuarded, Started, Detached
<1>1. ASSUME NEW started \in SUBSET Worker, Start(started)
      PROVE  PoolsAreGuarded'
  BY <1>1 DEF Start, Launch, Detached, registryVars, processVars, operatorVars
<1>2. ASSUME NEW w \in Worker, FailStart(w)
      PROVE  PoolsAreGuarded'
  BY <1>2 DEF FailStart, Vanish, Housemates, registryVars, processVars, operatorVars
<1>3. ASSUME NEW w \in Worker, Register(w)
      PROVE  PoolsAreGuarded'
  BY <1>3 DEF Register, Go, SetStatus, registryVars, processVars, operatorVars
<1>4. ASSUME NEW w \in Worker, StartHeartbeat(w)
      PROVE  PoolsAreGuarded'
  BY <1>4 DEF StartHeartbeat, Go, registryVars, processVars, operatorVars
<1>5. ASSUME NEW w \in Worker, InstallHandlers(w)
      PROVE  PoolsAreGuarded'
  BY <1>5 DEF InstallHandlers, Go, registryVars, processVars, operatorVars
<1>6. ASSUME NEW w \in Worker, StartPool(w)
      PROVE  PoolsAreGuarded'
  BY <1>6 DEF StartPool, Go, registryVars, processVars, operatorVars
<1>7. ASSUME NEW w \in Worker, Leave(w)
      PROVE  PoolsAreGuarded'
  BY <1>7 DEF Leave, Go, registryVars, processVars, operatorVars
<1>8. ASSUME NEW w \in Worker, StopHeartbeat(w)
      PROVE  PoolsAreGuarded'
  BY <1>8 DEF StopHeartbeat, Go, registryVars, processVars, operatorVars
<1>9. ASSUME NEW w \in Worker, MarkStopped(w)
      PROVE  PoolsAreGuarded'
  BY <1>9 DEF MarkStopped, Go, SetStatus, registryVars, processVars, operatorVars
<1>10. ASSUME NEW w \in Worker, Exit(w)
      PROVE  PoolsAreGuarded'
  BY <1>10 DEF Exit, Vanish, Housemates, registryVars, processVars, operatorVars
<1>11. ASSUME NEW w \in Worker, TakeJob(w)
      PROVE  PoolsAreGuarded'
  BY <1>11 DEF TakeJob, registryVars, processVars, operatorVars
<1>12. ASSUME NEW w \in Worker, FinishJob(w)
      PROVE  PoolsAreGuarded'
  BY <1>12 DEF FinishJob, registryVars, processVars, operatorVars
<1>13. ASSUME NEW w \in Worker, Beat(w)
      PROVE  PoolsAreGuarded'
  BY <1>13 DEF Beat, Beating, registryVars, processVars, operatorVars
<1>14. ASSUME NEW w \in Worker, ReadBack(w)
      PROVE  PoolsAreGuarded'
  BY <1>14 DEF ReadBack, Beating, registryVars, processVars, operatorVars
<1>15. ASSUME NEW w \in Worker, EndHeartbeat(w)
      PROVE  PoolsAreGuarded'
  BY <1>15 DEF EndHeartbeat, Beating, registryVars, processVars, operatorVars
<1>16. ASSUME NEW w \in Worker, HeartbeatFails(w)
      PROVE  PoolsAreGuarded'
  BY <1>16 DEF HeartbeatFails, Beating, Fault, registryVars, processVars, operatorVars
<1>17. ASSUME NEW w \in Worker, Lapse(w)
      PROVE  PoolsAreGuarded'
  BY <1>17 DEF Lapse, Fault, registryVars, processVars, operatorVars
<1>18. ASSUME NEW w \in Worker, Kill(w)
      PROVE  PoolsAreGuarded'
  BY <1>18 DEF Kill, Vanish, Housemates, Fault, registryVars, processVars, operatorVars
<1>19. CASE ListWorkers
  BY <1>19 DEF ListWorkers, MarkedStale, registryVars, processVars, operatorVars
<1>20. ASSUME NEW o \in Operator, NEW workers \in SUBSET Worker, FindRunning(o, workers)
      PROVE  PoolsAreGuarded'
  BY <1>20 DEF FindRunning, Become, Running, registryVars, processVars, operatorVars
<1>21. ASSUME NEW o \in Operator, RequestStop(o)
      PROVE  PoolsAreGuarded'
  BY <1>21 DEF RequestStop, Become, Running, registryVars, processVars, operatorVars
<1>22. ASSUME NEW o \in Operator, FinishStop(o)
      PROVE  PoolsAreGuarded'
  BY <1>22 DEF FinishStop, EndCommand, Become, registryVars, processVars, operatorVars
<1>23. ASSUME NEW o \in Operator, NEW w \in Worker, Signal(o, w)
      PROVE  PoolsAreGuarded'
  BY <1>23 DEF Signal, Vanish, Housemates, registryVars, processVars, operatorVars
<1>24. ASSUME NEW o \in Operator, NEW w \in Worker, Replace(o, w)
      PROVE  PoolsAreGuarded'
  BY <1>24 DEF Replace, EndCommand, Become, Launch, Detached, registryVars, processVars, operatorVars
<1>25. CASE UNCHANGED vars
  BY <1>25 DEF vars, registryVars, processVars, operatorVars
<1>26. QED
  BY <1>1, <1>2, <1>3, <1>4, <1>5, <1>6, <1>7, <1>8, <1>9, <1>10, <1>11,
     <1>12, <1>13, <1>14, <1>15, <1>16, <1>17, <1>18, <1>19, <1>20, <1>21,
     <1>22, <1>23, <1>24, <1>25
     DEF Next, MainStep, HeartbeatStep

LEMMA GuardInvariant == Spec => []PoolsAreGuarded
<1>1. Init => PoolsAreGuarded
  BY DEF Init, PoolsAreGuarded, Started, Detached
<1>2. LifecycleTypeOK /\ PoolsAreGuarded /\ [Next]_vars => PoolsAreGuarded'
  BY GuardStep
<1>3. QED
  BY <1>1, <1>2, LifecycleTypeCorrect, PTL DEF Spec

(***************************************************************************)
(* The signal of a stop command cuts no handler of a detached worker       *)
(* short, whatever the worker is doing when it arrives.                    *)
(***************************************************************************)
THEOREM StopsAreGraceful == Spec => StopIsGraceful
<1>1. ASSUME LifecycleTypeOK, PoolsAreGuarded,
             NEW o \in Operator, NEW w \in Worker, Signal(o, w)
      PROVE  working \cap Detached \subseteq working'
  <2>1. CASE working' = working
    BY <2>1
  <2>2. CASE Vanish(w) /\ w \notin guarded
    <3>1. ASSUME NEW v \in working \cap Detached, v \in Housemates(w)
          PROVE  FALSE
      <4>1. phase[v] \in Started
        BY <1>1, <3>1 DEF LifecycleTypeOK, Detached
      <4>2. v = w
        BY <3>1 DEF Housemates, Detached, LifecycleTypeOK
      <4>3. QED
        BY <1>1, <3>1, <4>1, <4>2, <2>2 DEF PoolsAreGuarded, Detached
    <3>2. QED
      BY <3>1, <2>2 DEF Vanish
  <2>3. QED
    BY <1>1, <2>1, <2>2 DEF Signal
<1>2. LifecycleTypeOK /\ PoolsAreGuarded /\ [Next]_vars
        => [(\E o \in Operator, w \in Worker : Signal(o, w))
               => working \cap Detached \subseteq working']_vars
  BY <1>1
<1>3. QED
  BY <1>2, LifecycleTypeCorrect, GuardInvariant, PTL DEF Spec, StopIsGraceful
=============================================================================
