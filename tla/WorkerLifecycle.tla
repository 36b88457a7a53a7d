--------------------------- MODULE WorkerLifecycle ---------------------------
(***************************************************************************)
(* The worker registry and the processes behind it.  A detached worker     *)
(* (cli/stage_worker.py) is a process of its own; the pools of             *)
(* run_in_process (pipeline/runner.py) are workers that share the process  *)
(* of the runner.  Operators find running workers, ask them to stop,       *)
(* signal those on their host and may start a replacement                  *)
(* (runtime/lifecycle.py).                                                 *)
(*                                                                         *)
(*   record     status of the worker document, "none" before it exists     *)
(*   late       the workers whose last heartbeat is older than             *)
(*              STALE_HEARTBEAT_SECONDS                                    *)
(*   phase      how far the main thread has come with worker w (see        *)
(*              Order); "gone" when its process does not exist any more    *)
(*   guarded    the workers whose process has installed its handler for    *)
(*              SIGTERM                                                    *)
(*   heartbeat  the heartbeat thread: "off", "waiting" for its interval,   *)
(*              "updated" (between update_one and find_one), "ended",      *)
(*              "failed" (Mongo raised in it)                              *)
(*   poolStop   the workers whose pool has its stop flag set               *)
(*   working    the workers with a handler under way                       *)
(*   op         operator o: "idle", "found" (holds records), "signalling"  *)
(*   query      the workers that the command of o is about                 *)
(*   targets    those whose records it holds and will signal               *)
(***************************************************************************)
EXTENDS Naturals

CONSTANTS
    Worker,       \* worker_id values
    InProcess,    \* those that are pools of the runner process
    Remote,       \* those on another host than the operators
    Operator,     \* processes that run stop and replace
    MaxRequests,  \* bound: commands stop and replace
    MaxFaults     \* bound: processes killed, live workers that stall, and
                  \* heartbeat threads that fail

ASSUME LifecycleAssumption ==
    /\ InProcess \subseteq Worker
    /\ Remote \subseteq Worker
    /\ MaxRequests \in Nat /\ MaxFaults \in Nat

VARIABLES record, late, phase, guarded, heartbeat, poolStop, working, op,
          query, targets, requests, faults

registryVars == <<record, late>>
processVars == <<phase, guarded, heartbeat, poolStop, working>>
operatorVars == <<op, query, targets, requests>>
vars == <<registryVars, processVars, operatorVars, faults>>

WorkerStatus == {"running", "stop_requested", "stopped", "stale"}
Order == <<"none", "starting", "registered", "beating", "guarded", "serving",
           "leaving", "quiet", "marked", "gone">>
Phase == {Order[i] : i \in 1 .. 10}
Detached == Worker \ InProcess

\* The pool's threads have been started and their process exists.
Started == {"serving", "leaving", "quiet", "marked"}

LifecycleTypeOK ==
    /\ record \in [Worker -> WorkerStatus \cup {"none"}]
    /\ late \subseteq Worker
    /\ phase \in [Worker -> Phase]
    /\ guarded \subseteq Worker
    /\ heartbeat \in [Worker -> {"off", "waiting", "updated", "ended", "failed"}]
    /\ poolStop \subseteq Worker
    /\ working \subseteq Worker
    /\ op \in [Operator -> {"idle", "found", "signalling"}]
    /\ query \in [Operator -> SUBSET Worker]
    /\ targets \in [Operator -> SUBSET Worker]
    /\ requests \in Nat /\ faults \in Nat
    /\ \A w \in Worker : /\ w \in working => phase[w] \in Started
                         /\ phase[w] = "gone" => heartbeat[w] = "off"

Init ==
    /\ record = [w \in Worker |-> "none"]
    /\ late = {}
    /\ phase = [w \in Worker |-> "none"]
    /\ guarded = {}
    /\ heartbeat = [w \in Worker |-> "off"]
    /\ poolStop = {} /\ working = {}
    /\ op = [o \in Operator |-> "idle"]
    /\ query = [o \in Operator |-> {}]
    /\ targets = [o \in Operator |-> {}]
    /\ requests = 0 /\ faults = 0

-----------------------------------------------------------------------------
(* Helpers *)

Fault == faults < MaxFaults /\ faults' = faults + 1

SetStatus(w, status) == record' = [record EXCEPT ![w] = status]

Rank(p) == CHOOSE i \in 1 .. 10 : Order[i] = p

\* The runner does each thing for all its pools before it does the next.
Together(w, from) ==
    w \in InProcess =>
        \A v \in InProcess : phase[v] # "none" => Rank(phase[v]) >= Rank(from)

Go(w, from, to) ==
    /\ phase[w] = from
    /\ Together(w, from)
    /\ phase' = [phase EXCEPT ![w] = to]

\* The workers that live in the process of w.
Housemates(w) ==
    IF w \in InProcess THEN {v \in InProcess : phase[v] # "none"} ELSE {w}

\* Mutant: handlers go on without their process.
VanishAlone(w) ==
    /\ phase' = [v \in Worker |-> IF v \in Housemates(w) THEN "gone" ELSE phase[v]]
    /\ heartbeat' = [v \in Worker |-> IF v \in Housemates(w) THEN "off" ELSE heartbeat[v]]
    /\ UNCHANGED working

\* The process of w ends, with all its threads.
Vanish(w) ==
    /\ phase' = [v \in Worker |-> IF v \in Housemates(w) THEN "gone" ELSE phase[v]]
    /\ heartbeat' = [v \in Worker |-> IF v \in Housemates(w) THEN "off" ELSE heartbeat[v]]
    /\ working' = working \ Housemates(w)

-----------------------------------------------------------------------------
(* The main thread: stage_worker.main, run_in_process *)

\* A process for a set of workers: one detached worker, or the pools that
\* _build_pools has partitions for.
Launch(started) ==
    /\ \/ \E w \in Detached : started = {w}
       \/ /\ started \subseteq InProcess /\ started # {}
          /\ \A w \in InProcess : phase[w] = "none"
    /\ \A w \in started : phase[w] = "none"
    /\ phase' = [w \in Worker |-> IF w \in started THEN "starting" ELSE phase[w]]
    /\ UNCHANGED <<guarded, heartbeat, poolStop, working>>

\* start_stage_workers, or the runner.
Start(started) ==
    /\ Launch(started)
    /\ UNCHANGED <<registryVars, operatorVars, faults>>

\* An unknown stage, no partition, a handlers module that cannot be loaded.
FailStart(w) ==
    /\ phase[w] = "starting"
    /\ w \in InProcess => \A v \in Housemates(w) : phase[v] = "starting"
    /\ Vanish(w)
    /\ UNCHANGED <<registryVars, poolStop, guarded, operatorVars, faults>>

Register(w) ==
    /\ Go(w, "starting", "registered")
    /\ SetStatus(w, "running")
    /\ UNCHANGED <<late, heartbeat, poolStop, working, guarded, operatorVars, faults>>

StartHeartbeat(w) ==
    /\ Go(w, "registered", "beating")
    /\ heartbeat' = [heartbeat EXCEPT ![w] = "waiting"]
    /\ UNCHANGED <<registryVars, poolStop, working, guarded, operatorVars, faults>>

\* signal.signal; the runner installs no handlers.
InstallHandlers(w) ==
    /\ w \in Detached
    /\ Go(w, "beating", "guarded")
    /\ guarded' = guarded \cup {w}
    /\ UNCHANGED <<registryVars, heartbeat, poolStop, working, operatorVars,
                   faults>>

\* Mutant: the pool starts before the handlers are installed.
StartPoolEarly(w) ==
    /\ Go(w, "beating", "serving")
    /\ UNCHANGED <<registryVars, heartbeat, poolStop, working, guarded, operatorVars,
                   faults>>

StartPool(w) ==
    /\ Go(w, IF w \in InProcess THEN "beating" ELSE "guarded", "serving")
    /\ UNCHANGED <<registryVars, heartbeat, poolStop, working, guarded, operatorVars,
                   faults>>

\* The loop ends when the pool is stopped; the runner stops its pools when
\* the run is complete or its timeout has passed.
Leave(w) ==
    /\ w \in Detached => w \in poolStop
    /\ Go(w, "serving", "leaving")
    /\ poolStop' = poolStop \cup {w}
    /\ UNCHANGED <<registryVars, heartbeat, working, guarded, operatorVars, faults>>

\* WorkerHeartbeat.stop; its join may time out.
StopHeartbeat(w) ==
    /\ Go(w, "leaving", "quiet")
    /\ UNCHANGED <<registryVars, heartbeat, poolStop, working, guarded, operatorVars,
                   faults>>

\* Mutant: the record is closed while the pool still consumes.
MarkStoppedEarly(w) ==
    /\ phase[w] = "serving"
    /\ Go(w, "serving", "marked")
    /\ SetStatus(w, "stopped")
    /\ UNCHANGED <<late, heartbeat, poolStop, working, guarded, operatorVars, faults>>

\* WorkerPool.join, which may time out with a handler under way, and
\* mark_worker_stopped.
MarkStopped(w) ==
    /\ Go(w, "quiet", "marked")
    /\ SetStatus(w, "stopped")
    /\ UNCHANGED <<late, heartbeat, poolStop, working, guarded, operatorVars, faults>>

\* The process exits; its daemon threads are cut.  A detached worker does at
\* the end of main, the runner when the caller of run_in_process likes.
Exit(w) ==
    /\ \A v \in Housemates(w) : phase[v] = "marked"
    /\ Vanish(w)
    /\ UNCHANGED <<registryVars, poolStop, guarded, operatorVars, faults>>

-----------------------------------------------------------------------------
(* The threads of the pool: _run_worker, _on_message *)

TakeJob(w) ==
    /\ phase[w] \in Started /\ w \notin poolStop \cup working
    /\ working' = working \cup {w}
    /\ UNCHANGED <<registryVars, phase, heartbeat, poolStop, guarded, operatorVars,
                   faults>>

FinishJob(w) ==
    /\ w \in working
    /\ working' = working \ {w}
    /\ UNCHANGED <<registryVars, phase, heartbeat, poolStop, guarded, operatorVars,
                   faults>>

-----------------------------------------------------------------------------
(* The heartbeat thread *)

HeartbeatStopped(w) == phase[w] \in {"quiet", "marked"}

Beating(w, from, to) ==
    /\ heartbeat[w] = from
    /\ heartbeat' = [heartbeat EXCEPT ![w] = to]

\* Mutant: the update also writes the status "running".
BeatRunning(w) ==
    /\ ~HeartbeatStopped(w)
    /\ Beating(w, "waiting", "updated")
    /\ SetStatus(w, "running")
    /\ late' = late \ {w}
    /\ UNCHANGED <<phase, poolStop, working, guarded, operatorVars, faults>>

\* heartbeat_worker: update_one of a running worker.
Beat(w) ==
    /\ ~HeartbeatStopped(w)
    /\ Beating(w, "waiting", "updated")
    /\ late' = IF record[w] = "running" THEN late \ {w} ELSE late
    /\ UNCHANGED <<record, phase, poolStop, working, guarded, operatorVars, faults>>

\* heartbeat_worker: find_one, then stop_worker if a stop is requested.
ReadBack(w) ==
    /\ IF record[w] = "stop_requested"
       THEN /\ Beating(w, "updated", "ended")
            /\ poolStop' = poolStop \cup {w}
       ELSE /\ Beating(w, "updated", "waiting")
            /\ UNCHANGED poolStop
    /\ UNCHANGED <<registryVars, phase, working, guarded, operatorVars, faults>>

EndHeartbeat(w) ==
    /\ HeartbeatStopped(w)
    /\ Beating(w, "waiting", "ended")
    /\ UNCHANGED <<registryVars, phase, poolStop, working, guarded, operatorVars,
                   faults>>

\* Nothing catches an exception of pymongo in the thread.
HeartbeatFails(w) ==
    /\ Fault
    /\ \E from \in {"waiting", "updated"} : Beating(w, from, "failed")
    /\ UNCHANGED <<registryVars, phase, poolStop, working, guarded, operatorVars>>

-----------------------------------------------------------------------------
(* Time, crashes and list_workers *)

\* 30 seconds without a heartbeat, of a process that has gone or stalls.
Lapse(w) ==
    /\ record[w] = "running" /\ w \notin late
    /\ late' = late \cup {w}
    /\ IF phase[w] = "gone" THEN UNCHANGED faults ELSE Fault
    /\ UNCHANGED <<record, processVars, operatorVars>>

\* mark_stale_workers, on one record.
MarkedStale(w) ==
    IF w \in late /\ record[w] = "running" THEN "stale" ELSE record[w]

\* list_workers marks before it reads; status and observability call it.
ListWorkers ==
    /\ record' = [w \in Worker |-> MarkedStale(w)]
    /\ UNCHANGED <<late, processVars, operatorVars, faults>>

Kill(w) ==
    /\ Fault
    /\ phase[w] \notin {"none", "gone"}
    /\ Vanish(w)
    /\ UNCHANGED <<registryVars, poolStop, guarded, operatorVars>>

-----------------------------------------------------------------------------
(* Operators: stop_workers, replace_stage_workers *)

Running == {w \in Worker : record[w] = "running"}

Become(o, to) == op' = [op EXCEPT ![o] = to]

\* request_worker_stop, the find: of one worker, of a stage or of the run.
FindRunning(o, workers) ==
    /\ requests < MaxRequests
    /\ op[o] = "idle"
    /\ Become(o, "found")
    /\ query' = [query EXCEPT ![o] = workers]
    /\ targets' = [targets EXCEPT ![o] = workers \cap Running]
    /\ requests' = requests + 1
    /\ UNCHANGED <<registryVars, processVars, faults>>

\* Mutant: the records that were found are updated, whatever they are now.
RequestStopOfFound(o) ==
    /\ op[o] = "found"
    /\ Become(o, "signalling")
    /\ record' = [w \in Worker |-> IF w \in targets[o]
                                   THEN "stop_requested" ELSE record[w]]
    /\ UNCHANGED <<late, query, targets, requests, processVars, faults>>

\* request_worker_stop, the update_many, which evaluates the query again.
RequestStop(o) ==
    /\ op[o] = "found"
    /\ Become(o, "signalling")
    /\ record' = [w \in Worker |-> IF w \in query[o] \cap Running
                                   THEN "stop_requested" ELSE record[w]]
    /\ UNCHANGED <<late, query, targets, requests, processVars, faults>>

\* os.kill(pid, SIGTERM) of what was found: the handler stops the pool;
\* without one, as in the runner, the process ends; one that is gone is no
\* error.
Signal(o, w) ==
    /\ op[o] = "signalling"
    /\ w \in targets[o] \ Remote
    /\ targets' = [targets EXCEPT ![o] = @ \ {w}]
    /\ \/ /\ phase[w] # "gone" /\ w \in guarded
          /\ poolStop' = poolStop \cup {w}
          /\ UNCHANGED <<phase, heartbeat, working>>
       \/ /\ phase[w] # "gone" /\ w \notin guarded
          /\ Vanish(w)
          /\ UNCHANGED poolStop
       \/ /\ phase[w] = "gone"
          /\ UNCHANGED <<phase, heartbeat, poolStop, working>>
    /\ UNCHANGED <<registryVars, guarded, op, query, requests, faults>>

EndCommand(o) ==
    /\ op[o] = "signalling" /\ targets[o] \subseteq Remote
    /\ Become(o, "idle")
    /\ query' = [query EXCEPT ![o] = {}]
    /\ targets' = [targets EXCEPT ![o] = {}]
    /\ UNCHANGED <<registryVars, requests, faults>>

\* The command was stop, or the check of the partitions refuses to start
\* the replacement.
FinishStop(o) == EndCommand(o) /\ UNCHANGED processVars

\* replace goes on with start_stage_workers.
Replace(o, w) == EndCommand(o) /\ w \in Detached /\ Launch({w})

-----------------------------------------------------------------------------

MainStep(w) ==
    \/ Register(w) \/ StartHeartbeat(w) \/ InstallHandlers(w) \/ StartPool(w)
    \/ Leave(w) \/ StopHeartbeat(w) \/ MarkStopped(w)

HeartbeatStep(w) == Beat(w) \/ ReadBack(w) \/ EndHeartbeat(w)

Next ==
    \/ \E started \in SUBSET Worker : Start(started)
    \/ \E w \in Worker :
          \/ FailStart(w) \/ MainStep(w) \/ Exit(w)
          \/ TakeJob(w) \/ FinishJob(w)
          \/ HeartbeatStep(w) \/ HeartbeatFails(w) \/ Lapse(w) \/ Kill(w)
    \/ ListWorkers
    \/ \E o \in Operator :
          \/ \E workers \in {Worker} \cup {{w} : w \in Worker} :
                FindRunning(o, workers)
          \/ RequestStop(o) \/ FinishStop(o)
          \/ \E w \in Worker : Signal(o, w) \/ Replace(o, w)

Spec == Init /\ [][Next]_vars

(***************************************************************************)
(* Fairness.  The main thread and the heartbeat thread of a process go on: *)
(* the runner leaves because its wait has a timeout, the joins have one    *)
(* too.  Nothing is assumed of operators, signals, handlers or the end of  *)
(* a process.                                                              *)
(***************************************************************************)
FairSpec ==
    /\ Spec
    /\ \A w \in Worker : WF_vars(MainStep(w)) /\ WF_vars(HeartbeatStep(w))

-----------------------------------------------------------------------------
(* Properties *)

(***************************************************************************)
(* A pool that can take a job is in the registry, and not as stopped: the  *)
(* record appears before the first delivery and is closed after the last,  *)
(* in every order of heartbeats, stop requests, signals and crashes.       *)
(***************************************************************************)
ServingIsRecorded ==
    \A w \in Worker :
        phase[w] \in Started /\ w \notin poolStop
            => record[w] \in {"running", "stop_requested", "stale"}

(***************************************************************************)
(* The status of a worker only moves on; a stop request that races the end *)
(* of the worker or mark_stale_workers does not bring it back, and neither *)
(* does a late heartbeat.                                                  *)
(***************************************************************************)
Later(status) ==
    CASE status = "none" -> {"running"}
      [] status = "running" -> {"stop_requested", "stale", "stopped"}
      [] status \in {"stop_requested", "stale"} -> {"stopped"}
      [] status = "stopped" -> {}

StatusMovesOn ==
    [][\A w \in Worker : record'[w] # record[w] => record'[w] \in Later(record[w])]_vars

(***************************************************************************)
(* The signal of a stop command cuts no handler of a detached worker short *)
(* ("stop" is graceful), however early after the start it arrives: no      *)
(* delivery is taken before SIGTERM has its handler.  What the worker does *)
(* with the signal later, its join may time out, is not the signal's step. *)
(***************************************************************************)
StopIsGraceful ==
    [][(\E o \in Operator, w \in Worker : Signal(o, w))
          => working \cap Detached \subseteq working']_vars

(***************************************************************************)
(* A worker that was asked to stop does stop, or its process is gone, or   *)
(* its heartbeat thread has failed; the signal is not needed (workers on   *)
(* other hosts, records that appear between the find and the update).      *)
(***************************************************************************)
StopRequestEnds ==
    \A w \in Worker :
        record[w] = "stop_requested"
            ~> record[w] = "stopped" \/ phase[w] = "gone" \/ heartbeat[w] = "failed"
=============================================================================
