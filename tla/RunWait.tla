------------------------------ MODULE RunWait -------------------------------
(***************************************************************************)
(* Waiting for a run: the callers of wait_for_run (runtime/status.py) and  *)
(* of run_in_process (pipeline/runner.py), the taps they start, an         *)
(* operator who seeds, and the stages, reduced to what they do to the      *)
(* final queue: a published job arrives there, once or, after a fault or a *)
(* replay, again (StagedRuntime).                                          *)
(*                                                                         *)
(*   callerPc     what a caller does next:                                 *)
(*     "idle"        has not called, or its process has ended              *)
(*     "building"    constructs and starts a tap                           *)
(*     "awaiting"    run_in_process: tap.wait_for_completion               *)
(*     "polling"     get_run_status: will read the events                  *)
(*     "counted"     get_run_status: will read the expected count          *)
(*     "sleeping"    tests its timeout, or sleeps                          *)
(*     "complete", "incomplete", "failed"   how the call ended             *)
(*   terminalJobs the count of terminal jobs that a status read            *)
(*   seeding      a seed command is between its batch and its last write   *)
(*   unpublished  the jobs it has still to publish                         *)
(*   published    the jobs that were published to the first stage          *)
(*   arrivals     how often a job arrived in the final queue               *)
(***************************************************************************)
EXTENDS TerminalTap

CONSTANTS
    Caller,       \* the calls of wait_for_run and run_in_process
    Runner,       \* those of run_in_process
    RunTap,       \* the tap that run_in_process constructs
    WaitTap,      \* the tap that wait_for_run constructs
    SeedChoices,  \* the sets of jobs an operator may seed
    MaxBatches,   \* bound: seed commands
    MaxSeedAborts,\* bound: seed commands that fail or are killed
    MaxArrivals,  \* bound: arrivals of one job in the final queue
    MaxCalls,     \* bound: calls
    MaxFailures   \* bound: calls that end with an exception

ASSUME WaitAssumption ==
    /\ Runner \subseteq Caller
    /\ RunTap \in [Runner -> Tap]
    /\ WaitTap \in [Caller -> Tap]
    /\ \A c \in Runner, d \in Caller : RunTap[c] # WaitTap[d]
    /\ \A c, d \in Caller : c # d => WaitTap[c] # WaitTap[d]
    /\ \A c, d \in Runner : c # d => RunTap[c] # RunTap[d]
    /\ SeedChoices \subseteq SUBSET Job
    /\ {MaxBatches, MaxSeedAborts, MaxArrivals, MaxCalls, MaxFailures}
           \subseteq Nat

VARIABLES callerPc, terminalJobs, calls, failures,
          seeding, unpublished, published, arrivals, aborts

callerVars == <<callerPc, terminalJobs, calls, failures>>
seedVars == <<seeding, unpublished, published, arrivals, aborts>>
vars == <<progressVars, tapVars, callerVars, seedVars>>

Returned == {"complete", "incomplete", "failed"}

WaitTypeOK ==
    /\ ProgressTypeOK
    /\ TapTypeOK
    /\ callerPc \in [Caller -> Returned \cup {"idle", "building", "awaiting",
                                 "polling", "counted", "sleeping"}]
    /\ terminalJobs \in [Caller -> Nat]
    /\ calls \in Nat
    /\ failures \in Nat
    /\ seeding \in BOOLEAN
    /\ unpublished \in SUBSET Job
    /\ published \in SUBSET Job
    /\ arrivals \in [Job -> Nat]
    /\ aborts \in Nat
    /\ seeding => seedBatches # <<>>

Init ==
    /\ ProgressInit
    /\ TapInit
    /\ callerPc = [c \in Caller |-> "idle"]
    /\ terminalJobs = [c \in Caller |-> 0]
    /\ calls = 0
    /\ failures = 0
    /\ seeding = FALSE
    /\ unpublished = {}
    /\ published = {}
    /\ arrivals = [j \in Job |-> 0]
    /\ aborts = 0

-----------------------------------------------------------------------------
(* Seeding, and the stages *)

\* The taps, the recorded terminals and the callers are elsewhere.
KeepTaps == UNCHANGED <<terminalStates, terminalEvents, tapVars, callerVars>>

BeginSeed(jobs) ==
    /\ ~seeding
    /\ Len(seedBatches) < MaxBatches
    /\ jobs \cap ActiveSeedJobs = {}
    /\ seedBatches' = Append(seedBatches, [job_ids |-> jobs, status |-> "created"])
    /\ seeding' = TRUE
    /\ unpublished' = jobs
    /\ KeepTaps
    /\ UNCHANGED <<published, arrivals, aborts>>

PublishSeedJob(j) ==
    /\ seeding
    /\ j \in unpublished
    /\ unpublished' = unpublished \ {j}
    /\ published' = published \cup {j}
    /\ KeepTaps
    /\ UNCHANGED <<seedBatches, seeding, arrivals, aborts>>

SetLastBatchStatus(status) ==
    seedBatches' = [seedBatches EXCEPT ![Len(seedBatches)].status = status]

FinishSeed ==
    /\ seeding
    /\ unpublished = {}
    /\ SetLastBatchStatus("published")
    /\ seeding' = FALSE
    /\ KeepTaps
    /\ UNCHANGED <<unpublished, published, arrivals, aborts>>

\* An exception marks the batch failed, jobs published before it or not.
AbortSeed ==
    /\ seeding
    /\ aborts < MaxSeedAborts
    /\ SetLastBatchStatus("failed")
    /\ seeding' = FALSE
    /\ unpublished' = {}
    /\ aborts' = aborts + 1
    /\ KeepTaps
    /\ UNCHANGED <<published, arrivals>>

\* The seeding process is killed: the batch stays as it is.
KillSeed ==
    /\ seeding
    /\ aborts < MaxSeedAborts
    /\ seeding' = FALSE
    /\ unpublished' = {}
    /\ aborts' = aborts + 1
    /\ KeepTaps
    /\ UNCHANGED <<seedBatches, published, arrivals>>

\* The last stage publishes a job.
Arrive(j) ==
    /\ j \in published
    /\ arrivals[j] < MaxArrivals
    /\ arrivals' = [arrivals EXCEPT ![j] = @ + 1]
    /\ completedQueue' = [completedQueue EXCEPT ![j] = @ + 1]
    /\ UNCHANGED <<progressVars, tapPc, pending, position, terminalJobIds,
                   tapStop, tapDone, tapConnected, draining, tapCrashes,
                   tapDrops, callerVars, seeding, unpublished, published, aborts>>

-----------------------------------------------------------------------------
(* Callers *)

CallerAt(c, label) == callerPc[c] = label

CallerGoto(c, label) == callerPc' = [callerPc EXCEPT ![c] = label]

TapsOf(c) == {WaitTap[c]} \cup (IF c \in Runner THEN {RunTap[c]} ELSE {})

\* The tap that a caller at "building" constructs: run_in_process builds its
\* own first.
TapToBuild(c) ==
    IF c \in Runner /\ tapPc[RunTap[c]] \in {"none", "constructing", "constructed"}
    THEN RunTap[c] ELSE WaitTap[c]

KeepCounts == UNCHANGED <<terminalJobs, calls, failures, seedVars>>

\* The finally clauses: the taps are told to stop; the joins end when the
\* threads end or after five seconds, so they order nothing.
Return(c, outcome) ==
    /\ CallerGoto(c, outcome)
    /\ tapStop' = tapStop \cup TapsOf(c)
    /\ UNCHANGED <<progressVars, completedQueue, tapPc, pending, position,
                   terminalJobIds, tapDone, tapConnected, draining,
                   tapCrashes, tapDrops>>

Call(c) ==
    /\ CallerAt(c, "idle")
    /\ calls < MaxCalls
    /\ CallerGoto(c, IF c \in Runner THEN "building" ELSE "polling")
    /\ calls' = calls + 1
    /\ UNCHANGED <<progressVars, tapVars, terminalJobs, failures, seedVars>>

BuildTap(c) ==
    /\ CallerAt(c, "building")
    /\ LET t == TapToBuild(c)
       IN  \/ (ReadTerminalJobIds(t) \/ TestInitiallyDone(t))
                 /\ UNCHANGED callerPc
           \/ /\ StartTap(t)
              /\ CallerGoto(c, IF t = WaitTap[c] THEN "sleeping" ELSE "awaiting")
    /\ KeepCounts

\* tap.wait_for_completion returns True.
SeeDone(c) ==
    /\ CallerAt(c, "awaiting")
    /\ RunTap[c] \in tapDone
    /\ CallerGoto(c, "polling")
    /\ UNCHANGED <<progressVars, tapVars>>
    /\ KeepCounts

\* completion_timeout is over.
TimeOut(c) ==
    /\ CallerAt(c, "awaiting")
    /\ RunTap[c] \notin tapDone
    /\ Return(c, "incomplete")
    /\ KeepCounts

\* build_run_status reads the events first ...
ReadTerminals(c) ==
    /\ CallerAt(c, "polling")
    /\ terminalJobs' = [terminalJobs EXCEPT ![c] = TerminalCount]
    /\ CallerGoto(c, "counted")
    /\ UNCHANGED <<progressVars, tapVars, calls, failures, seedVars>>

\* ... and the expected count later; then wait_for_run decides.
ReadExpected(c) ==
    /\ CallerAt(c, "counted")
    /\ IF terminalJobs[c] >= ExpectedJobCount
       THEN Return(c, "complete")
       ELSE /\ CallerGoto(c, IF TapAt(WaitTap[c], "none")
                             THEN "building" ELSE "sleeping")
            /\ UNCHANGED <<progressVars, tapVars>>
    /\ KeepCounts

\* run_in_process calls wait_for_run with timeout = 0, a caller of
\* wait_for_run may set a timeout.
GiveUp(c) ==
    /\ CallerAt(c, "sleeping")
    /\ Return(c, "incomplete")
    /\ KeepCounts

PollAgain(c) ==
    /\ CallerAt(c, "sleeping")
    /\ c \notin Runner
    /\ CallerGoto(c, "polling")
    /\ UNCHANGED <<progressVars, tapVars>>
    /\ KeepCounts

\* An exception in the calling thread.
Fail(c) ==
    /\ failures < MaxFailures
    /\ callerPc[c] \notin Returned \cup {"idle"}
    /\ Return(c, "failed")
    /\ failures' = failures + 1
    /\ UNCHANGED <<terminalJobs, calls, seedVars>>

\* The process of a caller ends: its daemon threads die at once.
KillTap(c, t) ==
    /\ callerPc[c] \in Returned
    /\ t \in TapsOf(c)
    /\ tapPc[t] \in Running
    /\ EndTap(t)
    /\ KeepTapFaults
    /\ UNCHANGED <<callerVars, seedVars>>

EndProcess(c) ==
    /\ callerPc[c] \in Returned
    /\ \A t \in TapsOf(c) : tapPc[t] \notin Running
    /\ CallerGoto(c, "idle")
    /\ tapPc' = [t \in Tap |-> IF t \in TapsOf(c) THEN "none" ELSE tapPc[t]]
    /\ tapStop' = tapStop \ TapsOf(c)
    /\ tapDone' = tapDone \ TapsOf(c)
    /\ terminalJobIds' = [t \in Tap |-> IF t \in TapsOf(c)
                                        THEN {} ELSE terminalJobIds[t]]
    /\ tapConnected' = tapConnected \cup TapsOf(c)
    /\ draining' = draining \ TapsOf(c)
    /\ terminalJobs' = [terminalJobs EXCEPT ![c] = 0]
    /\ KeepTapFaults
    /\ UNCHANGED <<progressVars, completedQueue, pending, position, calls,
                   failures, seedVars>>

-----------------------------------------------------------------------------

\* The steps a caller takes on its own; a timeout is never forced, except
\* that of run_in_process' last look at the status.
CallerStep(c) ==
    \/ BuildTap(c) \/ SeeDone(c) \/ ReadTerminals(c) \/ ReadExpected(c)
    \/ PollAgain(c)
    \/ c \in Runner /\ GiveUp(c)

SeedStep == (\E j \in Job : PublishSeedJob(j)) \/ FinishSeed

CallerNext ==
    \E c \in Caller : \/ Call(c) \/ CallerStep(c) \/ TimeOut(c) \/ GiveUp(c)
                      \/ Fail(c) \/ EndProcess(c)
                      \/ \E t \in Tap : KillTap(c, t)

SeedNext ==
    \/ \E jobs \in SeedChoices : BeginSeed(jobs)
    \/ SeedStep
    \/ AbortSeed
    \/ KillSeed
    \/ \E j \in Job : Arrive(j)

Next ==
    \/ TapNext /\ UNCHANGED <<callerVars, seedVars>>
    \/ CallerNext
    \/ SeedNext

Spec == Init /\ [][Next]_vars

(***************************************************************************)
(* Fairness.  Threads and callers go on; the broker delivers to a          *)
(* consuming tap; a seed command runs on and the stages bring every        *)
(* published job to the final queue once (RunComesToRest, if none is       *)
(* parked).  Calls, seeds, timeouts, repeated arrivals and faults are not  *)
(* forced.                                                                 *)
(***************************************************************************)
Fairness ==
    /\ \A t \in Tap : WF_vars(TapStep(t) /\ UNCHANGED <<callerVars, seedVars>>)
    /\ \A j \in Job :
          /\ WF_vars(/\ \E t \in Tap : Receive(t, j)
                     /\ UNCHANGED <<callerVars, seedVars>>)
          /\ WF_vars(arrivals[j] = 0 /\ Arrive(j))
    /\ \A c \in Caller : WF_vars(CallerStep(c))
    /\ WF_vars(SeedStep)

FairSpec == Spec /\ Fairness

-----------------------------------------------------------------------------
(* Properties *)

(***************************************************************************)
(* No terminal result is lost: a job that arrived in the final queue has   *)
(* its TERMINAL event, or waits in the queue, or is held by a tap whose    *)
(* session would give it back (_flush_pending records before it            *)
(* acknowledges, _on_message acknowledges only ids that are recorded).     *)
(***************************************************************************)
NoTerminalLost ==
    \A j \in Job :
        arrivals[j] > 0 => \/ j \in TerminalJobs
                           \/ completedQueue[j] > 0
                           \/ \E t \in tapConnected : Holds(t, j)

(***************************************************************************)
(* A job with a TERMINAL event has a terminal state: record_terminal_batch *)
(* writes the states first, so the state-based summary of the viewer never *)
(* lags behind the event-based status.                                     *)
(***************************************************************************)
EventHasState == TerminalJobs \subseteq terminalStates

(***************************************************************************)
(* cli/demo.py compares the number of TERMINAL events with the number of   *)
(* jobs: every job has at most one.                                        *)
(***************************************************************************)
OneTerminalEventPerJob == \A j \in Job : terminalEvents[j] <= 1

Completes(c) == callerPc[c] # "complete" /\ callerPc'[c] = "complete"

(***************************************************************************)
(* Completion is never announced early by count: when wait_for_run returns *)
(* a complete status, and when a tap sets its done event, as many jobs     *)
(* have a TERMINAL event as the seed batches expect at that moment,        *)
(* although the two numbers were read one after the other.                 *)
(***************************************************************************)
CompletionIsTrue ==
    [][(\E c \in Caller : Completes(c)) \/ tapDone' \ tapDone # {}
         => Cardinality(TerminalJobs) >= ExpectedJobCount]_vars

(***************************************************************************)
(* The count stands for the jobs: when wait_for_run returns a complete     *)
(* status, every job of an active seed batch has its TERMINAL event.       *)
(***************************************************************************)
CompleteMeansEveryJob ==
    [][\A c \in Caller : Completes(c) => ActiveSeedJobs \subseteq TerminalJobs]_vars

\* A tap that died or lost its connection: no tap is built in its place.
TapsLost(c) == \E t \in TapsOf(c) : tapPc[t] = "dead" \/ t \notin tapConnected

(***************************************************************************)
(* README.md "wait --target terminal": a wait for a run whose jobs all     *)
(* reach the final queue ends without a timeout, unless the caller's own   *)
(* tap is lost; what other callers' taps suffer does not matter.           *)
(***************************************************************************)
WaitReturns ==
    \A c \in Caller : callerPc[c] \in {"awaiting", "polling"}
                          ~> callerPc[c] \in Returned \/ TapsLost(c)
=============================================================================
