---------------------------- MODULE TerminalTap -----------------------------
(***************************************************************************)
(* TerminalTap (pipeline/tap.py): a thread that consumes the final queue,  *)
(* buffers deliveries, and records them batch by batch with                *)
(* record_terminal_batch before it acknowledges them.                      *)
(*                                                                         *)
(*   completedQueue  the waiting messages of each job                      *)
(*   tapPc           what a tap does next:                                 *)
(*     "none"          not constructed                                     *)
(*     "constructing"  has read the terminal job ids, will read the        *)
(*                     expected count                                      *)
(*     "constructed"   start() is still to come                            *)
(*     "consuming"     in its loop or in process_data_events               *)
(*     "states"        will upsert the state of pending[position]          *)
(*     "events"        will insert the event of pending[position]          *)
(*     "acks"          will acknowledge the first pending delivery         *)
(*     "counting"      will compare its ids with the expected count        *)
(*     "finished"      left the loop and flushed                           *)
(*     "dead"          an exception or the end of the process ended it     *)
(*   pending         the deliveries not yet acknowledged                   *)
(*   position        progress of a flush                                   *)
(*   terminalJobIds  the ids the tap knows as recorded                     *)
(*   tapStop, tapDone  the taps whose _stop, _done event is set            *)
(*   tapConnected    the taps whose broker session is open, or not opened  *)
(*   draining        the taps in the flush after the loop                  *)
(***************************************************************************)
EXTENDS RunProgress

CONSTANTS
    Tap,         \* the TerminalTap objects
    BatchSize,   \* batch_size
    MaxTapCrashes,  \* bound: tap threads ended by an exception
    MaxTapDrops     \* bound: connections lost during a flush

ASSUME TapAssumption ==
    /\ BatchSize \in Nat \ {0}
    /\ MaxTapCrashes \in Nat
    /\ MaxTapDrops \in Nat

VARIABLES completedQueue, tapPc, pending, position, terminalJobIds,
          tapStop, tapDone, tapConnected, draining, tapCrashes, tapDrops

tapVars == <<completedQueue, tapPc, pending, position, terminalJobIds,
             tapStop, tapDone, tapConnected, draining, tapCrashes, tapDrops>>

Flushing == {"states", "events", "acks"}
Running == Flushing \cup {"consuming", "counting"}
TapEnded == {"finished", "dead"}
TapLabel == Running \cup TapEnded \cup {"none", "constructing", "constructed"}

\* Only a thread at work has deliveries, and a flush stands at one of them.
PendingFits(t) ==
    /\ tapPc[t] \notin Flushing \cup {"consuming"} => pending[t] = <<>>
    /\ tapPc[t] \in Flushing => position[t] \in 1 .. Len(pending[t])
    /\ tapPc[t] = "acks" => position[t] = 1

TapTypeOK ==
    /\ completedQueue \in [Job -> Nat]
    /\ tapPc \in [Tap -> TapLabel]
    /\ pending \in [Tap -> Seq(Job)]
    /\ position \in [Tap -> Nat \ {0}]
    /\ terminalJobIds \in [Tap -> SUBSET Job]
    /\ tapStop \subseteq Tap
    /\ tapDone \subseteq Tap
    /\ tapConnected \subseteq Tap
    /\ draining \subseteq Tap
    /\ tapCrashes \in Nat
    /\ tapDrops \in Nat
    /\ \A t \in Tap : PendingFits(t)

TapInit ==
    /\ completedQueue = [j \in Job |-> 0]
    /\ tapPc = [t \in Tap |-> "none"]
    /\ pending = [t \in Tap |-> <<>>]
    /\ position = [t \in Tap |-> 1]
    /\ terminalJobIds = [t \in Tap |-> {}]
    /\ tapStop = {}
    /\ tapDone = {}
    /\ tapConnected = Tap
    /\ draining = {}
    /\ tapCrashes = 0
    /\ tapDrops = 0

-----------------------------------------------------------------------------
(* Helpers *)

TapAt(t, label) == tapPc[t] = label

TapGoto(t, label) == tapPc' = [tapPc EXCEPT ![t] = label]

Holds(t, j) == \E i \in DOMAIN pending[t] : pending[t][i] = j

Copies(t, j) == Cardinality({i \in DOMAIN pending[t] : pending[t][i] = j})

\* The broker takes the unacknowledged deliveries of a tap back, unless it
\* did so when the connection was lost.
ReturnPending(t) ==
    completedQueue' = IF t \in tapConnected
                      THEN [j \in Job |-> completedQueue[j] + Copies(t, j)]
                      ELSE completedQueue

\* The done test that ends the constructor and every flush.
TestDone(t) ==
    tapDone' = IF Cardinality(terminalJobIds[t]) >= ExpectedJobCount
               THEN tapDone \cup {t} ELSE tapDone

\* Mutant: a tap that ended keeps the deliveries it gave back.
ForgetIds(t) ==
    /\ terminalJobIds' = [terminalJobIds EXCEPT ![t] = {}]
    /\ tapConnected' = tapConnected \cup {t}
    /\ draining' = draining \ {t}
    /\ UNCHANGED <<pending, position>>

\* The locals of a thread that is no more, or of a tap that is made anew.
ForgetLocals(t) ==
    /\ pending' = [pending EXCEPT ![t] = <<>>]
    /\ position' = [position EXCEPT ![t] = 1]
    /\ terminalJobIds' = [terminalJobIds EXCEPT ![t] = {}]
    /\ tapConnected' = tapConnected \cup {t}
    /\ draining' = draining \ {t}

KeepLocals == UNCHANGED <<pending, position, terminalJobIds>>
KeepSession == UNCHANGED <<tapStop, tapConnected, draining>>
KeepTapFaults == UNCHANGED <<tapCrashes, tapDrops>>

-----------------------------------------------------------------------------
(* Construction: steps of the caller *)

\* Mutant: a tap takes a terminal state for a recorded event.
ReadTerminalStateIds(t) ==
    /\ TapAt(t, "none")
    /\ terminalJobIds' = [terminalJobIds EXCEPT ![t] = terminalStates]
    /\ TapGoto(t, "constructing")
    /\ KeepSession /\ KeepTapFaults
    /\ UNCHANGED <<progressVars, completedQueue, pending, position, tapDone>>

\* Mutant: a new tap knows nothing of what was recorded before.
ReadNothing(t) ==
    /\ TapAt(t, "none")
    /\ TapGoto(t, "constructing")
    /\ KeepLocals /\ KeepSession /\ KeepTapFaults
    /\ UNCHANGED <<progressVars, completedQueue, tapDone>>

ReadTerminalJobIds(t) ==
    /\ TapAt(t, "none")
    /\ terminalJobIds' = [terminalJobIds EXCEPT ![t] = TerminalJobs]
    /\ TapGoto(t, "constructing")
    /\ KeepSession /\ KeepTapFaults
    /\ UNCHANGED <<progressVars, completedQueue, pending, position, tapDone>>

TestInitiallyDone(t) ==
    /\ TapAt(t, "constructing")
    /\ TestDone(t)
    /\ TapGoto(t, "constructed")
    /\ KeepLocals /\ KeepSession /\ KeepTapFaults
    /\ UNCHANGED <<progressVars, completedQueue>>

StartTap(t) ==
    /\ TapAt(t, "constructed")
    /\ TapGoto(t, "consuming")
    /\ KeepLocals /\ KeepSession /\ KeepTapFaults
    /\ UNCHANGED <<progressVars, completedQueue, tapDone>>

-----------------------------------------------------------------------------
(* The thread *)

\* Mutant: a flush inserts the events without the states.
BeginEventFlush(t) ==
    /\ TapGoto(t, "events")
    /\ position' = [position EXCEPT ![t] = 1]

BeginFlush(t) ==
    /\ TapGoto(t, "states")
    /\ position' = [position EXCEPT ![t] = 1]

\* _on_message: a known job is acknowledged at once, another is buffered,
\* and a full buffer is flushed within the callback.  Callbacks also run
\* between the moment an event is set and the next test of the loop.
Receive(t, j) ==
    /\ TapAt(t, "consuming")
    /\ t \in tapConnected
    /\ completedQueue[j] > 0
    /\ completedQueue' = [completedQueue EXCEPT ![j] = @ - 1]
    /\ IF j \in terminalJobIds[t]
       THEN UNCHANGED <<pending, tapPc, position>>
       ELSE /\ pending' = [pending EXCEPT ![t] = Append(@, j)]
            /\ IF Len(pending[t]) + 1 >= BatchSize
               THEN BeginFlush(t)
               ELSE UNCHANGED <<tapPc, position>>
    /\ KeepSession /\ KeepTapFaults
    /\ UNCHANGED <<progressVars, terminalJobIds, tapDone>>

\* Mutant: only full batches are flushed.
FlushWhenFull(t) ==
    /\ TapAt(t, "consuming")
    /\ Len(pending[t]) >= BatchSize
    /\ BeginFlush(t)
    /\ KeepSession /\ KeepTapFaults
    /\ UNCHANGED <<progressVars, completedQueue, pending, terminalJobIds,
                   tapDone>>

\* The flush interval is over (time is not modelled).
FlushDue(t) ==
    /\ TapAt(t, "consuming")
    /\ pending[t] # <<>>
    /\ BeginFlush(t)
    /\ KeepSession /\ KeepTapFaults
    /\ UNCHANGED <<progressVars, completedQueue, pending, terminalJobIds,
                   tapDone>>

\* A write for pending[position]; the last one leads to the next phase.
Advance(t, next) ==
    IF position[t] = Len(pending[t])
    THEN /\ TapGoto(t, next)
         /\ position' = [position EXCEPT ![t] = 1]
    ELSE /\ position' = [position EXCEPT ![t] = @ + 1]
         /\ UNCHANGED tapPc

WriteTerminalState(t) ==
    /\ TapAt(t, "states")
    /\ UpsertTerminalState(pending[t][position[t]])
    /\ Advance(t, "events")
    /\ KeepSession /\ KeepTapFaults
    /\ UNCHANGED <<seedBatches, terminalEvents, completedQueue, pending,
                   terminalJobIds, tapDone>>

WriteTerminalEvent(t) ==
    /\ TapAt(t, "events")
    /\ InsertTerminalEvent(pending[t][position[t]])
    /\ Advance(t, "acks")
    /\ KeepSession /\ KeepTapFaults
    /\ UNCHANGED <<seedBatches, terminalStates, completedQueue, pending,
                   terminalJobIds, tapDone>>

AckTerminal(t) ==
    /\ TapAt(t, "acks")
    /\ t \in tapConnected
    /\ terminalJobIds' = [terminalJobIds EXCEPT ![t] = @ \cup {Head(pending[t])}]
    /\ pending' = [pending EXCEPT ![t] = Tail(@)]
    /\ IF Len(pending[t]) = 1 THEN TapGoto(t, "counting") ELSE UNCHANGED tapPc
    /\ KeepSession /\ KeepTapFaults
    /\ UNCHANGED <<progressVars, completedQueue, position, tapDone>>

TestFlushDone(t) ==
    /\ TapAt(t, "counting")
    /\ TestDone(t)
    /\ TapGoto(t, IF t \in draining THEN "finished" ELSE "consuming")
    /\ KeepLocals /\ KeepSession /\ KeepTapFaults
    /\ UNCHANGED <<progressVars, completedQueue>>

\* The loop test finds _stop or _done set; what is pending is flushed.
LeaveTapLoop(t) ==
    /\ TapAt(t, "consuming")
    /\ t \in tapStop \cup tapDone
    /\ IF pending[t] = <<>>
       THEN TapGoto(t, "finished") /\ UNCHANGED <<position, draining>>
       ELSE BeginFlush(t) /\ draining' = draining \cup {t}
    /\ KeepTapFaults
    /\ UNCHANGED <<progressVars, completedQueue, pending, terminalJobIds,
                   tapStop, tapDone, tapConnected>>

\* An exception leaves _run; the session closes.
EndTap(t) ==
    /\ TapGoto(t, "dead")
    /\ ReturnPending(t)
    /\ ForgetLocals(t)
    /\ UNCHANGED <<progressVars, tapStop, tapDone>>

\* The next use of a lost connection raises.
TapConnectionError(t) ==
    /\ t \notin tapConnected
    /\ tapPc[t] \in {"consuming", "acks"}
    /\ EndTap(t)
    /\ KeepTapFaults

\* A store call or the connection raises at any other point.
CrashTap(t) ==
    /\ tapCrashes < MaxTapCrashes
    /\ tapPc[t] \in Running
    /\ EndTap(t)
    /\ tapCrashes' = tapCrashes + 1
    /\ UNCHANGED tapDrops

\* The broker closes the connection while a flush waits for the store.
DropTapConnection(t) ==
    /\ tapDrops < MaxTapDrops
    /\ tapPc[t] \in Flushing
    /\ t \in tapConnected
    /\ ReturnPending(t)
    /\ tapConnected' = tapConnected \ {t}
    /\ tapDrops' = tapDrops + 1
    /\ KeepLocals
    /\ UNCHANGED <<progressVars, tapPc, tapStop, tapDone, draining, tapCrashes>>

-----------------------------------------------------------------------------

\* What a tap thread does on its own.
TapStep(t) ==
    \/ FlushDue(t) \/ WriteTerminalState(t) \/ WriteTerminalEvent(t)
    \/ AckTerminal(t) \/ TestFlushDone(t) \/ LeaveTapLoop(t)
    \/ TapConnectionError(t)

TapNext ==
    \E t \in Tap : \/ \E j \in Job : Receive(t, j)
                   \/ TapStep(t)
                   \/ CrashTap(t)
                   \/ DropTapConnection(t)
=============================================================================
