--------------------------- MODULE RunWaitProofs ----------------------------
(***************************************************************************)
(* Theorems about waiting for a run, for every number of jobs, taps and    *)
(* callers and for every bound on seeds, arrivals and faults, but for the  *)
(* last two: what a complete status says of the jobs needs seed commands   *)
(* that finish, and one event for every job needs one tap and one arrival. *)
(***************************************************************************)
EXTENDS RunWait, FiniteSetTheorems, SequenceTheorems, TLAPS

-----------------------------------------------------------------------------
(* Counting *)

\* A tap holds finitely many copies of a job, and at least one if any.
LEMMA CopiesCount ==
    ASSUME NEW t \in Tap, pending[t] \in Seq(Job), NEW j \in Job
    PROVE  /\ Copies(t, j) \in Nat
           /\ Holds(t, j) => Copies(t, j) > 0
<1> DEFINE S == {i \in DOMAIN pending[t] : pending[t][i] = j}
<1>1. IsFiniteSet(S)
  <2>1. /\ Len(pending[t]) \in Nat
        /\ DOMAIN pending[t] = 1 .. Len(pending[t])
    OBVIOUS
  <2>2. IsFiniteSet(1 .. Len(pending[t]))
    BY <2>1, FS_Interval
  <2>. QED  BY <2>1, <2>2, FS_Subset
<1>2. Cardinality(S) \in Nat
  BY <1>1, FS_CardinalityType
<1>3. Holds(t, j) => Cardinality(S) # 0
  BY <1>1, FS_EmptySet DEF Holds
<1>. QED  BY <1>2, <1>3 DEF Copies

\* The two counts that are compared are numbers, and a larger set of jobs
\* has a larger count.
LEMMA JobCounts ==
    ASSUME NEW S \in SUBSET Job, NEW T \in SUBSET S
    PROVE  /\ Cardinality(S) \in Nat
           /\ Cardinality(T) \in Nat
           /\ Cardinality(T) <= Cardinality(S)
<1>1. IsFiniteSet(S) /\ IsFiniteSet(T)
  BY FS_Subset, ProgressAssumption
<1>. QED  BY <1>1, FS_Subset, FS_CardinalityType

LEMMA ExpectedIsNat ==
    ASSUME ProgressTypeOK
    PROVE  ExpectedJobCount \in Nat
<1> DEFINE S == {bj \in ActiveBatches \X Job :
                   bj[2] \in seedBatches[bj[1]].job_ids}
<1>1. /\ Len(seedBatches) \in Nat
      /\ DOMAIN seedBatches = 1 .. Len(seedBatches)
  BY DEF ProgressTypeOK
<1>2. IsFiniteSet(1 .. Len(seedBatches))
  BY <1>1, FS_Interval
<1>3. IsFiniteSet(ActiveBatches)
  <2>1. ActiveBatches \subseteq 1 .. Len(seedBatches)
    BY <1>1 DEF ActiveBatches
  <2>. QED  BY <1>2, <2>1, FS_Subset
<1>4. IsFiniteSet(ActiveBatches \X Job)
  BY <1>3, ProgressAssumption, FS_Product
<1>5. IsFiniteSet(S)
  BY <1>4, FS_Subset
<1>. QED  BY <1>5, FS_CardinalityType DEF ExpectedJobCount

-----------------------------------------------------------------------------
(* Type correctness *)

LEMMA TapLabels ==
    {"none", "constructing", "constructed", "consuming", "states", "events",
     "acks", "counting", "finished", "dead"} = TapLabel
BY DEF TapLabel, Running, Flushing, TapEnded

\* A step of one tap leaves the buffers of the others as they are.
LEMMA FitsAtOne ==
    ASSUME TapTypeOK, NEW t \in Tap, PendingFits(t)',
           \A u \in Tap \ {t} : /\ tapPc'[u] = tapPc[u]
                                /\ pending'[u] = pending[u]
                                /\ position'[u] = position[u]
    PROVE  \A u \in Tap : PendingFits(u)'
<1>1. ASSUME NEW u \in Tap, u # t  PROVE PendingFits(u)'
  BY <1>1 DEF TapTypeOK, PendingFits
<1>. QED  BY <1>1

\* A flush is about to write an existing delivery.
LEMMA FlushPosition ==
    ASSUME TapTypeOK, NEW t \in Tap, tapPc[t] \in Flushing
    PROVE  /\ pending[t] \in Seq(Job)
           /\ Len(pending[t]) \in Nat \ {0}
           /\ position[t] \in DOMAIN pending[t]
           /\ pending[t][position[t]] \in Job
BY DEF TapTypeOK, PendingFits

\* Giving deliveries back keeps the message counts.
LEMMA ReturnType ==
    ASSUME TapTypeOK, NEW t \in Tap, ReturnPending(t)
    PROVE  completedQueue' \in [Job -> Nat]
<1>1. \A j \in Job : Copies(t, j) \in Nat /\ completedQueue[j] \in Nat
  BY CopiesCount DEF TapTypeOK
<1>. QED  BY <1>1 DEF ReturnPending, TapTypeOK

LEMMA EndTapType ==
    ASSUME TapTypeOK, NEW t \in Tap, EndTap(t), UNCHANGED tapDrops,
           tapCrashes' \in Nat
    PROVE  TapTypeOK'
<1>1. completedQueue' \in [Job -> Nat]
  BY ReturnType DEF EndTap
<1>2. <<>> \in Seq(Job)
  OBVIOUS
<1>3. PendingFits(t)'
  BY DEF EndTap, TapGoto, ForgetLocals, PendingFits, Flushing, TapTypeOK
<1>4. \A u \in Tap : PendingFits(u)'
  BY <1>3, FitsAtOne DEF EndTap, TapGoto, ForgetLocals, TapTypeOK
<1>. QED
  BY <1>1, <1>2, <1>4, TapLabels DEF EndTap, TapGoto, ForgetLocals, TapTypeOK

LEMMA ReceiveType ==
    ASSUME TapTypeOK, NEW t \in Tap, NEW j \in Job, Receive(t, j)
    PROVE  TapTypeOK'
<1>1. /\ pending[t] \in Seq(Job)
      /\ completedQueue' \in [Job -> Nat]
      /\ tapPc[t] = "consuming"
  BY DEF Receive, TapAt, TapTypeOK
<1>2. CASE j \in terminalJobIds[t]
  BY <1>1, <1>2
     DEF Receive, TapTypeOK, PendingFits, KeepSession, KeepTapFaults
<1>3. CASE j \notin terminalJobIds[t]
  <2> DEFINE p == Append(pending[t], j)
  <2>1. p \in Seq(Job) /\ Len(p) \in Nat \ {0} /\ 1 \in 1 .. Len(p)
    BY <1>1
  <2>2. pending' = [pending EXCEPT ![t] = p]
    BY <1>3 DEF Receive
  <2>3. \/ tapPc' = tapPc /\ position' = position
        \/ /\ tapPc' = [tapPc EXCEPT ![t] = "states"]
           /\ position' = [position EXCEPT ![t] = 1]
    BY <1>3 DEF Receive, BeginFlush, TapGoto
  <2> HIDE DEF p
  <2>4. PendingFits(t)'
    BY <1>1, <2>1, <2>2, <2>3 DEF PendingFits, TapTypeOK, Flushing
  <2>5. \A u \in Tap : PendingFits(u)'
    BY <2>2, <2>3, <2>4, FitsAtOne DEF TapTypeOK
  <2>6. tapPc' \in [Tap -> TapLabel]
    BY <2>3, TapLabels DEF TapTypeOK
  <2>8. position' \in [Tap -> Nat \ {0}]
    BY <2>3 DEF TapTypeOK
  <2>7. pending' \in [Tap -> Seq(Job)]
    BY <2>1, <2>2 DEF TapTypeOK
  <2>. QED
    BY <1>1, <2>5, <2>6, <2>7, <2>8
       DEF Receive, TapTypeOK, KeepSession, KeepTapFaults
<1>. QED  BY <1>2, <1>3

\* A flush begins with a buffer of at least one delivery.
LEMMA BeginFlushType ==
    ASSUME TapTypeOK, NEW t \in Tap, tapPc[t] = "consuming",
           pending[t] # <<>>, BeginFlush(t), draining' \subseteq Tap,
           UNCHANGED <<completedQueue, pending, terminalJobIds, tapStop,
                       tapDone, tapConnected, tapCrashes, tapDrops>>
    PROVE  TapTypeOK'
<1>1. pending[t] \in Seq(Job) /\ Len(pending[t]) \in Nat \ {0}
  BY DEF TapTypeOK
<1>2. 1 \in 1 .. Len(pending[t])
  BY <1>1
<1>3. PendingFits(t)'
  BY <1>2 DEF BeginFlush, TapGoto, TapTypeOK, PendingFits, Flushing
<1>4. \A u \in Tap : PendingFits(u)'
  BY <1>3, FitsAtOne DEF BeginFlush, TapGoto, TapTypeOK
<1>. QED
  BY <1>4, TapLabels DEF BeginFlush, TapGoto, TapTypeOK

LEMMA AdvanceType ==
    ASSUME TapTypeOK, NEW t \in Tap, NEW next \in {"events", "acks"},
           tapPc[t] \in {"states", "events"}, Advance(t, next),
           KeepSession, KeepTapFaults,
           UNCHANGED <<completedQueue, pending, terminalJobIds, tapDone>>
    PROVE  TapTypeOK'
<1>1. /\ Len(pending[t]) \in Nat \ {0}
      /\ position[t] \in 1 .. Len(pending[t])
  BY DEF TapTypeOK, PendingFits, Flushing
<1>2. \/ /\ position[t] = Len(pending[t])
         /\ tapPc' = [tapPc EXCEPT ![t] = next]
         /\ position' = [position EXCEPT ![t] = 1]
      \/ /\ position[t] # Len(pending[t])
         /\ tapPc' = tapPc
         /\ position' = [position EXCEPT ![t] = position[t] + 1]
  BY DEF Advance, TapGoto
<1>3. PendingFits(t)'
  BY <1>1, <1>2 DEF PendingFits, TapTypeOK, Flushing
<1>4. \A u \in Tap : PendingFits(u)'
  BY <1>2, <1>3, FitsAtOne DEF TapTypeOK
<1>5. tapPc' \in [Tap -> TapLabel]
  BY <1>2, TapLabels DEF TapTypeOK
<1>6. position' \in [Tap -> Nat \ {0}]
  BY <1>1, <1>2 DEF TapTypeOK
<1>. QED
  BY <1>4, <1>5, <1>6 DEF TapTypeOK, KeepSession, KeepTapFaults

LEMMA AckType ==
    ASSUME TapTypeOK, NEW t \in Tap, AckTerminal(t)
    PROVE  TapTypeOK'
<1> DEFINE p == Tail(pending[t])
<1>1. /\ pending[t] \in Seq(Job)
      /\ Len(pending[t]) \in Nat \ {0}
      /\ pending[t] # <<>>
      /\ position[t] = 1
      /\ tapPc[t] = "acks"
  BY DEF TapTypeOK, PendingFits, AckTerminal, TapAt, Flushing
<1>2. /\ Head(pending[t]) \in Job
      /\ p \in Seq(Job)
      /\ Len(p) = Len(pending[t]) - 1
  BY <1>1
<1>10. Len(pending[t]) = 1 => p = <<>>
  <2>1. p \in Seq(Job) /\ (Len(pending[t]) = 1 => Len(p) = 0)
    BY <1>1, <1>2
  <2> HIDE DEF p
  <2>. QED  BY <2>1, EmptySeq
<1>3. pending' = [pending EXCEPT ![t] = p] /\ position' = position
  BY DEF AckTerminal
<1>4. terminalJobIds' \in [Tap -> SUBSET Job]
  BY <1>2 DEF AckTerminal, TapTypeOK
<1>5. \/ Len(pending[t]) = 1 /\ tapPc' = [tapPc EXCEPT ![t] = "counting"]
      \/ Len(pending[t]) # 1 /\ tapPc' = tapPc
  BY DEF AckTerminal, TapGoto
<1> HIDE DEF p
<1>6. PendingFits(t)'
  BY <1>1, <1>2, <1>3, <1>5, <1>10 DEF PendingFits, TapTypeOK, Flushing
<1>7. \A u \in Tap : PendingFits(u)'
  BY <1>3, <1>5, <1>6, FitsAtOne DEF TapTypeOK
<1>8. tapPc' \in [Tap -> TapLabel]
  BY <1>5, TapLabels DEF TapTypeOK
<1>9. pending' \in [Tap -> Seq(Job)]
  BY <1>2, <1>3 DEF TapTypeOK
<1>. QED
  BY <1>4, <1>7, <1>8, <1>9
     DEF AckTerminal, TapTypeOK, KeepSession, KeepTapFaults

LEMMA TapStepType ==
    ASSUME TapTypeOK, NEW t \in Tap,
           \/ \E j \in Job : Receive(t, j)
           \/ TapStep(t) \/ CrashTap(t) \/ DropTapConnection(t)
    PROVE  TapTypeOK'
<1>1. ASSUME NEW j \in Job, Receive(t, j)  PROVE TapTypeOK'
  BY <1>1, ReceiveType
<1>2. CASE FlushDue(t)
  BY <1>2, BeginFlushType
     DEF FlushDue, TapAt, KeepSession, KeepTapFaults, TapTypeOK
<1>3. CASE WriteTerminalState(t)
  BY <1>3, AdvanceType DEF WriteTerminalState, TapAt
<1>4. CASE WriteTerminalEvent(t)
  BY <1>4, AdvanceType DEF WriteTerminalEvent, TapAt
<1>5. CASE AckTerminal(t)
  BY <1>5, AckType
<1>6. CASE TestFlushDone(t)
  <2>1. PendingFits(t)' /\ \A u \in Tap : PendingFits(u)
    BY <1>6 DEF TestFlushDone, TapAt, TapGoto, KeepLocals, TapTypeOK,
                PendingFits, Flushing
  <2>2. \A u \in Tap : PendingFits(u)'
    BY <1>6, <2>1, FitsAtOne DEF TestFlushDone, TapGoto, KeepLocals, TapTypeOK
  <2>3. tapPc' \in [Tap -> TapLabel] /\ tapDone' \subseteq Tap
    BY <1>6, TapLabels DEF TestFlushDone, TapGoto, TestDone, TapTypeOK
  <2>. QED
    BY <1>6, <2>2, <2>3
       DEF TestFlushDone, KeepLocals, KeepSession, KeepTapFaults, TapTypeOK
<1>7. CASE LeaveTapLoop(t)
  <2>1. CASE pending[t] = <<>>
    <3>1. PendingFits(t)'
      BY <1>7, <2>1 DEF LeaveTapLoop, TapAt, TapGoto, TapTypeOK, PendingFits,
                        Flushing
    <3>2. \A u \in Tap : PendingFits(u)'
      BY <1>7, <2>1, <3>1, FitsAtOne DEF LeaveTapLoop, TapGoto, TapTypeOK
    <3>. QED
      BY <1>7, <2>1, <3>2, TapLabels
         DEF LeaveTapLoop, TapGoto, KeepTapFaults, TapTypeOK
  <2>2. CASE pending[t] # <<>>
    BY <1>7, <2>2, BeginFlushType DEF LeaveTapLoop, TapAt, KeepTapFaults, TapTypeOK
  <2>. QED  BY <2>1, <2>2
<1>8. CASE TapConnectionError(t)
  BY <1>8, EndTapType DEF TapConnectionError, KeepTapFaults, TapTypeOK
<1>9. CASE CrashTap(t)
  <2>1. tapCrashes' \in Nat
    BY <1>9 DEF CrashTap, TapTypeOK
  <2>. QED  BY <1>9, <2>1, EndTapType DEF CrashTap
<1>10. CASE DropTapConnection(t)
  <2>1. completedQueue' \in [Job -> Nat]
    BY <1>10, ReturnType DEF DropTapConnection
  <2>2. \A u \in Tap : PendingFits(u)'
    BY <1>10 DEF DropTapConnection, KeepLocals, TapTypeOK, PendingFits
  <2>. QED
    BY <1>10, <2>1, <2>2 DEF DropTapConnection, KeepLocals, TapTypeOK
<1>. QED
  BY <1>1, <1>2, <1>3, <1>4, <1>5, <1>6, <1>7, <1>8, <1>9, <1>10 DEF TapStep

LEMMA TapStepProgress ==
    ASSUME ProgressTypeOK, TapTypeOK, NEW t \in Tap,
           \/ \E j \in Job : Receive(t, j)
           \/ TapStep(t) \/ CrashTap(t) \/ DropTapConnection(t)
    PROVE  ProgressTypeOK' /\ UNCHANGED seedBatches
<1>1. CASE UNCHANGED progressVars
  BY <1>1 DEF progressVars, ProgressTypeOK
<1>2. CASE WriteTerminalState(t)
  <2>1. pending[t][position[t]] \in Job
    BY <1>2, FlushPosition DEF WriteTerminalState, TapAt, Flushing
  <2>. QED
    BY <1>2, <2>1 DEF WriteTerminalState, UpsertTerminalState, ProgressTypeOK
<1>3. CASE WriteTerminalEvent(t)
  <2>1. pending[t][position[t]] \in Job
    BY <1>3, FlushPosition DEF WriteTerminalEvent, TapAt, Flushing
  <2>. QED
    BY <1>3, <2>1 DEF WriteTerminalEvent, InsertTerminalEvent, ProgressTypeOK
<1>. QED
  BY <1>1, <1>2, <1>3
     DEF TapStep, Receive, FlushDue, AckTerminal, TestFlushDone, LeaveTapLoop,
         TapConnectionError, CrashTap, EndTap, DropTapConnection

\* What the caller does to a tap it constructs or drops.
LEMMA ConstructionType ==
    ASSUME TapTypeOK, NEW t \in Tap,
           ReadTerminalJobIds(t) \/ TestInitiallyDone(t) \/ StartTap(t)
    PROVE  TapTypeOK' /\ UNCHANGED progressVars
<1>1. UNCHANGED <<progressVars, completedQueue, pending, position, tapStop,
                  tapConnected, draining, tapCrashes, tapDrops>>
  BY DEF ReadTerminalJobIds, TestInitiallyDone, StartTap, KeepLocals,
         KeepSession, KeepTapFaults
<1>2. tapPc' \in [Tap -> TapLabel]
  BY TapLabels
     DEF ReadTerminalJobIds, TestInitiallyDone, StartTap, TapGoto, TapTypeOK
<1>3. tapDone' \subseteq Tap
  BY DEF ReadTerminalJobIds, TestInitiallyDone, StartTap, TestDone, TapTypeOK
<1>4. terminalJobIds' \in [Tap -> SUBSET Job]
  BY DEF ReadTerminalJobIds, TestInitiallyDone, StartTap, KeepLocals,
         TerminalJobs, TapTypeOK
<1>5. PendingFits(t)'
  BY DEF ReadTerminalJobIds, TestInitiallyDone, StartTap, TapGoto, TapAt,
         KeepLocals, TapTypeOK, PendingFits, Flushing
<1>6. \A u \in Tap : PendingFits(u)'
  BY <1>5, FitsAtOne
     DEF ReadTerminalJobIds, TestInitiallyDone, StartTap, TapGoto, KeepLocals,
         TapTypeOK
<1>. QED  BY <1>1, <1>2, <1>3, <1>4, <1>6 DEF TapTypeOK

LEMMA TapsOfType ==
    ASSUME NEW c \in Caller
    PROVE  TapsOf(c) \subseteq Tap /\ TapToBuild(c) \in TapsOf(c)
BY WaitAssumption DEF TapsOf, TapToBuild

LEMMA ReturnTapType ==
    ASSUME TapTypeOK, NEW c \in Caller, NEW outcome, Return(c, outcome)
    PROVE  TapTypeOK' /\ UNCHANGED progressVars
BY TapsOfType DEF Return, TapTypeOK, PendingFits

CallerTypeOK ==
    /\ callerPc \in [Caller -> Returned \cup {"idle", "building", "awaiting",
                                 "polling", "counted", "sleeping"}]
    /\ terminalJobs \in [Caller -> Nat]
    /\ calls \in Nat
    /\ failures \in Nat

SeedTypeOK ==
    /\ seeding \in BOOLEAN
    /\ unpublished \in SUBSET Job
    /\ published \in SUBSET Job
    /\ arrivals \in [Job -> Nat]
    /\ aborts \in Nat
    /\ seeding => seedBatches # <<>>

LEMMA CallerStepType ==
    ASSUME WaitTypeOK, NEW c \in Caller,
           \/ Call(c) \/ CallerStep(c) \/ TimeOut(c) \/ GiveUp(c) \/ Fail(c)
           \/ EndProcess(c) \/ \E t \in Tap : KillTap(c, t)
    PROVE  TapTypeOK' /\ CallerTypeOK' /\ UNCHANGED <<progressVars, seedVars>>
<1> USE DEF CallerTypeOK, KeepCounts
<1>0. TapTypeOK /\ CallerTypeOK
  BY DEF WaitTypeOK
<1>1. CASE Call(c)
  BY <1>0, <1>1
     DEF Call, CallerGoto, tapVars, TapTypeOK, PendingFits
<1>2. CASE BuildTap(c)
  <2>1. TapTypeOK' /\ UNCHANGED progressVars
    BY <1>0, <1>2, ConstructionType, TapsOfType DEF BuildTap
  <2>. QED  BY <1>0, <1>2, <2>1 DEF BuildTap, CallerGoto
<1>3. CASE SeeDone(c) \/ PollAgain(c)
  BY <1>0, <1>3
     DEF SeeDone, PollAgain, CallerGoto, tapVars, TapTypeOK, PendingFits
<1>4. CASE TimeOut(c) \/ GiveUp(c)
  <2>1. Return(c, "incomplete") /\ KeepCounts
    BY <1>4 DEF TimeOut, GiveUp
  <2>. QED
    BY <1>0, <2>1, ReturnTapType DEF Return, CallerGoto, Returned
<1>5. CASE ReadTerminals(c)
  <2>1. TerminalCount \in Nat
    BY JobCounts DEF TerminalCount, TerminalJobs
  <2>. QED
    BY <1>0, <1>5, <2>1
       DEF ReadTerminals, CallerGoto, tapVars, TapTypeOK, PendingFits
<1>6. CASE ReadExpected(c)
  <2>1. CASE Return(c, "complete")
    BY <1>0, <1>6, <2>1, ReturnTapType
       DEF ReadExpected, Return, CallerGoto, Returned
  <2>2. CASE ~Return(c, "complete")
    BY <1>0, <1>6, <2>2
       DEF ReadExpected, CallerGoto, tapVars, TapTypeOK, PendingFits
  <2>. QED  BY <2>1, <2>2
<1>7. CASE Fail(c)
  <2>1. Return(c, "failed") /\ UNCHANGED <<terminalJobs, calls, seedVars>>
    BY <1>7 DEF Fail
  <2>2. TapTypeOK' /\ UNCHANGED progressVars
    BY <1>0, <2>1, ReturnTapType
  <2>3. failures' \in Nat
    BY <1>0, <1>7 DEF Fail
  <2>. QED  BY <1>0, <2>1, <2>2, <2>3 DEF Return, CallerGoto, Returned
<1>8. ASSUME NEW t \in Tap, KillTap(c, t)
      PROVE  TapTypeOK' /\ CallerTypeOK' /\ UNCHANGED <<progressVars, seedVars>>
  <2>1. tapCrashes' \in Nat /\ UNCHANGED tapDrops
    BY <1>0, <1>8 DEF KillTap, KeepTapFaults, TapTypeOK
  <2>2. TapTypeOK'
    BY <1>0, <1>8, <2>1, EndTapType DEF KillTap
  <2>. QED  BY <1>0, <1>8, <2>2 DEF KillTap, EndTap, callerVars
<1>9. CASE EndProcess(c)
  <2>1. \A u \in Tap : PendingFits(u)'
    BY <1>0, <1>9 DEF EndProcess, TapTypeOK, PendingFits, Running, Flushing
  <2>2. /\ tapPc' \in [Tap -> TapLabel]
        /\ terminalJobIds' \in [Tap -> SUBSET Job]
    BY <1>0, <1>9, TapLabels DEF EndProcess, TapTypeOK
  <2>3. TapTypeOK'
    BY <1>0, <1>9, <2>1, <2>2, TapsOfType
       DEF EndProcess, KeepTapFaults, TapTypeOK
  <2>. QED
    BY <1>0, <1>9, <2>3 DEF EndProcess, CallerGoto, progressVars
<1>. QED
  BY <1>1, <1>2, <1>3, <1>4, <1>5, <1>6, <1>7, <1>8, <1>9 DEF CallerStep

LEMMA SeedStepType ==
    ASSUME WaitTypeOK, SeedNext
    PROVE  WaitTypeOK'
<1>0. /\ seedBatches \in Seq(SeedBatch) /\ Len(seedBatches) \in Nat
      /\ seedBatches # <<>> => Len(seedBatches) \in 1 .. Len(seedBatches)
      /\ SeedTypeOK
  BY DEF WaitTypeOK, ProgressTypeOK, SeedTypeOK
<1>1. ASSUME NEW status \in {"created", "published", "failed"},
             SetLastBatchStatus(status), seeding
      PROVE  seedBatches' \in Seq(SeedBatch)
  <2> DEFINE n == Len(seedBatches)
             b == [seedBatches[n] EXCEPT !.status = status]
  <2>1. n \in 1 .. Len(seedBatches) /\ seedBatches[n] \in SeedBatch
    BY <1>0, <1>1, ElementOfSeq DEF SeedTypeOK
  <2>2. b \in SeedBatch
    BY <2>1 DEF SeedBatch
  <2>3. seedBatches' = [seedBatches EXCEPT ![n] = b]
    BY <1>1 DEF SetLastBatchStatus
  <2>. QED  BY <1>0, <2>1, <2>2, <2>3, ExceptSeq
<1>2. ASSUME KeepTaps, seedBatches' \in Seq(SeedBatch), SeedTypeOK'
      PROVE  WaitTypeOK'
  BY <1>2 DEF KeepTaps, tapVars, callerVars, WaitTypeOK, ProgressTypeOK,
              TapTypeOK, PendingFits, SeedTypeOK
<1>3. ASSUME NEW jobs \in SeedChoices, BeginSeed(jobs)  PROVE WaitTypeOK'
  <2>1. [job_ids |-> jobs, status |-> "created"] \in SeedBatch
    BY WaitAssumption DEF SeedBatch
  <2>2. seedBatches' \in Seq(SeedBatch) /\ seedBatches' # <<>>
    BY <1>0, <1>3, <2>1 DEF BeginSeed
  <2>. QED
    BY <1>0, <1>2, <1>3, <2>2, WaitAssumption DEF BeginSeed, SeedTypeOK
<1>4. ASSUME NEW j \in Job, PublishSeedJob(j)  PROVE WaitTypeOK'
  BY <1>0, <1>2, <1>4 DEF PublishSeedJob, SeedTypeOK
<1>5. CASE FinishSeed
  BY <1>0, <1>1, <1>2, <1>5 DEF FinishSeed, SeedTypeOK
<1>6. CASE AbortSeed
  <2>1. aborts' \in Nat
    BY <1>0, <1>6 DEF AbortSeed, SeedTypeOK
  <2>2. KeepTaps /\ seedBatches' \in Seq(SeedBatch)
    BY <1>1, <1>6 DEF AbortSeed
  <2>3. SeedTypeOK'
    BY <1>0, <1>6, <2>1 DEF AbortSeed, SeedTypeOK
  <2>. QED  BY <1>2, <2>2, <2>3
<1>7. CASE KillSeed
  <2>1. aborts' \in Nat
    BY <1>0, <1>7 DEF KillSeed, SeedTypeOK
  <2>2. KeepTaps /\ seedBatches' \in Seq(SeedBatch)
    BY <1>0, <1>7 DEF KillSeed
  <2>3. SeedTypeOK'
    BY <1>0, <1>7, <2>1 DEF KillSeed, SeedTypeOK
  <2>. QED  BY <1>2, <2>2, <2>3
<1>8. ASSUME NEW j \in Job, Arrive(j)  PROVE WaitTypeOK'
  BY <1>8 DEF Arrive, progressVars, callerVars, WaitTypeOK, ProgressTypeOK,
              TapTypeOK, PendingFits
<1>. QED
  BY <1>3, <1>4, <1>5, <1>6, <1>7, <1>8 DEF SeedNext, SeedStep

LEMMA TypeStep ==
    ASSUME WaitTypeOK, [Next]_vars
    PROVE  WaitTypeOK'
<1>1. CASE TapNext /\ UNCHANGED <<callerVars, seedVars>>
  <2>1. PICK t \in Tap : \/ \E j \in Job : Receive(t, j)
                         \/ TapStep(t) \/ CrashTap(t) \/ DropTapConnection(t)
    BY <1>1 DEF TapNext
  <2>2. TapTypeOK' /\ ProgressTypeOK' /\ UNCHANGED seedBatches
    BY <2>1, TapStepType, TapStepProgress DEF WaitTypeOK
  <2>. QED  BY <1>1, <2>2 DEF WaitTypeOK, callerVars, seedVars
<1>2. CASE CallerNext
  <2>1. TapTypeOK' /\ CallerTypeOK' /\ UNCHANGED <<progressVars, seedVars>>
    BY <1>2, CallerStepType DEF CallerNext
  <2>. QED
    BY <2>1 DEF WaitTypeOK, CallerTypeOK, ProgressTypeOK, progressVars, seedVars
<1>3. CASE SeedNext
  BY <1>3, SeedStepType
<1>4. CASE UNCHANGED vars
  BY <1>4 DEF vars, progressVars, tapVars, callerVars, seedVars, WaitTypeOK,
              ProgressTypeOK, TapTypeOK, PendingFits
<1>. QED  BY <1>1, <1>2, <1>3, <1>4 DEF Next

(***************************************************************************)
(* Every reachable state is well-typed; in particular a tap holds          *)
(* deliveries only while its thread works, and a flush always stands at a  *)
(* delivery it holds.                                                      *)
(***************************************************************************)
THEOREM WaitTypeCorrect == Spec => []WaitTypeOK
<1>1. Init => WaitTypeOK
  <2> SUFFICES ASSUME Init  PROVE WaitTypeOK
    OBVIOUS
  <2>1. <<>> \in Seq(Job) /\ <<>> \in Seq(SeedBatch)
    OBVIOUS
  <2>2. ProgressTypeOK
    BY <2>1 DEF Init, ProgressInit, ProgressTypeOK
  <2>3. TapTypeOK
    BY <2>1, TapLabels DEF Init, TapInit, TapTypeOK, PendingFits, Flushing
  <2>. QED  BY <2>2, <2>3 DEF Init, WaitTypeOK
<1>. QED  BY <1>1, TypeStep, PTL DEF Spec

-----------------------------------------------------------------------------
(* What is recorded, and what still has to be *)

\* What a tap knows as recorded has its event.
KnownIsRecorded == \A t \in Tap : terminalJobIds[t] \subseteq TerminalJobs

\* How far a flush has come, delivery by delivery.
FlushIsRecorded(t) ==
    \A i \in DOMAIN pending[t] :
        /\ tapPc[t] = "states" /\ i < position[t]
               => pending[t][i] \in terminalStates
        /\ tapPc[t] = "events" => pending[t][i] \in terminalStates
        /\ tapPc[t] = "events" /\ i < position[t]
               => pending[t][i] \in TerminalJobs
        /\ tapPc[t] = "acks" => pending[t][i] \in TerminalJobs

\* A status a caller read is not ahead of the store.
StatusIsOld == \A c \in Caller : terminalJobs[c] <= Cardinality(TerminalJobs)

RecordInv ==
    /\ EventHasState
    /\ KnownIsRecorded
    /\ \A t \in Tap : FlushIsRecorded(t)
    /\ NoTerminalLost
    /\ StatusIsOld

\* The threads of the taps take one of these steps, at tap t.
TapActs(t) ==
    /\ \/ \E j \in Job : Receive(t, j)
       \/ TapStep(t) \/ CrashTap(t) \/ DropTapConnection(t)
    /\ UNCHANGED <<callerVars, seedVars>>

\* What is in the store stays there.
StoreGrows ==
    /\ terminalStates \subseteq terminalStates'
    /\ TerminalJobs \subseteq TerminalJobs'

LEMMA StoreUnchanged ==
    ASSUME UNCHANGED <<terminalStates, terminalEvents>>
    PROVE  /\ TerminalJobs' = TerminalJobs
           /\ StoreGrows
BY DEF TerminalJobs, StoreGrows

\* Only the two writes of a flush change the store.
LEMMA TapQuiet ==
    ASSUME NEW t \in Tap, TapActs(t), ~WriteTerminalState(t),
           ~WriteTerminalEvent(t)
    PROVE  UNCHANGED <<terminalStates, terminalEvents>>
BY DEF TapActs, TapStep, Receive, FlushDue, AckTerminal, TestFlushDone,
       LeaveTapLoop, TapConnectionError, CrashTap, EndTap, DropTapConnection,
       progressVars

\* The states and the events after a write of a flush.
LEMMA StateWritten ==
    ASSUME WaitTypeOK, NEW t \in Tap, WriteTerminalState(t)
    PROVE  /\ TerminalJobs' = TerminalJobs
           /\ terminalStates' = terminalStates \cup {pending[t][position[t]]}
           /\ StoreGrows
BY DEF WriteTerminalState, UpsertTerminalState, TerminalJobs, StoreGrows

LEMMA EventWritten ==
    ASSUME WaitTypeOK, NEW t \in Tap, WriteTerminalEvent(t)
    PROVE  /\ TerminalJobs' = TerminalJobs \cup {pending[t][position[t]]}
           /\ terminalStates' = terminalStates
           /\ StoreGrows
<1>1. pending[t][position[t]] \in Job
  BY FlushPosition DEF WaitTypeOK, WriteTerminalEvent, TapAt, Flushing
<1>2. /\ terminalEvents \in [Job -> Nat]
      /\ terminalEvents' = [terminalEvents EXCEPT ![pending[t][position[t]]] = @ + 1]
      /\ terminalStates' = terminalStates
  BY DEF WriteTerminalEvent, InsertTerminalEvent, WaitTypeOK, ProgressTypeOK
<1>. QED  BY <1>1, <1>2 DEF TerminalJobs, StoreGrows

LEMMA TapGrows ==
    ASSUME WaitTypeOK, NEW t \in Tap, TapActs(t)
    PROVE  StoreGrows
BY TapQuiet, StoreUnchanged, StateWritten, EventWritten

-----------------------------------------------------------------------------
(* Each part of RecordInv, step by step *)

\* Events after states: an event is only inserted for a delivery whose state
\* is written.
LEMMA EventStateStep ==
    ASSUME WaitTypeOK, RecordInv, NEW t \in Tap, TapActs(t)
    PROVE  EventHasState'
<1>1. CASE WriteTerminalEvent(t)
  <2>1. /\ position[t] \in DOMAIN pending[t]
        /\ tapPc[t] = "events"
    BY <1>1, FlushPosition DEF WaitTypeOK, WriteTerminalEvent, TapAt, Flushing
  <2>2. pending[t][position[t]] \in terminalStates
    BY <2>1 DEF RecordInv, FlushIsRecorded
  <2>. QED
    BY <1>1, <2>2, EventWritten DEF RecordInv, EventHasState
<1>2. CASE WriteTerminalState(t)
  BY <1>2, StateWritten DEF RecordInv, EventHasState
<1>3. CASE ~WriteTerminalState(t) /\ ~WriteTerminalEvent(t)
  BY <1>3, TapQuiet, StoreUnchanged DEF RecordInv, EventHasState
<1>. QED  BY <1>1, <1>2, <1>3

\* A tap learns an id when it acknowledges, after the event.
LEMMA KnownStep ==
    ASSUME WaitTypeOK, RecordInv, NEW t \in Tap, TapActs(t)
    PROVE  KnownIsRecorded'
<1>1. TerminalJobs \subseteq TerminalJobs'
  BY TapGrows DEF StoreGrows
<1>2. CASE AckTerminal(t)
  <2>1. /\ pending[t] \in Seq(Job)
        /\ Len(pending[t]) \in Nat \ {0}
        /\ tapPc[t] = "acks"
    BY <1>2, FlushPosition DEF WaitTypeOK, AckTerminal, TapAt, Flushing
  <2>2. 1 \in DOMAIN pending[t] /\ Head(pending[t]) = pending[t][1]
    BY <2>1
  <2>3. Head(pending[t]) \in TerminalJobs
    BY <2>1, <2>2 DEF RecordInv, FlushIsRecorded
  <2>4. \A u \in Tap : terminalJobIds'[u]
                          \subseteq terminalJobIds[u] \cup {Head(pending[t])}
    BY <1>2 DEF AckTerminal, WaitTypeOK, TapTypeOK
  <2>. QED  BY <1>1, <2>3, <2>4 DEF RecordInv, KnownIsRecorded
<1>3. CASE ~AckTerminal(t)
  <2>1. \A u \in Tap : terminalJobIds'[u] \subseteq terminalJobIds[u]
    BY <1>3 DEF TapActs, TapStep, Receive, FlushDue, WriteTerminalState,
                WriteTerminalEvent, TestFlushDone, LeaveTapLoop,
                TapConnectionError, CrashTap, EndTap, ForgetLocals,
                DropTapConnection, KeepLocals, WaitTypeOK, TapTypeOK
  <2>. QED  BY <1>1, <2>1 DEF RecordInv, KnownIsRecorded
<1>. QED  BY <1>2, <1>3

\* The flush of a tap that does not move stays recorded.
LEMMA FlushStays ==
    ASSUME RecordInv, StoreGrows, NEW u \in Tap,
           pending'[u] = pending[u], tapPc'[u] = tapPc[u],
           position'[u] = position[u]
    PROVE  FlushIsRecorded(u)'
BY DEF RecordInv, FlushIsRecorded, StoreGrows

\* A tap that writes nothing has nothing new to show.
LEMMA FlushIdle ==
    ASSUME NEW u \in Tap,
           \/ tapPc'[u] \notin Flushing
           \/ tapPc'[u] = "states" /\ position'[u] = 1
              /\ pending'[u] \in Seq(Job)
    PROVE  FlushIsRecorded(u)'
BY DEF FlushIsRecorded, Flushing

\* The write at the position of a flush, and its move to the next phase.
LEMMA FlushWrites ==
    ASSUME WaitTypeOK, RecordInv, NEW t \in Tap,
           WriteTerminalState(t) \/ WriteTerminalEvent(t)
    PROVE  FlushIsRecorded(t)'
<1>1. /\ tapPc[t] \in Flushing
      /\ pending[t] \in Seq(Job) /\ Len(pending[t]) \in Nat \ {0}
      /\ DOMAIN pending[t] = 1 .. Len(pending[t])
      /\ position[t] \in 1 .. Len(pending[t])
      /\ pending' = pending
  BY FlushPosition DEF WaitTypeOK, WriteTerminalState, WriteTerminalEvent,
                       TapAt, Flushing
<1>2. CASE WriteTerminalState(t)
  <2>1. tapPc[t] = "states"
    BY <1>2 DEF WriteTerminalState, TapAt
  <2>2. \A i \in 1 .. Len(pending[t]) :
            i <= position[t] => pending[t][i] \in terminalStates'
    BY <1>1, <1>2, <2>1, StateWritten DEF RecordInv, FlushIsRecorded
  <2>3. \/ /\ position[t] = Len(pending[t]) /\ tapPc'[t] = "events"
           /\ position'[t] = 1
        \/ tapPc'[t] = "states" /\ position'[t] = position[t] + 1
    BY <1>2, <2>1 DEF WriteTerminalState, Advance, TapGoto, WaitTypeOK, TapTypeOK
  <2>. QED  BY <1>1, <2>2, <2>3 DEF FlushIsRecorded
<1>3. CASE WriteTerminalEvent(t)
  <2>1. tapPc[t] = "events"
    BY <1>3 DEF WriteTerminalEvent, TapAt
  <2>2. \A i \in 1 .. Len(pending[t]) :
            /\ pending[t][i] \in terminalStates'
            /\ i <= position[t] => pending[t][i] \in TerminalJobs'
    BY <1>1, <1>3, <2>1, EventWritten DEF RecordInv, FlushIsRecorded
  <2>3. \/ position[t] = Len(pending[t]) /\ tapPc'[t] = "acks"
        \/ tapPc'[t] = "events" /\ position'[t] = position[t] + 1
    BY <1>3, <2>1 DEF WriteTerminalEvent, Advance, TapGoto, WaitTypeOK, TapTypeOK
  <2>. QED  BY <1>1, <2>2, <2>3 DEF FlushIsRecorded
<1>. QED  BY <1>2, <1>3

LEMMA FlushAcks ==
    ASSUME WaitTypeOK, RecordInv, NEW t \in Tap, AckTerminal(t),
           UNCHANGED <<terminalStates, terminalEvents>>
    PROVE  FlushIsRecorded(t)'
<1>1. /\ tapPc[t] = "acks"
      /\ pending[t] \in Seq(Job) /\ Len(pending[t]) \in Nat \ {0}
      /\ DOMAIN pending[t] = 1 .. Len(pending[t])
  BY FlushPosition DEF WaitTypeOK, AckTerminal, TapAt, Flushing
<1> DEFINE p == Tail(pending[t])
<1>2. /\ pending'[t] = p
      /\ DOMAIN p = 1 .. Len(pending[t]) - 1
      /\ \A i \in DOMAIN p : p[i] = pending[t][i + 1]
  BY <1>1 DEF AckTerminal, WaitTypeOK, TapTypeOK
<1>3. \A i \in 1 .. Len(pending[t]) : pending[t][i] \in TerminalJobs
  BY <1>1 DEF RecordInv, FlushIsRecorded
<1>4. \A i \in DOMAIN p : p[i] \in TerminalJobs'
  BY <1>1, <1>2, <1>3, StoreUnchanged
<1>5. tapPc'[t] \in {"acks", "counting"}
  BY <1>1 DEF AckTerminal, TapGoto, WaitTypeOK, TapTypeOK
<1> HIDE DEF p
<1>. QED  BY <1>2, <1>4, <1>5 DEF FlushIsRecorded

\* A thread moves its own tap only.
LEMMA OtherTap ==
    ASSUME WaitTypeOK, NEW t \in Tap, TapActs(t), NEW u \in Tap, u # t
    PROVE  /\ pending'[u] = pending[u] /\ tapPc'[u] = tapPc[u]
           /\ position'[u] = position[u]
<1> DEFINE Same == /\ pending'[u] = pending[u] /\ tapPc'[u] = tapPc[u]
                   /\ position'[u] = position[u]
<1>0. /\ pending \in [Tap -> Seq(Job)] /\ tapPc \in [Tap -> TapLabel]
      /\ position \in [Tap -> Nat \ {0}]
  BY DEF WaitTypeOK, TapTypeOK
<1>1. ASSUME NEW j \in Job, Receive(t, j)  PROVE Same
  BY <1>0, <1>1 DEF Receive, BeginFlush, TapGoto
<1>2. CASE FlushDue(t) \/ LeaveTapLoop(t)
  BY <1>0, <1>2 DEF FlushDue, LeaveTapLoop, BeginFlush, TapGoto
<1>3. CASE WriteTerminalState(t) \/ WriteTerminalEvent(t)
  BY <1>0, <1>3 DEF WriteTerminalState, WriteTerminalEvent, Advance, TapGoto
<1>4. CASE AckTerminal(t) \/ TestFlushDone(t)
  BY <1>0, <1>4 DEF AckTerminal, TestFlushDone, KeepLocals, TapGoto
<1>5. CASE TapConnectionError(t) \/ CrashTap(t)
  BY <1>0, <1>5 DEF TapConnectionError, CrashTap, EndTap, ForgetLocals, TapGoto
<1>6. CASE DropTapConnection(t)
  BY <1>6 DEF DropTapConnection, KeepLocals
<1>. QED
  BY <1>1, <1>2, <1>3, <1>4, <1>5, <1>6 DEF TapActs, TapStep

LEMMA FlushStep ==
    ASSUME WaitTypeOK, WaitTypeOK', RecordInv, NEW t \in Tap, TapActs(t),
           NEW u \in Tap
    PROVE  FlushIsRecorded(u)'
<1>0. StoreGrows
  BY TapGrows
<1>1. CASE u # t
  <2>1. /\ pending'[u] = pending[u] /\ tapPc'[u] = tapPc[u]
        /\ position'[u] = position[u]
    BY <1>1, OtherTap
  <2>. QED  BY <1>0, <2>1, FlushStays
<1>2. CASE u = t
  <2>1. CASE WriteTerminalState(t) \/ WriteTerminalEvent(t)
    BY <1>2, <2>1, FlushWrites
  <2>2. CASE AckTerminal(t)
    BY <1>2, <2>2, FlushAcks DEF AckTerminal, progressVars
  <2>3. CASE DropTapConnection(t)
    BY <1>0, <1>2, <2>3, FlushStays DEF DropTapConnection, KeepLocals
  <2>4. ASSUME NEW j \in Job, Receive(t, j)
        PROVE  FlushIsRecorded(t)'
    <3>1. \/ tapPc'[t] = "consuming"
          \/ tapPc'[t] = "states" /\ position'[t] = 1
      BY <2>4 DEF Receive, TapAt, BeginFlush, TapGoto, WaitTypeOK, TapTypeOK
    <3>2. pending'[t] \in Seq(Job)
      BY DEF WaitTypeOK, TapTypeOK
    <3>. QED  BY <3>1, <3>2, FlushIdle DEF Flushing
  <2>5. CASE FlushDue(t) \/ TestFlushDone(t) \/ LeaveTapLoop(t)
             \/ TapConnectionError(t) \/ CrashTap(t)
    <3>1. \/ tapPc'[t] \in {"finished", "consuming", "dead"}
          \/ tapPc'[t] = "states" /\ position'[t] = 1
      BY <2>5 DEF FlushDue, TestFlushDone, LeaveTapLoop, TapConnectionError,
                  CrashTap, EndTap, BeginFlush, TapGoto, WaitTypeOK, TapTypeOK
    <3>2. pending'[t] \in Seq(Job)
      BY DEF WaitTypeOK, TapTypeOK
    <3>. QED  BY <1>2, <3>1, <3>2, FlushIdle DEF Flushing
  <2>. QED
    BY <1>2, <2>1, <2>2, <2>3, <2>4, <2>5 DEF TapActs, TapStep
<1>. QED  BY <1>1, <1>2

-----------------------------------------------------------------------------
(* No terminal result is lost *)

\* Where the result of a job that arrived may be.
Kept(j) == \/ j \in TerminalJobs
           \/ completedQueue[j] > 0
           \/ \E t \in tapConnected : Holds(t, j)

LEMMA KeptStays ==
    ASSUME NEW j \in Job, Kept(j), TerminalJobs \subseteq TerminalJobs',
           completedQueue'[j] = completedQueue[j],
           \A u \in tapConnected :
               Holds(u, j) => u \in tapConnected' /\ pending'[u] = pending[u]
    PROVE  Kept(j)'
BY DEF Kept, Holds

\* What a tap holds goes back to the queue when its session ends.
LEMMA GivenBack ==
    ASSUME WaitTypeOK, NEW t \in Tap, ReturnPending(t), NEW j \in Job, Kept(j),
           TerminalJobs \subseteq TerminalJobs',
           \A u \in tapConnected \ {t} :
               u \in tapConnected' /\ pending'[u] = pending[u]
    PROVE  Kept(j)'
<1>1. /\ Copies(t, j) \in Nat
      /\ Holds(t, j) => Copies(t, j) > 0
      /\ completedQueue[j] \in Nat
  BY CopiesCount DEF WaitTypeOK, TapTypeOK
<1>2. completedQueue'[j] = IF t \in tapConnected
                           THEN completedQueue[j] + Copies(t, j)
                           ELSE completedQueue[j]
  BY DEF ReturnPending
<1>3. completedQueue[j] > 0 => completedQueue'[j] > 0
  BY <1>1, <1>2
<1>4. t \in tapConnected /\ Holds(t, j) => completedQueue'[j] > 0
  BY <1>1, <1>2
<1>5. \A u \in tapConnected \ {t} :
          Holds(u, j) => u \in tapConnected' /\ Holds(u, j)'
  BY DEF Holds
<1>. QED  BY <1>3, <1>4, <1>5 DEF Kept

LEMMA EndTapKeeps ==
    ASSUME WaitTypeOK, NEW t \in Tap, EndTap(t), NEW j \in Job, Kept(j)
    PROVE  Kept(j)'
<1>1. TerminalJobs \subseteq TerminalJobs'
  BY StoreUnchanged DEF EndTap, progressVars, StoreGrows
<1>2. \A u \in tapConnected \ {t} :
          u \in tapConnected' /\ pending'[u] = pending[u]
  BY DEF EndTap, ForgetLocals, WaitTypeOK, TapTypeOK
<1>. QED  BY <1>1, <1>2, GivenBack DEF EndTap

\* A delivery leaves the queue for the buffer of a connected tap, unless its
\* job is recorded.
LEMMA ReceiveKeeps ==
    ASSUME WaitTypeOK, RecordInv, NEW t \in Tap, NEW k \in Job, Receive(t, k),
           NEW j \in Job, Kept(j)
    PROVE  Kept(j)'
<1>0. /\ pending \in [Tap -> Seq(Job)]
      /\ completedQueue \in [Job -> Nat]
      /\ t \in tapConnected /\ tapConnected' = tapConnected
      /\ TerminalJobs' = TerminalJobs
  BY StoreUnchanged DEF WaitTypeOK, TapTypeOK, Receive, KeepSession, progressVars
<1>1. \A u \in Tap : Holds(u, j) => Holds(u, j)'
  <2>1. CASE k \in terminalJobIds[t]
    BY <2>1 DEF Receive, Holds
  <2>2. CASE k \notin terminalJobIds[t]
    <3>1. pending' = [pending EXCEPT ![t] = Append(pending[t], k)]
      BY <2>2 DEF Receive
    <3>2. \A i \in DOMAIN pending[t] :
              /\ i \in DOMAIN Append(pending[t], k)
              /\ Append(pending[t], k)[i] = pending[t][i]
      BY <1>0
    <3>. QED  BY <1>0, <3>1, <3>2 DEF Holds
  <2>. QED  BY <2>1, <2>2
<1>2. CASE j # k
  <2>1. completedQueue'[j] = completedQueue[j]
    BY <1>0, <1>2 DEF Receive
  <2>. QED  BY <1>0, <1>1, <2>1 DEF Kept, WaitTypeOK, TapTypeOK
<1>3. CASE j = k /\ k \in terminalJobIds[t]
  BY <1>0, <1>3 DEF RecordInv, KnownIsRecorded, Kept
<1>4. CASE j = k /\ k \notin terminalJobIds[t]
  <2>1. pending' = [pending EXCEPT ![t] = Append(pending[t], k)]
    BY <1>4 DEF Receive
  <2>2. /\ Len(pending[t]) + 1 \in DOMAIN Append(pending[t], k)
        /\ Append(pending[t], k)[Len(pending[t]) + 1] = k
    BY <1>0
  <2>3. Holds(t, j)'
    BY <1>0, <1>4, <2>1, <2>2 DEF Holds
  <2>. QED  BY <1>0, <2>3 DEF Kept
<1>. QED  BY <1>2, <1>3, <1>4

\* A delivery is acknowledged after its event is in the log.
LEMMA AckKeeps ==
    ASSUME WaitTypeOK, RecordInv, NEW t \in Tap, AckTerminal(t),
           NEW j \in Job, Kept(j)
    PROVE  Kept(j)'
<1>0. /\ pending \in [Tap -> Seq(Job)]
      /\ completedQueue' = completedQueue
      /\ tapConnected' = tapConnected
      /\ TerminalJobs' = TerminalJobs
  BY StoreUnchanged DEF WaitTypeOK, TapTypeOK, AckTerminal, KeepSession, progressVars
<1>1. CASE Holds(t, j)
  <2>1. tapPc[t] = "acks"
    BY DEF AckTerminal, TapAt
  <2>. QED
    BY <1>0, <1>1, <2>1 DEF RecordInv, FlushIsRecorded, Holds, Kept
<1>2. CASE ~Holds(t, j)
  <2>1. \A u \in Tap \ {t} : pending'[u] = pending[u]
    BY <1>0 DEF AckTerminal
  <2>. QED
    BY <1>0, <1>2, <2>1, KeptStays DEF WaitTypeOK, TapTypeOK
<1>. QED  BY <1>1, <1>2

LEMMA TapKeeps ==
    ASSUME WaitTypeOK, RecordInv, NEW t \in Tap, TapActs(t), NEW j \in Job,
           Kept(j)
    PROVE  Kept(j)'
<1>0. TerminalJobs \subseteq TerminalJobs'
  BY TapGrows DEF StoreGrows
<1>1. ASSUME NEW k \in Job, Receive(t, k)  PROVE Kept(j)'
  BY <1>1, ReceiveKeeps
<1>2. CASE AckTerminal(t)
  BY <1>2, AckKeeps
<1>3. CASE TapConnectionError(t) \/ CrashTap(t)
  BY <1>3, EndTapKeeps DEF TapConnectionError, CrashTap
<1>4. CASE DropTapConnection(t)
  <2>1. \A u \in tapConnected \ {t} :
            u \in tapConnected' /\ pending'[u] = pending[u]
    BY <1>4 DEF DropTapConnection, KeepLocals
  <2>. QED  BY <1>0, <1>4, <2>1, GivenBack DEF DropTapConnection
<1>5. CASE \/ FlushDue(t) \/ WriteTerminalState(t) \/ WriteTerminalEvent(t)
           \/ TestFlushDone(t) \/ LeaveTapLoop(t)
  <2>1. UNCHANGED <<completedQueue, pending, tapConnected>>
    BY <1>5 DEF FlushDue, WriteTerminalState, WriteTerminalEvent,
                TestFlushDone, LeaveTapLoop, KeepSession, KeepLocals
  <2>. QED  BY <1>0, <2>1, KeptStays
<1>. QED
  BY <1>1, <1>2, <1>3, <1>4, <1>5 DEF TapActs, TapStep

-----------------------------------------------------------------------------
(* Callers and seeds *)

\* Callers read the store, and end taps; they hold and acknowledge nothing.
CallerActs(c) ==
    \/ Call(c) \/ CallerStep(c) \/ TimeOut(c) \/ GiveUp(c) \/ Fail(c)
    \/ EndProcess(c) \/ \E t \in Tap : KillTap(c, t)

LEMMA CallerKeeps ==
    ASSUME WaitTypeOK, RecordInv, NEW c \in Caller, CallerActs(c),
           NEW j \in Job, Kept(j)
    PROVE  Kept(j)'
<1>0. UNCHANGED progressVars /\ TerminalJobs' = TerminalJobs
  BY CallerStepType, StoreUnchanged DEF CallerActs, progressVars
<1>1. ASSUME NEW t \in Tap, KillTap(c, t)  PROVE Kept(j)'
  BY <1>1, EndTapKeeps DEF KillTap
<1>2. CASE EndProcess(c)
  <2>1. /\ UNCHANGED <<completedQueue, pending>>
        /\ tapConnected \subseteq tapConnected'
    BY <1>2 DEF EndProcess
  <2>. QED  BY <1>0, <2>1, KeptStays
<1>3. CASE BuildTap(c)
  <2>1. UNCHANGED <<completedQueue, pending, tapConnected>>
    BY <1>3 DEF BuildTap, ReadTerminalJobIds, TestInitiallyDone, StartTap,
                KeepLocals, KeepSession
  <2>. QED  BY <1>0, <2>1, KeptStays
<1>4. CASE \/ Call(c) \/ SeeDone(c) \/ ReadTerminals(c) \/ PollAgain(c)
           \/ ReadExpected(c) \/ TimeOut(c) \/ GiveUp(c) \/ Fail(c)
  <2>1. UNCHANGED <<completedQueue, pending, tapConnected>>
    BY <1>4 DEF Call, SeeDone, ReadTerminals, PollAgain, ReadExpected, TimeOut,
                GiveUp, Fail, Return, tapVars
  <2>. QED  BY <1>0, <2>1, KeptStays
<1>. QED
  BY <1>1, <1>2, <1>3, <1>4 DEF CallerActs, CallerStep

\* Callers know no more than the store.
LEMMA CallerKnows ==
    ASSUME WaitTypeOK, RecordInv, NEW c \in Caller, CallerActs(c)
    PROVE  KnownIsRecorded'
<1>0. TerminalJobs' = TerminalJobs
  BY CallerStepType, StoreUnchanged DEF CallerActs, progressVars
<1>1. \A t \in Tap : \/ terminalJobIds'[t] \subseteq terminalJobIds[t]
                     \/ terminalJobIds'[t] = TerminalJobs
  <2>0. terminalJobIds \in [Tap -> SUBSET Job]
    BY DEF WaitTypeOK, TapTypeOK
  <2>1. ASSUME NEW t \in Tap, KillTap(c, t)
        PROVE  \A u \in Tap : terminalJobIds'[u] \subseteq terminalJobIds[u]
    BY <2>0, <2>1 DEF KillTap, EndTap, ForgetLocals
  <2>2. CASE EndProcess(c)
    BY <2>0, <2>2 DEF EndProcess
  <2>3. CASE BuildTap(c)
    <3> DEFINE t == TapToBuild(c)
    <3>1. CASE ReadTerminalJobIds(t)
      BY <2>0, <3>1 DEF ReadTerminalJobIds
    <3>2. CASE TestInitiallyDone(t) \/ StartTap(t)
      BY <3>2 DEF TestInitiallyDone, StartTap, KeepLocals
    <3>. QED  BY <2>3, <3>1, <3>2 DEF BuildTap
  <2>4. CASE \/ Call(c) \/ SeeDone(c) \/ ReadTerminals(c) \/ PollAgain(c)
             \/ ReadExpected(c) \/ TimeOut(c) \/ GiveUp(c) \/ Fail(c)
    BY <2>4 DEF Call, SeeDone, ReadTerminals, PollAgain, ReadExpected, TimeOut,
                GiveUp, Fail, Return, tapVars
  <2>. QED
    BY <2>1, <2>2, <2>3, <2>4 DEF CallerActs, CallerStep
<1>. QED  BY <1>0, <1>1 DEF RecordInv, KnownIsRecorded

LEMMA CallerStatus ==
    ASSUME WaitTypeOK, RecordInv, NEW c \in Caller, CallerActs(c)
    PROVE  StatusIsOld'
<1>0. TerminalJobs' = TerminalJobs
  BY CallerStepType, StoreUnchanged DEF CallerActs, progressVars
<1>1. Cardinality(TerminalJobs) \in Nat
  BY JobCounts DEF TerminalJobs
<1>2. \A d \in Caller : \/ terminalJobs'[d] = terminalJobs[d]
                        \/ terminalJobs'[d] = Cardinality(TerminalJobs)
                        \/ terminalJobs'[d] = 0
  <2>1. CASE ReadTerminals(c)
    BY <2>1 DEF ReadTerminals, TerminalCount, WaitTypeOK
  <2>2. CASE EndProcess(c)
    BY <2>2 DEF EndProcess, WaitTypeOK
  <2>3. CASE ~ReadTerminals(c) /\ ~EndProcess(c)
    BY <2>3 DEF CallerActs, CallerStep, Call, BuildTap, SeeDone, PollAgain,
                ReadExpected, TimeOut, GiveUp, Fail, KillTap, KeepCounts,
                callerVars
  <2>. QED  BY <2>1, <2>2, <2>3
<1>. QED  BY <1>0, <1>1, <1>2 DEF RecordInv, StatusIsOld

\* A caller builds, kills and forgets taps that are not in a flush afterwards.
LEMMA CallerFlush ==
    ASSUME WaitTypeOK, RecordInv, NEW c \in Caller, CallerActs(c), NEW u \in Tap
    PROVE  FlushIsRecorded(u)'
<1>0. /\ StoreGrows
      /\ tapPc \in [Tap -> TapLabel]
      /\ pending \in [Tap -> Seq(Job)] /\ position \in [Tap -> Nat \ {0}]
  BY CallerStepType, StoreUnchanged
     DEF CallerActs, progressVars, WaitTypeOK, TapTypeOK
<1> DEFINE Same == /\ pending'[u] = pending[u] /\ tapPc'[u] = tapPc[u]
                   /\ position'[u] = position[u]
<1>1. Same \/ tapPc'[u] \notin Flushing
  <2>1. ASSUME NEW t \in Tap, KillTap(c, t)
        PROVE  Same \/ tapPc'[u] \notin Flushing
    BY <1>0, <2>1 DEF KillTap, EndTap, ForgetLocals, TapGoto, Flushing
  <2>2. CASE EndProcess(c)
    BY <1>0, <2>2 DEF EndProcess, Flushing
  <2>3. CASE BuildTap(c)
    <3> DEFINE t == TapToBuild(c)
    <3>1. ReadTerminalJobIds(t) \/ TestInitiallyDone(t) \/ StartTap(t)
      BY <2>3 DEF BuildTap
    <3> HIDE DEF t
    <3>. QED
      BY <1>0, <3>1 DEF ReadTerminalJobIds, TestInitiallyDone, StartTap,
                        KeepLocals, TapGoto, Flushing
  <2>4. CASE \/ Call(c) \/ SeeDone(c) \/ ReadTerminals(c) \/ PollAgain(c)
             \/ ReadExpected(c) \/ TimeOut(c) \/ GiveUp(c) \/ Fail(c)
    BY <2>4 DEF Call, SeeDone, ReadTerminals, PollAgain, ReadExpected, TimeOut,
                GiveUp, Fail, Return, tapVars
  <2>. QED
    BY <2>1, <2>2, <2>3, <2>4 DEF CallerActs, CallerStep
<1>. QED  BY <1>0, <1>1, FlushStays, FlushIdle

\* A seed touches the batches, a stage the final queue.
LEMMA SeedRecords ==
    ASSUME WaitTypeOK, RecordInv, SeedNext
    PROVE  RecordInv'
<1>1. CASE KeepTaps /\ UNCHANGED arrivals
  <2>1. TerminalJobs' = TerminalJobs /\ StoreGrows
    BY <1>1, StoreUnchanged DEF KeepTaps
  <2>2. \A u \in Tap : FlushIsRecorded(u)'
    BY <1>1, <2>1, FlushStays DEF KeepTaps, tapVars
  <2>3. EventHasState' /\ KnownIsRecorded' /\ StatusIsOld'
    BY <1>1, <2>1 DEF KeepTaps, tapVars, callerVars, RecordInv, EventHasState,
                      KnownIsRecorded, StatusIsOld
  <2>4. NoTerminalLost'
    BY <1>1, <2>1 DEF KeepTaps, tapVars, RecordInv, NoTerminalLost, Holds
  <2>. QED  BY <2>2, <2>3, <2>4 DEF RecordInv
<1>2. ASSUME NEW k \in Job, Arrive(k)  PROVE RecordInv'
  <2>1. TerminalJobs' = TerminalJobs /\ StoreGrows
    BY <1>2, StoreUnchanged DEF Arrive, progressVars
  <2>2. \A u \in Tap : FlushIsRecorded(u)'
    BY <1>2, <2>1, FlushStays DEF Arrive
  <2>3. EventHasState' /\ KnownIsRecorded' /\ StatusIsOld'
    BY <1>2, <2>1 DEF Arrive, progressVars, callerVars, RecordInv,
                      EventHasState, KnownIsRecorded, StatusIsOld
  <2>4. ASSUME NEW j \in Job, arrivals'[j] > 0
        PROVE  \/ j \in TerminalJobs'
               \/ completedQueue'[j] > 0
               \/ \E t \in tapConnected' : Holds(t, j)'
    <3>0. completedQueue \in [Job -> Nat] /\ arrivals \in [Job -> Nat]
      BY DEF WaitTypeOK, TapTypeOK
    <3>1. CASE j = k
      BY <1>2, <3>0, <3>1 DEF Arrive
    <3>2. CASE j # k
      <4>1. /\ arrivals'[j] = arrivals[j]
            /\ completedQueue'[j] = completedQueue[j]
            /\ UNCHANGED <<tapConnected, pending>>
        BY <1>2, <3>0, <3>2 DEF Arrive
      <4>. QED
        BY <2>1, <2>4, <4>1 DEF RecordInv, NoTerminalLost, Holds
    <3>. QED  BY <3>1, <3>2
  <2>5. NoTerminalLost'
    BY <2>4 DEF NoTerminalLost
  <2>. QED  BY <2>2, <2>3, <2>5 DEF RecordInv
<1>. QED
  BY <1>1, <1>2 DEF SeedNext, SeedStep, BeginSeed, PublishSeedJob, FinishSeed,
                    AbortSeed, KillSeed

LEMMA RecordStep ==
    ASSUME WaitTypeOK, WaitTypeOK', RecordInv, [Next]_vars
    PROVE  RecordInv'
<1>1. ASSUME UNCHANGED arrivals, \A j \in Job : Kept(j) => Kept(j)'
      PROVE  NoTerminalLost'
  BY <1>1 DEF RecordInv, NoTerminalLost, Kept
<1>2. ASSUME NEW t \in Tap, TapActs(t)  PROVE RecordInv'
  <2>1. StatusIsOld'
    <3>1. TerminalJobs \subseteq TerminalJobs' /\ UNCHANGED terminalJobs
      BY <1>2, TapGrows DEF StoreGrows, TapActs, callerVars
    <3>2. /\ Cardinality(TerminalJobs) <= Cardinality(TerminalJobs')
          /\ Cardinality(TerminalJobs) \in Nat
          /\ Cardinality(TerminalJobs') \in Nat
      BY <3>1, JobCounts DEF TerminalJobs
    <3>3. \A c \in Caller : terminalJobs[c] \in Nat
      BY DEF WaitTypeOK
    <3>. QED  BY <3>1, <3>2, <3>3 DEF RecordInv, StatusIsOld
  <2>2. NoTerminalLost'
    BY <1>1, <1>2, TapKeeps DEF TapActs, seedVars
  <2>3. \A u \in Tap : FlushIsRecorded(u)'
    BY <1>2, FlushStep
  <2>. QED
    BY <1>2, <2>1, <2>2, <2>3, EventStateStep, KnownStep DEF RecordInv
<1>3. ASSUME NEW c \in Caller, CallerActs(c)  PROVE RecordInv'
  <2>1. UNCHANGED <<terminalStates, terminalEvents, arrivals>>
    BY <1>3, CallerStepType DEF CallerActs, progressVars, seedVars
  <2>2. EventHasState'
    BY <2>1, StoreUnchanged DEF RecordInv, EventHasState
  <2>3. NoTerminalLost'
    BY <1>1, <1>3, <2>1, CallerKeeps
  <2>. QED
    BY <1>3, <2>2, <2>3, CallerKnows, CallerStatus, CallerFlush DEF RecordInv
<1>4. CASE UNCHANGED vars
  <2>1. TerminalJobs' = TerminalJobs /\ StoreGrows
    BY <1>4, StoreUnchanged DEF vars, progressVars
  <2>2. \A u \in Tap : FlushIsRecorded(u)'
    BY <1>4, <2>1, FlushStays DEF vars, tapVars
  <2>3. EventHasState' /\ KnownIsRecorded' /\ StatusIsOld'
    BY <1>4, <2>1 DEF vars, progressVars, tapVars, callerVars, RecordInv,
                      EventHasState, KnownIsRecorded, StatusIsOld
  <2>4. NoTerminalLost'
    BY <1>4, <2>1 DEF vars, tapVars, seedVars, RecordInv, NoTerminalLost, Holds
  <2>. QED  BY <2>2, <2>3, <2>4 DEF RecordInv
<1>5. CASE SeedNext
  BY <1>5, SeedRecords
<1>6. CASE TapNext /\ UNCHANGED <<callerVars, seedVars>>
  BY <1>2, <1>6 DEF TapNext, TapActs
<1>7. CASE CallerNext
  BY <1>3, <1>7 DEF CallerNext, CallerActs
<1>. QED  BY <1>4, <1>5, <1>6, <1>7 DEF Next

LEMMA RecordInvariant == Spec => []RecordInv
<1>1. Init => RecordInv
  <2> SUFFICES ASSUME Init  PROVE RecordInv
    OBVIOUS
  <2>1. TerminalJobs = {}
    BY DEF Init, ProgressInit, TerminalJobs
  <2>2. Cardinality(TerminalJobs) = 0
    BY <2>1, FS_EmptySet
  <2>. QED
    BY <2>1, <2>2 DEF Init, TapInit, RecordInv, EventHasState, KnownIsRecorded,
                      FlushIsRecorded, NoTerminalLost, StatusIsOld
<1>2. WaitTypeOK /\ WaitTypeOK' /\ RecordInv /\ [Next]_vars => RecordInv'
  BY RecordStep
<1>. QED  BY <1>1, <1>2, WaitTypeCorrect, PTL DEF Spec

(***************************************************************************)
(* No interleaving of taps, callers and faults loses a terminal result:    *)
(* recorded, queued or held by a connected tap (_on_message and            *)
(* _flush_pending of pipeline/tap.py).                                     *)
(***************************************************************************)
THEOREM TerminalsAreKept == Spec => []NoTerminalLost
<1>1. RecordInv => NoTerminalLost
  BY DEF RecordInv
<1>. QED  BY <1>1, RecordInvariant, PTL

(***************************************************************************)
(* A TERMINAL event is never in the log without the terminal state         *)
(* (record_terminal_batch of runtime/store.py, at every point of a batch). *)
(***************************************************************************)
THEOREM EventsHaveStates == Spec => []EventHasState
<1>1. RecordInv => EventHasState
  BY DEF RecordInv
<1>. QED  BY <1>1, RecordInvariant, PTL

-----------------------------------------------------------------------------
(* Completion *)

\* A done event is set after a comparison with what the tap knows.
LEMMA DoneStep ==
    ASSUME WaitTypeOK, RecordInv, NEW t \in Tap, TestDone(t),
           tapDone' \ tapDone # {}
    PROVE  Cardinality(TerminalJobs) >= ExpectedJobCount
<1>1. Cardinality(terminalJobIds[t]) >= ExpectedJobCount
  BY DEF TestDone
<1>2. terminalJobIds[t] \subseteq TerminalJobs /\ TerminalJobs \subseteq Job
  BY DEF RecordInv, KnownIsRecorded, TerminalJobs
<1>3. /\ Cardinality(terminalJobIds[t]) \in Nat
      /\ Cardinality(TerminalJobs) \in Nat
      /\ Cardinality(terminalJobIds[t]) <= Cardinality(TerminalJobs)
  BY <1>2, JobCounts
<1>. QED  BY <1>1, <1>3, ExpectedIsNat DEF WaitTypeOK

LEMMA CompleteStep ==
    ASSUME WaitTypeOK, RecordInv, NEW c \in Caller, CallerActs(c),
           NEW d \in Caller, Completes(d)
    PROVE  Cardinality(TerminalJobs) >= ExpectedJobCount
<1>0. callerPc \in [Caller -> Returned \cup {"idle", "building", "awaiting",
                                "polling", "counted", "sleeping"}]
  BY DEF WaitTypeOK
<1>1. CASE ReadExpected(c)
  <2>1. terminalJobs[c] >= ExpectedJobCount
    BY <1>0, <1>1 DEF ReadExpected, CallerGoto, Completes
  <2>2. /\ terminalJobs[c] \in Nat /\ Cardinality(TerminalJobs) \in Nat
        /\ terminalJobs[c] <= Cardinality(TerminalJobs)
    BY JobCounts DEF WaitTypeOK, TerminalJobs, RecordInv, StatusIsOld
  <2>. QED  BY <2>1, <2>2, ExpectedIsNat DEF WaitTypeOK
<1>2. CASE BuildTap(c)
  BY <1>0, <1>2 DEF BuildTap, CallerGoto, Completes
<1>3. CASE \/ Call(c) \/ SeeDone(c) \/ ReadTerminals(c) \/ PollAgain(c)
           \/ TimeOut(c) \/ GiveUp(c) \/ Fail(c) \/ EndProcess(c)
  BY <1>0, <1>3 DEF Call, SeeDone, ReadTerminals, PollAgain, TimeOut, GiveUp,
                    Fail, Return, EndProcess, CallerGoto, Completes
<1>4. ASSUME NEW t \in Tap, KillTap(c, t)  PROVE FALSE
  BY <1>4 DEF KillTap, callerVars, Completes
<1>. QED
  BY <1>1, <1>2, <1>3, <1>4 DEF CallerActs, CallerStep

\* Only TestDone sets a done event.
LEMMA DoneActions ==
    ASSUME [Next]_vars, tapDone' \ tapDone # {}
    PROVE  \E t \in Tap : TestDone(t)
<1>1. ASSUME NEW t \in Tap, TapActs(t)  PROVE TestDone(t)
  BY <1>1 DEF TapActs, TapStep, Receive, FlushDue, WriteTerminalState,
              WriteTerminalEvent, AckTerminal, TestFlushDone, LeaveTapLoop,
              TapConnectionError, CrashTap, EndTap, DropTapConnection
<1>2. ASSUME NEW c \in Caller, CallerActs(c)  PROVE \E t \in Tap : TestDone(t)
  <2>1. CASE BuildTap(c)
    <3>1. TapToBuild(c) \in Tap
      BY WaitAssumption DEF TapToBuild
    <3>. QED
      BY <2>1, <3>1 DEF BuildTap, ReadTerminalJobIds, TestInitiallyDone, StartTap
  <2>2. CASE ~BuildTap(c)
    BY <1>2, <2>2 DEF CallerActs, CallerStep, Call, SeeDone, ReadTerminals,
                      PollAgain, ReadExpected, TimeOut, GiveUp, Fail, Return,
                      EndProcess, KillTap, EndTap, tapVars
  <2>. QED  BY <2>1, <2>2
<1>3. CASE SeedNext
  BY <1>3 DEF SeedNext, SeedStep, BeginSeed, PublishSeedJob, FinishSeed,
              AbortSeed, KillSeed, Arrive, KeepTaps, tapVars
<1>4. CASE UNCHANGED vars
  BY <1>4 DEF vars, tapVars
<1>. QED
  BY <1>1, <1>2, <1>3, <1>4
     DEF Next, TapNext, CallerNext, TapActs, CallerActs

\* A caller completes by a comparison with what it read.
LEMMA CompletesByCount ==
    ASSUME WaitTypeOK, RecordInv, [Next]_vars, NEW d \in Caller, Completes(d)
    PROVE  Cardinality(TerminalJobs) >= ExpectedJobCount
<1>1. callerPc' # callerPc
  BY DEF Completes
<1>2. \E c \in Caller : CallerActs(c)
  BY <1>1 DEF Next, vars, callerVars, CallerNext, CallerActs, SeedNext,
              SeedStep, BeginSeed, PublishSeedJob, FinishSeed, AbortSeed,
              KillSeed, Arrive, KeepTaps
<1>. QED  BY <1>2, CompleteStep

(***************************************************************************)
(* A complete status and a done event are never early by count, although   *)
(* the terminals and the expected count are read at different moments      *)
(* (build_run_status of runtime/status.py, TerminalTap of pipeline/tap.py).*)
(***************************************************************************)
THEOREM CompletionsAreTrue == Spec => CompletionIsTrue
<1>1. ASSUME WaitTypeOK, RecordInv, [Next]_vars,
             (\E c \in Caller : Completes(c)) \/ tapDone' \ tapDone # {}
      PROVE  Cardinality(TerminalJobs) >= ExpectedJobCount
  <2>1. CASE tapDone' \ tapDone # {}
    BY <1>1, <2>1, DoneActions, DoneStep
  <2>2. ASSUME NEW d \in Caller, Completes(d)
        PROVE  Cardinality(TerminalJobs) >= ExpectedJobCount
    BY <1>1, <2>2, CompletesByCount
  <2>. QED  BY <1>1, <2>1, <2>2
<1>2. WaitTypeOK /\ RecordInv /\ [Next]_vars
         => [(\E c \in Caller : Completes(c)) \/ tapDone' \ tapDone # {}
                => Cardinality(TerminalJobs) >= ExpectedJobCount]_vars
  BY <1>1
<1>. QED
  BY <1>2, WaitTypeCorrect, RecordInvariant, PTL DEF Spec, CompletionIsTrue

-----------------------------------------------------------------------------
(* The count stands for the jobs *)

(***************************************************************************)
(* Whatever is on its way to the log was published for an active batch, if *)
(* no batch fails: a failed batch leaves the count while its published     *)
(* jobs go on.                                                             *)
(***************************************************************************)
OnItsWay(j) ==
    \/ completedQueue[j] > 0
    \/ j \in TerminalJobs
    \/ \E t \in Tap : Holds(t, j)

SeededInv ==
    /\ unpublished \subseteq ActiveSeedJobs
    /\ published \subseteq ActiveSeedJobs
    /\ \A j \in Job : OnItsWay(j) => j \in published

LEMMA ActiveSeedJob ==
    ASSUME seedBatches \in Seq(SeedBatch), NEW j
    PROVE  j \in ActiveSeedJobs
              <=> \E b \in 1 .. Len(seedBatches) :
                     /\ seedBatches[b].status # "failed"
                     /\ j \in seedBatches[b].job_ids
BY DEF ActiveSeedJobs, ActiveBatches

\* What goes back to the queue was held.
LEMMA ReturnTakes ==
    ASSUME WaitTypeOK, NEW t \in Tap, ReturnPending(t), UNCHANGED progressVars,
           \A u \in Tap : pending'[u] \in {pending[u], <<>>},
           NEW j \in Job, OnItsWay(j)'
    PROVE  OnItsWay(j)
<1>1. TerminalJobs' = TerminalJobs
  BY StoreUnchanged DEF progressVars
<1>2. \A u \in Tap : Holds(u, j)' => Holds(u, j)
  BY DEF Holds
<1>3. completedQueue[j] \in Nat
  BY DEF WaitTypeOK, TapTypeOK
<1>4. ~Holds(t, j) => Copies(t, j) = 0
  <2>. SUFFICES ASSUME ~Holds(t, j)
                PROVE  {i \in DOMAIN pending[t] : pending[t][i] = j} = {}
    BY FS_EmptySet DEF Copies
  <2>. QED  BY DEF Holds
<1>5. completedQueue'[j] > 0 => completedQueue[j] > 0 \/ Holds(t, j)
  BY <1>3, <1>4 DEF ReturnPending
<1>. QED  BY <1>1, <1>2, <1>5 DEF OnItsWay

\* A tap holds a delivery, or the log gets an event, only of a job that was
\* on its way before.
LEMMA TapTakes ==
    ASSUME WaitTypeOK, NEW t \in Tap, TapActs(t), NEW j \in Job, OnItsWay(j)'
    PROVE  OnItsWay(j)
<1>0. /\ pending \in [Tap -> Seq(Job)]
      /\ completedQueue \in [Job -> Nat]
  BY DEF WaitTypeOK, TapTypeOK
<1>1. ASSUME NEW k \in Job, Receive(t, k)
      PROVE  OnItsWay(j)
  <2>1. TerminalJobs' = TerminalJobs
    BY <1>1, StoreUnchanged DEF Receive, progressVars
  <2>2. CASE j = k
    BY <1>1, <2>2 DEF Receive, OnItsWay
  <2>3. CASE j # k
    <3>1. completedQueue'[j] = completedQueue[j]
      BY <1>0, <1>1, <2>3 DEF Receive
    <3>2. ASSUME NEW u \in Tap, Holds(u, j)'
          PROVE  Holds(u, j)
      <4>1. CASE pending'[u] = pending[u]
        BY <3>2, <4>1 DEF Holds
      <4>2. CASE u = t /\ pending'[u] = Append(pending[t], k)
        BY <1>0, <2>3, <3>2, <4>2 DEF Holds
      <4>. QED  BY <1>0, <1>1, <4>1, <4>2 DEF Receive
    <3>. QED  BY <2>1, <3>1, <3>2 DEF OnItsWay
  <2>. QED  BY <2>2, <2>3
<1>2. CASE AckTerminal(t)
  <2>1. TerminalJobs' = TerminalJobs /\ completedQueue' = completedQueue
    BY <1>2, StoreUnchanged DEF AckTerminal, progressVars
  <2>2. Len(pending[t]) \in Nat \ {0}
    BY <1>2, FlushPosition DEF WaitTypeOK, AckTerminal, TapAt, Flushing
  <2>3. ASSUME NEW u \in Tap, Holds(u, j)'
        PROVE  Holds(u, j)
    <3>1. CASE u = t
      <4>1. pending'[t] = Tail(pending[t])
        BY <1>0, <1>2 DEF AckTerminal
      <4>2. PICK i \in DOMAIN Tail(pending[t]) : Tail(pending[t])[i] = j
        BY <2>3, <3>1, <4>1 DEF Holds
      <4>3. i + 1 \in DOMAIN pending[t] /\ pending[t][i + 1] = j
        BY <1>0, <2>2, <4>2
      <4>. QED  BY <3>1, <4>3 DEF Holds
    <3>2. CASE u # t
      BY <1>0, <1>2, <2>3, <3>2 DEF AckTerminal, Holds
    <3>. QED  BY <3>1, <3>2
  <2>. QED  BY <2>1, <2>3 DEF OnItsWay
<1>3. CASE TapConnectionError(t) \/ CrashTap(t) \/ DropTapConnection(t)
  <2>1. ReturnPending(t) /\ UNCHANGED progressVars
    BY <1>3 DEF TapConnectionError, CrashTap, DropTapConnection, EndTap
  <2>2. \A u \in Tap : pending'[u] \in {pending[u], <<>>}
    BY <1>0, <1>3 DEF TapConnectionError, CrashTap, DropTapConnection, EndTap,
                      ForgetLocals, KeepLocals
  <2>. QED  BY <2>1, <2>2, ReturnTakes
<1>4. CASE WriteTerminalEvent(t)
  <2>1. UNCHANGED <<completedQueue, pending>>
    BY <1>4 DEF WriteTerminalEvent
  <2>2. position[t] \in DOMAIN pending[t]
    BY <1>4, FlushPosition DEF WaitTypeOK, WriteTerminalEvent, TapAt, Flushing
  <2>3. TerminalJobs' = TerminalJobs \cup {pending[t][position[t]]}
    BY <1>4, EventWritten
  <2>. QED  BY <2>1, <2>2, <2>3 DEF OnItsWay, Holds
<1>5. CASE FlushDue(t) \/ WriteTerminalState(t) \/ TestFlushDone(t)
             \/ LeaveTapLoop(t)
  <2>1. UNCHANGED <<completedQueue, pending, terminalEvents>>
    BY <1>5 DEF FlushDue, WriteTerminalState, TestFlushDone, LeaveTapLoop,
                KeepLocals, progressVars
  <2>. QED  BY <2>1 DEF OnItsWay, Holds, TerminalJobs
<1>. QED
  BY <1>1, <1>2, <1>3, <1>4, <1>5 DEF TapActs, TapStep

\* Callers bring nothing on its way; the tap of a process that ends is empty.
LEMMA CallerTakes ==
    ASSUME WaitTypeOK, NEW c \in Caller, CallerActs(c), NEW j \in Job,
           OnItsWay(j)'
    PROVE  OnItsWay(j)
<1>1. UNCHANGED progressVars
  BY CallerStepType DEF CallerActs
<1>2. ASSUME NEW t \in Tap, KillTap(c, t)
      PROVE  OnItsWay(j)
  <2>1. \A u \in Tap : pending'[u] \in {pending[u], <<>>}
    BY <1>2 DEF KillTap, EndTap, ForgetLocals, WaitTypeOK, TapTypeOK
  <2>. QED  BY <1>1, <1>2, <2>1, ReturnTakes DEF KillTap, EndTap
<1>3. CASE \A t \in Tap : ~KillTap(c, t)
  <2>1. UNCHANGED <<completedQueue, pending>>
    BY <1>3
       DEF CallerActs, CallerStep, Call, BuildTap, ReadTerminalJobIds,
           TestInitiallyDone, StartTap, KeepLocals, SeeDone, ReadTerminals,
           PollAgain, ReadExpected, TimeOut, GiveUp, Fail, Return, EndProcess,
           tapVars
  <2>. QED  BY <1>1, <2>1 DEF OnItsWay, Holds, TerminalJobs, progressVars
<1>. QED  BY <1>2, <1>3

\* No seed command fails: an active batch stays active, and a new one brings
\* its jobs.
LEMMA SeedStays ==
    ASSUME MaxSeedAborts = 0, WaitTypeOK, SeedNext
    PROVE  /\ ActiveSeedJobs \subseteq ActiveSeedJobs'
           /\ \A jobs \in SeedChoices :
                 BeginSeed(jobs) => jobs \subseteq ActiveSeedJobs'
<1>0. /\ seedBatches \in Seq(SeedBatch)
      /\ Len(seedBatches) \in Nat
      /\ ~AbortSeed /\ ~KillSeed
  BY DEF WaitTypeOK, ProgressTypeOK, AbortSeed, KillSeed
<1>1. ASSUME NEW jobs \in SeedChoices, BeginSeed(jobs)
      PROVE  /\ ActiveSeedJobs \subseteq ActiveSeedJobs'
             /\ jobs \subseteq ActiveSeedJobs'
  <2>. DEFINE b == [job_ids |-> jobs, status |-> "created"]
  <2>1. b \in SeedBatch
    BY WaitAssumption DEF SeedBatch
  <2>2. /\ seedBatches' = Append(seedBatches, b)
        /\ b.status # "failed" /\ b.job_ids = jobs
    BY <1>1 DEF BeginSeed
  <2>. HIDE DEF b
  <2>3. /\ seedBatches' \in Seq(SeedBatch)
        /\ Len(seedBatches') = Len(seedBatches) + 1
        /\ \A i \in 1 .. Len(seedBatches) : seedBatches'[i] = seedBatches[i]
        /\ seedBatches'[Len(seedBatches) + 1] = b
    BY <1>0, <2>1, <2>2
  <2>4. \A j : j \in ActiveSeedJobs
                  => \E i \in 1 .. Len(seedBatches) :
                        /\ seedBatches[i].status # "failed"
                        /\ j \in seedBatches[i].job_ids
    BY <1>0, ActiveSeedJob
  <2>5. \A j : (\E i \in 1 .. Len(seedBatches') :
                   /\ seedBatches'[i].status # "failed"
                   /\ j \in seedBatches'[i].job_ids)
                  => j \in ActiveSeedJobs'
    BY DEF ActiveSeedJobs, ActiveBatches
  <2>. QED  BY <1>0, <2>2, <2>3, <2>4, <2>5
<1>2. CASE FinishSeed
  <2>1. seedBatches # <<>> /\ Len(seedBatches) \in DOMAIN seedBatches
    BY <1>0, <1>2 DEF FinishSeed, WaitTypeOK
  <2>2. \A i \in DOMAIN seedBatches :
           /\ seedBatches'[i].job_ids = seedBatches[i].job_ids
           /\ seedBatches'[i].status \in {seedBatches[i].status, "published"}
    BY <1>0, <1>2, <2>1 DEF FinishSeed, SetLastBatchStatus, SeedBatch
  <2>3. DOMAIN seedBatches' = DOMAIN seedBatches
    BY <1>0, <1>2, <2>1 DEF FinishSeed, SetLastBatchStatus
  <2>4. ActiveBatches \subseteq ActiveBatches'
    BY <2>2, <2>3 DEF ActiveBatches
  <2>. QED
    BY <1>2, <2>2, <2>3, <2>4
       DEF ActiveSeedJobs, ActiveBatches, FinishSeed, BeginSeed
<1>3. CASE UNCHANGED seedBatches /\ \A jobs \in SeedChoices : ~BeginSeed(jobs)
  BY <1>3 DEF ActiveSeedJobs, ActiveBatches
<1>4. ASSUME NEW j \in Job, PublishSeedJob(j) \/ Arrive(j)
      PROVE  UNCHANGED seedBatches
  BY <1>4 DEF PublishSeedJob, Arrive, progressVars
<1>. QED
  BY <1>0, <1>1, <1>2, <1>3, <1>4 DEF SeedNext, SeedStep

LEMMA SeededStep ==
    ASSUME MaxSeedAborts = 0, WaitTypeOK, SeededInv, [Next]_vars
    PROVE  SeededInv'
<1>1. ASSUME UNCHANGED <<seedBatches, unpublished, published>>,
             \A j \in Job : OnItsWay(j)' => OnItsWay(j)
      PROVE  SeededInv'
  BY <1>1 DEF SeededInv, ActiveSeedJobs, ActiveBatches
<1>2. ASSUME NEW t \in Tap, TapActs(t)
      PROVE  SeededInv'
  <2>1. UNCHANGED <<seedBatches, unpublished, published>>
    BY <1>2, TapStepProgress DEF TapActs, seedVars, WaitTypeOK
  <2>. QED  BY <1>1, <1>2, <2>1, TapTakes
<1>3. ASSUME NEW c \in Caller, CallerActs(c)
      PROVE  SeededInv'
  <2>1. UNCHANGED <<seedBatches, unpublished, published>>
    BY <1>3, CallerStepType DEF CallerActs, seedVars, progressVars
  <2>. QED  BY <1>1, <1>3, <2>1, CallerTakes
<1>4. CASE SeedNext
  <2>1. /\ ActiveSeedJobs \subseteq ActiveSeedJobs'
        /\ \A jobs \in SeedChoices :
              BeginSeed(jobs) => jobs \subseteq ActiveSeedJobs'
    BY <1>4, SeedStays
  <2>2. ~AbortSeed /\ ~KillSeed
    BY DEF WaitTypeOK, AbortSeed, KillSeed
  <2>3. /\ unpublished' \subseteq ActiveSeedJobs'
        /\ published' \subseteq ActiveSeedJobs'
    BY <1>4, <2>1, <2>2
       DEF SeedNext, SeedStep, BeginSeed, PublishSeedJob, FinishSeed, Arrive,
           SeededInv
  <2>4. ASSUME NEW j \in Job, OnItsWay(j)'
        PROVE  j \in published'
    <3>1. published \subseteq published' /\ UNCHANGED <<terminalEvents, pending>>
      BY <1>4, <2>2
         DEF SeedNext, SeedStep, BeginSeed, PublishSeedJob, FinishSeed, Arrive,
             KeepTaps, tapVars, progressVars
    <3>2. completedQueue'[j] > 0 => completedQueue[j] > 0 \/ j \in published
      BY <1>4, <2>2
         DEF SeedNext, SeedStep, BeginSeed, PublishSeedJob, FinishSeed, Arrive,
             KeepTaps, tapVars, WaitTypeOK, TapTypeOK
    <3>. QED
      BY <2>4, <3>1, <3>2 DEF SeededInv, OnItsWay, Holds, TerminalJobs
  <2>. QED  BY <2>3, <2>4 DEF SeededInv
<1>5. CASE UNCHANGED vars
  BY <1>1, <1>5
     DEF vars, progressVars, tapVars, seedVars, OnItsWay, Holds, TerminalJobs
<1>6. CASE TapNext /\ UNCHANGED <<callerVars, seedVars>>
  BY <1>2, <1>6 DEF TapNext, TapActs
<1>7. CASE CallerNext
  BY <1>3, <1>7 DEF CallerNext, CallerActs
<1>. QED  BY <1>4, <1>5, <1>6, <1>7 DEF Next

LEMMA SeededInvariant ==
    ASSUME MaxSeedAborts = 0
    PROVE  Spec => []SeededInv
<1>1. Init => SeededInv
  BY DEF Init, TapInit, ProgressInit, SeededInv, OnItsWay, Holds, TerminalJobs
<1>2. WaitTypeOK /\ SeededInv /\ [Next]_vars => SeededInv'
  BY SeededStep
<1>. QED  BY <1>1, <1>2, WaitTypeCorrect, PTL DEF Spec

\* Every job of an active batch is counted.
LEMMA ExpectedCountsAll ==
    ASSUME ProgressTypeOK
    PROVE  /\ ActiveSeedJobs \subseteq Job
           /\ Cardinality(ActiveSeedJobs) <= ExpectedJobCount
<1>. DEFINE Pairs == {bj \in ActiveBatches \X Job :
                        bj[2] \in seedBatches[bj[1]].job_ids}
            second == [bj \in Pairs |-> bj[2]]
<1>1. /\ seedBatches \in Seq(SeedBatch)
      /\ DOMAIN seedBatches = 1 .. Len(seedBatches)
  BY DEF ProgressTypeOK
<1>2. ActiveSeedJobs \subseteq Job
  <2>1. \A b \in 1 .. Len(seedBatches) : seedBatches[b] \in SeedBatch
    BY <1>1
  <2>. QED  BY <1>1, <2>1, ActiveSeedJob DEF SeedBatch
<1>3. IsFiniteSet(Pairs)
  <2>1. ActiveBatches \subseteq 1 .. Len(seedBatches)
    BY <1>1 DEF ActiveBatches
  <2>2. IsFiniteSet(ActiveBatches)
    <3>1. Len(seedBatches) \in Nat
      BY <1>1
    <3>2. IsFiniteSet(1 .. Len(seedBatches))
      BY <3>1, FS_Interval
    <3>. QED  BY <2>1, <3>2, FS_Subset
  <2>3. IsFiniteSet(ActiveBatches \X Job)
    BY <2>2, ProgressAssumption, FS_Product
  <2>. QED  BY <2>3, FS_Subset
<1>4. second \in Surjection(Pairs, ActiveSeedJobs)
  <2>1. \A p \in Pairs : p[2] \in ActiveSeedJobs
    BY DEF ActiveSeedJobs
  <2>2. ASSUME NEW j \in ActiveSeedJobs
        PROVE  \E p \in Pairs : p[2] = j
    <3>1. PICK b \in ActiveBatches : j \in seedBatches[b].job_ids
      BY DEF ActiveSeedJobs
    <3>2. <<b, j>> \in Pairs
      BY <1>2, <3>1
    <3>. QED  BY <3>2
  <2>. QED  BY <2>1, <2>2 DEF Surjection
<1>5. Cardinality(ActiveSeedJobs) <= Cardinality(Pairs)
  <2>. HIDE DEF Pairs, second
  <2>. QED  BY <1>3, <1>4, FS_Surjection
<1>. QED  BY <1>2, <1>5 DEF ExpectedJobCount

(***************************************************************************)
(* The count stands for the jobs: if no seed command fails or is killed, a *)
(* complete status of wait_for_run (runtime/status.py) means that every    *)
(* job of every seed batch has its TERMINAL event, whatever is recorded    *)
(* twice, by whichever tap, and whatever crashes.                          *)
(***************************************************************************)
THEOREM CompleteRunsAreWhole ==
    ASSUME MaxSeedAborts = 0
    PROVE  Spec => CompleteMeansEveryJob
<1>1. ASSUME WaitTypeOK, RecordInv, SeededInv, [Next]_vars,
             NEW d \in Caller, Completes(d)
      PROVE  ActiveSeedJobs \subseteq TerminalJobs
  <2>1. Cardinality(TerminalJobs) >= ExpectedJobCount
    BY <1>1, CompletesByCount
  <2>2. TerminalJobs \subseteq ActiveSeedJobs /\ TerminalJobs \subseteq Job
    BY <1>1 DEF SeededInv, OnItsWay, TerminalJobs
  <2>3. /\ ActiveSeedJobs \subseteq Job
        /\ Cardinality(ActiveSeedJobs) <= ExpectedJobCount
        /\ ExpectedJobCount \in Nat
    BY <1>1, ExpectedCountsAll, ExpectedIsNat DEF WaitTypeOK
  <2>4. /\ Cardinality(ActiveSeedJobs) \in Nat
        /\ Cardinality(TerminalJobs) \in Nat
        /\ Cardinality(TerminalJobs) <= Cardinality(ActiveSeedJobs)
    BY <2>2, <2>3, JobCounts
  <2>5. Cardinality(TerminalJobs) = Cardinality(ActiveSeedJobs)
    BY <2>1, <2>3, <2>4
  <2>6. IsFiniteSet(ActiveSeedJobs)
    BY <2>3, ProgressAssumption, FS_Subset
  <2>. QED  BY <2>2, <2>5, <2>6, FS_Subset
<1>2. WaitTypeOK /\ RecordInv /\ SeededInv /\ [Next]_vars
         => [\A c \in Caller :
                Completes(c) => ActiveSeedJobs \subseteq TerminalJobs]_vars
  BY <1>1
<1>. QED
  BY <1>2, WaitTypeCorrect, RecordInvariant, SeededInvariant, PTL
     DEF Spec, CompleteMeansEveryJob

-----------------------------------------------------------------------------
(* One event for every job *)

\* One tap at a time waits for the run: wait_for_run makes a new one when it
\* is called again.
OneTap == \A t, u \in Tap : t = u

(***************************************************************************)
(* A job that has not arrived is nowhere, and one that has is waiting or   *)
(* held, not both while the session lasts.                                 *)
(***************************************************************************)
OneCopy(j) ==
    /\ completedQueue[j] <= 1
    /\ \A t \in tapConnected : Holds(t, j) => completedQueue[j] = 0
    /\ arrivals[j] = 0 => /\ completedQueue[j] = 0
                          /\ \A t \in Tap : ~Holds(t, j)

\* What the flush of a tap, now or to come, has still to insert.
Unwritten(t) == {i \in DOMAIN pending[t] :
                    \/ tapPc[t] \in {"consuming", "states"}
                    \/ tapPc[t] = "events" /\ i >= position[t]}

\* A tap at work knows or holds every recorded job: it read their ids when
\* it was made, and nobody else records.
KnowsRecorded(t) ==
    tapPc[t] \in Running \cup {"constructing", "constructed"}
        => \A j \in TerminalJobs : j \in terminalJobIds[t] \/ Holds(t, j)

TapOnce(t) ==
    /\ IsInjective(pending[t])
    /\ KnowsRecorded(t)
    /\ \A i \in Unwritten(t) : terminalEvents[pending[t][i]] = 0

OnceInv ==
    /\ \A j \in Job : OneCopy(j)
    /\ \A t \in Tap : TapOnce(t)
    /\ OneTerminalEventPerJob

\* A buffer that holds a job once gives one copy back.
LEMMA GiveOneBack ==
    ASSUME WaitTypeOK, NEW t \in Tap, NEW j \in Job, IsInjective(pending[t])
    PROVE  /\ ~Holds(t, j) => Copies(t, j) = 0
           /\ Holds(t, j) => Copies(t, j) = 1
<1>. DEFINE S == {i \in DOMAIN pending[t] : pending[t][i] = j}
<1>1. ASSUME ~Holds(t, j)
      PROVE  Copies(t, j) = 0
  <2>1. S = {}
    BY <1>1 DEF Holds
  <2>. QED  BY <2>1, FS_EmptySet DEF Copies
<1>2. ASSUME Holds(t, j)
      PROVE  Copies(t, j) = 1
  <2>1. PICK i \in DOMAIN pending[t] : pending[t][i] = j
    BY <1>2 DEF Holds
  <2>2. S = {i}
    BY <2>1 DEF IsInjective
  <2>. QED  BY <2>2, FS_Singleton DEF Copies
<1>. QED  BY <1>1, <1>2

\* A step that moves no job and records none.
LEMMA JobsStay ==
    ASSUME WaitTypeOK, OnceInv,
           UNCHANGED <<completedQueue, pending, terminalEvents, arrivals>>,
           \A t \in tapConnected' : t \in tapConnected \/ pending[t] = <<>>
    PROVE  /\ \A j \in Job : OneCopy(j)'
           /\ OneTerminalEventPerJob'
<1>1. \A t \in Tap, j \in Job : Holds(t, j)' <=> Holds(t, j)
  BY DEF Holds
<1>2. \A t \in tapConnected', j \in Job :
          Holds(t, j)' => t \in tapConnected /\ Holds(t, j)
  BY DEF Holds
<1>. QED  BY <1>1, <1>2 DEF OnceInv, OneCopy, OneTerminalEventPerJob

\* The events of the flush that begins, or goes on, are still to write.
LEMMA TapStays ==
    ASSUME WaitTypeOK, OnceInv, NEW t \in Tap,
           UNCHANGED terminalEvents, pending'[t] = pending[t],
           terminalJobIds'[t] = terminalJobIds[t],
           tapPc'[t] \in Running \cup {"constructing", "constructed"}
               => tapPc[t] \in Running \cup {"constructing", "constructed"},
           \/ pending[t] = <<>>
           \/ tapPc'[t] \notin Running
           \/ tapPc[t] \in {"consuming", "states"}
           \/ tapPc'[t] = tapPc[t] /\ position'[t] = position[t]
    PROVE  TapOnce(t)'
<1>1. IsInjective(pending[t]) /\ IsInjective(pending[t])'
  BY DEF OnceInv, TapOnce, IsInjective
<1>2. KnowsRecorded(t)'
  BY DEF OnceInv, TapOnce, KnowsRecorded, TerminalJobs, Holds
<1>3. Unwritten(t)' \subseteq Unwritten(t)
  BY DEF Unwritten, Running, Flushing
<1>. QED  BY <1>1, <1>2, <1>3 DEF OnceInv, TapOnce

\* The session of a tap ends: what it holds waits in the queue again.
LEMMA EndOnce ==
    ASSUME OneTap, WaitTypeOK, OnceInv, NEW t \in Tap, ReturnPending(t),
           UNCHANGED <<progressVars, arrivals>>,
           pending'[t] \in {pending[t], <<>>},
           pending'[t] # <<>> => t \notin tapConnected',
           tapConnected' \subseteq Tap
    PROVE  /\ \A j \in Job : OneCopy(j)'
           /\ OneTerminalEventPerJob'
<1>1. OneTerminalEventPerJob'
  BY DEF OnceInv, OneTerminalEventPerJob, progressVars
<1>2. ASSUME NEW j \in Job
      PROVE  OneCopy(j)'
  <2>1. /\ ~Holds(t, j) => Copies(t, j) = 0
        /\ Holds(t, j) => Copies(t, j) = 1
    BY GiveOneBack DEF OnceInv, TapOnce
  <2>2. completedQueue'[j] = IF t \in tapConnected
                             THEN completedQueue[j] + Copies(t, j)
                             ELSE completedQueue[j]
    BY DEF ReturnPending
  <2>3. completedQueue[j] \in Nat /\ OneCopy(j)
    BY DEF WaitTypeOK, TapTypeOK, OnceInv
  <2>4. \A u \in Tap : u = t
    BY DEF OneTap
  <2>5. ~Holds(t, j) => ~Holds(t, j)'
    BY DEF Holds
  <2>6. t \in tapConnected' => ~Holds(t, j)'
    BY DEF Holds
  <2>7. completedQueue'[j] <= 1
    BY <2>1, <2>2, <2>3 DEF OneCopy
  <2>8. arrivals'[j] = 0 => completedQueue'[j] = 0 /\ ~Holds(t, j)'
    BY <2>1, <2>2, <2>3, <2>5 DEF OneCopy
  <2>. QED  BY <2>4, <2>6, <2>7, <2>8 DEF OneCopy
<1>. QED  BY <1>1, <1>2

LEMMA EndTapOnce ==
    ASSUME OneTap, WaitTypeOK, WaitTypeOK', OnceInv, NEW t \in Tap, EndTap(t),
           UNCHANGED arrivals
    PROVE  OnceInv'
<1>1. pending'[t] = <<>> /\ tapPc'[t] = "dead"
  BY DEF EndTap, TapGoto, ForgetLocals, WaitTypeOK, TapTypeOK
<1>2. (\A j \in Job : OneCopy(j)') /\ OneTerminalEventPerJob'
  BY <1>1, EndOnce DEF EndTap, WaitTypeOK, TapTypeOK
<1>3. TapOnce(t)'
  BY <1>1 DEF TapOnce, IsInjective, KnowsRecorded, Unwritten, Running, Flushing
<1>. QED  BY <1>2, <1>3 DEF OnceInv, OneTap

\* A delivery of an unknown job: its event is not written, since the tap
\* neither knows the job nor holds it.
LEMMA ReceiveOnce ==
    ASSUME OneTap, WaitTypeOK, OnceInv, NEW t \in Tap, NEW k \in Job,
           Receive(t, k), UNCHANGED arrivals
    PROVE  OnceInv'
<1>0. /\ pending \in [Tap -> Seq(Job)] /\ pending[t] \in Seq(Job)
      /\ completedQueue \in [Job -> Nat]
      /\ terminalEvents \in [Job -> Nat]
      /\ tapPc \in [Tap -> TapLabel]
      /\ tapPc[t] = "consuming" /\ t \in tapConnected
      /\ completedQueue[k] > 0
      /\ UNCHANGED <<terminalEvents, tapConnected, terminalJobIds>>
      /\ \A j \in Job : completedQueue'[j]
                           = IF j = k THEN completedQueue[j] - 1
                             ELSE completedQueue[j]
  BY DEF WaitTypeOK, TapTypeOK, ProgressTypeOK, Receive, TapAt, KeepSession,
         progressVars
<1>1. ~Holds(t, k) /\ completedQueue'[k] = 0 /\ arrivals[k] # 0
  <2>1. OneCopy(k)
    BY DEF OnceInv
  <2>. QED  BY <1>0, <2>1 DEF OneCopy
<1>2. OneTerminalEventPerJob' /\ TerminalJobs' = TerminalJobs
  BY <1>0 DEF OnceInv, OneTerminalEventPerJob, TerminalJobs
<1>3. ASSUME \A j \in Job : Holds(t, j)' => j = k \/ Holds(t, j)
      PROVE  \A j \in Job : OneCopy(j)'
  <2>. SUFFICES ASSUME NEW j \in Job PROVE OneCopy(j)'
    OBVIOUS
  <2>1. OneCopy(j)
    BY DEF OnceInv
  <2>2. \A u \in Tap : u = t
    BY DEF OneTap
  <2>3. CASE j = k
    BY <1>0, <1>1, <2>3 DEF OneCopy
  <2>4. CASE j # k
    <3>1. completedQueue'[j] = completedQueue[j] /\ (Holds(t, j)' => Holds(t, j))
      BY <1>0, <1>3, <2>4
    <3>. QED
      BY <1>0, <2>1, <2>2, <3>1 DEF OneCopy, WaitTypeOK, TapTypeOK
  <2>. QED  BY <2>3, <2>4
<1>4. CASE k \in terminalJobIds[t]
  <2>1. UNCHANGED <<pending, tapPc, position>>
    BY <1>4 DEF Receive
  <2>2. TapOnce(t)'
    BY <1>0, <2>1, TapStays
  <2>3. \A j \in Job : Holds(t, j)' => Holds(t, j)
    BY <2>1 DEF Holds
  <2>. QED  BY <1>2, <1>3, <2>2, <2>3 DEF OnceInv, OneTap
<1>5. CASE k \notin terminalJobIds[t]
  <2>. DEFINE p == Append(pending[t], k)
              n == Len(pending[t]) + 1
  <2>1. /\ DOMAIN p = 1 .. n /\ DOMAIN pending[t] = 1 .. n - 1
        /\ n \in Nat
        /\ p[n] = k
        /\ \A i \in 1 .. n - 1 : p[i] = pending[t][i]
    BY <1>0
  <2>2. pending'[t] = p
    BY <1>0, <1>5 DEF Receive
  <2>3. tapPc'[t] \in {"consuming", "states"}
    BY <1>0, <1>5 DEF Receive, BeginFlush, TapGoto
  <2>. HIDE DEF p, n
  <2>4. ASSUME NEW j \in Job
        PROVE  Holds(t, j)' <=> j = k \/ Holds(t, j)
    <3>1. Holds(t, j)' <=> \E i \in 1 .. n : p[i] = j
      BY <2>1, <2>2 DEF Holds
    <3>2. Holds(t, j) <=> \E i \in 1 .. n - 1 : p[i] = j
      BY <2>1 DEF Holds
    <3>3. n \in 1 .. n /\ \A i \in 1 .. n : i = n \/ i \in 1 .. n - 1
      BY <1>0, <2>1 DEF n
    <3>4. \A i \in 1 .. n - 1 : i \in 1 .. n
      BY <2>1
    <3>. QED  BY <2>1, <3>1, <3>2, <3>3, <3>4
  <2>5. terminalEvents[k] = 0
    <3>1. KnowsRecorded(t)
      BY DEF OnceInv, TapOnce
    <3>. QED
      BY <1>0, <1>1, <1>5, <3>1 DEF KnowsRecorded, Running, TerminalJobs
  <2>6. IsInjective(pending[t])'
    <3>1. IsInjective(pending[t])
      BY DEF OnceInv, TapOnce
    <3>2. \A i \in 1 .. n - 1 : p[i] # k
      BY <1>1, <2>1 DEF Holds
    <3>3. ASSUME NEW a \in 1 .. n, NEW b \in 1 .. n, p[a] = p[b]
          PROVE  a = b
      BY <2>1, <3>1, <3>2, <3>3 DEF IsInjective
    <3>. QED  BY <2>1, <2>2, <3>3 DEF IsInjective
  <2>7. KnowsRecorded(t)'
    BY <1>0, <1>2, <2>4 DEF OnceInv, TapOnce, KnowsRecorded, Running, TerminalJobs
  <2>8. \A i \in 1 .. n : terminalEvents[p[i]] = 0
    BY <1>0, <2>1, <2>5 DEF OnceInv, TapOnce, Unwritten
  <2>9. TapOnce(t)'
    BY <1>0, <2>1, <2>2, <2>6, <2>7, <2>8 DEF TapOnce, Unwritten
  <2>. QED  BY <1>2, <1>3, <2>4, <2>9 DEF OnceInv, OneTap
<1>. QED  BY <1>4, <1>5

\* The insert at the position of a flush is the first of its job, and the
\* rest of the flush is about other jobs.
LEMMA EventOnce ==
    ASSUME OneTap, WaitTypeOK, OnceInv, NEW t \in Tap, WriteTerminalEvent(t),
           UNCHANGED arrivals
    PROVE  OnceInv'
<1>. DEFINE k == pending[t][position[t]]
<1>0. /\ tapPc[t] = "events"
      /\ pending[t] \in Seq(Job) /\ Len(pending[t]) \in Nat
      /\ DOMAIN pending[t] = 1 .. Len(pending[t])
      /\ position[t] \in 1 .. Len(pending[t])
      /\ k \in Job
      /\ terminalEvents \in [Job -> Nat]
      /\ UNCHANGED <<completedQueue, pending, tapConnected, terminalJobIds>>
  BY FlushPosition
     DEF WaitTypeOK, TapTypeOK, ProgressTypeOK, WriteTerminalEvent, TapAt,
         Flushing, KeepSession
<1>1. position[t] \in Unwritten(t)
  BY <1>0 DEF Unwritten
<1>2. terminalEvents[k] = 0
  BY <1>1 DEF OnceInv, TapOnce
<1>3. terminalEvents' = [terminalEvents EXCEPT ![k] = @ + 1]
  BY DEF WriteTerminalEvent, InsertTerminalEvent
<1>4. OneTerminalEventPerJob'
  BY <1>0, <1>2, <1>3 DEF OnceInv, OneTerminalEventPerJob
<1>5. \A j \in Job : OneCopy(j)'
  BY <1>0 DEF OnceInv, OneCopy, Holds
<1>6. IsInjective(pending[t]) /\ IsInjective(pending[t])'
  BY <1>0 DEF OnceInv, TapOnce, IsInjective
<1>7. KnowsRecorded(t)'
  <2>1. TerminalJobs' \subseteq TerminalJobs \cup {k}
    BY <1>0, <1>3 DEF TerminalJobs
  <2>2. \A j \in Job : Holds(t, j)' <=> Holds(t, j)
    BY <1>0 DEF Holds
  <2>3. Holds(t, k)
    BY <1>0 DEF Holds
  <2>4. TerminalJobs \subseteq Job
    BY DEF TerminalJobs
  <2>. QED
    BY <1>0, <2>1, <2>2, <2>3, <2>4
       DEF OnceInv, TapOnce, KnowsRecorded, Running, Flushing
<1>8. \A i \in Unwritten(t)' : terminalEvents'[pending[t][i]] = 0
  <2>1. \/ tapPc'[t] = "acks"
        \/ tapPc'[t] = "events" /\ position'[t] = position[t] + 1
    BY <1>0 DEF WriteTerminalEvent, Advance, TapGoto, WaitTypeOK, TapTypeOK
  <2>2. ASSUME NEW i \in Unwritten(t)'
        PROVE  i \in Unwritten(t) /\ i # position[t]
    BY <1>0, <2>1 DEF Unwritten
  <2>3. ASSUME NEW i \in Unwritten(t)'
        PROVE  pending[t][i] # k /\ pending[t][i] \in Job
    BY <1>0, <1>6, <2>2 DEF IsInjective, Unwritten
  <2>. QED  BY <1>0, <1>3, <2>2, <2>3 DEF OnceInv, TapOnce
<1>. QED  BY <1>0, <1>4, <1>5, <1>6, <1>7, <1>8 DEF OnceInv, TapOnce, OneTap

LEMMA AckOnce ==
    ASSUME OneTap, WaitTypeOK, OnceInv, NEW t \in Tap, AckTerminal(t),
           UNCHANGED arrivals
    PROVE  OnceInv'
<1>. DEFINE n == Len(pending[t])
            p == Tail(pending[t])
<1>0. /\ tapPc[t] = "acks"
      /\ pending[t] \in Seq(Job) /\ n \in Nat \ {0}
      /\ DOMAIN pending[t] = 1 .. n
      /\ UNCHANGED <<completedQueue, terminalEvents, tapConnected>>
  BY FlushPosition
     DEF WaitTypeOK, AckTerminal, TapAt, Flushing, KeepSession, progressVars
<1>1. /\ DOMAIN p = 1 .. n - 1
      /\ \A i \in 1 .. n - 1 : p[i] = pending[t][i + 1]
      /\ Head(pending[t]) = pending[t][1]
  BY <1>0
<1>2. /\ pending'[t] = p
      /\ terminalJobIds'[t] = terminalJobIds[t] \cup {pending[t][1]}
      /\ tapPc'[t] \in {"acks", "counting"}
  BY <1>0, <1>1 DEF AckTerminal, TapGoto, WaitTypeOK, TapTypeOK
<1>. HIDE DEF p, n
<1>3. \A j \in Job : Holds(t, j)' => Holds(t, j)
  <2>. SUFFICES ASSUME NEW j \in Job, NEW i \in 1 .. n - 1, p[i] = j
                PROVE  Holds(t, j)
    BY <1>1, <1>2 DEF Holds
  <2>1. i + 1 \in 1 .. n /\ pending[t][i + 1] = j
    BY <1>0, <1>1
  <2>. QED  BY <1>0, <2>1 DEF Holds
<1>4. \A j \in Job : Holds(t, j) => Holds(t, j)' \/ j = pending[t][1]
  <2>. SUFFICES ASSUME NEW j \in Job, NEW i \in 1 .. n, pending[t][i] = j, i # 1
                PROVE  Holds(t, j)'
    BY <1>0 DEF Holds
  <2>1. i - 1 \in 1 .. n - 1 /\ p[i - 1] = j
    BY <1>0, <1>1
  <2>. QED  BY <1>1, <1>2, <2>1 DEF Holds
<1>5. \A j \in Job : OneCopy(j)'
  <2>1. \A u \in Tap : u = t
    BY DEF OneTap
  <2>. QED  BY <1>0, <1>3, <2>1 DEF OnceInv, OneCopy, WaitTypeOK, TapTypeOK
<1>6. OneTerminalEventPerJob' /\ TerminalJobs' = TerminalJobs
  BY <1>0 DEF OnceInv, OneTerminalEventPerJob, TerminalJobs
<1>7. IsInjective(pending[t])'
  <2>1. IsInjective(pending[t])
    BY DEF OnceInv, TapOnce
  <2>2. ASSUME NEW a \in 1 .. n - 1, NEW b \in 1 .. n - 1, p[a] = p[b]
        PROVE  a = b
    <3>1. a + 1 \in 1 .. n /\ b + 1 \in 1 .. n
      BY <1>0
    <3>2. pending[t][a + 1] = pending[t][b + 1]
      BY <1>1, <2>2
    <3>3. a + 1 = b + 1
      BY <1>0, <2>1, <3>1, <3>2 DEF IsInjective
    <3>. QED  BY <3>3
  <2>. QED  BY <1>1, <1>2, <2>2 DEF IsInjective
<1>8. KnowsRecorded(t)'
  BY <1>0, <1>2, <1>4, <1>6
     DEF OnceInv, TapOnce, KnowsRecorded, Running, Flushing, TerminalJobs
<1>9. Unwritten(t)' = {}
  BY <1>2 DEF Unwritten
<1>. QED  BY <1>5, <1>6, <1>7, <1>8, <1>9 DEF OnceInv, TapOnce, OneTap

LEMMA TapStepOnce ==
    ASSUME OneTap, WaitTypeOK, WaitTypeOK', OnceInv, NEW t \in Tap, TapActs(t)
    PROVE  OnceInv'
<1>0. UNCHANGED arrivals
  BY DEF TapActs, seedVars
<1>1. CASE \E k \in Job : Receive(t, k)
  BY <1>0, <1>1, ReceiveOnce
<1>2. CASE WriteTerminalEvent(t)
  BY <1>0, <1>2, EventOnce
<1>3. CASE AckTerminal(t)
  BY <1>0, <1>3, AckOnce
<1>4. CASE TapConnectionError(t) \/ CrashTap(t)
  BY <1>0, <1>4, EndTapOnce DEF TapConnectionError, CrashTap
<1>5. CASE DropTapConnection(t)
  <2>1. (\A j \in Job : OneCopy(j)') /\ OneTerminalEventPerJob'
    BY <1>0, <1>5, EndOnce DEF DropTapConnection, KeepLocals, WaitTypeOK, TapTypeOK
  <2>2. TapOnce(t)'
    BY <1>5, TapStays DEF DropTapConnection, KeepLocals, progressVars
  <2>. QED  BY <2>1, <2>2 DEF OnceInv, OneTap
<1>6. CASE FlushDue(t) \/ WriteTerminalState(t) \/ TestFlushDone(t)
             \/ LeaveTapLoop(t)
  <2>1. UNCHANGED <<completedQueue, pending, terminalEvents, tapConnected,
                    terminalJobIds>>
    BY <1>6 DEF FlushDue, WriteTerminalState, TestFlushDone, LeaveTapLoop,
                KeepLocals, KeepSession, progressVars
  <2>2. /\ tapPc[t] \in Running
        /\ tapPc[t] = "counting" => pending[t] = <<>>
        /\ tapPc[t] \in {"consuming", "states", "counting"}
    BY <1>6 DEF FlushDue, WriteTerminalState, TestFlushDone, LeaveTapLoop,
                TapAt, Running, Flushing, WaitTypeOK, TapTypeOK, PendingFits
  <2>3. TapOnce(t)'
    BY <2>1, <2>2, TapStays
  <2>. QED  BY <1>0, <2>1, <2>3, JobsStay DEF OnceInv, OneTap
<1>. QED
  BY <1>1, <1>2, <1>3, <1>4, <1>5, <1>6 DEF TapActs, TapStep

\* A tap is made with the ids that are recorded, and starts with nothing.
LEMMA CallerOnce ==
    ASSUME OneTap, WaitTypeOK, WaitTypeOK', OnceInv, NEW c \in Caller,
           CallerActs(c)
    PROVE  OnceInv'
<1>0. UNCHANGED <<progressVars, arrivals>>
  BY CallerStepType DEF CallerActs, seedVars
<1>1. ASSUME NEW t \in Tap, KillTap(c, t)
      PROVE  OnceInv'
  BY <1>0, <1>1, EndTapOnce DEF KillTap
<1>2. CASE BuildTap(c)
  <2>0. PICK t \in Tap :
           ReadTerminalJobIds(t) \/ TestInitiallyDone(t) \/ StartTap(t)
    BY <1>2, TapsOfType DEF BuildTap
  <2>1. UNCHANGED <<completedQueue, pending, tapConnected>>
    BY <1>2 DEF BuildTap, ReadTerminalJobIds, TestInitiallyDone, StartTap,
                KeepLocals, KeepSession
  <2>2. /\ tapPc[t] \in {"none", "constructing", "constructed"}
        /\ pending[t] = <<>>
    BY <2>0 DEF ReadTerminalJobIds, TestInitiallyDone, StartTap, TapAt,
                WaitTypeOK, TapTypeOK, PendingFits, Flushing
  <2>3. ASSUME ReadTerminalJobIds(t)
        PROVE  TapOnce(t)'
    <3>1. terminalJobIds'[t] = TerminalJobs /\ TerminalJobs' = TerminalJobs
      BY <1>0, <2>0, <2>3 DEF ReadTerminalJobIds, progressVars, TerminalJobs,
                              WaitTypeOK, TapTypeOK
    <3>2. pending'[t] = <<>>
      BY <2>1, <2>2
    <3>. QED
      BY <3>1, <3>2 DEF TapOnce, IsInjective, KnowsRecorded, Unwritten
  <2>4. ASSUME TestInitiallyDone(t) \/ StartTap(t)
        PROVE  TapOnce(t)'
    BY <1>0, <2>0, <2>1, <2>2, <2>4, TapStays
       DEF TestInitiallyDone, StartTap, KeepLocals, TapAt, progressVars
  <2>5. TapOnce(t)'
    BY <2>0, <2>3, <2>4
  <2>. QED  BY <1>0, <2>1, <2>5, JobsStay DEF OnceInv, OneTap, progressVars
<1>3. CASE EndProcess(c)
  <2>. DEFINE t == WaitTap[c]
  <2>1. /\ t \in Tap /\ t \in TapsOf(c)
        /\ tapPc[t] \notin Running /\ tapPc'[t] = "none"
    BY <1>3, WaitAssumption DEF EndProcess, TapsOf
  <2>2. pending[t] = <<>> /\ UNCHANGED <<completedQueue, pending>>
    BY <1>3, <2>1 DEF EndProcess, WaitTypeOK, TapTypeOK, PendingFits, Running
  <2>3. TapOnce(t)'
    BY <2>1, <2>2
       DEF TapOnce, IsInjective, KnowsRecorded, Unwritten, Running, Flushing
  <2>4. \A u \in tapConnected' : u \in tapConnected \/ pending[u] = <<>>
    BY <2>1, <2>2 DEF OneTap, WaitTypeOK, TapTypeOK
  <2>. QED
    BY <1>0, <2>1, <2>2, <2>3, <2>4, JobsStay DEF OnceInv, OneTap, progressVars
<1>4. CASE \/ Call(c) \/ SeeDone(c) \/ ReadTerminals(c) \/ PollAgain(c)
           \/ ReadExpected(c) \/ TimeOut(c) \/ GiveUp(c) \/ Fail(c)
  <2>1. UNCHANGED <<completedQueue, pending, tapConnected, tapPc, position,
                    terminalJobIds>>
    BY <1>4 DEF Call, SeeDone, ReadTerminals, PollAgain, ReadExpected, TimeOut,
                GiveUp, Fail, Return, tapVars
  <2>2. \A t \in Tap : TapOnce(t)'
    BY <1>0, <2>1, TapStays DEF progressVars
  <2>. QED  BY <1>0, <2>1, <2>2, JobsStay DEF OnceInv, progressVars
<1>. QED
  BY <1>1, <1>2, <1>3, <1>4 DEF CallerActs, CallerStep

LEMMA SeedOnce ==
    ASSUME OneTap, MaxArrivals <= 1, WaitTypeOK, WaitTypeOK', OnceInv, SeedNext
    PROVE  OnceInv'
<1>1. UNCHANGED <<terminalEvents, pending, tapConnected, tapPc, position,
                  terminalJobIds>>
  BY DEF SeedNext, SeedStep, BeginSeed, PublishSeedJob, FinishSeed, AbortSeed,
         KillSeed, Arrive, KeepTaps, tapVars, progressVars
<1>2. \A t \in Tap : TapOnce(t)'
  BY <1>1, TapStays
<1>3. ASSUME NEW k \in Job, Arrive(k), NEW j \in Job
      PROVE  OneCopy(j)'
  <2>1. /\ arrivals \in [Job -> Nat] /\ completedQueue \in [Job -> Nat]
        /\ arrivals[k] < MaxArrivals /\ MaxArrivals \in Nat
        /\ arrivals' = [arrivals EXCEPT ![k] = @ + 1]
        /\ completedQueue' = [completedQueue EXCEPT ![k] = @ + 1]
    BY <1>3, WaitAssumption DEF WaitTypeOK, TapTypeOK, Arrive
  <2>2. OneCopy(j) /\ \A t \in Tap : Holds(t, j)' <=> Holds(t, j)
    BY <1>1 DEF OnceInv, Holds
  <2>. QED  BY <1>1, <2>1, <2>2 DEF OneCopy, WaitTypeOK, TapTypeOK
<1>4. CASE UNCHANGED <<completedQueue, arrivals>>
  BY <1>1, <1>2, <1>4, JobsStay DEF OnceInv
<1>5. CASE \E k \in Job : Arrive(k)
  BY <1>1, <1>2, <1>3, <1>5 DEF OnceInv, OneTerminalEventPerJob
<1>. QED
  BY <1>4, <1>5 DEF SeedNext, SeedStep, BeginSeed, PublishSeedJob, FinishSeed,
                    AbortSeed, KillSeed, KeepTaps, tapVars

(***************************************************************************)
(* No job has two TERMINAL events, however often the call and its tap      *)
(* fail, are killed and start again (_terminal_job_ids of pipeline/tap.py  *)
(* is read when a tap is made), if one tap at a time waits and the stages  *)
(* bring every job to the final queue once.                                *)
(***************************************************************************)
THEOREM JobsEndOnce ==
    ASSUME OneTap, MaxArrivals <= 1
    PROVE  Spec => []OneTerminalEventPerJob
<1>1. Init => OnceInv
  <2>. SUFFICES ASSUME Init PROVE OnceInv
    OBVIOUS
  <2>1. \A t \in Tap : pending[t] = <<>> /\ tapPc[t] = "none"
    BY DEF Init, TapInit
  <2>2. \A t \in Tap : TapOnce(t)
    BY <2>1 DEF TapOnce, IsInjective, KnowsRecorded, Unwritten, Running, Flushing
  <2>3. \A j \in Job : OneCopy(j)
    BY <2>1 DEF Init, TapInit, OneCopy, Holds
  <2>. QED
    BY <2>2, <2>3 DEF Init, ProgressInit, OnceInv, OneTerminalEventPerJob
<1>2. WaitTypeOK /\ WaitTypeOK' /\ OnceInv /\ [Next]_vars => OnceInv'
  <2>. SUFFICES ASSUME WaitTypeOK, WaitTypeOK', OnceInv, [Next]_vars
                PROVE  OnceInv'
    OBVIOUS
  <2>1. CASE UNCHANGED vars
    BY <2>1, JobsStay, TapStays
       DEF vars, progressVars, tapVars, seedVars, OnceInv
  <2>2. CASE TapNext /\ UNCHANGED <<callerVars, seedVars>>
    BY <2>2, TapStepOnce DEF TapNext, TapActs
  <2>3. CASE CallerNext
    BY <2>3, CallerOnce DEF CallerNext, CallerActs
  <2>4. CASE SeedNext
    BY <2>4, SeedOnce
  <2>. QED  BY <2>1, <2>2, <2>3, <2>4 DEF Next
<1>3. OnceInv => OneTerminalEventPerJob
  BY DEF OnceInv
<1>. QED  BY <1>1, <1>2, <1>3, WaitTypeCorrect, PTL DEF Spec
=============================================================================
