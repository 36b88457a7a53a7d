-------------------------- MODULE RunReportProofs ---------------------------
(***************************************************************************)
(* What holds of a run that one operator works on, command after command:  *)
(* its active seed batches are disjoint, and a quiet run is reported for   *)
(* what it is.  If no thread crashes, no connection is dropped, no command *)
(* fails and only parked jobs are replayed, there is one trace of every    *)
(* job at a time, from which it follows that no two threads execute the    *)
(* same stage of it and that the attempts are counted exactly.             *)
(***************************************************************************)
EXTENDS RunReport, StagedRuntimeDeliveryProofs, FiniteSetTheorems

OneOperator == \A o, p \in Operator : o = p

-----------------------------------------------------------------------------
(* Active batches *)

(***************************************************************************)
(* A command that holds a batch has not closed it, and what was checked    *)
(* for conflicts is still free when the batch is inserted: between the two *)
(* calls of create_seed_batch no other command runs.                       *)
(***************************************************************************)
OpenBatches ==
    \A o \in Operator :
        batch[o] # 0 => seedBatches[batch[o]].status = "created"

CheckedIsFree ==
    \A o \in Operator :
        task[o] = "checked" => \A js \in toMark[o] : js[1] \notin ActiveSeedJobs

BatchInv ==
    /\ CommandShape
    /\ OpenBatches
    /\ CheckedIsFree
    /\ ActiveBatchesDisjoint

LEMMA ActiveSeedJob ==
    ASSUME NEW j
    PROVE  j \in ActiveSeedJobs
              <=> \E b \in 1 .. Len(seedBatches) :
                     /\ seedBatches[b].status # "failed"
                     /\ j \in seedBatches[b].job_ids
BY DEF ActiveSeedJobs

LEMMA OpenBatchesStep ==
    ASSUME OneOperator, TypeOK, TypeOK', BatchInv, [Next]_vars
    PROVE  OpenBatches'
<1>. SUFFICES ASSUME NEW o \in Operator, batch'[o] # 0
              PROVE  seedBatches'[batch'[o]].status = "created"
  BY DEF OpenBatches
<1>1. batch'[o] \in 1 .. Len(seedBatches')
  BY DEF TypeOK, OperatorTypeOK, StoreTypeOK
<1>2. CASE CreateSeedBatch(o)
  <2>1. batch'[o] = Len(seedBatches) + 1 /\ Len(seedBatches) \in Nat
    BY <1>2 DEF CreateSeedBatch, TypeOK, OperatorTypeOK, StoreTypeOK
  <2>. QED  BY <1>1, <2>1, BatchStep
<1>3. CASE ~CreateSeedBatch(o)
  <2>1. batch'[o] = batch[o]
    BY <1>3, CommandBatchStep DEF BatchInv
  <2>2. batch[o] # 0 /\ batch[o] # Len(seedBatches) + 1
    BY <2>1 DEF TypeOK, OperatorTypeOK, StoreTypeOK
  <2>3. ASSUME NEW p \in Operator, CloseSeedBatch(p) \/ Abort(p)
        PROVE  FALSE
    BY <2>3 DEF OneOperator, CloseSeedBatch, Abort, EndCommand, TypeOK,
                OperatorTypeOK
  <2>4. seedBatches'[batch[o]].status = seedBatches[batch[o]].status
    BY <1>1, <2>1, <2>2, <2>3, BatchStep
  <2>. QED  BY <2>1, <2>2, <2>4 DEF BatchInv, OpenBatches
<1>. QED  BY <1>2, <1>3

LEMMA CheckedIsFreeStep ==
    ASSUME OneOperator, TypeOK, BatchInv, [Next]_vars
    PROVE  CheckedIsFree'
<1>. SUFFICES ASSUME NEW o \in Operator, task'[o] = "checked",
                     NEW js \in toMark'[o]
              PROVE  js[1] \notin ActiveSeedJobs'
  BY DEF CheckedIsFree
<1>1. ASSUME task[o] = "checked", toMark'[o] = toMark[o],
             UNCHANGED seedBatches
      PROVE  js[1] \notin ActiveSeedJobs'
  BY <1>1 DEF BatchInv, CheckedIsFree, ActiveSeedJobs
<1>2. ASSUME NEW jobs \in SUBSET Job, CheckSeedBatch(o, jobs)
      PROVE  js[1] \notin ActiveSeedJobs'
  <2>1. js[1] \in jobs
    BY <1>2 DEF CheckSeedBatch, FirstStage, TypeOK, OperatorTypeOK
  <2>2. ActiveSeedJobs' = ActiveSeedJobs
    BY <1>2 DEF CheckSeedBatch, storeVars, ActiveSeedJobs
  <2>. QED  BY <1>2, <2>1, <2>2 DEF CheckSeedBatch
<1>3. ASSUME NEW p \in Operator,
             \/ CreateSeedBatch(p) \/ CloseSeedBatch(p) \/ Abort(p) \/ Kill(p)
             \/ \E statuses : ReadReplayable(p, statuses)
             \/ \E x : MarkPending(p, x) \/ PublishPending(p, x)
      PROVE  FALSE
  <2>1. p = o
    BY DEF OneOperator
  <2>. QED
    BY <1>3, <2>1
       DEF CreateSeedBatch, CloseSeedBatch, Abort, Kill, EndCommand,
           ReadReplayable, MarkPending, PublishPending, Become, TypeOK,
           OperatorTypeOK
<1>4. CASE UNCHANGED <<seedBatches, operatorVars>>
  BY <1>1, <1>4 DEF operatorVars
<1>5. ASSUME NEW x \in Target, Hold(x) \/ ReleaseHold(x)
      PROVE  js[1] \notin ActiveSeedJobs'
  BY <1>1, <1>5 DEF Hold, ReleaseHold, operatorVars
<1>6. CASE OperatorNext
  <2>1. \A p \in Operator : p = o
    BY DEF OneOperator
  <2>. QED  BY <1>2, <1>3, <1>5, <1>6, <2>1 DEF OperatorNext, OperatorStep
<1>7. CASE WorkerNext /\ UNCHANGED operatorVars
  <2>1. UNCHANGED seedBatches
    BY <1>7
       DEF WorkerNext, WorkerStep, Deliver, NackOnStop, CheckHold, HoldJob,
           MarkRunning, AppendStarted, AppendOutput, CountAttempts,
           InsertJobAttempt, RecordFailure, Publish, PublishLost,
           MarkCompleted, Ack, ConnectionError, LeaveLoop, Crash,
           DropConnection, StopPool, StartPool, WriteState, WriteEvent,
           storeVars
  <2>. QED  BY <1>4, <1>7, <2>1
<1>. QED  BY <1>4, <1>6, <1>7 DEF Next, vars, storeVars

LEMMA DisjointStep ==
    ASSUME TypeOK, BatchInv, [Next]_vars
    PROVE  ActiveBatchesDisjoint'
<1>. DEFINE Old(b) == /\ b \in 1 .. Len(seedBatches)
                      /\ seedBatches[b].status # "failed"
                      /\ seedBatches'[b].job_ids = seedBatches[b].job_ids
            New(b) == /\ b = Len(seedBatches) + 1
                      /\ \A j \in seedBatches'[b].job_ids :
                            j \notin ActiveSeedJobs
<1>1. ASSUME NEW b \in 1 .. Len(seedBatches'),
             seedBatches'[b].status # "failed"
      PROVE  Old(b) \/ New(b)
  <2>1. ASSUME NEW o \in Operator, CloseSeedBatch(o), b = batch[o],
               b \in 1 .. Len(seedBatches)
        PROVE  seedBatches[b].status # "failed"
    <3>1. batch[o] # 0
      BY <2>1 DEF TypeOK, StoreTypeOK
    <3>. QED  BY <2>1, <3>1 DEF BatchInv, OpenBatches
  <2>2. ASSUME NEW o \in Operator, CreateSeedBatch(o),
               seedBatches'[b].job_ids = {js[1] : js \in toMark[o]}
        PROVE  \A j \in seedBatches'[b].job_ids : j \notin ActiveSeedJobs
    BY <2>2 DEF CreateSeedBatch, Does, BatchInv, CheckedIsFree
  <2>. QED  BY <1>1, <2>1, <2>2, BatchStep
<1>2. ASSUME NEW a, NEW b, Old(a), New(b)
      PROVE  seedBatches'[a].job_ids \cap seedBatches'[b].job_ids = {}
  BY <1>2, ActiveSeedJob
<1>3. ASSUME NEW a, NEW b, a # b, Old(a), Old(b)
      PROVE  seedBatches'[a].job_ids \cap seedBatches'[b].job_ids = {}
  BY <1>3 DEF BatchInv, ActiveBatchesDisjoint
<1>. QED  BY <1>1, <1>2, <1>3 DEF ActiveBatchesDisjoint

LEMMA BatchInvariant ==
    ASSUME OneOperator
    PROVE  Spec => []BatchInv
<1>1. Init => BatchInv
  BY DEF Init, StoreInit, OperatorInit, BatchInv, CommandShape, OpenBatches,
         CheckedIsFree, ActiveBatchesDisjoint
<1>2. TypeOK /\ TypeOK' /\ BatchInv /\ [Next]_vars => BatchInv'
  BY ShapeStep, OpenBatchesStep, CheckedIsFreeStep, DisjointStep DEF BatchInv
<1>. QED  BY <1>1, <1>2, TypeCorrect, PTL DEF Spec

(***************************************************************************)
(* As long as one operator seeds at a time, no job is in two active seed   *)
(* batches, although create_seed_batch checks and inserts in two calls and *)
(* commands fail or are killed; so expected_job_count counts every job     *)
(* once.                                                                   *)
(***************************************************************************)
THEOREM SeedBatchesAreDisjoint ==
    ASSUME OneOperator
    PROVE  Spec => []ActiveBatchesDisjoint
BY BatchInvariant, PTL DEF BatchInv

-----------------------------------------------------------------------------
(* One trace of every job *)

(***************************************************************************)
(* The run of the theorems below: no thread crashes, no connection is      *)
(* dropped, no command fails, one operator works on the run and replays    *)
(* only what is parked (`replay` without --status selects no other).       *)
(***************************************************************************)
Undisturbed ==
    /\ MaxCrashes = 0
    /\ MaxDrops = 0
    /\ MaxAborts = 0
    /\ OneOperator
    /\ ReplaySelections \subseteq SUBSET ParkedStatuses

(***************************************************************************)
(* A trace of a job is a message, an undecided delivery, a parked document *)
(* or an entry in the operator's hand.                                     *)
(***************************************************************************)
Token == ({"queued"} \X Queue) \cup ({"worked"} \X Worker)
             \cup ({"parked"} \X Stage) \cup ({"handed"} \X Stage)

Carries(t, j) ==
    \/ t[1] = "queued" /\ ready[<<t[2], j>>] > 0
    \/ t[1] = "worked" /\ delivered[t[2]] = j /\ pc[t[2]] \in Undecided
    \/ t[1] = "parked" /\ StatusOf(j, t[2]) \in ParkedStatuses
    \/ t[1] = "handed" /\ HandedAt(j, t[2])

Place(t) == IF t[1] = "worked" THEN StageOf(t[2]) ELSE t[2]

\* Nothing of the job exists in the run, nor did it before.
Fresh(j) ==
    /\ \A t \in Token : ~Carries(t, j)
    /\ \A w \in Worker : delivered[w] # j

\* A seed command of o has still to mark job j.
WillSeed(o, j) == <<j, 1>> \in toMark[o] /\ (task[o] = "checked" \/ batch[o] # 0)

OneToken ==
    \A j \in Job, t, u \in Token : Carries(t, j) /\ Carries(u, j) => t = u

OneMessage == \A j \in Job, q \in Queue : ready[<<q, j>>] <= 1

\* Whoever has published a job from a stage is behind it.
PublishedIsBehind ==
    \A w \in Worker :
        pc[w] = "published" =>
            /\ \A t \in Token : Carries(t, delivered[w]) => Place(t) > StageOf(w)
            /\ \A v \in Worker :
                  /\ pc[v] = "published"
                  /\ delivered[v] = delivered[w]
                  /\ StageOf(v) = StageOf(w)
                  => v = w

\* A seed finds no trace of its jobs.
SeedsAreFresh ==
    /\ \A j \in Job : j \notin ActiveSeedJobs => Fresh(j)
    /\ \A o \in Operator, j \in Job : WillSeed(o, j) => Fresh(j)
    /\ \A o \in Operator, j \in Job :
          batch[o] # 0 /\ <<j, 1>> \in toMark[o]
              => j \in seedBatches[batch[o]].job_ids

\* A replay finds its documents as it read them.
ReplaysAreParked ==
    \A o \in Operator :
        task[o] = "marking" /\ batch[o] = 0
            => \A js \in toMark[o] : StatusOf(js[1], js[2]) \in ParkedStatuses

SeedsFirstStage ==
    \A o \in Operator : batch[o] # 0 => \A js \in toMark[o] : js[2] = 1

NoneFailed ==
    \A b \in 1 .. Len(seedBatches) : seedBatches[b].status # "failed"

TokenInv ==
    /\ BatchInv
    /\ AllConnected
    /\ OneToken
    /\ OneMessage
    /\ PublishedIsBehind
    /\ SeedsAreFresh
    /\ ReplaysAreParked
    /\ SeedsFirstStage
    /\ NoneFailed

-----------------------------------------------------------------------------
(* How the token of a job moves *)

Stays(j) == \A t \in Token : Carries(t, j)' => Carries(t, j)

Moves(j, from, to) ==
    /\ Carries(from, j)
    /\ Place(from) <= Place(to)
    /\ \A t \in Token : Carries(t, j)' => t = to

\* A seed marks the job.
Appears(j) ==
    /\ \E o \in Operator :
          batch[o] # 0 /\ <<j, 1>> \in toMark[o] \ toMark'[o]
    /\ Fresh(j)
    /\ \A t \in Token : Carries(t, j)' => t = <<"handed", 1>>

TokenStep(j) ==
    \/ Stays(j)
    \/ \E from, to \in Token : Moves(j, from, to)
    \/ Appears(j)

\* The tokens of a job are its only one, until a step makes another.
LEMMA MoveRule ==
    ASSUME OneToken, NEW j \in Job, NEW from \in Token, NEW to \in Token,
           Carries(from, j), Place(from) <= Place(to),
           \A t \in Token : Carries(t, j)' => t = to \/ (t # from /\ Carries(t, j))
    PROVE  TokenStep(j)
BY DEF TokenStep, Moves, OneToken

\* A token is of one of four kinds.
LEMMA TokenKind ==
    ASSUME NEW t \in Token
    PROVE  \/ \E q \in Queue : t = <<"queued", q>>
           \/ \E w \in Worker : t = <<"worked", w>>
           \/ \E s \in Stage : t = <<"parked", s>>
           \/ \E s \in Stage : t = <<"handed", s>>
BY DEF Token

LEMMA CarriesKind ==
    ASSUME NEW j, NEW x
    PROVE  /\ Carries(<<"queued", x>>, j) <=> ready[<<x, j>>] > 0
           /\ Carries(<<"worked", x>>, j)
                 <=> delivered[x] = j /\ pc[x] \in Undecided
           /\ Carries(<<"parked", x>>, j) <=> StatusOf(j, x) \in ParkedStatuses
           /\ Carries(<<"handed", x>>, j) <=> HandedAt(j, x)
           /\ Carries(<<"queued", x>>, j)' <=> ready'[<<x, j>>] > 0
           /\ Carries(<<"worked", x>>, j)'
                 <=> delivered'[x] = j /\ pc'[x] \in Undecided
           /\ Carries(<<"parked", x>>, j)'
                 <=> StatusOf(j, x)' \in ParkedStatuses
           /\ Carries(<<"handed", x>>, j)' <=> HandedAt(j, x)'
BY DEF Carries

\* Tokens of all kinds that a step leaves alone.
LEMMA StayRule ==
    ASSUME NEW j \in Job,
           \A q \in Queue : ready'[<<q, j>>] > 0 => ready[<<q, j>>] > 0,
           \A w \in Worker :
              delivered'[w] = j /\ pc'[w] \in Undecided
                 => delivered[w] = j /\ pc[w] \in Undecided,
           \A s \in Stage : StatusOf(j, s)' \in ParkedStatuses
                               => StatusOf(j, s) \in ParkedStatuses,
           \A s \in Stage : HandedAt(j, s)' => HandedAt(j, s)
    PROVE  TokenStep(j)
<1>1. ASSUME NEW t \in Token, Carries(t, j)'
      PROVE  Carries(t, j)
  <2>1. ASSUME NEW q \in Queue, t = <<"queued", q>>
        PROVE  Carries(t, j)
    <3>1. ready'[<<q, j>>] > 0
      BY <1>1, <2>1 DEF Carries
    <3>. QED  BY <2>1, <3>1 DEF Carries
  <2>2. CASE \E w \in Worker : t = <<"worked", w>>
    BY <1>1, <2>2, CarriesKind
  <2>3. CASE \E s \in Stage : t = <<"parked", s>>
    BY <1>1, <2>3, CarriesKind
  <2>4. CASE \E s \in Stage : t = <<"handed", s>>
    BY <1>1, <2>4, CarriesKind
  <2>. QED  BY <2>1, <2>2, <2>3, <2>4, TokenKind
<1>. QED  BY <1>1 DEF TokenStep, Stays

\* Deliver, Publish, NackOnStop, HoldJob, RecordFailure, MarkPending and
\* PublishPending move the token of one job.
LEMMA TokenMoveRule ==
    ASSUME OneToken, NEW j \in Job, NEW from \in Token, NEW to \in Token,
           Carries(from, j), Place(from) <= Place(to),
           \A q \in Queue : ready'[<<q, j>>] > 0
              => \/ to = <<"queued", q>>
                 \/ from # <<"queued", q>> /\ ready[<<q, j>>] > 0,
           \A w \in Worker : delivered'[w] = j /\ pc'[w] \in Undecided
              => \/ to = <<"worked", w>>
                 \/ from # <<"worked", w>> /\ delivered[w] = j /\ pc[w] \in Undecided,
           \A s \in Stage : StatusOf(j, s)' \in ParkedStatuses
              => \/ to = <<"parked", s>>
                 \/ from # <<"parked", s>> /\ StatusOf(j, s) \in ParkedStatuses,
           \A s \in Stage : HandedAt(j, s)'
              => \/ to = <<"handed", s>>
                 \/ from # <<"handed", s>> /\ HandedAt(j, s)
    PROVE  TokenStep(j)
<1>1. ASSUME NEW t \in Token, Carries(t, j)'
      PROVE  t = to \/ (t # from /\ Carries(t, j))
  <2>1. ASSUME NEW q \in Queue, t = <<"queued", q>>
        PROVE  t = to \/ (t # from /\ Carries(t, j))
    <3>1. ready'[<<q, j>>] > 0
      BY <1>1, <2>1 DEF Carries
    <3>. QED  BY <2>1, <3>1 DEF Carries
  <2>2. CASE \E w \in Worker : t = <<"worked", w>>
    BY <1>1, <2>2, CarriesKind
  <2>3. CASE \E s \in Stage : t = <<"parked", s>>
    BY <1>1, <2>3, CarriesKind
  <2>4. CASE \E s \in Stage : t = <<"handed", s>>
    BY <1>1, <2>4, CarriesKind
  <2>. QED  BY <2>1, <2>2, <2>3, <2>4, TokenKind
<1>. QED  BY <1>1, MoveRule

\* A step of thread w that neither makes a token nor ends one.
LEMMA WorkerStays ==
    ASSUME NEW w \in Worker, NEW j \in Job,
           \A v \in Worker \ {w} : pc'[v] = pc[v] /\ delivered'[v] = delivered[v],
           delivered'[w] = j /\ pc'[w] \in Undecided
              => delivered[w] = j /\ pc[w] \in Undecided,
           UNCHANGED inHand,
           \A q \in Queue : ready'[<<q, j>>] > 0 => ready[<<q, j>>] > 0,
           \A s \in Stage : StatusOf(j, s)' \in ParkedStatuses
                               => StatusOf(j, s) \in ParkedStatuses
    PROVE  TokenStep(j)
<1>1. \A v \in Worker : delivered'[v] = j /\ pc'[v] \in Undecided
                           => delivered[v] = j /\ pc[v] \in Undecided
  OBVIOUS
<1>2. \A s \in Stage : HandedAt(j, s)' => HandedAt(j, s)
  BY DEF HandedAt
<1>. QED  BY <1>1, <1>2, StayRule

\* A step of thread w that ends its own token and may make another.
LEMMA WorkerMoves ==
    ASSUME OneToken, NEW w \in Worker, NEW j \in Job, NEW to \in Token,
           \A v \in Worker \ {w} : pc'[v] = pc[v] /\ delivered'[v] = delivered[v],
           delivered[w] = j, pc[w] \in Undecided, pc'[w] \notin Undecided,
           StageOf(w) <= Place(to),
           UNCHANGED inHand,
           \A q \in Queue : ready'[<<q, j>>] > 0
              => to = <<"queued", q>> \/ ready[<<q, j>>] > 0,
           \A s \in Stage : StatusOf(j, s)' \in ParkedStatuses
              => to = <<"parked", s>> \/ StatusOf(j, s) \in ParkedStatuses
    PROVE  TokenStep(j)
<1>. DEFINE from == <<"worked", w>>
<1>1. from \in Token /\ Carries(from, j) /\ Place(from) <= Place(to)
  BY DEF Token, Carries, Place
<1>2. /\ \A q \in Queue : from # <<"queued", q>>
      /\ \A s \in Stage : from # <<"parked", s>> /\ from # <<"handed", s>>
  OBVIOUS
<1>3. \A v \in Worker : delivered'[v] = j /\ pc'[v] \in Undecided
         => from # <<"worked", v>> /\ delivered[v] = j /\ pc[v] \in Undecided
  OBVIOUS
<1>4. \A s \in Stage : HandedAt(j, s)' => HandedAt(j, s)
  BY DEF HandedAt
<1>. HIDE DEF from
<1>. QED  BY <1>1, <1>2, <1>3, <1>4, TokenMoveRule

\* A thread with a token of a job on its hands is alone with it.
LEMMA AloneWithJob ==
    ASSUME OneToken, NEW w \in Worker, pc[w] \in Undecided,
           delivered[w] \in Job, StageOf(w) \in Stage
    PROVE  /\ StatusOf(delivered[w], StageOf(w)) \notin ParkedStatuses
           /\ \A q \in Queue : ~(ready[<<q, delivered[w]>>] > 0)
<1>. DEFINE j == delivered[w]
            from == <<"worked", w>>
<1>1. from \in Token /\ Carries(from, j)
  BY DEF Token, Carries
<1>2. ASSUME StatusOf(j, StageOf(w)) \in ParkedStatuses
      PROVE  FALSE
  <2>1. <<"parked", StageOf(w)>> \in Token /\ Carries(<<"parked", StageOf(w)>>, j)
    BY <1>2 DEF Token, Carries
  <2>. QED  BY <1>1, <2>1 DEF OneToken
<1>3. ASSUME NEW q \in Queue, ready[<<q, j>>] > 0
      PROVE  FALSE
  <2>1. <<"queued", q>> \in Token /\ Carries(<<"queued", q>>, j)
    BY <1>3 DEF Token, Carries
  <2>. QED  BY <1>1, <2>1 DEF OneToken
<1>. QED  BY <1>2, <1>3

LEMMA TokenDeliver ==
    ASSUME TypeOK, OneToken, OneMessage, UNCHANGED operatorVars,
           NEW w \in Worker, NEW i \in Job, Deliver(w, i), NEW j \in Job
    PROVE  TokenStep(j)
<1>. DEFINE s == StageOf(w)
<1>1. /\ \A v \in Worker \ {w} : pc'[v] = pc[v] /\ delivered'[v] = delivered[v]
      /\ UNCHANGED <<inHand, jobStates>>
      /\ pc'[w] = "received" /\ delivered'[w] = i /\ pc[w] = "idle"
  BY OthersKept
     DEF Deliver, At, Goto, storeVars, operatorVars, TypeOK, WorkerTypeOK
<1>2. s \in Stage /\ s \in Queue
  BY StageOfType, ManifestAssumption DEF Stage, Queue
<1>3. /\ ready[<<s, i>>] = 1
      /\ \A q \in Queue : ready'[<<q, j>>] > 0
            => ready[<<q, j>>] > 0 /\ ~(q = s /\ i = j)
  BY <1>2 DEF Deliver, Dequeue, StageInputQueue, OneMessage, TypeOK,
              BrokerTypeOK
<1>4. CASE i # j
  BY <1>1, <1>3, <1>4, WorkerStays DEF StatusOf
<1>5. CASE i = j
  <2>. DEFINE from == <<"queued", s>>
              to == <<"worked", w>>
  <2>1. /\ from \in Token /\ to \in Token /\ Carries(from, j)
        /\ Place(from) <= Place(to)
    BY <1>2, <1>3, <1>5 DEF Token, Carries, Place, Stage
  <2>2. \A q \in Queue : ready'[<<q, j>>] > 0
           => from # <<"queued", q>> /\ ready[<<q, j>>] > 0
    BY <1>3, <1>5
  <2>3. \A v \in Worker : delivered'[v] = j /\ pc'[v] \in Undecided
           => \/ to = <<"worked", v>>
              \/ from # <<"worked", v>> /\ delivered[v] = j /\ pc[v] \in Undecided
    BY <1>1
  <2>4. /\ \A r \in Stage : StatusOf(j, r)' \in ParkedStatuses
              => from # <<"parked", r>> /\ StatusOf(j, r) \in ParkedStatuses
        /\ \A r \in Stage : HandedAt(j, r)'
              => from # <<"handed", r>> /\ HandedAt(j, r)
    BY <1>1 DEF StatusOf, HandedAt
  <2>. HIDE DEF from, to
  <2>. QED  BY <2>1, <2>2, <2>3, <2>4, TokenMoveRule
<1>. QED  BY <1>4, <1>5

LEMMA TokenWorkerStep ==
    ASSUME TypeOK, AllConnected, OneToken, UNCHANGED operatorVars,
           NEW w \in Worker, WorkerStep(w), NEW j \in Job
    PROVE  TokenStep(j)
<1>. DEFINE s == StageOf(w)
<1>1. /\ \A v \in Worker \ {w} : pc'[v] = pc[v] /\ delivered'[v] = delivered[v]
      /\ UNCHANGED inHand
  BY OthersKept DEF operatorVars
<1>2. s \in Stage /\ s \in Queue /\ s + 1 \in Queue /\ s \in Nat
  BY StageOfType, ManifestAssumption DEF Stage, Queue
<1>3. pc[w] \in Busy => delivered[w] \in Job
  BY DEF TypeOK, WorkerTypeOK
<1>4. Undecided \subseteq Busy
  BY DEF Undecided
\* Steps that write neither a queue nor a document.
<1>5. CASE CheckHold(w) \/ AppendStarted(w) \/ AppendOutput(w)
             \/ CountAttempts(w) \/ InsertJobAttempt(w)
  <2>1. /\ pc[w] \in Undecided
        /\ UNCHANGED <<ready, jobStates, delivered>>
    BY <1>5 DEF CheckHold, AppendStarted, AppendOutput, CountAttempts,
                InsertJobAttempt, WriteEvent, At, Goto, KeepDelivery,
                Undecided, Busy, storeVars
  <2>. QED  BY <1>1, <2>1, WorkerStays DEF StatusOf
<1>6. CASE Ack(w) \/ LeaveLoop(w)
  <2>1. pc'[w] \notin Undecided /\ UNCHANGED <<ready, jobStates>>
    BY <1>6 DEF Ack, LeaveLoop, Release, Goto, Undecided, Busy, storeVars,
                TypeOK, WorkerTypeOK
  <2>. QED  BY <1>1, <2>1, WorkerStays DEF StatusOf
<1>7. CASE PublishLost(w) \/ ConnectionError(w)
  BY <1>7 DEF PublishLost, ConnectionError, AllConnected
<1>8. CASE NackOnStop(w)
  <2>1. /\ pc[w] \in Undecided /\ pc[w] \in Busy /\ pc'[w] \notin Undecided
        /\ UNCHANGED jobStates /\ Requeue(w)
    BY <1>8 DEF NackOnStop, At, Release, Goto, Undecided, Busy, storeVars,
                TypeOK, WorkerTypeOK
  <2>2. \A q \in Queue : ready'[<<q, j>>] > 0
           => ready[<<q, j>>] > 0 \/ (delivered[w] = j /\ s = q)
    BY <2>1, RequeueEffect
  <2>3. CASE delivered[w] # j
    BY <1>1, <2>1, <2>2, <2>3, WorkerStays DEF StatusOf
  <2>4. CASE delivered[w] = j
    <3>. DEFINE to == <<"queued", s>>
    <3>1. to \in Token /\ s <= Place(to)
      BY <1>2 DEF Token, Place
    <3>2. \A q \in Queue : ready'[<<q, j>>] > 0
             => to = <<"queued", q>> \/ ready[<<q, j>>] > 0
      BY <2>2
    <3>. HIDE DEF to
    <3>. QED  BY <1>1, <2>1, <2>4, <3>1, <3>2, WorkerMoves DEF StatusOf
  <2>. QED  BY <2>3, <2>4
<1>9. CASE Publish(w)
  <2>1. /\ pc[w] \in Undecided /\ pc[w] \in Busy /\ pc'[w] \notin Undecided
        /\ UNCHANGED jobStates /\ Enqueue(s + 1, delivered[w])
    BY <1>9 DEF Publish, At, Goto, Undecided, Busy, storeVars, TypeOK,
                WorkerTypeOK, StageOutputQueue
  <2>2. \A q \in Queue : ready'[<<q, j>>] > 0
           => ready[<<q, j>>] > 0 \/ (delivered[w] = j /\ s + 1 = q)
    BY <1>2, <1>3, <2>1, EnqueueEffect
  <2>3. CASE delivered[w] # j
    BY <1>1, <2>1, <2>2, <2>3, WorkerStays DEF StatusOf
  <2>4. CASE delivered[w] = j
    <3>. DEFINE to == <<"queued", s + 1>>
    <3>1. to \in Token /\ s <= Place(to)
      BY <1>2 DEF Token, Place
    <3>2. \A q \in Queue : ready'[<<q, j>>] > 0
             => to = <<"queued", q>> \/ ready[<<q, j>>] > 0
      BY <2>2
    <3>. HIDE DEF to
    <3>. QED  BY <1>1, <2>1, <2>4, <3>1, <3>2, WorkerMoves DEF StatusOf
  <2>. QED  BY <2>3, <2>4
\* Steps that write a document.
<1>10. ASSUME NEW status, pc[w] \in Busy,
              \A r \in Stage : StatusOf(j, r)' =
                 IF delivered[w] = j /\ s = r THEN status ELSE StatusOf(j, r),
              UNCHANGED <<ready, delivered>>,
              pc[w] \in Undecided /\ pc'[w] \notin Undecided
       PROVE  TokenStep(j)
  <2>1. CASE delivered[w] # j
    BY <1>1, <1>10, <2>1, WorkerStays
  <2>2. CASE delivered[w] = j
    <3>. DEFINE to == <<"parked", s>>
    <3>1. to \in Token /\ s <= Place(to)
      BY <1>2 DEF Token, Place
    <3>2. \A r \in Stage : StatusOf(j, r)' \in ParkedStatuses
             => to = <<"parked", r>> \/ StatusOf(j, r) \in ParkedStatuses
      BY <1>10
    <3>. HIDE DEF to
    <3>. QED  BY <1>1, <1>10, <2>2, <3>1, <3>2, WorkerMoves
  <2>. QED  BY <2>1, <2>2
<1>11. CASE HoldJob(w)
  <2>1. /\ pc[w] \in Busy /\ pc[w] \in Undecided /\ pc'[w] \notin Undecided
        /\ UNCHANGED <<ready, delivered>>
        /\ UpsertJobState(delivered[w], s, "held")
    BY <1>11 DEF HoldJob, WriteState, At, Goto, KeepDelivery, Undecided,
                 Busy, TypeOK, WorkerTypeOK
  <2>2. \A r \in Stage : StatusOf(j, r)' =
           IF delivered[w] = j /\ s = r THEN "held" ELSE StatusOf(j, r)
    BY <1>2, <1>3, <2>1, UpsertEffect DEF JobStateStatus
  <2>. QED  BY <1>10, <2>1, <2>2
<1>12. CASE RecordFailure(w)
  <2>1. /\ pc[w] \in Busy /\ pc[w] \in Undecided /\ pc'[w] \notin Undecided
        /\ UNCHANGED <<ready, delivered>> /\ attemptNumber[w] \in Nat
        /\ UpsertFailure(delivered[w], s, attemptNumber[w])
    BY <1>12 DEF RecordFailure, At, Goto, KeepDelivery, Undecided, Busy,
                 TypeOK, WorkerTypeOK
  <2>2. \A r \in Stage : StatusOf(j, r)' =
           IF delivered[w] = j /\ s = r THEN AttemptAction(attemptNumber[w])
                                        ELSE StatusOf(j, r)
    BY <1>2, <1>3, <2>1, UpsertFailureEffect
  <2>. QED  BY <1>10, <2>1, <2>2
<1>13. CASE MarkRunning(w) \/ MarkCompleted(w)
  <2>1. /\ pc[w] \in Busy
        /\ pc'[w] \in Undecided => pc[w] \in Undecided
        /\ UNCHANGED <<ready, delivered>>
    BY <1>13 DEF MarkRunning, MarkCompleted, WriteState, At, Goto,
                 KeepDelivery, Undecided, Busy, TypeOK, WorkerTypeOK
  <2>2. PICK status \in {"running", "completed"} :
           UpsertJobState(delivered[w], s, status)
    BY <1>13 DEF MarkRunning, MarkCompleted, WriteState
  <2>3. \A r \in Stage : StatusOf(j, r)' =
           IF delivered[w] = j /\ s = r THEN status ELSE StatusOf(j, r)
    BY <1>2, <1>3, <2>1, <2>2, UpsertEffect DEF JobStateStatus
  <2>4. status \notin ParkedStatuses
    BY DEF ParkedStatuses
  <2>. QED  BY <1>1, <2>1, <2>3, <2>4, WorkerStays
<1>. QED
  BY <1>5, <1>6, <1>7, <1>8, <1>9, <1>11, <1>12, <1>13 DEF WorkerStep

LEMMA TokenMarkPending ==
    ASSUME TypeOK, OneToken, SeedsAreFresh, ReplaysAreParked, SeedsFirstStage,
           UNCHANGED workerVars, NEW o \in Operator, NEW js \in toMark[o],
           MarkPending(o, js), NEW j \in Job
    PROVE  TokenStep(j)
<1>1. PICK i \in Job, s \in Stage : js = <<i, s>>
  BY DEF TypeOK, OperatorTypeOK
<1>2. /\ UNCHANGED <<ready, pc, delivered>>
      /\ \A r \in Stage : StatusOf(j, r)' =
            IF i = j /\ s = r THEN "pending" ELSE StatusOf(j, r)
  BY <1>1, UpsertEffect DEF MarkPending, JobStateStatus, workerVars
<1>3. \A r \in Stage : HandedAt(j, r)' => HandedAt(j, r) \/ (i = j /\ s = r)
  BY <1>1 DEF MarkPending, HandedAt, TypeOK, OperatorTypeOK
<1>4. CASE i # j
  BY <1>2, <1>3, <1>4, StayRule
<1>5. CASE i = j /\ batch[o] = 0
  <2>. DEFINE from == <<"parked", s>>
              to == <<"handed", s>>
  <2>1. StatusOf(j, s) \in ParkedStatuses
    BY <1>1, <1>5 DEF MarkPending, Does, ReplaysAreParked
  <2>2. /\ from \in Token /\ to \in Token /\ Carries(from, j)
        /\ Place(from) <= Place(to)
    BY <2>1 DEF Token, Carries, Place, Stage
  <2>3. \A r \in Stage : StatusOf(j, r)' \in ParkedStatuses
           => from # <<"parked", r>> /\ StatusOf(j, r) \in ParkedStatuses
    BY <1>2, <1>5 DEF ParkedStatuses
  <2>4. \A r \in Stage : HandedAt(j, r)'
           => to = <<"handed", r>> \/ (from # <<"handed", r>> /\ HandedAt(j, r))
    BY <1>3
  <2>5. /\ \A q \in Queue : from # <<"queued", q>>
        /\ \A v \in Worker : from # <<"worked", v>>
    OBVIOUS
  <2>. HIDE DEF from, to
  <2>. QED  BY <1>2, <2>2, <2>3, <2>4, <2>5, TokenMoveRule
<1>6. CASE i = j /\ batch[o] # 0
  <2>1. s = 1 /\ js = <<j, 1>>
    BY <1>1, <1>6 DEF SeedsFirstStage
  <2>2. Fresh(j)
    BY <1>6, <2>1 DEF SeedsAreFresh, WillSeed
  <2>3. js \notin toMark'[o]
    BY DEF MarkPending, TypeOK, OperatorTypeOK
  <2>4. ASSUME NEW t \in Token, Carries(t, j)'
        PROVE  t = <<"handed", 1>>
    <3>1. ~Carries(t, j)
      BY <2>2 DEF Fresh
    <3>2. ASSUME NEW q \in Queue, t = <<"queued", q>>
          PROVE  FALSE
      BY <1>2, <2>4, <3>1, <3>2 DEF Carries
    <3>3. ASSUME NEW v \in Worker, t = <<"worked", v>>
          PROVE  FALSE
      <4>1. delivered'[v] = j /\ pc'[v] \in Undecided
        BY <2>4, <3>3 DEF Carries
      <4>. QED  BY <1>2, <3>1, <3>3, <4>1 DEF Carries
    <3>4. ASSUME NEW r \in Stage, t = <<"parked", r>>
          PROVE  FALSE
      <4>1. StatusOf(j, r)' \in ParkedStatuses
        BY <2>4, <3>4 DEF Carries
      <4>2. StatusOf(j, r) \in ParkedStatuses
        BY <1>2, <4>1 DEF ParkedStatuses
      <4>. QED  BY <3>1, <3>4, <4>2 DEF Carries
    <3>5. ASSUME NEW r \in Stage, t = <<"handed", r>>
          PROVE  t = <<"handed", 1>>
      <4>1. HandedAt(j, r)' /\ ~HandedAt(j, r)
        BY <2>4, <3>1, <3>5 DEF Carries
      <4>. QED  BY <1>3, <2>1, <3>5, <4>1
    <3>. QED  BY <3>2, <3>3, <3>4, <3>5, TokenKind
  <2>. QED  BY <1>6, <2>1, <2>2, <2>3, <2>4 DEF TokenStep, Appears
<1>. QED  BY <1>4, <1>5, <1>6

LEMMA TokenPublishPending ==
    ASSUME OneOperator, TypeOK, OneToken, UNCHANGED workerVars,
           NEW o \in Operator, NEW js \in inHand[o], PublishPending(o, js),
           NEW j \in Job
    PROVE  TokenStep(j)
<1>1. PICK i \in Job, s \in Stage : js = <<i, s>>
  BY DEF TypeOK, OperatorTypeOK
<1>2. s \in Queue
  BY ManifestAssumption DEF Stage, Queue
<1>3. /\ UNCHANGED <<jobStates, pc, delivered>>
      /\ \A q \in Queue : ready'[<<q, j>>] > 0
            => ready[<<q, j>>] > 0 \/ (i = j /\ s = q)
  BY <1>1, <1>2, EnqueueEffect
     DEF PublishPending, StageInputQueue, storeVars, workerVars
<1>4. \A r \in Stage : HandedAt(j, r)' => HandedAt(j, r) /\ ~(i = j /\ s = r)
  BY <1>1 DEF PublishPending, HandedAt, OneOperator, TypeOK, OperatorTypeOK
<1>5. CASE i # j
  BY <1>3, <1>4, <1>5, StayRule DEF StatusOf
<1>6. CASE i = j
  <2>. DEFINE from == <<"handed", s>>
              to == <<"queued", s>>
  <2>1. /\ from \in Token /\ to \in Token /\ Carries(from, j)
        /\ Place(from) <= Place(to)
    BY <1>1, <1>2, <1>6 DEF Token, Carries, Place, HandedAt, Stage
  <2>2. \A q \in Queue : ready'[<<q, j>>] > 0
           => to = <<"queued", q>> \/ (from # <<"queued", q>> /\ ready[<<q, j>>] > 0)
    BY <1>3
  <2>3. \A r \in Stage : HandedAt(j, r)'
           => from # <<"handed", r>> /\ HandedAt(j, r)
    BY <1>4, <1>6
  <2>4. /\ \A r \in Stage : from # <<"parked", r>>
        /\ \A v \in Worker : from # <<"worked", v>>
    OBVIOUS
  <2>. HIDE DEF from, to
  <2>. QED  BY <1>3, <2>1, <2>2, <2>3, <2>4, TokenMoveRule DEF StatusOf
<1>. QED  BY <1>5, <1>6

\* In an undisturbed run the token of a job stays, moves, or appears.
LEMMA TokenSteps ==
    ASSUME Undisturbed, TypeOK, TokenInv, [Next]_vars, NEW j \in Job
    PROVE  TokenStep(j)
<1>. USE DEF TokenInv
<1>1. ASSUME UNCHANGED <<ready, jobStates, pc, delivered>>,
             \A r \in Stage : HandedAt(j, r)' => HandedAt(j, r)
      PROVE  TokenStep(j)
  BY <1>1, StayRule DEF StatusOf
<1>2. CASE UNCHANGED vars
  BY <1>1, <1>2 DEF vars, storeVars, workerVars, operatorVars, HandedAt
<1>3. ASSUME NEW w \in Worker, Crash(w) \/ DropConnection(w)
      PROVE  FALSE
  BY <1>3 DEF Crash, DropConnection, Undisturbed, TypeOK, WorkerTypeOK
<1>4. ASSUME NEW p \in Pool, StopPool(p) \/ StartPool(p), UNCHANGED operatorVars
      PROVE  TokenStep(j)
  <2>1. /\ UNCHANGED <<ready, jobStates, delivered, inHand>>
        /\ \A v \in Worker : pc'[v] \in Undecided => pc[v] \in Undecided
    BY <1>4 DEF StopPool, StartPool, KeepDelivery, Undecided, Busy, Ended,
                storeVars, operatorVars, TypeOK, WorkerTypeOK
  <2>. QED  BY <2>1, StayRule DEF StatusOf, HandedAt
<1>5. CASE WorkerNext /\ UNCHANGED operatorVars
  BY <1>3, <1>4, <1>5, TokenDeliver, TokenWorkerStep DEF WorkerNext
<1>6. ASSUME NEW o \in Operator, Abort(o) \/ Kill(o)
      PROVE  FALSE
  BY <1>6 DEF Abort, Kill, Undisturbed, TypeOK, OperatorTypeOK
<1>7. ASSUME NEW o \in Operator, UNCHANGED workerVars,
             \/ \E jobs \in SUBSET Job : CheckSeedBatch(o, jobs)
             \/ \E statuses : ReadReplayable(o, statuses)
             \/ CreateSeedBatch(o)
             \/ CloseSeedBatch(o)
      PROVE  TokenStep(j)
  <2>1. /\ UNCHANGED <<ready, jobStates, pc, delivered>>
        /\ \A p \in Operator : inHand'[p] \subseteq inHand[p]
    BY <1>7 DEF CheckSeedBatch, ReadReplayable, CreateSeedBatch,
                CloseSeedBatch, EndCommand, storeVars, workerVars, TypeOK,
                OperatorTypeOK
  <2>. QED  BY <1>1, <2>1 DEF HandedAt
<1>8. CASE OperatorNext /\ UNCHANGED workerVars
  <2>1. ASSUME NEW x \in Target, Hold(x) \/ ReleaseHold(x)
        PROVE  TokenStep(j)
    <3>1. UNCHANGED <<ready, jobStates, pc, delivered, inHand>>
      BY <1>8, <2>1 DEF Hold, ReleaseHold, workerVars, operatorVars
    <3>. QED  BY <1>1, <3>1 DEF HandedAt
  <2>. QED
    BY <1>6, <1>7, <1>8, <2>1, TokenMarkPending, TokenPublishPending
       DEF OperatorNext, OperatorStep, Undisturbed
<1>. QED  BY <1>2, <1>5, <1>8 DEF Next

-----------------------------------------------------------------------------
(* The invariant of an undisturbed run *)

LEMMA OneTokenStep ==
    ASSUME TokenInv, \A j \in Job : TokenStep(j)
    PROVE  OneToken'
<1>. SUFFICES ASSUME NEW j \in Job, NEW t \in Token, NEW u \in Token,
                     Carries(t, j)', Carries(u, j)'
              PROVE  t = u
  BY DEF OneToken, Token
<1>1. TokenStep(j)
  OBVIOUS
<1>2. CASE Stays(j)
  BY <1>2 DEF Stays, TokenInv, OneToken
<1>3. CASE \E from, to \in Token : Moves(j, from, to)
  BY <1>3 DEF Moves
<1>4. CASE Appears(j)
  BY <1>4 DEF Appears
<1>. QED  BY <1>1, <1>2, <1>3, <1>4 DEF TokenStep

\* A queue receives a job from whoever has its token.
LEMMA MessageMoves ==
    ASSUME TypeOK, [Next]_vars, Undisturbed, NEW q \in Queue, NEW j \in Job
    PROVE  \/ ready'[<<q, j>>] <= ready[<<q, j>>]
           \/ /\ ready'[<<q, j>>] = ready[<<q, j>>] + 1
              /\ \E t \in Token : t[1] # "queued" /\ Carries(t, j)
<1>. DEFINE Goal == \/ ready'[<<q, j>>] <= ready[<<q, j>>]
                    \/ /\ ready'[<<q, j>>] = ready[<<q, j>>] + 1
                       /\ \E t \in Token : t[1] # "queued" /\ Carries(t, j)
<1>0. ready[<<q, j>>] \in Nat
  BY DEF TypeOK, BrokerTypeOK
<1>1. ASSUME NEW p \in Queue, NEW i \in Job, Enqueue(p, i)
      PROVE  \/ ready'[<<q, j>>] <= ready[<<q, j>>]
             \/ ready'[<<q, j>>] = ready[<<q, j>>] + 1 /\ i = j
  BY <1>0, <1>1 DEF Enqueue, TypeOK, BrokerTypeOK
<1>2. ASSUME NEW w \in Worker, pc[w] \in Undecided, NEW p \in Queue,
             Enqueue(p, delivered[w])
      PROVE  Goal
  <2>1. delivered[w] \in Job
    BY <1>2, DeliveryType DEF Undecided
  <2>2. ASSUME delivered[w] = j
        PROVE  \E t \in Token : t[1] # "queued" /\ Carries(t, j)
    <3>1. <<"worked", w>> \in Token /\ Carries(<<"worked", w>>, j)
      BY <1>2, <2>2 DEF Token, Carries
    <3>. QED  BY <3>1
  <2>. QED  BY <1>1, <1>2, <2>1, <2>2
<1>3. ASSUME NEW w \in Worker, Publish(w) \/ NackOnStop(w)
      PROVE  Goal
  <2>1. pc[w] \in Undecided
    BY <1>3 DEF Publish, NackOnStop, At, Undecided, Busy
  <2>2. PICK p \in Queue : Enqueue(p, delivered[w])
    BY <1>3, StageOfType, StageQueues DEF Publish, NackOnStop, Requeue
  <2>. QED  BY <1>2, <2>1, <2>2
<1>4. ASSUME NEW w \in Worker, NEW i \in Job, Deliver(w, i)
      PROVE  Goal
  BY <1>0, <1>4 DEF Deliver, Dequeue, TypeOK, BrokerTypeOK
<1>5. ASSUME NEW w \in Worker, WorkerStep(w)
      PROVE  Goal
  <2>1. Publish(w) \/ NackOnStop(w) \/ UNCHANGED ready
    BY <1>5
       DEF WorkerStep, CheckHold, HoldJob, MarkRunning, AppendStarted,
           AppendOutput, CountAttempts, InsertJobAttempt, RecordFailure,
           PublishLost, MarkCompleted, Ack, ConnectionError, LeaveLoop,
           WriteState, WriteEvent
  <2>. QED  BY <1>0, <1>3, <2>1
<1>6. ASSUME NEW w \in Worker, Crash(w) \/ DropConnection(w)
      PROVE  FALSE
  BY <1>6 DEF Crash, DropConnection, Undisturbed, TypeOK, WorkerTypeOK
<1>7. ASSUME NEW o \in Operator, NEW js \in inHand[o], PublishPending(o, js)
      PROVE  Goal
  <2>1. PICK i \in Job, s \in Stage : js = <<i, s>>
    BY DEF TypeOK, OperatorTypeOK
  <2>2. StageInputQueue(s) \in Queue /\ Enqueue(StageInputQueue(s), i)
    BY <1>7, <2>1, StageQueues DEF PublishPending
  <2>3. ASSUME i = j
        PROVE  \E t \in Token : t[1] # "queued" /\ Carries(t, j)
    <3>1. <<"handed", s>> \in Token /\ Carries(<<"handed", s>>, j)
      BY <2>1, <2>3 DEF Token, Carries, HandedAt
    <3>. QED  BY <3>1
  <2>. QED  BY <1>1, <2>2, <2>3
<1>8. CASE UNCHANGED ready
  BY <1>0, <1>8
<1>9. CASE OperatorNext
  BY <1>7, <1>8, <1>9
     DEF OperatorNext, OperatorStep, CheckSeedBatch, CreateSeedBatch,
         CloseSeedBatch, ReadReplayable, MarkPending, Abort, Kill, Hold,
         ReleaseHold
<1>10. CASE WorkerNext
  BY <1>4, <1>5, <1>6, <1>8, <1>10 DEF WorkerNext, StopPool, StartPool
<1>. QED  BY <1>8, <1>9, <1>10 DEF Next, vars

LEMMA OneMessageStep ==
    ASSUME Undisturbed, TypeOK, TypeOK', TokenInv, [Next]_vars
    PROVE  OneMessage'
<1>. SUFFICES ASSUME NEW j \in Job, NEW q \in Queue
              PROVE  ready'[<<q, j>>] <= 1
  BY DEF OneMessage
<1>1. ready[<<q, j>>] \in Nat /\ ready[<<q, j>>] <= 1
  BY DEF TypeOK, BrokerTypeOK, TokenInv, OneMessage
<1>2. ASSUME NEW t \in Token, t[1] # "queued", Carries(t, j),
             ready[<<q, j>>] > 0
      PROVE  FALSE
  <2>1. <<"queued", q>> \in Token /\ Carries(<<"queued", q>>, j)
    BY <1>2 DEF Token, Carries
  <2>. QED  BY <1>2, <2>1 DEF TokenInv, OneToken
<1>3. ready'[<<q, j>>] <= ready[<<q, j>>]
        \/ (ready'[<<q, j>>] = ready[<<q, j>>] + 1 /\ ready[<<q, j>>] = 0)
  BY <1>1, <1>2, MessageMoves
<1>4. ready'[<<q, j>>] \in Nat
  BY DEF TypeOK, BrokerTypeOK
<1>. QED  BY <1>1, <1>3, <1>4

\* The delivery of a thread changes when it takes one or gives it up.
LEMMA DeliveredStep ==
    ASSUME TypeOK, [Next]_vars, NEW w \in Worker, NEW j \in Job,
           delivered'[w] = j
    PROVE  delivered[w] = j \/ Deliver(w, j)
<1>1. CASE UNCHANGED workerVars
  BY <1>1 DEF workerVars
<1>2. ASSUME NEW v \in Worker, v # w,
             WorkerStep(v) \/ Crash(v) \/ DropConnection(v)
               \/ \E i \in Job : Deliver(v, i)
      PROVE  delivered[w] = j
  BY <1>2, OthersKept
<1>3. CASE WorkerStep(w) \/ Crash(w) \/ DropConnection(w)
  <2>1. \/ delivered' = delivered
        \/ delivered' = [delivered EXCEPT ![w] = NoJob]
    BY <1>3
       DEF WorkerStep, NackOnStop, CheckHold, HoldJob, MarkRunning,
           AppendStarted, AppendOutput, CountAttempts, InsertJobAttempt,
           RecordFailure, Publish, PublishLost, MarkCompleted, Ack,
           ConnectionError, LeaveLoop, Crash, DropConnection, WriteState,
           WriteEvent, Release, KeepDelivery
  <2>. QED  BY <2>1, ExecutionAssumption DEF TypeOK, WorkerTypeOK
<1>4. ASSUME NEW i \in Job, Deliver(w, i)
      PROVE  i = j
  BY <1>4 DEF Deliver, TypeOK, WorkerTypeOK
<1>5. ASSUME NEW p \in Pool, StopPool(p) \/ StartPool(p)
      PROVE  delivered[w] = j
  BY <1>5 DEF StopPool, StartPool, KeepDelivery
<1>. QED
  BY <1>1, <1>2, <1>3, <1>4, <1>5 DEF Next, WorkerNext, vars

LEMMA FreshStays ==
    ASSUME TypeOK, [Next]_vars, NEW j \in Job, Fresh(j), TokenStep(j),
           ~Appears(j)
    PROVE  Fresh(j)'
<1>1. \A t \in Token : ~Carries(t, j)'
  BY DEF Fresh, TokenStep, Stays, Moves
<1>2. ASSUME NEW w \in Worker, delivered'[w] = j
      PROVE  FALSE
  <2>1. Deliver(w, j)
    BY <1>2, DeliveredStep DEF Fresh
  <2>2. <<"queued", StageOf(w)>> \in Token /\ Carries(<<"queued", StageOf(w)>>, j)
    BY <2>1, StageOfType, ManifestAssumption
       DEF Deliver, Dequeue, StageInputQueue, Token, Carries, Stage, Queue
  <2>. QED  BY <2>2 DEF Fresh
<1>. QED  BY <1>1, <1>2 DEF Fresh, Token

LEMMA PublishedIsBehindStep ==
    ASSUME Undisturbed, TypeOK, TokenInv, [Next]_vars,
           \A j \in Job : TokenStep(j)
    PROVE  PublishedIsBehind'
<1>. USE DEF TokenInv
<1>0. \A w \in Worker : StageOf(w) \in Nat
  BY StageOfType DEF Stage
<1>1. ASSUME NEW w \in Worker, pc[w] = "published", NEW t \in Token,
             Carries(t, delivered[w])
      PROVE  Place(t) > StageOf(w)
  BY <1>1 DEF PublishedIsBehind
<1>2. \A t \in Token : Place(t) \in Nat
  BY <1>0 DEF Token, Place, Stage, Queue
\* No thread of the stage is about to publish what another has published.
<1>3. ASSUME NEW v \in Worker, NEW w \in Worker, Publish(v),
             pc[w] = "published", delivered[v] = delivered[w],
             StageOf(v) = StageOf(w)
      PROVE  FALSE
  <2>1. /\ <<"worked", v>> \in Token
        /\ Carries(<<"worked", v>>, delivered[w])
        /\ Place(<<"worked", v>>) = StageOf(v)
    BY <1>3 DEF Token, Carries, Publish, At, Undecided, Busy, Place
  <2>. QED  BY <1>0, <1>1, <1>3, <2>1
<1>4. ASSUME NEW w \in Worker, Publish(w), NEW t \in Token,
             Carries(t, delivered[w])'
      PROVE  Place(t) > StageOf(w)
  <2>. DEFINE j == delivered[w]
              s == StageOf(w)
  <2>1. /\ pc[w] = "output" /\ pc'[w] = "published" /\ delivered' = delivered
        /\ UNCHANGED jobStates /\ Enqueue(s + 1, j)
        /\ j \in Job /\ s + 1 \in Queue
        /\ \A v \in Worker \ {w} : pc'[v] = pc[v]
    BY <1>4, DeliveryType, StageOfType, ManifestAssumption
       DEF Publish, At, Goto, KeepDelivery, storeVars, StageOutputQueue,
           Busy, Stage, Queue, TypeOK, WorkerTypeOK
  <2>2. UNCHANGED inHand
    <3>1. ~OperatorNext \/ workerVars' # workerVars
      BY <2>1 DEF workerVars
    <3>. QED  BY <2>1, <3>1 DEF Next, vars, operatorVars
  <2>3. ~Carries(<<"worked", w>>, j)' /\ Carries(<<"worked", w>>, j)
    BY <2>1 DEF Carries, Undecided, Busy
  <2>4. ~Carries(t, j)
    <3>1. <<"worked", w>> \in Token
      BY DEF Token
    <3>. QED  BY <1>4, <2>1, <2>3, <3>1 DEF OneToken
  <2>5. ASSUME NEW q \in Queue, t = <<"queued", q>>
        PROVE  q = s + 1
    <3>1. ready'[<<q, j>>] > 0 /\ ~(ready[<<q, j>>] > 0)
      BY <1>4, <2>1, <2>4, <2>5 DEF Carries
    <3>. QED  BY <2>1, <3>1, EnqueueEffect
  <2>6. ASSUME NEW v \in Worker, t = <<"worked", v>>
        PROVE  FALSE
    BY <1>4, <2>1, <2>3, <2>4, <2>6 DEF Carries
  <2>7. ASSUME NEW r \in Stage, t = <<"parked", r>> \/ t = <<"handed", r>>
        PROVE  FALSE
    BY <1>4, <2>1, <2>2, <2>4, <2>7 DEF Carries, StatusOf, HandedAt
  <2>8. PICK q \in Queue : t = <<"queued", q>>
    BY <2>6, <2>7, TokenKind
  <2>. QED  BY <1>0, <2>5, <2>8 DEF Place
<1>5. ASSUME NEW w \in Worker, pc'[w] = "published"
      PROVE  \/ pc[w] = "published" /\ delivered'[w] = delivered[w]
             \/ Publish(w) /\ delivered'[w] = delivered[w]
  BY <1>5, PublishedStep DEF AllConnected, Publish, KeepDelivery
<1>6. ASSUME NEW w \in Worker, pc[w] = "published",
             delivered'[w] = delivered[w], NEW t \in Token,
             Carries(t, delivered[w])'
      PROVE  Place(t) > StageOf(w)
  <2>. DEFINE j == delivered[w]
  <2>1. j \in Job
    BY <1>6, DeliveryType DEF Busy
  <2>2. TokenStep(j) /\ Carries(t, j)'
    BY <1>6, <2>1
  <2>3. CASE Stays(j)
    BY <1>1, <1>6, <2>2, <2>3 DEF Stays
  <2>4. ASSUME NEW from \in Token, NEW to \in Token, Moves(j, from, to)
        PROVE  Place(t) > StageOf(w)
    <3>1. Place(from) > StageOf(w) /\ Place(from) <= Place(t)
      BY <1>1, <1>6, <2>2, <2>4 DEF Moves
    <3>. QED  BY <1>0, <1>2, <2>4, <3>1
  <2>5. CASE Appears(j)
    BY <1>6, <2>5 DEF Appears, Fresh
  <2>. QED  BY <2>2, <2>3, <2>4, <2>5 DEF TokenStep
<1>7. ASSUME NEW v \in Worker, NEW w \in Worker, pc'[v] = "published",
             pc'[w] = "published", delivered'[v] = delivered'[w],
             StageOf(v) = StageOf(w)
      PROVE  v = w
  <2>1. CASE pc[v] = "published" /\ pc[w] = "published"
    BY <1>5, <1>7, <2>1 DEF PublishedIsBehind
  <2>2. ASSUME Publish(v), Publish(w)
        PROVE  v = w
    BY <2>2 DEF Publish, At, Goto, TypeOK, WorkerTypeOK
  <2>. QED  BY <1>3, <1>5, <1>7, <2>1, <2>2
<1>8. \A w \in Worker : StageOf(w)' = StageOf(w)
  BY DEF StageOf
<1>9. \A t \in Token : Place(t)' = Place(t)
  BY DEF Place, StageOf
<1>. QED
  <2>. SUFFICES ASSUME NEW w \in Worker, pc'[w] = "published"
                PROVE  /\ \A t \in Token : Carries(t, delivered[w])'
                             => Place(t) > StageOf(w)
                       /\ \A v \in Worker :
                             /\ pc'[v] = "published"
                             /\ delivered'[v] = delivered'[w]
                             /\ StageOf(v) = StageOf(w)
                             => v = w
    BY <1>8, <1>9 DEF PublishedIsBehind, Token
  <2>1. ASSUME NEW t \in Token, Carries(t, delivered[w])'
        PROVE  Place(t) > StageOf(w)
    BY <1>4, <1>5, <1>6, <2>1
  <2>. QED  BY <1>7, <2>1

\* Without failing commands a job that is in an active batch stays in one.
LEMMA ActiveGrows ==
    ASSUME MaxAborts = 0, TypeOK, [Next]_vars, NEW j \in ActiveSeedJobs
    PROVE  j \in ActiveSeedJobs'
<1>1. PICK b \in 1 .. Len(seedBatches) :
         seedBatches[b].status # "failed" /\ j \in seedBatches[b].job_ids
  BY ActiveSeedJob
<1>2. seedBatches \in Seq(SeedBatch)
  BY DEF TypeOK, StoreTypeOK
<1>3. Len(seedBatches') >= Len(seedBatches) /\ Len(seedBatches') \in Nat
  <2>1. ASSUME NEW c, NEW status, SetSeedBatchStatus(c, status)
        PROVE  Len(seedBatches') = Len(seedBatches)
    BY <1>2, <2>1 DEF SetSeedBatchStatus
  <2>2. ASSUME NEW o \in Operator, CreateSeedBatch(o)
        PROVE  Len(seedBatches') = Len(seedBatches) + 1
    <3>. DEFINE new == [job_ids |-> {js[1] : js \in toMark[o]},
                        status |-> "created"]
    <3>1. seedBatches' = Append(seedBatches, new)
      BY <2>2 DEF CreateSeedBatch, InsertSeedBatch
    <3>. HIDE DEF new
    <3>. QED  BY <1>2, <3>1
  <2>3. CASE UNCHANGED seedBatches
    BY <1>2, <2>3
  <2>4. CASE OperatorNext
    BY <1>2, <2>1, <2>2, <2>3, <2>4
       DEF OperatorNext, OperatorStep, CheckSeedBatch, CloseSeedBatch,
           ReadReplayable, MarkPending, PublishPending, Abort, Kill, Hold,
           ReleaseHold, storeVars
  <2>5. CASE WorkerNext
    BY <2>3, <2>5
       DEF WorkerNext, WorkerStep, Deliver, NackOnStop, CheckHold, HoldJob,
           MarkRunning, AppendStarted, AppendOutput, CountAttempts,
           InsertJobAttempt, RecordFailure, Publish, PublishLost,
           MarkCompleted, Ack, ConnectionError, LeaveLoop, Crash,
           DropConnection, StopPool, StartPool, WriteState, WriteEvent,
           storeVars
  <2>. QED  BY <2>3, <2>4, <2>5 DEF Next, vars, storeVars
<1>4. b \in 1 .. Len(seedBatches') /\ b # Len(seedBatches) + 1
  BY <1>2, <1>3
<1>5. ~\E o \in Operator : Abort(o)
  BY DEF Abort, TypeOK, OperatorTypeOK
<1>6. seedBatches'[b].status # "failed" /\ j \in seedBatches'[b].job_ids
  BY <1>1, <1>4, <1>5, BatchStep
<1>. QED  BY <1>4, <1>6 DEF ActiveSeedJobs

\* A command that will seed a job has checked it in this step, or will seed
\* it still.
LEMMA WillSeedStep ==
    ASSUME TypeOK, CommandShape, [Next]_vars, NEW o \in Operator,
           NEW j \in Job, WillSeed(o, j)'
    PROVE  \/ WillSeed(o, j)
           \/ j \notin ActiveSeedJobs /\ batch[o] = 0
<1>. USE DEF WillSeed
<1>1. CASE UNCHANGED operatorVars
  BY <1>1 DEF operatorVars
<1>2. ASSUME NEW p \in Operator, p # o,
             \/ OperatorStep(p) \/ Abort(p) \/ Kill(p)
             \/ \E jobs \in SUBSET Job : CheckSeedBatch(p, jobs)
             \/ \E statuses : ReadReplayable(p, statuses)
      PROVE  WillSeed(o, j)
  BY <1>2
     DEF OperatorStep, Abort, Kill, CheckSeedBatch, ReadReplayable,
         CreateSeedBatch, CloseSeedBatch, MarkPending, PublishPending,
         EndCommand, Become, TypeOK, OperatorTypeOK
<1>3. ASSUME NEW jobs \in SUBSET Job, CheckSeedBatch(o, jobs)
      PROVE  j \notin ActiveSeedJobs /\ batch[o] = 0
  <2>1. j \in jobs
    BY <1>3 DEF CheckSeedBatch, FirstStage, TypeOK, OperatorTypeOK
  <2>. QED  BY <1>3, <2>1 DEF CheckSeedBatch, Does, CommandShape
<1>4. ASSUME NEW statuses, ReadReplayable(o, statuses)
      PROVE  FALSE
  BY <1>4 DEF ReadReplayable, Does, Become, CommandShape, TypeOK,
              OperatorTypeOK
<1>5. CASE CreateSeedBatch(o)
  BY <1>5 DEF CreateSeedBatch, Does
<1>6. CASE CloseSeedBatch(o) \/ Abort(o) \/ Kill(o)
  BY <1>6 DEF CloseSeedBatch, Abort, Kill, EndCommand, TypeOK,
              OperatorTypeOK
<1>7. ASSUME NEW js \in toMark[o], MarkPending(o, js)
      PROVE  WillSeed(o, j)
  BY <1>7 DEF MarkPending, Become, TypeOK, OperatorTypeOK
<1>8. ASSUME NEW js \in inHand[o], PublishPending(o, js)
      PROVE  WillSeed(o, j)
  BY <1>8 DEF PublishPending, Become, TypeOK, OperatorTypeOK
<1>9. CASE OperatorNext
  BY <1>1, <1>2, <1>3, <1>4, <1>5, <1>6, <1>7, <1>8, <1>9
     DEF OperatorNext, OperatorStep, Hold, ReleaseHold, operatorVars
<1>. QED  BY <1>1, <1>9 DEF Next, vars

LEMMA SeedsAreFreshStep ==
    ASSUME Undisturbed, TypeOK, TypeOK', TokenInv, [Next]_vars,
           \A j \in Job : TokenStep(j)
    PROVE  SeedsAreFresh'
<1>. USE DEF TokenInv
<1>1. ASSUME NEW o \in Operator, NEW j \in Job, batch[o] # 0,
             <<j, 1>> \in toMark[o]
      PROVE  j \in ActiveSeedJobs
  <2>1. j \in seedBatches[batch[o]].job_ids
    BY <1>1 DEF SeedsAreFresh
  <2>2. batch[o] \in 1 .. Len(seedBatches)
    BY <1>1 DEF TypeOK, OperatorTypeOK, StoreTypeOK
  <2>. QED  BY <2>1, <2>2 DEF NoneFailed, ActiveSeedJobs
<1>2. ASSUME NEW j \in Job, j \notin ActiveSeedJobs'
      PROVE  Fresh(j)'
  <2>1. j \notin ActiveSeedJobs
    BY <1>2, ActiveGrows DEF Undisturbed
  <2>2. ~Appears(j)
    BY <1>1, <2>1 DEF Appears
  <2>. QED  BY <2>1, <2>2, FreshStays DEF SeedsAreFresh
<1>3. ASSUME NEW o \in Operator, NEW j \in Job, WillSeed(o, j)'
      PROVE  Fresh(j)'
  <2>1. /\ Fresh(j)
        /\ batch[o] # 0 => <<j, 1>> \in toMark'[o]
    BY <1>3, WillSeedStep DEF SeedsAreFresh, BatchInv, WillSeed
  <2>2. ~Appears(j)
    BY <1>3, <2>1 DEF Appears, WillSeed, Undisturbed, OneOperator
  <2>. QED  BY <2>1, <2>2, FreshStays
<1>4. ASSUME NEW o \in Operator, NEW j \in Job, batch'[o] # 0,
             <<j, 1>> \in toMark'[o]
      PROVE  j \in seedBatches'[batch'[o]].job_ids
  <2>1. batch'[o] \in 1 .. Len(seedBatches')
    BY <1>4 DEF TypeOK, OperatorTypeOK, StoreTypeOK
  <2>2. CASE CreateSeedBatch(o)
    <3>1. /\ batch'[o] = Len(seedBatches) + 1 /\ toMark' = toMark
          /\ <<j, 1>>[1] = j
      BY <2>2 DEF CreateSeedBatch, TypeOK, OperatorTypeOK
    <3>2. seedBatches'[batch'[o]].job_ids = {js[1] : js \in toMark[o]}
      BY <2>2, <3>1 DEF CreateSeedBatch, InsertSeedBatch, TypeOK, StoreTypeOK
    <3>. QED  BY <1>4, <3>1, <3>2
  <2>3. CASE ~CreateSeedBatch(o)
    <3>1. batch'[o] = batch[o] /\ <<j, 1>> \in toMark[o]
      BY <1>4, <2>3, CommandBatchStep DEF BatchInv
    <3>2. batch[o] \in 1 .. Len(seedBatches)
      BY <1>4, <3>1 DEF TypeOK, OperatorTypeOK, StoreTypeOK
    <3>3. seedBatches'[batch'[o]].job_ids = seedBatches[batch[o]].job_ids
      <4>1. PICK b \in 1 .. Len(seedBatches') : b = batch'[o]
        BY <2>1
      <4>2. b # Len(seedBatches) + 1
        BY <3>1, <3>2, <4>1 DEF TypeOK, StoreTypeOK
      <4>. QED  BY <3>1, <4>1, <4>2, BatchStep
    <3>. QED  BY <1>4, <3>1, <3>3 DEF SeedsAreFresh
  <2>. QED  BY <2>2, <2>3
<1>. QED
  BY <1>2, <1>3, <1>4 DEF SeedsAreFresh, WillSeed, Fresh, Carries, StatusOf,
     HandedAt

LEMMA ReplaysAreParkedStep ==
    ASSUME Undisturbed, TypeOK, TokenInv, [Next]_vars
    PROVE  ReplaysAreParked'
<1>. SUFFICES ASSUME NEW o \in Operator, task'[o] = "marking", batch'[o] = 0,
                     NEW js \in toMark'[o]
              PROVE  StatusOf(js[1], js[2])' \in ParkedStatuses
  BY DEF ReplaysAreParked
<1>1. \A p \in Operator : p = o
  BY DEF Undisturbed, OneOperator
\* The command read the document in an earlier step.
<1>2. ASSUME task[o] = "marking", batch[o] = 0, js \in toMark[o]
      PROVE  StatusOf(js[1], js[2])' \in ParkedStatuses
  <2>1. PICK j \in Job, s \in Stage : js = <<j, s>>
    BY <1>2 DEF TypeOK, OperatorTypeOK
  <2>2. StatusOf(j, s) \in ParkedStatuses
    BY <1>2, <2>1 DEF TokenInv, ReplaysAreParked
  <2>3. ASSUME NEW w \in Worker, Completes(w, j, s)
        PROVE  FALSE
    <3>1. <<"parked", s>> \in Token /\ Carries(<<"parked", s>>, j)
      BY <2>2 DEF Token, Carries
    <3>2. pc[w] = "published" /\ delivered[w] = j /\ StageOf(w) = s
      BY <2>3 DEF Completes, MarkCompleted, WriteState, At
    <3>3. Place(<<"parked", s>>) = s
      BY DEF Place
    <3>4. s > s
      BY <3>1, <3>2, <3>3 DEF TokenInv, PublishedIsBehind
    <3>. QED  BY <3>4 DEF Stage
  <2>4. ASSUME NEW w \in Worker, Runs(w, j, s)
        PROVE  FALSE
    <3>1. pc[w] \in Undecided /\ delivered[w] = j /\ StageOf(w) = s
      BY <2>4 DEF Runs, MarkRunning, WriteState, At, Undecided, Busy
    <3>. QED  BY <2>2, <3>1, AloneWithJob DEF TokenInv
  <2>5. ASSUME NEW p \in Operator, MarkPending(p, <<j, s>>)
        PROVE  FALSE
    <3>1. js \notin toMark'[o]
      BY <1>1, <2>1, <2>5 DEF MarkPending, TypeOK, OperatorTypeOK
    <3>. QED  BY <3>1
  <2>6. StatusOf(j, s)' \in ParkedStatuses
    BY <2>2, <2>3, <2>4, <2>5, StatusMoves
  <2>. QED  BY <2>1, <2>6
\* The command reads it in this step.
<1>3. ASSUME NEW statuses \in ReplaySelections, ReadReplayable(o, statuses)
      PROVE  StatusOf(js[1], js[2])' \in ParkedStatuses
  <2>1. js \in StatesIn(statuses) /\ UNCHANGED jobStates
    BY <1>3 DEF ReadReplayable, storeVars, TypeOK, OperatorTypeOK
  <2>2. js = <<js[1], js[2]>> /\ jobStates[js].status \in ParkedStatuses
    BY <2>1 DEF StatesIn, Undisturbed
  <2>. QED  BY <2>1, <2>2 DEF StatusOf
<1>4. CASE UNCHANGED operatorVars
  BY <1>2, <1>4 DEF operatorVars
<1>5. ASSUME \/ \E jobs : CheckSeedBatch(o, jobs)
             \/ CreateSeedBatch(o) \/ CloseSeedBatch(o)
             \/ Abort(o) \/ Kill(o)
      PROVE  FALSE
  BY <1>5 DEF CheckSeedBatch, CreateSeedBatch, CloseSeedBatch, Abort, Kill,
              EndCommand, Become, TypeOK, OperatorTypeOK, StoreTypeOK
<1>6. ASSUME NEW x \in toMark[o], MarkPending(o, x)
      PROVE  StatusOf(js[1], js[2])' \in ParkedStatuses
  BY <1>2, <1>6 DEF MarkPending, Does, TypeOK, OperatorTypeOK
<1>7. ASSUME NEW x \in inHand[o], PublishPending(o, x)
      PROVE  FALSE
  BY <1>7 DEF PublishPending, Does, Become, TypeOK, OperatorTypeOK
<1>8. ASSUME NEW x \in Target, Hold(x) \/ ReleaseHold(x)
      PROVE  StatusOf(js[1], js[2])' \in ParkedStatuses
  BY <1>2, <1>8 DEF Hold, ReleaseHold, operatorVars
<1>9. CASE OperatorNext
  <2>1. \/ \E jobs : CheckSeedBatch(o, jobs)
        \/ \E statuses \in ReplaySelections : ReadReplayable(o, statuses)
        \/ OperatorStep(o) \/ Abort(o) \/ Kill(o)
        \/ \E x \in Target : Hold(x) \/ ReleaseHold(x)
    BY <1>1, <1>9 DEF OperatorNext
  <2>. QED
    BY <1>3, <1>5, <1>6, <1>7, <1>8, <2>1 DEF OperatorStep
<1>. QED  BY <1>4, <1>9 DEF Next, vars

LEMMA SeedsFirstStageStep ==
    ASSUME TypeOK, TokenInv, [Next]_vars
    PROVE  SeedsFirstStage'
<1>. SUFFICES ASSUME NEW o \in Operator, batch'[o] # 0, NEW js \in toMark'[o]
              PROVE  js[2] = 1
  BY DEF SeedsFirstStage
<1>1. CASE CreateSeedBatch(o)
  BY <1>1 DEF CreateSeedBatch, Does, TokenInv, BatchInv, CommandShape
<1>2. CASE ~CreateSeedBatch(o)
  BY <1>2, CommandBatchStep DEF TokenInv, BatchInv, SeedsFirstStage
<1>. QED  BY <1>1, <1>2

LEMMA TokenNext ==
    ASSUME Undisturbed, TypeOK, TypeOK', TokenInv, [Next]_vars
    PROVE  TokenInv'
<1>1. BatchInv'
  BY ShapeStep, OpenBatchesStep, CheckedIsFreeStep, DisjointStep
     DEF BatchInv, TokenInv, Undisturbed
<1>2. AllConnected'
  BY ConnectedStep DEF TokenInv, Undisturbed
<1>3. \A j \in Job : TokenStep(j)
  BY TokenSteps
<1>4. NoneFailed'
  <2>1. ~\E o \in Operator : Abort(o)
    BY DEF Abort, Undisturbed, TypeOK, OperatorTypeOK
  <2>. QED  BY <2>1, BatchStep DEF TokenInv, NoneFailed
<1>. QED
  BY <1>1, <1>2, <1>3, <1>4, OneTokenStep, OneMessageStep,
     PublishedIsBehindStep, SeedsAreFreshStep, ReplaysAreParkedStep,
     SeedsFirstStageStep
     DEF TokenInv

LEMMA TokenInvariant ==
    ASSUME Undisturbed
    PROVE  Spec => []TokenInv
<1>1. Init => TokenInv
  <2>. SUFFICES ASSUME Init PROVE TokenInv
    OBVIOUS
  <2>1. /\ \A w \in Worker : /\ delivered[w] = NoJob /\ pc[w] = "idle"
                             /\ connected[w]
        /\ \A q \in Queue, j \in Job : ready[<<q, j>>] = 0
        /\ \A j \in Job, s \in Stage : StatusOf(j, s) = "absent"
        /\ \A o \in Operator : /\ task[o] = "none" /\ batch[o] = 0
                               /\ toMark[o] = {} /\ inHand[o] = {}
        /\ seedBatches = <<>>
    BY DEF Init, StoreInit, BrokerInit, WorkerInit, OperatorInit, StatusOf
  <2>2. \A j \in Job : Fresh(j)
    <3>. SUFFICES ASSUME NEW j \in Job PROVE Fresh(j)
      OBVIOUS
    <3>1. ASSUME NEW t \in Token, Carries(t, j)
          PROVE  FALSE
      <4>1. ASSUME NEW q \in Queue, t = <<"queued", q>>
            PROVE  FALSE
        BY <2>1, <3>1, <4>1 DEF Carries
      <4>2. ASSUME NEW w \in Worker, t = <<"worked", w>>
            PROVE  FALSE
        BY <2>1, <3>1, <4>2 DEF Carries, Undecided, Busy
      <4>3. ASSUME NEW s \in Stage, t = <<"parked", s>> \/ t = <<"handed", s>>
            PROVE  FALSE
        BY <2>1, <3>1, <4>3 DEF Carries, ParkedStatuses, HandedAt
      <4>. QED  BY <4>1, <4>2, <4>3, TokenKind
    <3>. QED  BY <2>1, <3>1, ExecutionAssumption DEF Fresh
  <2>3. OneToken /\ OneMessage
    BY <2>1, <2>2 DEF OneToken, OneMessage, Fresh
  <2>4. BatchInv
    BY <2>1 DEF BatchInv, CommandShape, OpenBatches, CheckedIsFree,
                ActiveBatchesDisjoint
  <2>. QED
    BY <2>1, <2>2, <2>3, <2>4
       DEF TokenInv, AllConnected, PublishedIsBehind, SeedsAreFresh,
           ReplaysAreParked, SeedsFirstStage, NoneFailed
<1>2. TypeOK /\ TypeOK' /\ TokenInv /\ [Next]_vars => TokenInv'
  BY TokenNext
<1>. QED  BY <1>1, <1>2, TypeCorrect, PTL DEF Spec

LEMMA TokenMakesExclusive ==
    ASSUME TypeOK, TokenInv
    PROVE  ExclusiveExecution
<1>. SUFFICES ASSUME NEW v \in Worker, NEW w \in Worker,
                     v # w, delivered[v] = delivered[w],
                     pc[v] \in Busy \ {"received", "settled"},
                     pc[w] \in Busy \ {"received", "settled"},
                     StageOf(v) = StageOf(w)
              PROVE  FALSE
  BY DEF ExclusiveExecution
<1>1. delivered[w] \in Job /\ StageOf(w) \in Nat
  BY DeliveryType, StageOfType DEF Stage
<1>2. ASSUME NEW x \in {v, w}, pc[x] \in Undecided
      PROVE  /\ <<"worked", x>> \in Token
             /\ Carries(<<"worked", x>>, delivered[w])
             /\ Place(<<"worked", x>>) = StageOf(w)
  BY <1>2 DEF Token, Carries, Place
<1>3. pc[v] = "published" \/ pc[w] = "published"
  BY <1>1, <1>2 DEF TokenInv, OneToken, Undecided
<1>4. ASSUME NEW x \in {v, w}, NEW y \in {v, w}, x # y, pc[x] = "published"
      PROVE  FALSE
  <2>1. CASE pc[y] = "published"
    BY <1>4, <2>1 DEF TokenInv, PublishedIsBehind
  <2>2. CASE pc[y] # "published"
    <3>1. pc[y] \in Undecided
      BY <2>2 DEF Undecided
    <3>2. Place(<<"worked", y>>) > StageOf(x) /\ StageOf(x) = StageOf(w)
      BY <1>2, <1>4, <3>1 DEF TokenInv, PublishedIsBehind
    <3>. QED  BY <1>1, <1>2, <3>1, <3>2
  <2>. QED  BY <2>1, <2>2
<1>. QED  BY <1>3, <1>4

(***************************************************************************)
(* In an undisturbed run no two threads are in the same stage of the same  *)
(* job, however many threads a stage has and although they are stopped,    *)
(* the handlers fail and jobs are held and replayed.                       *)
(***************************************************************************)
THEOREM StagesRunAlone ==
    ASSUME Undisturbed
    PROVE  Spec => []ExclusiveExecution
BY TokenMakesExclusive, TokenInvariant, TypeCorrect, PTL

-----------------------------------------------------------------------------
(* The attempts of an undisturbed run *)

(***************************************************************************)
(* With one thread at a time in a stage of a job, count_documents and      *)
(* insert_one leave no room for another insert: the number that a thread   *)
(* computes is the length of the ledger.                                   *)
(***************************************************************************)
CountIsExact ==
    \A w \in Worker :
        /\ pc[w] = "counted" => attemptNumber[w] = Ledger(w) + 1
        /\ pc[w] = "ledgered" => attemptNumber[w] = Ledger(w)

BudgetInv == CountIsExact /\ RetryWaitsWithinBudget

LEMMA CountStep ==
    ASSUME TypeOK, [Next]_vars, NEW w \in Worker,
           pc'[w] \in {"counted", "ledgered"}
    PROVE  \/ CountAttempts(w)
           \/ InsertJobAttempt(w)
           \/ /\ pc'[w] = pc[w] /\ delivered'[w] = delivered[w]
              /\ attemptNumber'[w] = attemptNumber[w]
<1>. DEFINE Same == /\ pc'[w] = pc[w] /\ delivered'[w] = delivered[w]
                    /\ attemptNumber'[w] = attemptNumber[w]
<1>1. CASE UNCHANGED workerVars
  BY <1>1 DEF workerVars
<1>2. ASSUME NEW v \in Worker, v # w, WorkerStep(v)
      PROVE  Same
  BY <1>2
     DEF WorkerStep, NackOnStop, CheckHold, HoldJob, MarkRunning,
         AppendStarted, AppendOutput, CountAttempts, InsertJobAttempt,
         RecordFailure, Publish, PublishLost, MarkCompleted, Ack,
         ConnectionError, LeaveLoop, WriteState, WriteEvent, Goto, Release,
         KeepDelivery, TypeOK, WorkerTypeOK
<1>3. ASSUME NEW v \in Worker,
             Crash(v) \/ DropConnection(v) \/ \E i \in Job : Deliver(v, i)
      PROVE  Same
  BY <1>3 DEF Crash, DropConnection, Deliver, Goto, Release, TypeOK,
              WorkerTypeOK
<1>4. CASE WorkerStep(w)
  <2>1. ASSUME NEW to, to \notin {"counted", "ledgered"},
               pc' = [pc EXCEPT ![w] = to]
        PROVE  FALSE
    BY <2>1 DEF TypeOK, WorkerTypeOK
  <2>. QED
    BY <1>4, <2>1
       DEF WorkerStep, NackOnStop, CheckHold, HoldJob, MarkRunning,
           AppendStarted, AppendOutput, RecordFailure, Publish, PublishLost,
           MarkCompleted, Ack, ConnectionError, LeaveLoop, WriteState,
           WriteEvent, Goto, Release
<1>5. ASSUME NEW p \in Pool, StopPool(p) \/ StartPool(p)
      PROVE  Same
  BY <1>5 DEF StopPool, StartPool, KeepDelivery, TypeOK, WorkerTypeOK
<1>. QED
  BY <1>1, <1>2, <1>3, <1>4, <1>5 DEF Next, WorkerNext, vars

LEMMA LedgerMoves ==
    ASSUME TypeOK, [Next]_vars
    PROVE  UNCHANGED jobAttempts \/ \E w \in Worker : InsertJobAttempt(w)
<1>1. CASE WorkerNext
  BY <1>1
     DEF WorkerNext, WorkerStep, Deliver, NackOnStop, CheckHold, HoldJob,
         MarkRunning, AppendStarted, AppendOutput, CountAttempts,
         RecordFailure, Publish, PublishLost, MarkCompleted, Ack,
         ConnectionError, LeaveLoop, Crash, DropConnection, StopPool,
         StartPool, WriteState, WriteEvent, storeVars
<1>2. CASE OperatorNext
  BY <1>2
     DEF OperatorNext, OperatorStep, CheckSeedBatch, CreateSeedBatch,
         CloseSeedBatch, ReadReplayable, MarkPending, PublishPending, Abort,
         Kill, Hold, ReleaseHold, storeVars
<1>. QED  BY <1>1, <1>2 DEF Next, vars, storeVars

\* The insert of a thread lengthens the ledger of its own delivery.
LEMMA InsertMoves ==
    ASSUME TypeOK, NEW w \in Worker, InsertJobAttempt(w),
           NEW js \in Job \X Stage
    PROVE  /\ <<delivered[w], StageOf(w)>> \in Job \X Stage
           /\ Len(jobAttempts'[js]) =
                IF js = <<delivered[w], StageOf(w)>>
                THEN Len(jobAttempts[js]) + 1 ELSE Len(jobAttempts[js])
           /\ UNCHANGED <<jobStates, delivered, attemptNumber>>
<1>1. /\ delivered[w] \in Job /\ StageOf(w) \in Stage
      /\ attemptNumber[w] \in Nat
  BY DeliveryType DEF InsertJobAttempt, At, Busy, TypeOK, WorkerTypeOK
<1>2. InsertAttempt(delivered[w], StageOf(w), attemptNumber[w])
  BY DEF InsertJobAttempt
<1>3. Len(jobAttempts'[js]) =
        IF js = <<delivered[w], StageOf(w)>>
        THEN Len(jobAttempts[js]) + 1 ELSE Len(jobAttempts[js])
  BY <1>1, <1>2, InsertLength DEF TypeOK
<1>. QED  BY <1>1, <1>3 DEF InsertJobAttempt, KeepDelivery

LEMMA CountIsExactStep ==
    ASSUME TypeOK, ExclusiveExecution, CountIsExact, [Next]_vars
    PROVE  CountIsExact'
<1>. SUFFICES ASSUME NEW w \in Worker, pc'[w] \in {"counted", "ledgered"}
              PROVE  /\ pc'[w] = "counted" => attemptNumber'[w] = Ledger(w)' + 1
                     /\ pc'[w] = "ledgered" => attemptNumber'[w] = Ledger(w)'
  BY DEF CountIsExact
<1>1. CASE CountAttempts(w)
  <2>1. /\ pc'[w] = "counted" /\ delivered' = delivered
        /\ UNCHANGED jobAttempts /\ attemptNumber'[w] = Ledger(w) + 1
    BY <1>1 DEF CountAttempts, Goto, NextAttemptNumber, Ledger, storeVars,
                TypeOK, WorkerTypeOK
  <2>. QED  BY <2>1 DEF Ledger, StageOf
<1>2. CASE InsertJobAttempt(w)
  <2>1. /\ pc[w] = "counted" /\ pc'[w] = "ledgered"
    BY <1>2 DEF InsertJobAttempt, At, Goto, TypeOK, WorkerTypeOK
  <2>2. <<delivered[w], StageOf(w)>> \in Job \X Stage
    BY <2>1, DeliveryType DEF Busy
  <2>3. /\ Ledger(w)' = Ledger(w) + 1
        /\ attemptNumber'[w] = attemptNumber[w]
    BY <1>2, <2>2, InsertMoves DEF Ledger, StageOf
  <2>. QED  BY <2>1, <2>3 DEF CountIsExact
<1>3. CASE /\ pc'[w] = pc[w] /\ delivered'[w] = delivered[w]
           /\ attemptNumber'[w] = attemptNumber[w]
           /\ ~InsertJobAttempt(w)
  <2>1. ASSUME NEW v \in Worker, InsertJobAttempt(v)
        PROVE  <<delivered[w], StageOf(w)>> # <<delivered[v], StageOf(v)>>
    <3>1. v # w
      BY <1>3, <2>1
    <3>2. pc[v] = "counted"
      BY <2>1 DEF InsertJobAttempt, At
    <3>. QED  BY <1>3, <3>1, <3>2 DEF ExclusiveExecution, Busy
  <2>2. <<delivered[w], StageOf(w)>> \in Job \X Stage
    BY <1>3, DeliveryType DEF Busy
  <2>3. Ledger(w)' = Ledger(w)
    BY <1>3, <2>1, <2>2, InsertMoves, LedgerMoves DEF Ledger, StageOf
  <2>. QED  BY <1>3, <2>3 DEF CountIsExact
<1>. QED  BY <1>1, <1>2, <1>3, CountStep

LEMMA RetryWaitsStep ==
    ASSUME TypeOK, TokenInv, BudgetInv, [Next]_vars
    PROVE  RetryWaitsWithinBudget'
<1>. SUFFICES ASSUME NEW j \in Job, NEW s \in Stage,
                     StatusOf(j, s)' = "retry_waiting"
              PROVE  Len(jobAttempts'[<<j, s>>]) < MaxAttempts
  BY DEF RetryWaitsWithinBudget, StatusOf
<1>1. ASSUME NEW w \in Worker, RecordFailure(w), delivered[w] = j,
             StageOf(w) = s
      PROVE  Len(jobAttempts'[<<j, s>>]) < MaxAttempts
  <2>1. /\ attemptNumber[w] \in Nat /\ pc[w] = "ledgered"
        /\ UpsertFailure(j, s, attemptNumber[w]) /\ UNCHANGED jobAttempts
    BY <1>1 DEF RecordFailure, At, TypeOK, WorkerTypeOK
  <2>2. AttemptAction(attemptNumber[w]) = "retry_waiting"
    BY <2>1, UpsertFailureEffect
  <2>3. attemptNumber[w] = Len(jobAttempts[<<j, s>>])
    BY <1>1, <2>1 DEF BudgetInv, CountIsExact, Ledger
  <2>. QED
    BY <2>1, <2>2, <2>3, RunStoreAssumption DEF AttemptAction
<1>2. ASSUME StatusOf(j, s) = "retry_waiting"
      PROVE  Len(jobAttempts'[<<j, s>>]) < MaxAttempts
  <2>1. Len(jobAttempts[<<j, s>>]) < MaxAttempts
    BY <1>2 DEF BudgetInv, RetryWaitsWithinBudget, StatusOf
  <2>2. ASSUME NEW w \in Worker, InsertJobAttempt(w)
        PROVE  <<delivered[w], StageOf(w)>> # <<j, s>>
    <3>1. pc[w] \in Undecided
      BY <2>2 DEF InsertJobAttempt, At, Undecided, Busy
    <3>2. StatusOf(delivered[w], StageOf(w)) \notin ParkedStatuses
      BY <3>1, DeliveryType, AloneWithJob DEF TokenInv, Undecided
    <3>. QED  BY <1>2, <3>2 DEF ParkedStatuses
  <2>. QED  BY <2>1, <2>2, InsertMoves, LedgerMoves
<1>3. CASE StatusOf(j, s) # "retry_waiting"
  <2>1. ~\E w \in Worker : Completes(w, j, s)
    <3>1. ASSUME NEW w \in Worker, Completes(w, j, s)
          PROVE  StatusOf(j, s)' = "completed"
      BY <3>1, DeliveryType, UpsertEffect
         DEF Completes, MarkCompleted, WriteState, At, Busy, JobStateStatus
    <3>. QED  BY <3>1
  <2>2. PICK w \in Worker : Fails(w, j, s)
    BY <1>3, <2>1, StatusMoves
  <2>. QED  BY <1>1, <2>2 DEF Fails
<1>. QED  BY <1>2, <1>3

LEMMA BudgetInvariant ==
    ASSUME Undisturbed
    PROVE  Spec => []BudgetInv
<1>1. Init => BudgetInv
  BY DEF Init, StoreInit, WorkerInit, BudgetInv, CountIsExact,
         RetryWaitsWithinBudget
<1>2. TypeOK /\ TokenInv /\ BudgetInv /\ [Next]_vars => BudgetInv'
  BY TokenMakesExclusive, CountIsExactStep, RetryWaitsStep DEF BudgetInv
<1>. QED  BY <1>1, <1>2, TypeCorrect, TokenInvariant, PTL DEF Spec

(***************************************************************************)
(* In an undisturbed run a job is dead-lettered as soon as its attempts    *)
(* are spent: none waits for a retry with a full ledger.                   *)
(***************************************************************************)
THEOREM RetriesStayWithinBudget ==
    ASSUME Undisturbed
    PROVE  Spec => []RetryWaitsWithinBudget
BY BudgetInvariant, PTL DEF BudgetInv

(***************************************************************************)
(* In an undisturbed run attempt_count only grows: each failure writes the *)
(* length of the ledger, and no other write touches the field.             *)
(***************************************************************************)
THEOREM AttemptCountsGrow ==
    ASSUME Undisturbed
    PROVE  Spec => AttemptCountGrows
<1>. DEFINE Grows == \A js \in Job \X Stage :
                        jobStates'[js].attempt_count >= jobStates[js].attempt_count
<1>1. ASSUME TypeOK, LedgerInv, BudgetInv, [Next]_vars
      PROVE  Grows
  <2>. SUFFICES ASSUME NEW js \in Job \X Stage
                PROVE  jobStates'[js].attempt_count >= jobStates[js].attempt_count
    OBVIOUS
  <2>0. jobStates \in [Job \X Stage -> JobState]
          /\ jobStates[js].attempt_count \in Nat
    BY <1>1 DEF TypeOK, StoreTypeOK, JobState
  <2>1. ASSUME NEW j, NEW s, NEW status, UpsertJobState(j, s, status)
        PROVE  jobStates'[js].attempt_count = jobStates[js].attempt_count
    BY <2>0, <2>1 DEF UpsertJobState
  <2>2. ASSUME NEW w \in Worker, RecordFailure(w)
        PROVE  jobStates'[js].attempt_count >= jobStates[js].attempt_count
    <3>1. /\ pc[w] = "ledgered"
          /\ UpsertFailure(delivered[w], StageOf(w), attemptNumber[w])
      BY <2>2 DEF RecordFailure, At
    <3>2. CASE js = <<delivered[w], StageOf(w)>>
      <4>1. jobStates'[js].attempt_count = attemptNumber[w]
        BY <2>0, <3>1, <3>2 DEF UpsertFailure
      <4>2. attemptNumber[w] = Len(jobAttempts[js])
        BY <1>1, <3>1, <3>2 DEF BudgetInv, CountIsExact, Ledger
      <4>3. jobStates[js].attempt_count <= Len(jobAttempts[js])
        BY <1>1 DEF LedgerInv, AttemptCountIsRecorded
      <4>4. Len(jobAttempts[js]) \in Nat
        BY <1>1, LedgerLength DEF TypeOK
      <4>. QED  BY <2>0, <4>1, <4>2, <4>3, <4>4
    <3>3. CASE js # <<delivered[w], StageOf(w)>>
      <4>1. jobStates'[js] = jobStates[js]
        BY <2>0, <3>1, <3>3 DEF UpsertFailure
      <4>. QED  BY <2>0, <4>1
    <3>. QED  BY <3>2, <3>3
  <2>3. \/ UNCHANGED jobStates
        \/ \E j, s, status : UpsertJobState(j, s, status)
        \/ \E w \in Worker : RecordFailure(w)
    <3>1. CASE WorkerNext
      BY <3>1
         DEF WorkerNext, WorkerStep, Deliver, NackOnStop, CheckHold, HoldJob,
             MarkRunning, AppendStarted, AppendOutput, CountAttempts,
             InsertJobAttempt, Publish, PublishLost, MarkCompleted, Ack,
             ConnectionError, LeaveLoop, Crash, DropConnection, StopPool,
             StartPool, WriteState, WriteEvent, storeVars
    <3>2. CASE OperatorNext
      BY <3>2
         DEF OperatorNext, OperatorStep, CheckSeedBatch, CreateSeedBatch,
             CloseSeedBatch, ReadReplayable, MarkPending, PublishPending,
             Abort, Kill, Hold, ReleaseHold, storeVars
    <3>. QED  BY <1>1, <3>1, <3>2 DEF Next, vars, storeVars
  <2>. QED  BY <2>0, <2>1, <2>2, <2>3
<1>2. TypeOK /\ LedgerInv /\ BudgetInv /\ [Next]_vars => [Grows]_vars
  BY <1>1
<1>. QED
  BY <1>2, TypeCorrect, LedgerInvariant, BudgetInvariant, PTL
     DEF Spec, AttemptCountGrows

-----------------------------------------------------------------------------
(* What a quiet run is reported to be *)

Begun(j, s) == <<"stage_started", j, s>> \in events

(***************************************************************************)
(* A stage that was begun for a job is logged or still accounted for; its  *)
(* output is logged only after it was begun and after the output of every  *)
(* stage before it.                                                        *)
(***************************************************************************)
BegunIsKept ==
    \A j \in Job, s \in Stage : Begun(j, s) => Logged(j, s) \/ Kept(j, s)

LoggedWasBegun ==
    \A j \in Job, s \in Stage :
        Logged(j, s) => Begun(j, s) /\ \A r \in 1 .. s : Logged(j, r)

WorkWasBegun ==
    \A w \in Worker :
        pc[w] \in {"started", "counted", "ledgered"}
            => Begun(delivered[w], StageOf(w))

StartInv == BegunIsKept /\ LoggedWasBegun /\ WorkWasBegun

LEMMA EventStep ==
    ASSUME TypeOK, [Next]_vars
    PROVE  \/ UNCHANGED events
           \/ \E w \in Worker :
                 /\ AppendStarted(w)
                 /\ events' = events \cup
                       {<<"stage_started", delivered[w], StageOf(w)>>}
           \/ \E w \in Worker :
                 /\ AppendOutput(w)
                 /\ events' = events \cup
                       {<<"stage_output", delivered[w], StageOf(w)>>}
<1>1. CASE WorkerNext
  BY <1>1
     DEF WorkerNext, WorkerStep, Deliver, NackOnStop, CheckHold, HoldJob,
         MarkRunning, AppendStarted, AppendOutput, CountAttempts,
         InsertJobAttempt, RecordFailure, Publish, PublishLost,
         MarkCompleted, Ack, ConnectionError, LeaveLoop, Crash,
         DropConnection, StopPool, StartPool, WriteState, WriteEvent,
         AppendEvent, storeVars
<1>2. CASE OperatorNext
  BY <1>2
     DEF OperatorNext, OperatorStep, CheckSeedBatch, CreateSeedBatch,
         CloseSeedBatch, ReadReplayable, MarkPending, PublishPending, Abort,
         Kill, Hold, ReleaseHold, storeVars
<1>. QED  BY <1>1, <1>2 DEF Next, vars, storeVars

LEMMA BegunStep ==
    ASSUME TypeOK, [Next]_vars, NEW j \in Job, NEW s \in Stage
    PROVE  /\ Begun(j, s) => Begun(j, s)'
           /\ Begun(j, s)' => \/ Begun(j, s)
                              \/ \E w \in Worker : /\ AppendStarted(w)
                                                   /\ delivered[w] = j
                                                   /\ StageOf(w) = s
           /\ Logged(j, s)' => \/ Logged(j, s)
                               \/ \E w \in Worker : /\ AppendOutput(w)
                                                    /\ delivered[w] = j
                                                    /\ StageOf(w) = s
BY EventStep DEF Begun, Logged

LEMMA BegunIsKeptStep ==
    ASSUME MaxAborts = 0, TypeOK, KeptInv, FlowInv, FlowInv', StartInv,
           [Next]_vars
    PROVE  BegunIsKept'
<1>. SUFFICES ASSUME NEW j \in Job, NEW s \in Stage, Begun(j, s)'
              PROVE  Logged(j, s)' \/ Kept(j, s)'
  BY DEF BegunIsKept
<1>1. ASSUME NEW w \in Worker, AppendStarted(w), delivered[w] = j,
             StageOf(w) = s
      PROVE  Kept(j, s)'
  <2>1. /\ pc'[w] = "started" /\ delivered'[w] = j /\ connected'[w]
        /\ StageOf(w)' = s
    BY <1>1
       DEF AppendStarted, WriteEvent, Goto, KeepDelivery, StageOf, KeptInv,
           AllConnected, TypeOK, WorkerTypeOK
  <2>. QED  BY <2>1 DEF Kept, InMotion, Unacked, Undecided, Busy
<1>2. CASE Logged(j, s)
  BY <1>2, StoreGrows
<1>3. ASSUME NEW w \in Worker, Completes(w, j, s)
      PROVE  Logged(j, s)
  BY <1>3 DEF Completes, MarkCompleted, WriteState, At, FlowInv,
              OutputIsLogged
<1>4. ASSUME ready'[<<s + 1, j>>] > 0
      PROVE  Logged(j, s)'
  BY <1>4 DEF FlowInv, AppendBeforeForward, Touched, Reached
<1>5. CASE Kept(j, s)
  BY <1>2, <1>3, <1>4, <1>5, KeptMoves DEF KeptInv
<1>. QED
  BY <1>1, <1>2, <1>5, BegunStep DEF StartInv, BegunIsKept

LEMMA LoggedWasBegunStep ==
    ASSUME TypeOK, FlowInv, StartInv, [Next]_vars
    PROVE  LoggedWasBegun'
<1>. SUFFICES ASSUME NEW j \in Job, NEW s \in Stage, Logged(j, s)'
              PROVE  Begun(j, s)' /\ \A r \in 1 .. s : Logged(j, r)'
  BY DEF LoggedWasBegun
<1>0. \A r \in 1 .. s : r \in Stage
  BY ManifestAssumption DEF Stage
<1>1. CASE Logged(j, s)
  BY <1>0, <1>1, BegunStep, StoreGrows DEF StartInv, LoggedWasBegun
<1>2. ASSUME NEW w \in Worker, AppendOutput(w), delivered[w] = j,
             StageOf(w) = s
      PROVE  Begun(j, s)' /\ \A r \in 1 .. s : Logged(j, r)'
  <2>1. Begun(j, s)
    BY <1>2 DEF AppendOutput, WriteEvent, At, StartInv, WorkWasBegun
  <2>2. ASSUME NEW r \in 1 .. s, r # s
        PROVE  Logged(j, r)
    <3>1. /\ s - 1 \in Stage /\ (s - 1) + 1 = s /\ r \in 1 .. s - 1
      BY <2>2, ManifestAssumption DEF Stage
    <3>2. Touched(j, s)
      BY <1>2 DEF Touched
    <3>3. Logged(j, s - 1)
      BY <3>1, <3>2 DEF FlowInv, AppendBeforeForward
    <3>. QED  BY <3>1, <3>3 DEF StartInv, LoggedWasBegun
  <2>. QED  BY <1>0, <2>1, <2>2, BegunStep, StoreGrows
<1>. QED  BY <1>1, <1>2, BegunStep

\* A thread reaches "started" by appending the event.
LEMMA StartedStep ==
    ASSUME TypeOK, [Next]_vars, NEW w \in Worker, pc'[w] = "started"
    PROVE  \/ AppendStarted(w)
           \/ pc[w] = "started" /\ delivered'[w] = delivered[w]
<1>1. CASE UNCHANGED workerVars
  BY <1>1 DEF workerVars
<1>2. ASSUME NEW v \in Worker, v # w,
             WorkerStep(v) \/ Crash(v) \/ DropConnection(v)
               \/ \E i \in Job : Deliver(v, i)
      PROVE  pc[w] = "started" /\ delivered'[w] = delivered[w]
  BY <1>2, OthersKept
<1>3. CASE WorkerStep(w)
  <2>1. ASSUME NEW to, to # "started", pc' = [pc EXCEPT ![w] = to]
        PROVE  FALSE
    BY <2>1 DEF TypeOK, WorkerTypeOK
  <2>. QED
    BY <1>3, <2>1
       DEF WorkerStep, NackOnStop, CheckHold, HoldJob, MarkRunning,
           AppendOutput, CountAttempts, InsertJobAttempt, RecordFailure,
           Publish, PublishLost, MarkCompleted, Ack, ConnectionError,
           LeaveLoop, WriteState, WriteEvent, Goto, Release
<1>4. CASE Crash(w) \/ DropConnection(w) \/ \E i \in Job : Deliver(w, i)
  BY <1>4 DEF Crash, DropConnection, Deliver, Goto, Release, TypeOK,
              WorkerTypeOK
<1>5. ASSUME NEW p \in Pool, StopPool(p) \/ StartPool(p)
      PROVE  pc[w] = "started" /\ delivered'[w] = delivered[w]
  BY <1>5 DEF StopPool, StartPool, KeepDelivery, TypeOK, WorkerTypeOK
<1>. QED
  BY <1>1, <1>2, <1>3, <1>4, <1>5 DEF Next, WorkerNext, vars

LEMMA WorkWasBegunStep ==
    ASSUME TypeOK, StartInv, [Next]_vars
    PROVE  WorkWasBegun'
<1>. SUFFICES ASSUME NEW w \in Worker,
                     pc'[w] \in {"started", "counted", "ledgered"}
              PROVE  <<"stage_started", delivered'[w], StageOf(w)>> \in events'
  BY DEF WorkWasBegun, Begun, StageOf
<1>1. CASE /\ pc[w] \in {"started", "counted", "ledgered"}
           /\ delivered'[w] = delivered[w]
  <2>1. Begun(delivered[w], StageOf(w))
    BY <1>1 DEF StartInv, WorkWasBegun
  <2>2. delivered[w] \in Job /\ StageOf(w) \in Stage
    BY <1>1, DeliveryType DEF Busy
  <2>. QED  BY <1>1, <2>1, <2>2, BegunStep DEF Begun
<1>2. CASE AppendStarted(w)
  BY <1>2 DEF AppendStarted, WriteEvent, AppendEvent, KeepDelivery
<1>3. CASE CountAttempts(w) \/ InsertJobAttempt(w)
  BY <1>1, <1>3 DEF CountAttempts, InsertJobAttempt, At, KeepDelivery
<1>4. CASE pc'[w] = "started" /\ ~AppendStarted(w)
  BY <1>1, <1>4, StartedStep
<1>. QED  BY <1>1, <1>2, <1>3, <1>4, CountStep

LEMMA StartInvariant ==
    ASSUME MaxDrops = 0, MaxAborts = 0
    PROVE  Spec => []StartInv
<1>1. Init => StartInv
  BY DEF Init, StoreInit, WorkerInit, StartInv, BegunIsKept, LoggedWasBegun,
         WorkWasBegun, Begun, Logged
<1>2. /\ TypeOK /\ KeptInv /\ FlowInv /\ FlowInv' /\ StartInv /\ [Next]_vars
      => StartInv'
  BY BegunIsKeptStep, LoggedWasBegunStep, WorkWasBegunStep DEF StartInv
<1>. QED
  BY <1>1, <1>2, TypeCorrect, KeptInvariant, FlowInvariant, PTL DEF Spec

\* A health that is not one of the blocked ones means that nothing is parked.
LEMMA NothingParked ==
    ASSUME IsFiniteSet(Job), TypeOK, NEW terminal, NEW active,
           DeriveRunHealth(terminal, 0, active)
              \in {"created", "running", "complete"},
           NEW j \in Job, NEW s \in Stage
    PROVE  StatusOf(j, s) \notin ParkedStatuses
<1>1. ASSUME NEW status \in ParkedStatuses
      PROVE  /\ StatesIn({status}) = {}
             \/ CountJobStates[status] > 0
  <2>1. IsFiniteSet(Stage)
    BY FS_Interval, ManifestAssumption DEF Stage
  <2>2. IsFiniteSet(Job \X Stage)
    BY <2>1, FS_Product
  <2>3. IsFiniteSet(StatesIn({status}))
    BY <2>2, FS_Subset DEF StatesIn
  <2>4. CountJobStates[status] = Cardinality(StatesIn({status}))
    BY DEF CountJobStates, ParkedStatuses, JobStateStatus
  <2>. QED  BY <2>3, <2>4, FS_CardinalityType, FS_EmptySet
<1>2. \A status \in ParkedStatuses : ~(CountJobStates[status] > 0)
  BY DEF DeriveRunHealth, ParkedStatuses
<1>3. \A status \in ParkedStatuses : StatesIn({status}) = {}
  BY <1>1, <1>2
<1>. QED  BY <1>3 DEF StatesIn, StatusOf

\* The jobs that the active batches expect are as many as the active jobs.
LEMMA ExpectedJobs ==
    ASSUME IsFiniteSet(Job), TypeOK, ActiveBatchesDisjoint
    PROVE  /\ IsFiniteSet(ActiveSeedJobs)
           /\ ExpectedJobCount \in Nat
           /\ ExpectedJobCount <= Cardinality(ActiveSeedJobs)
<1>. DEFINE Pairs == {bj \in (DOMAIN seedBatches) \X Job :
                        /\ seedBatches[bj[1]].status # "failed"
                        /\ bj[2] \in seedBatches[bj[1]].job_ids}
            second == [bj \in Pairs |-> bj[2]]
<1>1. DOMAIN seedBatches = 1 .. Len(seedBatches)
  BY DEF TypeOK, StoreTypeOK
<1>2. ActiveSeedJobs \subseteq Job
  <2>1. \A b \in 1 .. Len(seedBatches) : seedBatches[b] \in SeedBatch
    BY DEF TypeOK, StoreTypeOK
  <2>. QED  BY <2>1, ActiveSeedJob DEF SeedBatch
<1>3. IsFiniteSet(ActiveSeedJobs)
  BY <1>2, FS_Subset
<1>4. second \in Injection(Pairs, ActiveSeedJobs)
  <2>1. second \in [Pairs -> ActiveSeedJobs]
    BY <1>1, ActiveSeedJob
  <2>2. ASSUME NEW p \in Pairs, NEW q \in Pairs, second[p] = second[q]
        PROVE  p = q
    <3>1. p[2] = q[2] /\ p = <<p[1], p[2]>> /\ q = <<q[1], q[2]>>
      BY <2>2
    <3>2. p[1] = q[1]
      BY <1>1, <3>1 DEF ActiveBatchesDisjoint
    <3>. QED  BY <3>1, <3>2
  <2>. QED  BY <2>1, <2>2 DEF Injection, IsInjective
<1>5. /\ Cardinality(Pairs) \in Nat
      /\ Cardinality(Pairs) <= Cardinality(ActiveSeedJobs)
  <2>. HIDE DEF Pairs, second
  <2>. QED  BY <1>3, <1>4, FS_Injection, FS_CardinalityType
<1>. QED  BY <1>3, <1>5 DEF ExpectedJobCount

(***************************************************************************)
(* A run that nothing moves in is reported for what it is, unless a        *)
(* connection is dropped under a delivery or a command fails half-way:     *)
(* threads may crash, stop and start again, and any stage may be replayed. *)
(***************************************************************************)
THEOREM QuietRunsAreReported ==
    ASSUME IsFiniteSet(Job), OneOperator, MaxDrops = 0, MaxAborts = 0
    PROVE  Spec => []QuietHealthIsHonest
<1>1. ASSUME TypeOK, KeptInv, FlowInv, StartInv, ActiveBatchesDisjoint
      PROVE  QuietHealthIsHonest
  <2>. SUFFICES ASSUME NEW terminal, NEW active, Quiet,
                       DeriveRunHealth(terminal, 0, active)
                          \in {"created", "running", "complete"}
                PROVE  /\ PublishedJobs \subseteq FinishedJobs
                       /\ \A s \in Stage : InFlightJobs(s) = 0
                       /\ \A s \in Stage :
                             ActiveSeedJobs = PublishedJobs => StageComplete(s)
    BY DEF QuietHealthIsHonest
  <2>1. \A j \in Job, s \in Stage : ~Kept(j, s)
    BY <1>1, NothingParked DEF Kept, Quiet, HandedAt, InOperatorHand
  <2>2. PublishedJobs \subseteq FinishedJobs
    <3>. SUFFICES ASSUME NEW j \in PublishedJobs PROVE j \in FinishedJobs
      OBVIOUS
    <3>1. KeptFrom(j, 1)
      BY <1>1 DEF PublishedJobs, KeptInv, SeedsAreKept, BatchWithin, SeedsWithin
    <3>2. j \in Job
      <4>1. \A b \in 1 .. Len(seedBatches) : seedBatches[b] \in SeedBatch
        BY <1>1 DEF TypeOK, StoreTypeOK
      <4>. QED  BY <4>1 DEF PublishedJobs, SeedBatch
    <3>. QED
      BY <2>1, <3>1, <3>2 DEF KeptFrom, FinishedJobs, Finished, Stage
  <2>3. ASSUME NEW s \in Stage
        PROVE  StartedJobs(s) = CompletedJobs(s)
    BY <1>1, <2>1
       DEF StartedJobs, CompletedJobs, StartInv, BegunIsKept, LoggedWasBegun,
           Begun, Logged
  <2>4. ASSUME NEW s \in Stage
        PROVE  IsFiniteSet(CompletedJobs(s)) /\ Cardinality(CompletedJobs(s)) \in Nat
    BY FS_Subset, FS_CardinalityType DEF CompletedJobs
  <2>5. ASSUME NEW s \in Stage, ActiveSeedJobs = PublishedJobs
        PROVE  StageComplete(s)
    <3>1. ASSUME NEW j \in PublishedJobs
          PROVE  j \in CompletedJobs(s)
      <4>1. /\ j \in Job /\ ready[<<FinalQueue, j>>] > 0
            /\ NumStages \in Stage /\ s \in 1 .. NumStages
        BY <2>2, <3>1, ManifestAssumption DEF FinishedJobs, Finished, Stage
      <4>2. Touched(j, NumStages + 1)
        BY <4>1 DEF Touched, Reached, FinalQueue
      <4>3. Logged(j, NumStages)
        BY <1>1, <4>1, <4>2 DEF FlowInv, AppendBeforeForward
      <4>4. Logged(j, s)
        BY <1>1, <4>1, <4>3 DEF StartInv, LoggedWasBegun
      <4>. QED  BY <4>1, <4>4 DEF CompletedJobs, Logged
    <3>2. Cardinality(ActiveSeedJobs) <= Cardinality(CompletedJobs(s))
      BY <2>4, <2>5, <3>1, FS_Subset
    <3>3. /\ IsFiniteSet(ActiveSeedJobs)
          /\ ExpectedJobCount \in Nat
          /\ ExpectedJobCount <= Cardinality(ActiveSeedJobs)
      BY <1>1, ExpectedJobs
    <3>4. Cardinality(ActiveSeedJobs) \in Nat
      BY <3>3, FS_CardinalityType
    <3>. QED  BY <2>4, <3>2, <3>3, <3>4 DEF StageComplete
  <2>. QED  BY <2>2, <2>3, <2>4, <2>5 DEF InFlightJobs
<1>. QED
  BY <1>1, TypeCorrect, KeptInvariant, FlowInvariant, StartInvariant,
     SeedBatchesAreDisjoint, PTL
=============================================================================
