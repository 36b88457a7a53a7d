\* Every fault: a crash, a lost connection on which a publish may not raise, a
\* restart, a command that fails or is killed, a second seed, a replay.
SPECIFICATION Spec
CONSTANTS
    j1 = j1  j2 = j2  w1 = w1  w2 = w2  w3 = w3
    p1 = p1  p2 = p2  p3 = p3  t1 = t1  a = a  b = b
    Job = {j1}
    NumStages = 2
    Target = {t1}
    TargetOf <- OneTarget
    MaxAttempts = 2
    Worker = {w1, w2}
    Pool = {p1, p2}
    PoolOf <- SingleThreads
    StageOfPool <- TwoStages
    NoJob = NoJob
    SilentPublishLoss = TRUE
    MaxCrashes = 1
    MaxDrops = 1
    MaxStarts = 1
    Operator = {a}
    ReplaySelections <- FinishedSelection
    MaxBatches = 2
    MaxReplays = 1
    MaxAborts = 1
    MaxHolds = 0
INVARIANTS
    AppendBeforeForward
    DeadLetterNeedsBudget
    AttemptCountIsRecorded
    ActiveBatchesDisjoint
PROPERTIES
    ImplementsWriteAheadFlow
CHECK_DEADLOCK FALSE
