\* Two operators and two threads of one stage over one job: a connection lost
\* under a delivery, a command that fails or is killed, a seed, two replays.
SPECIFICATION Spec
CONSTANTS
    j1 = j1  j2 = j2  w1 = w1  w2 = w2  w3 = w3
    p1 = p1  p2 = p2  p3 = p3  t1 = t1  a = a  b = b
    Job = {j1}
    NumStages = 2
    Target = {t1}
    TargetOf <- OneTarget
    MaxAttempts = 2
    Worker = {w1, w2}
    Pool = {p1}
    PoolOf <- FirstStageDoubled
    StageOfPool <- FirstStageOnly
    NoJob = NoJob
    SilentPublishLoss = FALSE
    MaxCrashes = 0
    MaxDrops = 1
    MaxStarts = 0
    Operator = {a, b}
    ReplaySelections <- RecoverySelection
    MaxBatches = 1
    MaxReplays = 2
    MaxAborts = 1
    MaxHolds = 0
INVARIANTS
    PublishedIsRecoverable
    DeadLetterNeedsBudget
SYMMETRY ThreadsAndOperators
CHECK_DEADLOCK FALSE
