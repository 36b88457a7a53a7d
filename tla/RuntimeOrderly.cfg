\* No fault: two jobs, one operator, stops, failing handlers, holds, replays.
SPECIFICATION Spec
CONSTANTS
    j1 = j1  j2 = j2  w1 = w1  w2 = w2  w3 = w3
    p1 = p1  p2 = p2  p3 = p3  t1 = t1  a = a  b = b
    Job = {j1, j2}
    NumStages = 2
    Target = {t1}
    TargetOf <- OneTarget
    MaxAttempts = 2
    Worker = {w1, w2, w3}
    Pool = {p1, p2}
    PoolOf <- SecondStageDoubled
    StageOfPool <- TwoStages
    NoJob = NoJob
    SilentPublishLoss = FALSE
    MaxCrashes = 0
    MaxDrops = 0
    MaxStarts = 0
    Operator = {a}
    ReplaySelections <- DefaultSelection
    MaxBatches = 1
    MaxReplays = 2
    MaxAborts = 0
    MaxHolds = 1
INVARIANTS
    RetryWaitsWithinBudget
    ExclusiveExecution
    EveryJobInMotionOrParked
    QuietHealthIsHonest
PROPERTIES
    AttemptCountGrows
SYMMETRY JobsAndThreads
CHECK_DEADLOCK FALSE
