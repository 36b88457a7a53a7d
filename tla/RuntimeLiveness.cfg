\* Two pools on the second stage, one crash, stops, a restart, a replay: no job
\* is lost and the run comes to rest.
SPECIFICATION FairSpec
CONSTANTS
    j1 = j1  j2 = j2  w1 = w1  w2 = w2  w3 = w3
    p1 = p1  p2 = p2  p3 = p3  t1 = t1  a = a  b = b
    Job = {j1}
    NumStages = 2
    Target = {t1}
    TargetOf <- OneTarget
    MaxAttempts = 2
    Worker = {w1, w2, w3}
    Pool = {p1, p2, p3}
    PoolOf <- SecondStageTwoPools
    StageOfPool <- TwoStagesThreePools
    NoJob = NoJob
    SilentPublishLoss = FALSE
    MaxCrashes = 1
    MaxDrops = 0
    MaxStarts = 1
    Operator = {a}
    ReplaySelections <- DefaultSelection
    MaxBatches = 1
    MaxReplays = 1
    MaxAborts = 0
    MaxHolds = 0
INVARIANTS
    TypeOK
    EveryJobInMotionOrParked
    CompletedIsCarried
PROPERTIES
    RunComesToRest
CHECK_DEADLOCK FALSE
