\* Partition routing: a worker of the first stage, one with a selector for
\* the second, a pool of the runner and the tap, retagging handlers.
SPECIFICATION FairSpec
CONSTANTS
    j1 = j1
    j2 = j2
    o1 = o1
    w1 = w1
    w2 = w2
    k = k
    pool = pool
    a = a
    b = b
    none = none
    Job = {j1, j2}
    NumStages = 2
    Key = {k, pool}
    Word = {a, b}
    QuotaPool = pool
    Sanitize <- SanitizedNames
    NoWord = none
    TagsOf <- TwoJobTags
    HandlerTags <- RetagK
    Operator = {o1}
    Worker = {w1, w2}
    StageOf <- StageMap
    Include <- SelectSome
    Exclude <- ExcludePool
    InProcess = {w1}
    MaxParks = 1
    MaxStarts = 2
    MaxAborts = 1
INVARIANTS
    RoutingTypeOK
    RoutesExist
    KnownJobsAreServed
PROPERTIES
    KnownJobsAreTaken
CHECK_DEADLOCK FALSE
