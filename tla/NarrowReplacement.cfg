\* A replaced worker of the second stage, without selectors.
SPECIFICATION Spec
CONSTANTS
    j1 = j1
    j2 = j2
    o1 = o1
    w1 = w1
    w2 = w2
    k = k
    pool = pool
    a = a
    b = b
    none = none
    Job = {j1, j2}
    NumStages = 2
    Key = {k, pool}
    Word = {a, b}
    QuotaPool = pool
    Sanitize <- SanitizedNames
    NoWord = none
    TagsOf <- TwoJobTags
    HandlerTags <- RetagK
    Operator = {o1}
    Worker = {w1, w2}
    StageOf <- StageMap
    Include <- SelectNone
    Exclude <- SelectNone
    InProcess = {}
    MaxParks = 0
    MaxStarts = 3
    MaxAborts = 0
INVARIANTS
    ReplacementsServe
CHECK_DEADLOCK FALSE
