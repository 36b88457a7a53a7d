\* Two callers of wait_for_run share the final queue; a tap crashes.
SPECIFICATION FairSpec
CONSTANTS
    j1 = j1  j2 = j2  c1 = c1  c2 = c2  r = r
    t1 = t1  t2 = t2  tr = tr  tw = tw
    Job = {j1, j2}
    Tap = {t1, t2}
    BatchSize = 2
    MaxTapCrashes = 1
    MaxTapDrops = 0
    Caller = {c1, c2}
    Runner = {}
    RunTap <- NoRunTap
    WaitTap <- TwoWaitTaps
    SeedChoices <- OneSeed
    MaxBatches = 1
    MaxSeedAborts = 0
    MaxArrivals = 1
    MaxCalls = 2
    MaxFailures = 0
INVARIANTS
    WaitTypeOK
PROPERTIES
    CompletionIsTrue
    WaitReturns
CHECK_DEADLOCK FALSE
