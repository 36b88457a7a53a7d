\* run_in_process, fairly scheduled, with two seed commands and repeated arrivals.
SPECIFICATION FairSpec
CONSTANTS
    j1 = j1  j2 = j2  c1 = c1  c2 = c2  r = r
    t1 = t1  t2 = t2  tr = tr  tw = tw
    Job = {j1, j2}
    Tap = {tr, tw}
    BatchSize = 2
    MaxTapCrashes = 0
    MaxTapDrops = 0
    Caller = {r}
    Runner = {r}
    RunTap <- OneRunTap
    WaitTap <- RunnerTaps
    SeedChoices <- SingleSeeds
    MaxBatches = 2
    MaxSeedAborts = 0
    MaxArrivals = 2
    MaxCalls = 1
    MaxFailures = 0
PROPERTIES
    CompleteMeansEveryJob
    WaitReturns
CHECK_DEADLOCK FALSE
