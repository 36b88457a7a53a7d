\* One caller at a time calls again after timeouts, failures and tap crashes;
\* seeds overlap, fail or are killed; every job arrives once.
SPECIFICATION Spec
CONSTANTS
    j1 = j1  j2 = j2  c1 = c1  c2 = c2  r = r
    t1 = t1  t2 = t2  tr = tr  tw = tw
    Job = {j1, j2}
    Tap = {t1}
    BatchSize = 2
    MaxTapCrashes = 1
    MaxTapDrops = 1
    Caller = {c1}
    Runner = {}
    RunTap <- NoRunTap
    WaitTap <- OneWaitTap
    SeedChoices <- OverlappingSeeds
    MaxBatches = 2
    MaxSeedAborts = 1
    MaxArrivals = 1
    MaxCalls = 3
    MaxFailures = 1
INVARIANTS
    OneTerminalEventPerJob
    NoTerminalLost
    EventHasState
CHECK_DEADLOCK FALSE
