\* Two jobs, an in-memory sink, failing handlers, a crash, a lost connection and a stop.
SPECIFICATION FairSpec
CONSTANTS
    j1 = j1  j2 = j2  w1 = w1  w2 = w2  w3 = w3
    Job = {j1, j2}
    NumStages = 2
    Worker = {w1, w2, w3}
    StageOf <- TwoStages
    NoJob = NoJob
    MaxCrashes = 1
    MaxDrops = 1
    MaxStops = 1
INVARIANTS
    SinkTypeOK
    StartedIsKept
PROPERTIES
    ImplementsWriteAheadFlow
    RetriedUntilForwarded
CHECK_DEADLOCK FALSE
