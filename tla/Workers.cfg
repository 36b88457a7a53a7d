\* The worker registry: a detached worker, a pool of the runner, an operator.
SPECIFICATION FairSpec
CONSTANTS
    d1 = d1
    r1 = r1
    o1 = o1
    Worker = {d1, r1}
    InProcess = {r1}
    Remote = {}
    Operator = {o1}
    MaxRequests = 2
    MaxFaults = 1
INVARIANTS
    LifecycleTypeOK
    ServingIsRecorded
PROPERTIES
    StatusMovesOn
    StopIsGraceful
    StopRequestEnds
CHECK_DEADLOCK FALSE
