\* Three setups of one run, one of which overwrites; an application that
\* attaches and a worker that reads the manifest.
SPECIFICATION Spec
CONSTANTS
    short = short
    long = long
    x = x
    y = y
    s1 = s1
    s2 = s2
    s3 = s3
    a1 = a1
    r1 = r1
    NoRun = NoRun
    Pipeline = {short, long}
    Prefix = {x, y}
    NumSteps <- Steps
    Setup = {s1, s2, s3}
    Overwriting = {s3}
    Attached = {a1}
    Reader = {r1}
    Definition <- Definitions
    PrefixOf <- Prefixes
INVARIANTS
    SetupTypeOK
    HeldQueuesExist
    RunIsShared
CHECK_DEADLOCK FALSE
