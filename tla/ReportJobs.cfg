SPECIFICATION FairSpec
CONSTANTS
    Job = {j1, j2}
    Worker = {w1, w2}
    NoJob = NoJob
    MaxFaults = 1
    MaxCrashes = 1
    MaxDrops = 1
INVARIANTS
    GeneratedOnce
    HeldUntilStarted
PROPERTIES
    NeverReopened
    RequestedSettles
\* Every report settled and none asked for any more.
CHECK_DEADLOCK FALSE
