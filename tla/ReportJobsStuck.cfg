SPECIFICATION FairSpec
CONSTANTS
    Job = {j1}
    Worker = {w1}
    NoJob = NoJob
    MaxFaults = 0
    MaxCrashes = 1
    MaxDrops = 0
PROPERTIES
    PolledSettles
\* Every report settled and none asked for any more.
CHECK_DEADLOCK FALSE
