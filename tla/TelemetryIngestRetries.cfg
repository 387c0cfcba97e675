SPECIFICATION Spec
CONSTANTS
    Nobody = Nobody
    l1 = l1
    l2 = l2
    p1 = p1
    p2 = p2
    Locomotive = {l1}
    Process = {p1}
    BatchSize = 2
    BufferMax = 2
    MaxRetries = 2
    MaxTicks = 3
    MaxFaults = 1
    MaxTimeouts = 1
    MaxRestarts = 1
INVARIANTS
    EventsAddUp
    SentIsStored
