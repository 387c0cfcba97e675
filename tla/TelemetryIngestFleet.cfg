SPECIFICATION FairSpec
CONSTANTS
    Nobody = Nobody
    l1 = l1
    l2 = l2
    p1 = p1
    p2 = p2
    Locomotive = {l1, l2}
    Process = {p1}
    BatchSize = 1
    BufferMax = 1
    MaxRetries = 2
    MaxTicks = 2
    MaxFaults = 2
    MaxTimeouts = 0
    MaxRestarts = 0
PROPERTIES
    FilterInOrder
    DamageNeverShrinks
    BufferSettles
