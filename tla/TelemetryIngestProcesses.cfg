SPECIFICATION Spec
CONSTANTS
    Nobody = Nobody
    l1 = l1
    l2 = l2
    p1 = p1
    p2 = p2
    Locomotive = {l1}
    Process = {p1, p2}
    BatchSize = 1
    BufferMax = 1
    MaxRetries = 1
    MaxTicks = 2
    MaxFaults = 0
    MaxTimeouts = 0
    MaxRestarts = 0
PROPERTY
    DamageNeverShrinks
