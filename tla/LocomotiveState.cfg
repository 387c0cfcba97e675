SPECIFICATION FairSpec
CONSTANTS
    None = None
    Route <- MCRoute
    MaxSpeed = 2
    Accelerate = 1
    Brake = 1
    SlowDown = 1
    PickUp = 1
    DepartMax = 2
    CruiseMin = 1
    CruiseMax = 2
    RecoverMax = 1
    MaxDuration = 2
    Ramp = 3
    EmergencyRamp = 2
    Creations <- MCCreations
    Patches <- MCPatches
    MaxRequests = 5
INVARIANTS
    OnRoute
PROPERTIES
    EmergencyStops
    FreshRamp
CHECK_DEADLOCK FALSE
