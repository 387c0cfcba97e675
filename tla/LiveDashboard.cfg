SPECIFICATION FairSpec
CONSTANTS
    None = None
    l1 = l1
    l2 = l2
    MaxManagers = 2
    Socket <- MCSocket
    Locomotive = {l1, l2}
    Kind = {"alert", "health"}
    QueueMax = 1
    WireMax = 1
    MaxMessages = 2
    MaxAttempts = 1
    MaxFaults = 2
INVARIANTS
    ShownIsSelected
    NewestSurvives
    TicketAdmitsOnce
PROPERTIES
    ShownInOrder
    Reconnects
CHECK_DEADLOCK FALSE
