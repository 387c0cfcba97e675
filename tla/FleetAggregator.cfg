\* The processor's messages to Analytics, and every function computed without state.
SPECIFICATION FairSpec
CONSTANTS
    Unknown = Unknown
    l1 = l1
    l2 = l2
    Locomotive = {l1, l2}
    Category = {"norma", "vnimanie", "kritichno"}
    MaxMessages = 3
    MaxFaults = 2
INVARIANTS
    ChangesChain
    SummaryAgrees
    CacheAgrees
    AlertsMirrorHealth
    FalseAlarmsSettle
    
    ChartShowsTheData
    QueriesAgree
    AnswersAreTrue
    AcknowledgedStays
    ReportsAddUp
PROPERTIES
    SubscribersConverge
\* The bounds on messages and faults let the system come to rest.
CHECK_DEADLOCK FALSE
