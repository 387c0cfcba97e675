\* One replica, two workers: progress with a crash or SIGTERM and a failing call.
SPECIFICATION FairSpec
CONSTANTS
    Consumer = {c1}
    Worker = {w1, w2}
    None = None
    Payload <- MCPayload
    Row <- MCRow
    RowsOf <- MCRowsOf
    Malformed <- MCMalformed
    StreamMaxLen = 1
    MaxEntries = 2
    ReaderBatchSize = 1
    RowsPerFlush = 1
    QueueMaxSize = 1
    MaxStops = 1
    MaxFaults = 1
    MaxWipes = 0
INVARIANTS
    NothingForgotten
PROPERTIES
    DrainSettlesPending
    ShutdownTerminates
\* The bounds on stops, entries and faults let the system come to rest.
CHECK_DEADLOCK FALSE
