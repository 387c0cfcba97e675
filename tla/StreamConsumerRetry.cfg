\* A batch whose write failed is not tried again while the replica runs.
SPECIFICATION FairSpec
CONSTANTS
    Consumer = {c1}
    Worker = {w1, w2}
    None = None
    Payload <- MCPayload
    Row <- MCRow
    RowsOf <- MCRowsOf
    Malformed <- MCMalformed
    StreamMaxLen = 1
    MaxEntries = 2
    ReaderBatchSize = 2
    RowsPerFlush = 1
    QueueMaxSize = 1
    MaxStops = 0
    MaxFaults = 1
    MaxWipes = 0
PROPERTIES
    UnwrittenIsRetried
\* The bounds on stops, entries and faults let the system come to rest.
CHECK_DEADLOCK FALSE
