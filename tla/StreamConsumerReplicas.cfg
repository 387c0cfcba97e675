\* Two replicas on one group: crashes, SIGTERM, a failing call, a Redis restart.
SPECIFICATION Spec
CONSTANTS
    Consumer = {c1, c2}
    Worker = {w1}
    None = None
    Payload <- MCPayload
    Row <- MCRow
    RowsOf <- MCRowsOf
    Malformed <- MCMalformed
    StreamMaxLen = 1
    MaxEntries = 2
    ReaderBatchSize = 2
    RowsPerFlush = 1
    QueueMaxSize = 1
    MaxStops = 1
    MaxFaults = 1
    MaxWipes = 1
INVARIANTS
    CommittedBeforeAck
    DiscardedIsUnreadable
    DeliveredIsAccounted
PROPERTIES
    ImplementsDurableDelivery
SYMMETRY MCSymmetry
\* The bounds on stops, entries and faults let the system come to rest.
CHECK_DEADLOCK FALSE
