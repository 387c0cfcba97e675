SPECIFICATION FairSpec
CONSTANTS
    w1 = w1
    w2 = w2
    w3 = w3
    ch1 = ch1
    ch2 = ch2
    Heartbeat = Heartbeat
    NoOne = NoOne
    Client = {w1, w2, w3}
    Channel = {ch1, ch2}
    ChannelsOf <- TwoChannels
    MaxConnections = 2
    Suspending = {w3}
INVARIANTS
    OneRelayPerChannel
    SubscriberIsServed
    NoSlotLeftBehind
PROPERTIES
    GoneIsForgotten
