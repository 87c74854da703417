SPECIFICATION Spec
CONSTANTS
    n1 = n1
    n2 = n2
    d1 = d1
    d2 = d2
    Networks = {n1, n2}
    Devices = {d1, d2}
    NetworkOf <- MCNetworkOf
    Bits = {}
    Commands <- RoutingCommands
    BufferLimit = 1
    NoDevice = NoDevice
    UnknownDevice = UnknownDevice
    Missing = Missing
    Invalid = Invalid
    MaxConnections = 2
    MaxRecords = 2
INVARIANTS
    SendTimerArmed
    NetworksTracked
    RepliesAwaitedOnConnectedNetworks
    SubscriptionsOwned
PROPERTIES
    AnswersSettleQueries
    QueriesNotForgotten
CHECK_DEADLOCK FALSE
