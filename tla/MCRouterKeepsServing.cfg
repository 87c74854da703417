SPECIFICATION Spec
CONSTANTS
    n1 = n1
    n2 = n2
    d1 = d1
    d2 = d2
    Networks = {n1}
    Devices = {d1}
    NetworkOf <- MCNetworkOfOne
    Bits = {0, 1}
    Commands <- QueryCommands
    BufferLimit = 2
    NoDevice = NoDevice
    UnknownDevice = UnknownDevice
    Missing = Missing
    Invalid = Invalid
    MaxConnections = 1
    MaxRecords = 2
INVARIANT KeepsServing
CHECK_DEADLOCK FALSE
