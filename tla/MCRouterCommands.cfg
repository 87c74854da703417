SPECIFICATION FairSpec
CONSTANTS
    n1 = n1
    n2 = n2
    d1 = d1
    d2 = d2
    Networks = {n1, n2}
    Devices = {d1, d2}
    NetworkOf <- MCNetworkOf
    Bits = {0, 1}
    Commands <- CommandCommands
    BufferLimit = 2
    NoDevice = NoDevice
    UnknownDevice = UnknownDevice
    Missing = Missing
    Invalid = Invalid
    MaxConnections = 1
    MaxRecords = 2
PROPERTY TimersProgress
CHECK_DEADLOCK FALSE
