SPECIFICATION FairSpec
CONSTANTS
    LineSizes = {1, 2}
    write_buffer_limit = 2
    Null = Null
    MaxRead = 4
    MaxWritten = 3
INVARIANTS
    WriteListenerArmed
    NothingLost
PROPERTIES
    ImplementsLineChannel
    LinesDelivered
CHECK_DEADLOCK FALSE
