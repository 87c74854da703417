SPECIFICATION FairSpec
CONSTANTS
    MaxClients = 2
    RxObjects = 2
    TxObjects = 1
    Polls = 1
    MaxFrames = 2
    MaxSends = 1
INVARIANTS
    FramesAccounted
    CommandsAccounted
    RequestSettled
PROPERTIES
    FramesForwarded
    MessagesServed
