SPECIFICATION FairSpec
CONSTANTS
    Channel = {c1, c2}
    ClockPostscaler = 10
    MaxPeriod = 3
    StartScale = 10
    FrameScale = 1
    ErrorScale = 4
    WaitCount = 2
    FifoSize = 3
INVARIANTS
    ErrorShown
    LoneThermometerReady
PROPERTY TicksGoOn
