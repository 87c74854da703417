SPECIFICATION FairSpec
CONSTANTS
    ChannelCount = 4
    NoReading = NoReading
INVARIANTS
    SensorsTracked
    OwnConversion
PROPERTIES
    HangsOnlyWithGap
    EverySensorSampled
CHECK_DEADLOCK FALSE
