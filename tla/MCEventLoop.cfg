SPECIFICATION FairSpec
CONSTANTS
    Thread = {t1}
    Loop = Loop
    has_handler = FALSE
    MaxEvents = 2
    MaxStarts = 2
    MaxScope = 1
INVARIANTS
    WakeupPending
    StopDrains
PROPERTIES
    ImplementsExecutor
    CallsReturn
    EventsHandled
CHECK_DEADLOCK FALSE
