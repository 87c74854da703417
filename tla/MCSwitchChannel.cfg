SPECIFICATION SwitchFairSpec
CONSTANT MaxWord = 3
INVARIANTS
    HighOnlyWhenCommanded
    OffTimerNeverWraps
PROPERTIES
    WholeDelay
    DelayedOffHappens
