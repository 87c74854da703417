SPECIFICATION FairSpec
CONSTANTS
    Flow = {f1}
    Temp = {a, b}
    Timer = {t1, t2, t3}
    TempMaxLen = 2
    MaxPulses = 1
    MaxKills = 1
INVARIANTS
    FilesWhole
    PulsesAccounted
PROPERTY PulsesCollected
