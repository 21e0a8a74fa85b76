SPECIFICATION FairSpec
CONSTANTS
    Task = {t1}
    Replica = {r1, r2}
    Timeout = 4
    BeatEvery = 2
    Delay = 2
    Nobody = Nobody
    MaxFaults = 2
CHECK_DEADLOCK FALSE
INVARIANTS
    TypeOK
    PunctualNotReaped
PROPERTIES
    SilentIsReaped
