SPECIFICATION FairUninterruptedSpec
CONSTANTS
    Exec = {e1}
    N = 2
    c1 = c1
    c2 = c2
    CompName = {c1, c2}
    NoComp = NoComp
    Comp <- CompBoth
    MaxAttempts <- TwoTriesLast
    Consumer = {p1, p2}
    Reaper = {}
    Client = {}
    Nobody = Nobody
    NoKey = NoKey
    AttemptCap = 2
    MaxFaults = 1
    MaxRepeats = 1
    IntWidth = 12
    ColumnWidth = 8
CHECK_DEADLOCK FALSE
INVARIANTS
    OneOpenAttempt
    NoStranded
    LoopFindsNextCompensation
    RetriesWait
PROPERTIES
    EventuallySettled
