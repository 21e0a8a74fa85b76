SPECIFICATION AgreeingSpec
CONSTANTS
    Exec = {e1}
    N = 4
    c1 = c1
    c2 = c2
    CompName = {c1, c2}
    NoComp = NoComp
    Comp <- CompShared
    MaxAttempts <- TwoTriesOne
    Consumer = {p1, p2}
    Reaper = {}
    Client = {}
    Nobody = Nobody
    NoKey = NoKey
    AttemptCap = 2
    MaxFaults = 1
    MaxRepeats = 1
    IntWidth = 12
    ColumnWidth = 8
SYMMETRY Replicas
CHECK_DEADLOCK FALSE
PROPERTIES
    CompensatedMeansUndone
    IsSaga
