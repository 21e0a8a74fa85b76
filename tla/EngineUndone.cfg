SPECIFICATION Spec
CONSTANTS
    Exec = {e1}
    N = 2
    c1 = c1
    c2 = c2
    CompName = {c1}
    NoComp = NoComp
    Comp <- CompFirst
    MaxAttempts <- TwoThenOne
    Consumer = {p1, p2}
    Reaper = {}
    Client = {}
    Nobody = Nobody
    NoKey = NoKey
    AttemptCap = 2
    MaxFaults = 0
    MaxRepeats = 1
SYMMETRY Replicas
CHECK_DEADLOCK FALSE
PROPERTIES
    CompensatedMeansUndone
