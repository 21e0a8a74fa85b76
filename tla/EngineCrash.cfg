SPECIFICATION FairSpec
CONSTANTS
    Exec = {e1}
    N = 2
    c1 = c1
    c2 = c2
    CompName = {c1}
    NoComp = NoComp
    Comp <- CompFirst
    MaxAttempts <- OneEach
    Consumer = {p1}
    Reaper = {}
    Client = {}
    Nobody = Nobody
    NoKey = NoKey
    AttemptCap = 1
    MaxFaults = 1
    MaxRepeats = 0
CHECK_DEADLOCK FALSE
PROPERTIES
    EventuallySettled
