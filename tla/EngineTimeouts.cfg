SPECIFICATION Spec
CONSTANTS
    Exec = {e1}
    N = 2
    c1 = c1
    c2 = c2
    CompName = {c1}
    NoComp = NoComp
    Comp <- CompFirst
    MaxAttempts <- OneEach
    Consumer = {p1, p2}
    Reaper = {r1}
    Client = {}
    Nobody = Nobody
    NoKey = NoKey
    AttemptCap = 1
    MaxFaults = 1
    MaxRepeats = 1
SYMMETRY Replicas
CHECK_DEADLOCK FALSE
INVARIANTS
    TypeOK
    SequentialSteps
    CompletedMeansAllDone
    
    
    
