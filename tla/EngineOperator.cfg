SPECIFICATION Spec
CONSTANTS
    Exec = {e1}
    N = 2
    c1 = c1
    c2 = c2
    CompName = {c1}
    NoComp = NoComp
    Comp <- CompFirst
    MaxAttempts <- OneEach
    Consumer = {p1}
    Reaper = {}
    Client = {q1}
    Nobody = Nobody
    NoKey = NoKey
    AttemptCap = 3
    MaxFaults = 0
    MaxRepeats = 0
CHECK_DEADLOCK FALSE
INVARIANTS
    BudgetOnlyByOperator
    NoSpuriousCompensation
    RollbackOnlyAfterDeadLetter
