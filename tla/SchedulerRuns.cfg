SPECIFICATION Spec
CONSTANTS
    s1 = s1
    s2 = s2
    Schedule = {s1, s2}
    Kind <- OnceAndCron
    Period = 1
    Replica = {r1, r2}
    Nobody = Nobody
    NoItem = NoItem
    MaxTime = 2
    MaxResumes = 1
    MaxFaults = 1
SYMMETRY Replicas
INVARIANTS
    TypeOK
    
    OneLeader
PROPERTIES
    RunsNotSkipped
