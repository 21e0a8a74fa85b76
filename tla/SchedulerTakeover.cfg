SPECIFICATION FairSpec
CONSTANTS
    s1 = s1
    s2 = s2
    Schedule = {s1}
    Kind <- CronOnly
    Period = 1
    Replica = {r1, r2}
    Nobody = Nobody
    NoItem = NoItem
    MaxTime = 2
    MaxResumes = 0
    MaxFaults = 2
PROPERTIES
    DueIsHandled
