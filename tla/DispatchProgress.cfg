SPECIFICATION FairSpec
CONSTANTS
    t1 = t1
    pay = pay
    Task = {t1}
    Activity = {pay}
    ActivityOf <- OneTask
    Known = {pay}
    Publisher = {p1}
    Worker = {w1}
    Copy = {k1, k2, k3, k4}
    Slots = 1
    BatchLimit = 1
    None = None
    MaxFaults = 2
CHECK_DEADLOCK FALSE
PROPERTIES
    EventuallyReported
