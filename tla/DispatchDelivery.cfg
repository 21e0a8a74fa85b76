SPECIFICATION Spec
CONSTANTS
    t1 = t1
    pay = pay
    Task = {t1}
    Activity = {pay}
    ActivityOf <- OneTask
    Known = {}
    Publisher = {p1, p2}
    Worker = {w1, w2}
    Copy = {k1, k2, k3}
    Slots = 1
    BatchLimit = 1
    None = None
    MaxFaults = 2
SYMMETRY Replicas
CHECK_DEADLOCK FALSE
INVARIANTS
    TypeOK
    SlotsAccounted
    DuplicatesHaveCause
    DeadLettersKept
PROPERTIES
    DeliversAtLeastOnce
