SPECIFICATION FairSpec
CONSTANTS
    pay = pay
    ship = ship
    refund = refund
    Workflow = {w1}
    Activity = {pay, ship, refund}
    NoComp = NoComp
    Definition <- Lists
    Exec = {e1, e2}
    Consumer = {p1}
    Client = {c1}
    Unused = Unused
    Gone = Gone
    NoReport = NoReport
    MaxChanges = 1
    MaxFaults = 1
CHECK_DEADLOCK FALSE
INVARIANTS
    TypeOK
    NoOrphans
    AtMostOneOpen
    RunsAsDefined
PROPERTIES
    SettlesUnlessChanged
