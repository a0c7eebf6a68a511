SPECIFICATION CoordinationSpec
CONSTANTS
    a1 = a1
    a2 = a2
    login1 = login1
    login2 = login2
    Agents = {a1, a2}
    Managers = {m1, m2}
    Keys = {k1}
    Human = human
    None = None
    HostOf <- Hosts
    MaxOps = 3
    MaxFaults = 1
INVARIANTS
    CoordinationTypeOK
    StopsOnlyOwn
    OneSelfManager
    MarkerNamesManager
    SubmittedOnce
PROPERTIES
    StopsNothingInUse
    ReservationEnds
CHECK_DEADLOCK FALSE
