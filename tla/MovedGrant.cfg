SPECIFICATION GrantSpec
CONSTANTS
    e1 = e1
    e2 = e2
    g1 = g1
    g2 = g2
    g3 = g3
    j1 = j1
    j2 = j2
    Jobs = {j1, j2}
    Engines = {e1, e2}
    NoEngine = NoEngine
    Devices <- MCDevices
    Need <- MCNeed
    StartUse <- MCStartUse
    EndUse <- MCEndUse
    Budget = 3
    MaxGrants = 4
INVARIANT
    QueuedHoldsNothing
CHECK_DEADLOCK FALSE
