SPECIFICATION Spec
CONSTANTS
    Jobs = {j1, j2}
    Engines = {e1, e2}
    NoEngine = NoEngine
    NoCode = NoCode
    Slots = 1
    TransferJobs = {}
    TransferLimit = 0
    MaxRequeue = 1
    MissLimit = 2
    ExitCodes = {"FAILURE"}
    GrantChecks = {TRUE}
    MaxLosses = 1
    MaxShortages = 1
    MaxReportLosses = 0
    MaxKills = 1
    MaxStops = 0
    MaxPhaseToggles = 0
    MaxCancels = 0
    MaxRestarts = 0
SYMMETRY Symmetry
INVARIANTS TypeOK AtMostOneExecution ExecutionIsOwned PilotCapacity
PROPERTIES FencedTakesNothing ImplementsLease
