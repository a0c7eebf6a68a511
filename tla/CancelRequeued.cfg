SPECIFICATION Spec
CONSTANTS
    Jobs = {j1}
    Engines = {e1, e2}
    NoEngine = NoEngine
    NoCode = NoCode
    Slots = 1
    TransferJobs = {}
    TransferLimit = 0
    MaxRequeue = 0
    MissLimit = 2
    ExitCodes = {"FAILURE"}
    GrantChecks = {TRUE}
    MaxLosses = 0
    MaxShortages = 0
    MaxReportLosses = 0
    MaxKills = 1
    MaxStops = 0
    MaxPhaseToggles = 0
    MaxCancels = 1
    MaxRestarts = 0


PROPERTIES CancelIsTerminal
