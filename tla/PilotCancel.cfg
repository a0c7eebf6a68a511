SPECIFICATION CancelSpec
CONSTANTS
    Jobs = {j1}
    Engines = {e1, e2}
    NoEngine = NoEngine
    NoCode = NoCode
    Slots = 1
    TransferJobs = {}
    TransferLimit = 0
    MaxRequeue = 1
    MissLimit = 2
    ExitCodes = {"FAILURE", "TERMINATED"}
    GrantChecks = {TRUE, FALSE}
    MaxLosses = 0
    MaxShortages = 0
    MaxReportLosses = 0
    MaxKills = 0
    MaxStops = 0
    MaxPhaseToggles = 1
    MaxCancels = 1
    MaxRestarts = 1


PROPERTIES CancelTakesEffect
