SPECIFICATION FairSpec
CONSTANTS
    Jobs = {j1}
    Engines = {e1, e2}
    NoEngine = NoEngine
    NoCode = NoCode
    Slots = 2
    TransferJobs = {j1}
    TransferLimit = 1
    MaxRequeue = 0
    MissLimit = 2
    ExitCodes = {"FAILURE"}
    GrantChecks = {TRUE}
    MaxLosses = 1
    MaxShortages = 0
    MaxReportLosses = 1
    MaxKills = 1
    MaxStops = 1
    MaxPhaseToggles = 0
    MaxCancels = 0
    MaxRestarts = 0


INVARIANTS TransferBalanced SlotsConserved
PROPERTY JobsTerminate
