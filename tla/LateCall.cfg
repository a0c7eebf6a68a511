SPECIFICATION LateSpec
CONSTANTS
    Jobs = {j1}
    Engines = {e1, e2}
    NoEngine = NoEngine
    NoCall = NoCall
    MaxHandovers = 2
    MaxLosses = 1
    MaxFileErrors = 1
    MaxKills = 1
    MaxExits = 1
CHECK_DEADLOCK FALSE
INVARIANT CompletionsKept
