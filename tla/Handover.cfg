SPECIFICATION HandoverFairSpec
CONSTANTS
    Jobs = {j1}
    Engines = {e1, e2}
    NoEngine = NoEngine
    NoCall = NoCall
    MaxHandovers = 2
    MaxLosses = 2
    MaxFileErrors = 1
    MaxKills = 2
    MaxExits = 1
CHECK_DEADLOCK FALSE
INVARIANTS HandoverTypeOK CompletionsKept ChildrenOwned
PROPERTIES HandoverIsInvisible MigrationEnds
