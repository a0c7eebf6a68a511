SPECIFICATION FairDispatch
CONSTANTS
    parent = parent
    large = large
    small1 = small1
    small2 = small2
    big = big
    little = little
    Jobs = {parent, large, small1, small2}
    Nodes = {big, little}
    NoNode = NoNode
    NoJob = NoJob
    NoWait = NoWait
    JobName <- MCJobName
    Dependency <- MCDependency
    Memory <- MCMemory
    FirstMem <- MCFirstMem
    Priority <- MCPriority
    Retries <- MCRetries
    Endless = {small1, small2}
    MaxRun = 1
    MinAge = 0
    MaxWait = 2
    Cooldown = 1
    MaxDisturbances = 1
INVARIANTS DispatchTypeOK DependenciesKept
PROPERTIES SlotIsCollected JobsSettle
CHECK_DEADLOCK FALSE
