SPECIFICATION LeaseFairSpec
CONSTANTS
    wide = wide
    narrow = narrow
    Jobs = {wide, narrow}
    Requests = {q1, q2}
    Releases = {r1}
    NoRelease = NoRelease
    Total <- MCTotal
    Max <- MCMax
    Amount <- MCAmount
    Goals <- MCGoals
    CpuFloor = 1
    MemHeadroom = 1
    Usages = {0, 1}
    Overshoot = FALSE
    MaxSends = 3
    MaxAttempts <- MCAttempts
INVARIANTS LeaseTypeOK LedgersAgree EngineNotOverbooked ReleasedOnce
PROPERTIES OverbookedTakesNothing GrowthProtected StaleRequestsHarmless QueueDrains
CHECK_DEADLOCK FALSE
