SPECIFICATION LocksSpec
CONSTANTS
    Nobody = Nobody
INVARIANTS NoLockCycle
