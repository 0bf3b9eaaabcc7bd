SPECIFICATION Spec
CONSTANTS
    Phones = {ph1, ph2}
    Procs = {p1, p2}
    None = None
    TTL = 2
    Cooldown = 1
    MaxAttempts = 2
    MasterCode = TRUE
    MaxCodes = 3
    MaxTime = 2
INVARIANTS TypeOK UsedOnce GuessesBounded FailedNotStored
PROPERTIES LiveCodeKept
SYMMETRY Renaming
