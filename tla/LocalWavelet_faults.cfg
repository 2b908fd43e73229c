SPECIFICATION HostSpec
CONSTANTS
    Actors = {a1, a2, a3}
    NoActor = NoActor
    NoDelta = NoDelta
    Torn = Torn
    OpCounts = {1, 2}
    Misfits = TRUE
    MaxCrashes = 1
    MaxTimeouts = 1
    MaxTornWrites = 1
INVARIANTS OneDeltaInProgress AnsweredAsLogged AppliedBehindItsBase
PROPERTIES LockSpec
CHECK_DEADLOCK FALSE
