SPECIFICATION HostSpec
CONSTANTS
    Actors = {a1, a2, a3}
    NoActor = NoActor
    NoDelta = NoDelta
    Torn = Torn
    OpCounts = {1}
    Misfits = TRUE
    MaxCrashes = 0
    MaxTimeouts = 0
    MaxTornWrites = 0
INVARIANTS AnsweredIsRecoverable
CHECK_DEADLOCK FALSE
