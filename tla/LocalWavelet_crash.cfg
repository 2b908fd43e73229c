SPECIFICATION FairHostSpec
CONSTANTS
    Actors = {a1, a2, a3}
    NoActor = NoActor
    NoDelta = NoDelta
    Torn = Torn
    OpCounts = {1, 2}
    Misfits = FALSE
    MaxCrashes = 2
    MaxTimeouts = 0
    MaxTornWrites = 0
PROPERTIES KeepsPromise EveryRequestEnds
CHECK_DEADLOCK FALSE
