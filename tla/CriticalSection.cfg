SPECIFICATION FairLockSpec
CONSTANTS
    Actors = {a1, a2, a3, a4}
    NoActor = NoActor
INVARIANTS
    MutualExclusion
    NoLostWakeup
PROPERTIES
    FifoHandover
    EveryWaiterEnters
