SPECIFICATION FairFedSpec
CONSTANTS
    Users = {u1}
    Nobody = Nobody
    NoDelta = NoDelta
    NoConnection = NoConnection
    MaxDeltas = 2
    MaxSubmits = 1
    StartsUp = FALSE
    MaxFailures = 1
    MaxRestarts = 1
INVARIANTS RoutesAgree ReadyIsReachable SubscribersCounted AnsweredIsCommitted CopyIsPrefixUnless
CHECK_DEADLOCK FALSE
PROPERTIES EverySubmitIsAnswered CopyCatchesUp
