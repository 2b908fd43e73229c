SPECIFICATION SessionsSpec
CONSTANTS
    Users = {d, b}
    WebUsers = {b}
    Wavelets = {v, w}
    MaxDeltas = 2
    MaxSessions = 2
    MaxOpens = 1
    MaxRestarts = 1
    MaxEvents = 1
INVARIANTS
    DigestFollows
    ContentFollows
    NobodyIsForgotten
    StoreIndexAgrees
    RequestsUnbroken
CHECK_DEADLOCK FALSE
