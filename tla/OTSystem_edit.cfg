SPECIFICATION FairSystemSpec
CONSTANTS
    Clients = {c1, c2}
    AuthorOf <- MCTwoUsers
    Creator = Creator
    InitialDoc <- MCText
    NewDoc <- MCBody
    Letter <- MCLetters
    Gathering = TRUE
    NoDelta = NoDelta
    Nobody = Nobody
    Null = Null
    MaxEdits <- MCTwoEach
    MaxOutages = 0
    body = body
    x = x
    u1 = u1
    u2 = u2
    l1 = l1
    l2 = l2
INVARIANTS ViewIsServerPlusOutgoing NeverBlownUp
CHECK_DEADLOCK FALSE
PROPERTIES EveryEditIsAcknowledged
