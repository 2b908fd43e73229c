SPECIFICATION SystemSpec
CONSTANTS
    Clients = {c1, c2}
    AuthorOf <- MCTwoUsers
    Creator = Creator
    InitialDoc <- MCNoDoc
    NewDoc <- MCBody
    Letter <- MCLetters
    Gathering = TRUE
    NoDelta = NoDelta
    Nobody = Nobody
    Null = Null
    MaxEdits <- MCThreeAndTwo
    MaxOutages = 1
    body = body
    x = x
    u1 = u1
    u2 = u2
    l1 = l1
    l2 = l2
INVARIANTS NoEditLostOrRepeated
CHECK_DEADLOCK FALSE
