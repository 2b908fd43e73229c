SPECIFICATION EditorSpec
CONSTANTS
    Null = Null
    Authors = {u1, u2}
    Documents <- MCDocuments
    Texts <- MCTexts
    Captions <- MCCaptions
    MaxSelected = 2
    MaxChanges = 3
INVARIANTS
    TextInSync
    FormatsInSync
CHECK_DEADLOCK FALSE
