SPECIFICATION XformSpec
CONSTANTS
    Null = Null
    key = key
    v1 = v1
    v2 = v2
    para = para
    x = x
    y = y
    z = z
    style = style
    Kept = Kept
    StylesOf <- MCStylesOf
    Restyles <- MCRestyles
    Docs <- MCDocs
    InsertionsOf <- MCInsertionsOf
    TagChanges <- MCTagChanges
    OpenEnded <- MCOpenEnded
INVARIANTS TransformableUnlessAppending Converges
CHECK_DEADLOCK FALSE
