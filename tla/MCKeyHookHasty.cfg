SPECIFICATION Spec
CONSTANTS
    a = a
    b = b
    tab = tab
    enter = enter
    Chars = {a, b}
    BackSpace = backspace
    Enter = b
    ResetOnEnter = FALSE
    Table <- MCShortTable
    Removable = {1}
    Excursions = {"left", "right", "reset"}
    MaxHeld = 2
    TypeAhead = TRUE
    MaxKeys = 3
INVARIANTS TypeOK ExpandingIsBracketed FollowsText
PROPERTY ExpandingEnds
