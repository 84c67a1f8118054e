SPECIFICATION Spec
CONSTANTS
    a = a
    b = b
    tab = tab
    enter = enter
    Chars = {a, b, tab, enter}
    BackSpace = backspace
    Enter = enter
    ResetOnEnter = TRUE
    Table <- MCTable
    Removable = {}
    Excursions = {}
    MaxHeld = 2
    TypeAhead = FALSE
    MaxKeys = 6
INVARIANT NeverCrashes
