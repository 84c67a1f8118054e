SPECIFICATION Spec
CONSTANTS
    a = a
    b = b
    tab = tab
    enter = enter
    Chars = {a, b, tab, enter}
    BackSpace = backspace
    Enter = enter
    ResetOnEnter = TRUE
    Table <- MCTable
    Removable = {}
    Excursions = {"left", "right", "reset"}
    MaxHeld = 1
    TypeAhead = FALSE
    MaxKeys = 7
INVARIANTS TextAsIntended NeverCrashes
PROPERTY MatchIsExpanded
