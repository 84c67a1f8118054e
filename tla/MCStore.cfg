SPECIFICATION Spec
CONSTANTS
    greet = greet
    bobs = bobs
    broken = broken
    all = all
    mums = mums
    slash = slash
    Matches <- MCMatches
    Expands <- MCExpands
    hello = hello
    Groups <- MCGroups
    Ids <- MCIds
    BadSyntax = {broken}
    Quoted = {bobs, mums}
    NoFile = {slash}
    Limit = 2
    MaxRowid = 3
    SavedFiles <- AnyFiles
INVARIANTS TypeOK RowsBacked NoGap CountedScanInside
PROPERTIES ChangesSaved KeepsPromise
