SPECIFICATION Spec
CONSTANTS
    Clients = {c1, c2, c3}
    MaxThreads = 2
    Main = main
    Nobody = nobody
INVARIANTS TypeOK TableExact StopsCleanly
PROPERTIES EveryoneAnswered QuitEnds
