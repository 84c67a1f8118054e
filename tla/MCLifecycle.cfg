SPECIFICATION Spec
CONSTANTS
    Texcs = {t1, t2}
    Clients = {c1, c2}
    Ports = {p1, p2}
    None = none
    x = x
    y = y
    g = g
    h = h
    GroupOf <- MCGroupOf
    Requests <- MCRequests
SYMMETRY MCSymmetry
INVARIANTS TypeOK RunningIsFound AloneStarts AckedIsKept NoStaleFile
PROPERTY ProbeExcludes
CHECK_DEADLOCK FALSE
