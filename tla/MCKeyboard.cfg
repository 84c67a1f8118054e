SPECIFICATION Spec
CONSTANTS
    ShiftL = ShiftL
    ShiftR = ShiftR
    ControlL = ControlL
    Commands = {ControlL}
    CharKeys = {"a", "1", ","}
    Order <- MCOrder
    Jobs <- MCJobs
    MaxJobs = 2
    MaxTouches = 3
INVARIANTS TypeOK TypedAsMeant ModifiersComeBack ArrowsMove
CHECK_DEADLOCK FALSE
