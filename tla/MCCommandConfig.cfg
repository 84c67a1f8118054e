CONSTANTS
    Numbers <- MCNumbers
    EscapeOf <- MCEscapeOf
    Unprintable <- MCUnprintable
    Argvs <- MCArgvs
    Calls <- MCCalls
    Token = "token"
    Block = 8
    MaxPieces = 2
    MaxRows = 2
SPECIFICATION Spec
INVARIANT ConfigConfigures
