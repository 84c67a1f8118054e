SPECIFICATION Spec
CONSTANTS
    Chars <- MCChars
    MaxKeys = 4
    Nesting = 3
    Small = {"a"}
    SmallOf <- MCSmallOf
    Sources <- MCSources
    Phrases <- MCPhrases
INVARIANTS ReadsAsWritten MinifiedFits KeysComeUp CountedIsTyped
PROPERTIES FollowsLine MatchIsFound
CHECK_DEADLOCK FALSE
