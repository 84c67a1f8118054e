CONSTANTS
    Numbers = {"0", "1", "2", "3"}
    NumberOf <- MCNumberOf
    Versions = {"old", "new"}
    Valid <- MCValid
    Invalid = "invalid"
    Missing = "missing"
    Default <- MCDefault
    Texts <- MCTexts
    Changes = 4
SPECIFICATION Spec
INVARIANT SavedIsLoaded
