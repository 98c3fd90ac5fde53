SPECIFICATION Spec
CONSTANTS
    Tomls <- AllTomls
    None = None
    MaxEdits = 1
    MaxKills = 1
INVARIANT
    CMakeFindsRoot
