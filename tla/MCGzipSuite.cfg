SPECIFICATION Spec
CONSTANT Handles <- TwoHandles
CHECK_DEADLOCK FALSE
INVARIANTS
    TypeOK
    NothingLeaks
    PassedMeansWhole
    ExitZeroMeansAllPassed
