SPECIFICATION Spec
CONSTANT Handles <- TwoHandles
CHECK_DEADLOCK FALSE
INVARIANT ResultsCountTests
