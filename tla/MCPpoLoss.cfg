CONSTANTS
    One = 10
    Eps = 2
    Ratios = {0, 7, 8, 9, 10, 11, 12, 13}
SPECIFICATION Spec
INVARIANT MemoryEfficientGradMatchesAutograd
CHECK_DEADLOCK FALSE
