CONSTANTS
    MaxBs = 2
    MaxLen = 2
    Vals = {0, 1}
    Gamma = 2
    Lam = 3
    KlCtl = 5
    ClipValue = 2
SPECIFICATION Spec
INVARIANTS PackedGaeMatchesPadded PackedRewardsMatchPadded VocabParallelGatherMatchesFull
CHECK_DEADLOCK FALSE
