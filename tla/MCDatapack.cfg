CONSTANTS
    MaxLen = 4
    MaxItem = 3
    MaxK = 3
    Capacities = {3, 4}
    WorldSizes = {1, 2}
SPECIFICATION Spec
INVARIANTS
    PartitionValid
    PartitionOptimal
    FfdCheckAgrees
    FfdPackingSound
    AllocateSound
    PipeCkptWritesEachKeyOnce
