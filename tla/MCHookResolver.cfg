CONSTANTS
    Null = Null
    Workers = {w1, w2, w3}
SYMMETRY WorkerSymmetry
SPECIFICATION Spec
INVARIANTS OnePayloadPerWorker PayloadsListEveryHook ParamSyncReachesBothSides DataTransferGroupsAddressed
CHECK_DEADLOCK FALSE
