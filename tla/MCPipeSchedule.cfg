CONSTANT Configs <- PassConfigs
SPECIFICATION Spec
INVARIANTS TypeOK EveryMicroBatchDone
PROPERTIES ForwardReadsItsMicroBatch BackwardMatchesForward ScheduleTerminates
