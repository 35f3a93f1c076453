CONSTANT Configs <- GenerateWideConfigs
SPECIFICATION Spec
PROPERTY ScheduleTerminates
CHECK_DEADLOCK FALSE
