CONSTANTS
    rollout = rollout
    infRef = infRef
    infReward = infReward
    infValues = infValues
    trainActor = trainActor
    trainCritic = trainCritic
    RPCs <- PpoRPCs
    Model <- PpoModel
    Inputs <- PpoInputs
    Outputs <- PpoOutputs
    RoundKeys <- PpoRoundKeys
    Rounds = 3
SPECIFICATION Spec
INVARIANTS TypeOK NoMissingInput RepliesMatch
PROPERTIES ImplementsDfgRound
