CONSTANTS
    gen = gen
    inf = inf
    train = train
    critic = critic
    actor = actor
    ref = ref
    NoOwner = NoOwner
    RPCs <- PpoRPCs
    SrcRPC = gen
    Children <- PpoChildren
    ModelOf <- PpoModel
    InputKeys <- PpoIn
    OutputKeys <- PpoOut
    SrcKeys = {"prompt"}
    MinSeqs <- PpoSplitSeqs
    MaxSeqs <- PpoSplitSeqs
    MaxConcurrent <- PpoConc
    Dp <- Unit
    Pp <- Unit
    BalancedDp <- NotBalanced
    SeqsPerLoad = 2
    MaxRecords = 6
    BenchmarkSteps = 2
    TotalTrainEpochs = 1
    FreqEpoch <- SaveEveryEpoch
    FreqStep <- EvalEverySecondStep
SPECIFICATION Spec
INVARIANT StepClosesEachTerminal
