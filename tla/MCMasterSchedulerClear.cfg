CONSTANTS
    gen = gen
    inf = inf
    train = train
    critic = critic
    actor = actor
    ref = ref
    NoOwner = NoOwner
    RPCs <- ChainRPCs
    SrcRPC = gen
    Children <- ChainChildren
    ModelOf <- ChainModel
    InputKeys <- ChainIn
    OutputKeys <- ChainOut
    SrcKeys = {"prompt"}
    MinSeqs <- ChainSeqs
    MaxSeqs <- ChainSeqs
    MaxConcurrent <- ChainConc
    Dp <- Unit
    Pp <- Unit
    BalancedDp <- NotBalanced
    SeqsPerLoad = 2
    MaxRecords = 6
    BenchmarkSteps = 2
    TotalTrainEpochs = 1
    FreqEpoch <- SaveEveryEpoch
    FreqStep <- EvalEverySecondStep
SPECIFICATION Spec
INVARIANT ClearedIndicesRetired
