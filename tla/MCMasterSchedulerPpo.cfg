CONSTANTS
    gen = gen
    inf = inf
    train = train
    critic = critic
    actor = actor
    ref = ref
    NoOwner = NoOwner
    RPCs <- PpoRPCs
    SrcRPC = gen
    Children <- PpoChildren
    ModelOf <- PpoModel
    InputKeys <- PpoIn
    OutputKeys <- PpoOut
    SrcKeys = {"prompt"}
    MinSeqs <- PpoMinSeqs
    MaxSeqs <- PpoSeqs
    MaxConcurrent <- PpoConc
    Dp <- PpoDp
    Pp <- Unit
    BalancedDp <- PpoBalanced
    SeqsPerLoad = 1
    MaxRecords = 4
    BenchmarkSteps = 2
    TotalTrainEpochs = 1
    FreqEpoch <- SaveEveryEpoch
    FreqStep <- EvalEverySecondStep
SPECIFICATION Spec
INVARIANTS
    SemaphoreAccounting
    NoCoroutineError
    TypeOK
    DataflowOrder
    NonEmptyRequests
PROPERTIES
    BenchmarkCompletes
