SPECIFICATION Spec
CONSTANTS
    WordBits = 2
    LimbBits = 1
    NumAddends = 2
    CarryLimbs = 1
    NumChunks = 3
    ChunkBits = 1
    Modulus = 5
    MaxOps = 2
    Prime = 13
    CoefD = 6
    Order = 5
    StartScalar = 3
    WindowBits = 2
    Windows = 2
    CoordinateBits = 4
    VerifyScalars = {0, 2, 3, 9}
    BasePoint <- MCBasePoint
    ByteBits = 4
    DigestSize = 3
    BlockBytes = 8
    MaxBranchBlocks = 3
    MaxNibbles = 4
    BlockNumbers = {3, 5, 100}
    Storages <- MCStorages
    ProvenAddresses <- MCAddresses
    h1 = h1
    h2 = h2
    h3 = h3
    h4 = h4
    h5 = h5
    f1 = f1
    f2 = f2
    outsider = outsider
    AuthoritySets <- MCSets
    OtherSets <- MCOtherSets
    Faulty <- MCFaulty
    ZeroKey = zero
    Blocks <- MCBlocks
    OtherBlocks <- MCOtherBlocks
    Genesis = 1
    MaxValidators = 6
    KeysPerBlock = 4
    RootLimbs = 4
    CompressionFactor = 3
    InputBits = 2
    NumberBits = 4
INVARIANTS
    AcceptedRowsCorrect
    GeneratedRowsAccepted
    ChainComputesResidue
    RejectedOnlyUnreduced
    MultiplicationsAgree
    InclusionSound
    ClientProofAccepted
    FinalProofGenuine
    DistinctPreCommitsSuffice
CHECK_DEADLOCK FALSE
