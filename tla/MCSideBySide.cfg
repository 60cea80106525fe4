SPECIFICATION SideBySideSpec
CONSTANTS
    DEPTH = 1
    CAPACITY = 2
    Zero = Zero
    MAX_VALUE = 4
    FieldOrder = 17
    SinkInner0 = SinkInner0
    SinkInner1 = SinkInner1
    NonCanonical = {TooLarge}
    Pool = Pool
    PoolDomain = PoolDomain
    NoAddress = NoAddress
    NotAProof = NotAProof
    NoBytes = NoBytes
    ChainId = ChainId
    SpendKey = SpendKey
    Alice = Alice
    Other = Other
    k1 = k1
    k2 = k2
    Drafts <- MCDrafts
    Transactions <- MCTransactions
    MaxFrames = 3
    MaxOthers = 1
    Schemes = {"ARBITRARY", "SECP256K1", "P256"}
    FrameKinds <- MCFrameKinds
    NonceData <- MCNonceData
    RefData <- MCRefData
    LiveGas <- MCLiveGas
    Prices <- MCPrices
    FeeCaps <- MCFeeCaps
    Self = Self
    Contracts = {c1, c2}
    Funds = 3
    MaxCredited = 3
    MaxDepth = 3
    Payees <- MCPayees
INVARIANTS
    IncludedAsSigned
    OneVersionIncluded
    PrefixIsAllVerify
    AdmissionIsPaidFor
    MinFeeIsLeast
    PricedIsAffordable
    PaidOnce
    Backed
PROPERTY ClaimsAreSteps
CHECK_DEADLOCK FALSE
