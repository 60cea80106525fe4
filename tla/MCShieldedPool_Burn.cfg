SPECIFICATION Spec
CONSTANTS
    DEPTH = 1
    CAPACITY = 2
    Zero = Zero
    NoRoot = NoRoot
    NotAProof = NotAProof
    RING_LENGTH = 2
    MaxSlot = 2
    MaxEpoch = 2
    MAX_VALUE = 4
    FieldOrder = 17
    SinkInner0 = SinkInner0
    SinkInner1 = SinkInner1
    NonCanonical = {TooLarge}
    Pool = Pool
    PoolDomain = PoolDomain
    NoAddress = NoAddress
    Alice = Alice
    SpendKey = SpendKey
    Rhos = {r1, r2}
    Authorizers = {k1, k2}
    ReuseInners = TRUE
    StatusMissing = FALSE
    OtherKey = OtherKey
    LowGas = 1500000
    HighCost = 2
    Flags <- MCFlags
    Sources <- MCSources
    Accounts <- MCAccounts
    ShieldValues <- MCShieldValues
    Fees <- MCFees
SYMMETRY MCSymmetry
INVARIANTS
    SettlementTotal
CHECK_DEADLOCK FALSE
