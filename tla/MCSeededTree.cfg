SPECIFICATION Spec
CONSTANTS
    DEPTH = 2
    CAPACITY = 4
    Zero = Zero
    NoRoot = NoRoot
    RING_LENGTH = 1
    MaxSlot = 0
    MaxEpoch = 1
    MAX_VALUE = 32
    SinkInner0 = SinkInner0
    SinkInner1 = SinkInner1
    NonCanonical = {}
    Pool = Pool
    PoolDomain = PoolDomain
    NoAddress = NoAddress
    Accounts = {}
    NoteWei = 20
    FieldOrder = 131
    OtherInners = {o1, o2, o3, o4, o5}
    Signer = Signer
    Sources <- MCSources
SYMMETRY MCSymmetry
INVARIANTS
    WalletTreeAgrees
    NextDepositsReachRoot
    CommittedFixtureSpendable
PROPERTIES
    SeededIsActive
    TransfersIndependent
CHECK_DEADLOCK FALSE
