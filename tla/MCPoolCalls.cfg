SPECIFICATION LogicSpec
CONSTANTS
    DEPTH = 2
    CAPACITY = 4
    Zero = Zero
    NoRoot = NoRoot
    RING_LENGTH = 2
    MaxSlot = 2
    MaxEpoch = 2
    MAX_VALUE = 3
    SinkInner0 = SinkInner0
    SinkInner1 = SinkInner1
    Pool = Pool
    PoolDomain = PoolDomain
    NoAddress = NoAddress
    a = a
    Fresh = {1, 2, 3, 4, 5, 6, 7}
    TooLarge = TooLarge
    Stranger = Stranger
    Alice = Alice
    Sources <- MCSources
    NonCanonical <- MCNonCanonical
    Accounts <- MCAccounts
    Inners <- MCInners
    Values <- MCValues
    Senders <- MCSenders
    Spends <- MCSpends
CONSTRAINTS BoundedCredit EpochsOrSlots InOrder
INVARIANTS
    LogicTypeOK
    LeafDiscipline
    RootsMatchEvents
    RingAuthentic
PROPERTIES
    ClosedEpochsFixed
    RollOnlyForLeaves
    SettlesWithinProfile
CHECK_DEADLOCK FALSE
