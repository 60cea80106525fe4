SPECIFICATION Spec
CONSTANTS
    DEPTH = 1
    CAPACITY = 2
    Zero = Zero
    NoRoot = NoRoot
    RING_LENGTH = 2
    MaxSlot = 3
    MaxEpoch = 1
    Sources = {0, 1}
    MAX_VALUE = 4
    FieldOrder = 17
    SinkInner0 = SinkInner0
    SinkInner1 = SinkInner1
    NonCanonical = {}
    Pool = Pool
    PoolDomain = PoolDomain
    NoAddress = NoAddress
    Accounts = {Alice}
    NoteWei = 2
    ExitFee = 1
    OtherInners = {o1, o2, o3}
    Payee = Alice
    Signer = Signer
    NoSpend = NoSpend
PROPERTIES
    NoteExits
CHECK_DEADLOCK FALSE
