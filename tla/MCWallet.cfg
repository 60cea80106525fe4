CONSTANTS
    DEPTH = 2
    CAPACITY = 4
    Zero = Zero
    MAX_VALUE = 8
    FieldOrder = 37
    SinkInner0 = SinkInner0
    SinkInner1 = SinkInner1
    NonCanonical = {}
    Pool = Pool
    PoolDomain = PoolDomain
    NoAddress = NoAddress
    NoIndex = NoIndex
    Recipient = Recipient
    Wei = {0, 1, 2, 3, 4, 5, 6, 7, 8, 9}
    Leaves <- MCLeaves
    Secrets = {"r1", "r3", "dummy"}
    Places = {0, 2}
    Amounts = {0, 1, 3, 8, 36}
    PayeeInners <- MCPayeeInners
    Payee = Payee
    Authorizer = Authorizer
SPECIFICATION WalletSpec
INVARIANTS
    ForgeriesTestOneConstraint
    FixtureSettles
    AssertsAreTheCircuit
CHECK_DEADLOCK FALSE
