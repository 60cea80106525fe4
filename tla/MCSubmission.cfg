CONSTANTS
    Runs = {r1, r2}
    Fixtures <- MCFixtures
    SETTLE_FRAME_GAS = 8
    GasNeeds = {4, 8}
    Polls = 2
    MaxReference = 2
    NoTx = NoTx
SPECIFICATION Spec
INVARIANTS
    ReportsAreTrue
    DoomedInFlight
    FailedInFlight
    PendingNeverStuck
PROPERTY RunsEnd
CHECK_DEADLOCK FALSE
