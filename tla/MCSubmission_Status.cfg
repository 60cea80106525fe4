\* A valid simulation may leave the status of the SENDER frame out.
CONSTANTS
    Runs = {r1}
    Fixtures <- MCFixtures
    SETTLE_FRAME_GAS = 8
    GasNeeds = {4, 8}
    Polls = 1
    MaxReference = 1
    NoTx = NoTx
SPECIFICATION Spec
INVARIANT SpendsSeenToSucceed
CHECK_DEADLOCK FALSE
