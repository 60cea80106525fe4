SPECIFICATION FairSpec
CONSTANTS
    StableFrom = 5
    MaxSlot = 8
INVARIANT
    WrittenIsSettled
CHECK_DEADLOCK FALSE
