SPECIFICATION FairSpec
CONSTANTS
    StableFrom = 6
    MaxSlot = 9
INVARIANTS
    SignedIsSettled
PROPERTIES
    ScriptEnds
CHECK_DEADLOCK FALSE
