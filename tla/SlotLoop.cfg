\* The schedule of the firmware, in milliseconds.
SPECIFICATION FairSpec
CONSTANTS
    None = None
    SlotMs = 1000
    GuardBeforeMs = 100
    ActiveMs = 700
    TrueOffset <- NodeBootedEarlier
    SyncDelays = {100, 200}
    Arrivals = {0}
    HandlerTimes = {670}
    TxTimes = {330}
INVARIANTS
    TypeOK
    ErrorBounded
PROPERTIES
    InTurn
    StartsInSlot
    EverySlotServed
