\* The schedule of the firmware, in milliseconds.
SPECIFICATION FairSpec
CONSTANTS
    None = None
    SlotMs = 1000
    GuardBeforeMs = 100
    ActiveMs = 700
    BootOffset = 30000
    Setbacks = {20000, 80000}
    MaxRestarts = 1
    SyncDelays = {100, 108}
INVARIANTS
    TypeOK
    SilenceJudged
PROPERTIES
    SyncContracts
    Recovers
