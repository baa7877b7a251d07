\* SYNC numbers wrap, again and again; deadlock is checked.
SPECIFICATION FairSpec
CONSTANTS
    None = None
    SyncModulus = 3
    FirstSyncSeq = 0
    LastSyncSeq = None
    RxDepth = 2
    SensorHears = TRUE
    Restarting <- Children
    MaxRestarts = 1
    Missing <- Nobody
    Lagging <- Nobody
INVARIANTS
    TypeOK
    ZeroStopsAtRelay
PROPERTIES
    Operational
