\* Losses, restarts and missed control slots; numbers do not wrap.
SPECIFICATION Spec
CONSTANTS
    None = None
    SyncModulus = 65536
    FirstSyncSeq = 0
    LastSyncSeq = 4
    RxDepth = 2
    SensorHears = TRUE
    Restarting <- Children
    MaxRestarts = 1
    Missing <- RelayOnly
    Lagging <- Everybody
INVARIANTS
    SyncPassedInOrder
\* The bound on SYNC numbers stops the model, not the system.
CHECK_DEADLOCK FALSE
