\* The gateway has been up for 65533 superframes when the others start.
SPECIFICATION FairSpec
CONSTANTS
    None = None
    SyncModulus = 65536
    FirstSyncSeq = 65533
    LastSyncSeq = 2
    RxDepth = 2
    SensorHears = TRUE
    Restarting <- Nobody
    MaxRestarts = 0
    Missing <- Nobody
    Lagging <- Nobody
PROPERTIES
    StaysSynced
\* The bound on SYNC numbers stops the model, not the system.
CHECK_DEADLOCK FALSE
