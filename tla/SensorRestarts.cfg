\* The sensor may restart once, after its slot; numbers wrap, every node keeps
\* pace; deadlock is checked.
SPECIFICATION FairRestartSpec
CONSTANTS
    None = None
    MaxAttempts = 2
    SensorMaxSeq = 4
    RelayMaxSeq = 4
    SeqModulus = 4
    OriginSeqModulus = 1
    CounterMax = 0
    RxDepth = 1
    AlarmDepth = 0
    RelayForwardCapacity = 1
    MaxForwardPerSlot = 1
    BestEffortTxRepeats = 1
    SyncQueued = {FALSE}
    SampleSlots = {3}
    MissingSlots <- Nobody
    Lagging <- Nobody
    MaxRestarts = 1
    RestartSlots = {3}
    Hellos = {1}
INVARIANTS
    RestartTypeOK
    SensorRetriesOnce
PROPERTIES
    PersistentAlarmRings
    ClearedAlarmSilences
