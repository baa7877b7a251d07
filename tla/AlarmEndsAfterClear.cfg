\* Older DATA forwarded behind the ALARM switches the buzzer off.
SPECIFICATION FairSpec
CONSTANTS
    None = None
    MaxAttempts = 3
    SensorMaxSeq = 3
    RelayMaxSeq = 6
    SeqModulus = 65536
    OriginSeqModulus = 65536
    CounterMax = 3
    RxDepth = 1
    AlarmDepth = 0
    RelayForwardCapacity = 1
    MaxForwardPerSlot = 1
    BestEffortTxRepeats = 1
    SyncQueued = {TRUE, FALSE}
    SampleSlots <- AnySlot
    MissingSlots <- RelayOnly
    Lagging <- Nobody
PROPERTIES
    AlarmEndsAfterClear
\* The bounds on sequence numbers stop the model, not the system.
CHECK_DEADLOCK FALSE
