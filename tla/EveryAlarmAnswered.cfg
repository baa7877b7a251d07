\* A retransmitted ALARM is dropped as a duplicate, without an ACK.
SPECIFICATION FairSpec
CONSTANTS
    None = None
    MaxAttempts = 3
    SensorMaxSeq = 3
    RelayMaxSeq = 6
    SeqModulus = 65536
    OriginSeqModulus = 65536
    CounterMax = 3
    RxDepth = 1
    AlarmDepth = 0
    RelayForwardCapacity = 1
    MaxForwardPerSlot = 1
    BestEffortTxRepeats = 1
    SyncQueued = {TRUE, FALSE}
    SampleSlots <- AnySlot
    MissingSlots <- Nobody
    Lagging <- Nobody
PROPERTIES
    EveryAlarmAnswered
\* The bounds on sequence numbers stop the model, not the system.
CHECK_DEADLOCK FALSE
