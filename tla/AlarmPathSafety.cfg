\* The sensor may let slots pass; frames may wait at the relay, and the buzzer's
\* action, for slots; three samples overflow the buffer of two, two make a burst.
SPECIFICATION Spec
CONSTANTS
    None = None
    MaxAttempts = 3
    SensorMaxSeq = 4
    RelayMaxSeq = 4
    SeqModulus = 65536
    OriginSeqModulus = 65536
    CounterMax = 1
    RxDepth = 2
    AlarmDepth = 1
    RelayForwardCapacity = 2
    MaxForwardPerSlot = 2
    BestEffortTxRepeats = 2
    SyncQueued = {FALSE}
    SampleSlots = {2, 4}
    MissingSlots <- SensorOnly
    Lagging <- RelayAndBuzzer
INVARIANTS
    TypeOK
    SensorRetryIsCurrent
    FirstHopQueue
    AckImpliesApplied
    BuzzerConsistent
    AlarmEventsReplayLatch
    NoSlotViolations
    RelayBufferOrdered
PROPERTIES
    FirstHopInOrder
    AlarmCustody
    HandsOver
\* The bounds on sequence numbers stop the model, not the system.
CHECK_DEADLOCK FALSE
