\* Any frame may be lost, or losses are at least seven slots apart.  The jitter,
\* five and two, is just what the timeout covers.
SPECIFICATION FairSpec
CONSTANTS
    None = None
    SlotMs = 10
    GuardBeforeMs = 1
    ActiveMs = 7
    MaxAttempts = 3
    MaxForwardPerSlot = 2
    RelayForwardCapacity = 4
    Starts = {1, 6}
    Delays = {1}
    DataDelays = {2, 3}
    LossGaps = {0, 70}
INVARIANTS
    TypeOK
    OnlineMeansHeard
PROPERTIES
    OneLossTolerated
    BothReported
