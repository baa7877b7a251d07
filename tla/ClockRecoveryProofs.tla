------------------------ MODULE ClockRecoveryProofs ------------------------
(***************************************************************************)
(* Theorems about ClockRecovery, for every schedule, every delay of SYNCs, *)
(* and any number and length of the gateway's setbacks.                    *)
(***************************************************************************)
EXTENDS ClockRecovery, TLAPS

LEMMA Constants ==
    /\ MaxSyncDelay \in Nat
    /\ \A d \in SyncDelays : d \in Nat /\ d <= MaxSyncDelay
    /\ SuperframeMs \in Nat /\ HeartbeatTimeout \in Nat
    /\ BootOffset \in Int /\ None \notin Int /\ Setbacks \subseteq Nat
    /\ MaxRestarts \in Nat
<1>1. /\ MaxSyncDelay \in SyncDelays /\ SyncDelays \subseteq Nat
      /\ \A d \in SyncDelays : d <= MaxSyncDelay
  BY RecoveryAssumption DEF MaxSyncDelay, Largest
<1>2. SuperframeMs \in Nat /\ HeartbeatTimeout \in Nat
  BY ScheduleAssumption DEF SuperframeMs, HeartbeatTimeout, SlotCount
<1> QED
  BY <1>1, <1>2, RecoveryAssumption

\* The moving average is rounded by less than one, towards zero.
LEMMA Rounding ==
    ASSUME NEW offset \in Int, NEW measured \in Int
    PROVE  /\ Smoothed(offset, measured) \in Int
           /\ 7 * offset + measured - 8 < 8 * Smoothed(offset, measured)
           /\ 8 * Smoothed(offset, measured) < 7 * offset + measured + 8
<1> DEFINE x == 7 * offset + measured
<1>1. x \in Int /\ Smoothed(offset, measured) = TruncatedDiv(x, 8)
  BY DEF Smoothed
<1> HIDE DEF x
<1>2. CASE x < 0
  <2>1. /\ (-x) \div 8 \in Int
        /\ 8 * ((-x) \div 8) <= -x /\ -x < 8 * ((-x) \div 8) + 8
    BY <1>1
  <2>2. TruncatedDiv(x, 8) = -((-x) \div 8)
    BY <1>2 DEF TruncatedDiv
  <2> QED
    BY <1>1, <1>2, <2>1, <2>2 DEF x
<1>3. CASE ~(x < 0)
  <2>1. x \div 8 \in Int /\ 8 * (x \div 8) <= x /\ x < 8 * (x \div 8) + 8
    BY <1>1
  <2>2. TruncatedDiv(x, 8) = x \div 8
    BY <1>3 DEF TruncatedDiv
  <2> QED
    BY <1>1, <1>3, <2>1, <2>2 DEF x
<1> QED
  BY <1>2, <1>3

\* What a SYNC handled d after its stamp makes of the offset.
LEMMA SyncMoves ==
    ASSUME TypeOK, NEW d \in SyncDelays, NEW offset,
           offset = Smoothed(offset_ms, target - d)
    PROVE  /\ offset \in Int
           /\ Error > 0 => 8 * (offset - target) <= 7 * Error + 7 /\ offset <= offset_ms
           /\ Error <= 0 => offset <= target
           /\ -MaxSyncDelay <= Error => -MaxSyncDelay <= offset - target
<1> DEFINE measured == target - d
           x == 7 * offset_ms + measured
<1>1. /\ d \in Nat /\ d <= MaxSyncDelay /\ MaxSyncDelay \in Nat
      /\ target \in Int /\ offset_ms \in Int /\ measured \in Int
  BY Constants DEF TypeOK
<1> HIDE DEF measured
<1>2. /\ offset \in Int /\ x \in Int /\ x - 8 < 8 * offset /\ 8 * offset < x + 8
  BY <1>1, Rounding DEF measured
<1> QED
  BY <1>1, <1>2 DEF Error, measured

(***************************************************************************)
(* The inductive invariant.  JudgedInv relates the age the relay computes  *)
(* to the true one: what the offset has lost since cannot exceed the       *)
(* setback, and what it may still gain is the delay of a SYNC.             *)
(***************************************************************************)
ClockInv ==
    /\ -MaxSyncDelay <= Error
    /\ offset_ms <= BootOffset

JudgedInv ==
    sensor_last_seen_ms # None =>
        /\ silent + offset_ms - BootOffset <= sensor_last_seen_ms
        /\ sensor_last_seen_ms <= silent + MaxSyncDelay
        /\ offset_ms <= target =>
              sensor_last_seen_ms + (target - offset_ms) <= silent + MaxSyncDelay

IInv == TypeOK /\ ClockInv /\ JudgedInv

LEMMA InitIInv == Init => IInv
<1> SUFFICES ASSUME Init PROVE IInv
  OBVIOUS
<1>1. PICK d \in SyncDelays : offset_ms = target - d
  BY DEF Init
<1>2. TypeOK /\ ClockInv
  BY <1>1, Constants DEF Init, TypeOK, ClockInv, Error
<1> QED
  BY <1>2 DEF Init, IInv, JudgedInv

\* A superframe after which the offset has moved as a SYNC moves it.
LEMMA SuperframeStep ==
    ASSUME IInv, NEW offset \in Int, Superframe(offset),
           -MaxSyncDelay <= offset - target,
           Error > 0 => offset <= offset_ms,
           Error <= 0 => offset <= target
    PROVE  IInv'
<1> DEFINE age == sensor_last_seen_ms + SuperframeMs + (offset - offset_ms)
<1>1. /\ target \in Int /\ offset_ms \in Int /\ silent \in Nat /\ BootOffset \in Int
      /\ SuperframeMs \in Nat /\ MaxSyncDelay \in Nat
      /\ target <= BootOffset /\ offset_ms <= BootOffset
      /\ sensor_last_seen_ms # None => sensor_last_seen_ms \in Int
  BY Constants DEF IInv, TypeOK, ClockInv
<1>2. /\ offset_ms' = offset /\ target' = target /\ restarts' = restarts
      /\ offset <= BootOffset
  BY <1>1 DEF Superframe, Error
<1>3. ClockInv'
  <2>1. MaxSyncDelay' = MaxSyncDelay
    BY DEF MaxSyncDelay
  <2> QED
    BY <1>2 DEF ClockInv, Error
<1>4. CASE sensor_last_seen_ms' = None
  <2>1. TypeOK'
    BY <1>1, <1>2, <1>4 DEF IInv, TypeOK, Superframe
  <2> QED
    BY <1>3, <1>4, <2>1 DEF IInv, JudgedInv
<1>5. CASE sensor_last_seen_ms' # None
  <2>1. /\ sensor_last_seen_ms # None
        /\ sensor_last_seen_ms' = age /\ silent' = silent + SuperframeMs
    BY <1>5 DEF Superframe
  <2>2. age \in Int
    BY <1>1, <2>1
  <2>3. TypeOK'
    BY <1>1, <1>2, <2>1, <2>2 DEF IInv, TypeOK
  <2>4. /\ silent + offset_ms - BootOffset <= sensor_last_seen_ms
        /\ sensor_last_seen_ms <= silent + MaxSyncDelay
        /\ offset_ms <= target =>
              sensor_last_seen_ms + (target - offset_ms) <= silent + MaxSyncDelay
    BY <2>1 DEF IInv, JudgedInv
  <2>5. /\ silent' + offset - BootOffset <= age
        /\ age <= silent' + MaxSyncDelay
        /\ offset <= target =>
              age + (target - offset) <= silent' + MaxSyncDelay
    BY <1>1, <2>1, <2>4 DEF Error
  <2> QED
    BY <1>2, <1>3, <2>1, <2>3, <2>5 DEF IInv, JudgedInv
<1> QED
  BY <1>4, <1>5

LEMMA NextIInv == IInv /\ [Next]_vars => IInv'
<1> SUFFICES ASSUME IInv, [Next]_vars PROVE IInv'
  OBVIOUS
<1>1. /\ target \in Int /\ offset_ms \in Int /\ silent \in Nat /\ BootOffset \in Int
      /\ MaxSyncDelay \in Nat /\ -MaxSyncDelay <= Error /\ target <= BootOffset
      /\ offset_ms <= BootOffset
  BY Constants DEF IInv, TypeOK, ClockInv
<1>2. CASE SyncApplied
  <2>1. PICK d \in SyncDelays : Superframe(Smoothed(offset_ms, target - d))
    BY <1>2 DEF SyncApplied
  <2> DEFINE offset == Smoothed(offset_ms, target - d)
  <2>2. /\ offset \in Int
        /\ Error > 0 => offset <= offset_ms
        /\ Error <= 0 => offset <= target
        /\ -MaxSyncDelay <= offset - target
    BY <1>1, SyncMoves DEF IInv
  <2> HIDE DEF offset
  <2>3. Superframe(offset)
    BY <2>1 DEF offset
  <2> QED
    BY <2>2, <2>3, SuperframeStep
<1>3. CASE SyncLost
  <2>1. Superframe(offset_ms)
    BY <1>3 DEF SyncLost
  <2>2. -MaxSyncDelay <= offset_ms - target /\ (Error <= 0 => offset_ms <= target)
    BY <1>1 DEF Error
  <2> QED
    BY <1>1, <2>1, <2>2, SuperframeStep
<1>4. CASE SensorHeard
  <2>1. TypeOK' /\ ClockInv'
    BY <1>4, Constants DEF IInv, TypeOK, ClockInv, SensorHeard, Error, MaxSyncDelay
  <2> QED
    BY <1>1, <1>4, <2>1 DEF IInv, JudgedInv, SensorHeard, Error
<1>5. CASE GatewayRestarts
  <2>1. PICK ms \in Nat : target' = target - ms
    BY <1>5, Constants DEF GatewayRestarts
  <2>2. /\ UNCHANGED <<offset_ms, sensor_last_seen_ms, silent>>
        /\ restarts' \in 0 .. MaxRestarts
    BY <1>5, Constants DEF GatewayRestarts, IInv, TypeOK
  <2>3. TypeOK'
    BY <1>1, <2>1, <2>2 DEF IInv, TypeOK
  <2>4. ClockInv'
    BY <1>1, <2>1, <2>2 DEF ClockInv, Error, MaxSyncDelay
  <2>5. JudgedInv'
    <3> SUFFICES ASSUME sensor_last_seen_ms # None PROVE JudgedInv'
      BY <2>2 DEF JudgedInv
    <3>1. sensor_last_seen_ms \in Int
      BY DEF IInv, TypeOK
    <3> QED
      BY <1>1, <2>1, <2>2, <3>1 DEF IInv, JudgedInv
  <2> QED
    BY <2>3, <2>4, <2>5 DEF IInv
<1>6. CASE UNCHANGED vars
  BY <1>6 DEF vars, IInv, TypeOK, ClockInv, JudgedInv, Error
<1> QED
  BY <1>2, <1>3, <1>4, <1>5, <1>6 DEF Next

LEMMA Always == Spec => []IInv
  BY InitIInv, NextIInv, PTL DEF Spec

\* The relay's offset never leaves its type, however often the gateway restarts,
\* and is never ahead of what the first gateway's clock allowed (apply_sync).
THEOREM RecoveryTypeCorrect == Spec => []TypeOK
  BY Always, PTL DEF IInv

\* However often the gateway restarts, a sensor heard lately is ONLINE in the
\* presence mask, and a silent one not longer than the timeout and the setback
\* (sensor_online).
THEOREM SilenceJudgedRight == Spec => []SilenceJudged
<1>1. IInv => SilenceJudged
  <2> SUFFICES ASSUME IInv, sensor_last_seen_ms # None
               PROVE  /\ silent <= HeartbeatTimeout - MaxSyncDelay => SensorOnline
                      /\ SensorOnline => silent <= HeartbeatTimeout + SetBack + MaxSyncDelay
    BY DEF SilenceJudged
  <2>1. /\ sensor_last_seen_ms \in Int /\ silent \in Nat /\ offset_ms \in Int
        /\ target \in Int
    BY DEF IInv, TypeOK
  <2>2. /\ silent + offset_ms - BootOffset <= sensor_last_seen_ms
        /\ sensor_last_seen_ms <= silent + MaxSyncDelay
        /\ -MaxSyncDelay <= offset_ms - target
    BY DEF IInv, JudgedInv, ClockInv, Error
  <2> QED
    BY <2>1, <2>2, Constants DEF SensorOnline, SetBack
<1> QED
  BY <1>1, Always, PTL

\* Every SYNC brings the relay's clock an eighth of the way back to the
\* gateway's, whatever it rounds (apply_sync).
THEOREM EverySyncContracts == Spec => SyncContracts
<1>1. IInv /\ [Next]_vars => [SyncContractsStep]_vars
  <2> SUFFICES ASSUME IInv, Next, offset_ms' # offset_ms PROVE SyncContractsStep
    BY DEF SyncContractsStep, vars
  <2>1. PICK d \in SyncDelays : Superframe(Smoothed(offset_ms, target - d))
    BY DEF Next, SyncApplied, SyncLost, SensorHeard, GatewayRestarts, Superframe
  <2>2. /\ offset_ms' = Smoothed(offset_ms, target - d) /\ target' = target
        /\ TypeOK /\ -MaxSyncDelay <= Error
    BY <2>1 DEF Superframe, IInv, ClockInv
  <2>3. /\ offset_ms' \in Int /\ target \in Int /\ offset_ms \in Int
        /\ Error > 0 => 8 * (offset_ms' - target) <= 7 * Error + 7
        /\ Error <= 0 => offset_ms' <= target
        /\ -MaxSyncDelay <= offset_ms' - target
    BY <2>2, SyncMoves DEF TypeOK
  <2>4. Error' = offset_ms' - target /\ Error = offset_ms - target
    BY <2>2 DEF Error
  <2> QED
    BY <2>2, <2>3, <2>4, Constants DEF SyncContractsStep, Error
<1> QED
  BY <1>1, Always, PTL DEF Spec, SyncContracts
=============================================================================
