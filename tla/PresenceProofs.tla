---------------------------- MODULE PresenceProofs ----------------------------
(***************************************************************************)
(* Theorems about Presence, for every schedule, every delay and every      *)
(* radio: its types, that ONLINE means heard, and that one loss is         *)
(* tolerated.                                                              *)
(***************************************************************************)
EXTENDS Presence, WellFoundedInduction, TLAPS

\* The moments and delays at the ends of their sets.
First == Least(Starts)
Last  == Largest(Starts)
Quick == Least(Delays)
Slow  == Largest(Delays)
Top   == Largest(DataDelays)

-----------------------------------------------------------------------------
(***************************************************************************)
(* Arithmetic of the schedule.                                             *)
(***************************************************************************)
\* A set of numbers that is not empty has a least one, and a bounded one a
\* largest.
LEMMA LeastFacts ==
    ASSUME NEW S \in SUBSET Nat, S # {}
    PROVE  Least(S) \in S /\ \A y \in S : Least(S) <= y
<1>1. PICK x \in S : \A y \in S : ~ (<<y, x>> \in OpToRel(<, Nat))
  BY NatLessThanWellFounded, WFMin
<1>2. \A y \in S : ~ (y < x)
  BY <1>1 DEF OpToRel
<1>3. \A y \in S : x <= y
  BY <1>2
<1> QED
  BY <1>3 DEF Least

LEMMA LargestFacts ==
    ASSUME NEW S \in SUBSET Nat, S # {}, NEW b \in Nat, \A y \in S : y <= b
    PROVE  Largest(S) \in S /\ \A y \in S : y <= Largest(S)
<1> DEFINE T == {b - y : y \in S}
<1>1. T \in SUBSET Nat /\ T # {}
  OBVIOUS
<1>2. Least(T) \in T /\ \A z \in T : Least(T) <= z
  BY <1>1, LeastFacts
<1>3. PICK x \in S : Least(T) = b - x
  BY <1>2
<1>4. \A y \in S : y <= x
  BY <1>2, <1>3
<1> QED
  BY <1>4 DEF Largest

LEMMA StartFacts ==
    /\ SlotMs \in Nat \ {0} /\ ActiveMs \in Nat \ {0} /\ ActiveMs <= SlotMs
    /\ SuperframeMs = 8 * SlotMs /\ SuperframeMs \in Nat
    /\ HeartbeatTimeout = 8 * SlotMs + ActiveMs /\ RetryDelayMs = 2 * SlotMs
    /\ First \in Starts /\ Last \in Starts
    /\ First \in Nat /\ Last \in Nat /\ Last < SlotMs
    /\ \A s \in Starts : s \in Nat /\ First <= s /\ s <= Last
<1>1. /\ SlotMs \in Nat \ {0} /\ ActiveMs \in Nat \ {0} /\ ActiveMs <= SlotMs
      /\ SuperframeMs = 8 * SlotMs /\ SuperframeMs \in Nat
      /\ HeartbeatTimeout = 8 * SlotMs + ActiveMs /\ RetryDelayMs = 2 * SlotMs
      /\ GuardBeforeMs \in Nat /\ ActiveEnd \in Nat /\ ActiveEnd <= SlotMs
  BY ScheduleAssumption
     DEF SuperframeMs, SlotCount, HeartbeatTimeout, RetryDelayMs, ActiveEnd
<1>2. Starts \in SUBSET Nat /\ Starts # {} /\ \A s \in Starts : s <= SlotMs - 1
  <2>1. Starts # {} /\ Starts \subseteq GuardBeforeMs .. ActiveEnd - 1
    BY PresenceAssumption
  <2>2. \A s \in Starts : s \in Nat /\ s <= SlotMs - 1
    BY <1>1, <2>1
  <2> QED
    BY <2>1, <2>2
<1>3. First \in Starts /\ \A s \in Starts : First <= s
  BY <1>2, LeastFacts DEF First
<1>4. Last \in Starts /\ \A s \in Starts : s <= Last
  <2>1. SlotMs \in Nat /\ \A s \in Starts : s <= SlotMs
    BY <1>1, <1>2
  <2> QED
    BY <1>2, <2>1, LargestFacts DEF Last
<1> QED
  BY <1>1, <1>2, <1>3, <1>4

LEMMA DelayFacts ==
    /\ Quick \in Nat \ {0} /\ Slow \in Nat /\ Top \in Nat
    /\ Quick <= Slow /\ Slow <= Top /\ Last + Top < SlotMs + First
    /\ \A d \in Delays : d \in Nat /\ Quick <= d /\ d <= Slow
    /\ \A d \in DataDelays : d \in Nat /\ d <= Top
<1>1. PICK e \in DataDelays : e \in Nat /\ \A d \in Delays : d < e
  BY PresenceAssumption
<1>2. /\ Delays \in SUBSET Nat /\ Delays # {} /\ Delays \subseteq Nat \ {0}
      /\ \A d \in Delays : d <= e
  BY <1>1, PresenceAssumption
<1>3. /\ Quick \in Delays /\ \A d \in Delays : Quick <= d
      /\ Slow \in Delays /\ \A d \in Delays : d <= Slow
  BY <1>1, <1>2, LeastFacts, LargestFacts DEF Quick, Slow
<1>4. \A d \in DataDelays : d \in Nat /\ Last + d < SlotMs + First
  BY PresenceAssumption DEF First, Last
<1>5. Top \in DataDelays /\ \A d \in DataDelays : d <= Top
  <2> DEFINE b == SlotMs + First
  <2>1. b \in Nat /\ \A d \in DataDelays : d <= b
    BY <1>4, StartFacts
  <2>2. DataDelays \in SUBSET Nat /\ DataDelays # {}
    BY PresenceAssumption
  <2> HIDE DEF b
  <2> QED
    BY <2>1, <2>2, LargestFacts DEF Top
<1>6. Slow <= Top
  BY <1>1, <1>2, <1>3, <1>4, <1>5
<1> QED
  BY <1>2, <1>3, <1>4, <1>5, <1>6

\* k superframes.
Hold(k) == k * SuperframeMs

LEMMA HoldFacts ==
    /\ LongestHold \in Nat /\ 16 * SlotMs <= LongestHold /\ Hold(1) = 8 * SlotMs
    /\ \A k \in 1 .. MaxAttempts :
          /\ Hold(k) \in Nat /\ Hold(k) <= LongestHold
          /\ Hold(k + 1) = Hold(k) + 8 * SlotMs
<1>1. MaxAttempts \in Nat /\ MaxAttempts >= 2
  BY PresenceAssumption
<1>2. SlotMs \in Nat /\ SuperframeMs = 8 * SlotMs /\ SuperframeMs \in Nat
  BY StartFacts
<1>3. \A k \in Nat : k * SuperframeMs \in Nat
                     /\ (k + 1) * SuperframeMs = k * SuperframeMs + SuperframeMs
  BY <1>2
<1>4. \A k, m \in Nat : k <= m => k * SuperframeMs <= m * SuperframeMs
  BY <1>2
<1>5. 2 * SuperframeMs = 16 * SlotMs /\ 1 * SuperframeMs = 8 * SlotMs
  BY <1>2
<1>6. LongestHold \in Nat /\ 16 * SlotMs <= LongestHold
  BY <1>1, <1>2, <1>3, <1>4, <1>5 DEF LongestHold
<1> QED
  BY <1>1, <1>2, <1>3, <1>4, <1>5, <1>6 DEF Hold, LongestHold

\* How late the gateway may learn what the relay has heard.
LongestNews == LongestHold + Jitter

LEMMA NewsFacts ==
    /\ LongestNews \in Nat /\ 16 * SlotMs <= LongestNews
    /\ LongestNews = LongestHold + (Last - First) + (Slow - Quick)
    /\ StaleLimit = LongestNews + HeartbeatTimeout + SlotMs + Last
    /\ StaleLimit \in Nat
  BY StartFacts, DelayFacts, HoldFacts
     DEF LongestNews, Jitter, StaleLimit, First, Last, Quick, Slow
-----------------------------------------------------------------------------
(***************************************************************************)
(* Time.                                                                   *)
(***************************************************************************)
\* A moment of the superframe is its slot and the time elapsed in it.
LEMMA SlotTimes ==
    ASSUME NEW t \in 0 .. SuperframeMs - 1
    PROVE  /\ SlotElapsed(t) \in 0 .. SlotMs - 1
           /\ \/ SlotAt(t) = 0 /\ t = SlotElapsed(t)
              \/ SlotAt(t) = 1 /\ t = SlotMs + SlotElapsed(t)
              \/ SlotAt(t) = 2 /\ t = 2 * SlotMs + SlotElapsed(t)
              \/ SlotAt(t) = 3 /\ t = 3 * SlotMs + SlotElapsed(t)
              \/ SlotAt(t) = 4 /\ t = 4 * SlotMs + SlotElapsed(t)
              \/ SlotAt(t) = 5 /\ t = 5 * SlotMs + SlotElapsed(t)
              \/ SlotAt(t) = 6 /\ t = 6 * SlotMs + SlotElapsed(t)
              \/ SlotAt(t) = 7 /\ t = 7 * SlotMs + SlotElapsed(t)
<1>1. SlotMs \in Nat \ {0} /\ SuperframeMs = 8 * SlotMs
  BY StartFacts
<1>2. \A a \in Int, b \in Nat \ {0} :
         /\ a \div b \in Int /\ a % b \in Int /\ a = b * (a \div b) + (a % b)
         /\ 0 <= a % b /\ a % b < b
  OBVIOUS
<1>3. t % SuperframeMs = t
  BY <1>1
<1> DEFINE n == t \div SlotMs
           e == t % SlotMs
<1>4. n \in Int /\ e \in Int /\ t = SlotMs * n + e /\ 0 <= e /\ e < SlotMs
  BY <1>1, <1>2
<1>5. SlotAt(t) = n /\ SlotElapsed(t) = e
  BY <1>3 DEF SlotAt, SlotElapsed
<1> HIDE DEF n, e
<1>6. n \in 0 .. 7
  BY <1>1, <1>4
<1>7. /\ SlotMs * 0 = 0 /\ SlotMs * 1 = SlotMs /\ SlotMs * 2 = 2 * SlotMs
      /\ SlotMs * 3 = 3 * SlotMs /\ SlotMs * 4 = 4 * SlotMs /\ SlotMs * 5 = 5 * SlotMs
      /\ SlotMs * 6 = 6 * SlotMs /\ SlotMs * 7 = 7 * SlotMs
  BY <1>1
<1>8. n = 0 \/ n = 1 \/ n = 2 \/ n = 3 \/ n = 4 \/ n = 5 \/ n = 6 \/ n = 7
  BY <1>6
<1> QED
  BY <1>1, <1>4, <1>5, <1>7, <1>8

\* The clock of a state, and the clock of the next one when time passes.
LEMMA Now ==
    ASSUME clock \in 0 .. SuperframeMs - 1
    PROVE  /\ clock \in Int /\ 0 <= clock /\ clock < 8 * SlotMs
           /\ SlotElapsed(clock) \in 0 .. SlotMs - 1
           /\ \/ slot = 0 /\ clock = SlotElapsed(clock)
              \/ slot = 1 /\ clock = SlotMs + SlotElapsed(clock)
              \/ slot = 2 /\ clock = 2 * SlotMs + SlotElapsed(clock)
              \/ slot = 3 /\ clock = 3 * SlotMs + SlotElapsed(clock)
              \/ slot = 4 /\ clock = 4 * SlotMs + SlotElapsed(clock)
              \/ slot = 5 /\ clock = 5 * SlotMs + SlotElapsed(clock)
              \/ slot = 6 /\ clock = 6 * SlotMs + SlotElapsed(clock)
              \/ slot = 7 /\ clock = 7 * SlotMs + SlotElapsed(clock)
  BY SlotTimes, StartFacts DEF slot

\* A tick within a slot, or to the next one.
LEMMA Later ==
    ASSUME clock \in 0 .. SuperframeMs - 1, clock' = (clock + 1) % SuperframeMs
    PROVE  /\ clock' \in 0 .. SuperframeMs - 1
           /\ \/ /\ SlotElapsed(clock) < SlotMs - 1
                 /\ SlotElapsed(clock') = SlotElapsed(clock) + 1
                 /\ slot' = slot /\ clock' = clock + 1
              \/ /\ SlotElapsed(clock) = SlotMs - 1 /\ SlotElapsed(clock') = 0
                 /\ \/ slot < 7 /\ slot' = slot + 1 /\ clock' = clock + 1
                    \/ slot = 7 /\ slot' = 0 /\ clock' = 0
<1>1. SlotMs \in Nat \ {0} /\ SuperframeMs = 8 * SlotMs /\ SuperframeMs \in Nat \ {0}
  BY StartFacts
<1>2. \/ clock < SuperframeMs - 1 /\ clock' = clock + 1
      \/ clock = SuperframeMs - 1 /\ clock' = 0
  BY <1>1
<1>3. clock' \in 0 .. SuperframeMs - 1
  BY <1>1, <1>2
<1>4. /\ SlotElapsed(clock') \in 0 .. SlotMs - 1
      /\ \/ slot' = 0 /\ clock' = SlotElapsed(clock')
         \/ slot' = 1 /\ clock' = SlotMs + SlotElapsed(clock')
         \/ slot' = 2 /\ clock' = 2 * SlotMs + SlotElapsed(clock')
         \/ slot' = 3 /\ clock' = 3 * SlotMs + SlotElapsed(clock')
         \/ slot' = 4 /\ clock' = 4 * SlotMs + SlotElapsed(clock')
         \/ slot' = 5 /\ clock' = 5 * SlotMs + SlotElapsed(clock')
         \/ slot' = 6 /\ clock' = 6 * SlotMs + SlotElapsed(clock')
         \/ slot' = 7 /\ clock' = 7 * SlotMs + SlotElapsed(clock')
  BY <1>3, SlotTimes DEF slot
<1> QED
  BY <1>1, <1>2, <1>3, <1>4, Now
-----------------------------------------------------------------------------
(***************************************************************************)
(* Types.                                                                  *)
(***************************************************************************)
Pending == [attempts : 0 .. MaxAttempts, age : 0 .. RetryDelayMs, applied : BOOLEAN]

\* What a transmission adds to a link.
LEMMA SentFacts ==
    ASSUME NEW t, NEW delays, NEW presence, NEW fs \in Sent(t, delays, presence)
    PROVE  \E d \in delays :
              fs = {[frame_type |-> t, presence |-> presence, left |-> d]}
  BY DEF Sent

LEMMA AirType ==
    ASSUME NEW t \in {Data, Alarm, Heartbeat}, NEW presence \in SUBSET Tracked,
           NEW delays, delays = Delays \/ delays = DataDelays,
           NEW fs \in Sent(t, delays, presence)
    PROVE  fs \subseteq Air
<1>1. PICK d \in delays : fs = {[frame_type |-> t, presence |-> presence, left |-> d]}
  BY SentFacts
<1>2. d \in 0 .. Top
  BY DelayFacts
<1> QED
  BY <1>1, <1>2 DEF Air, Top

LEMMA PresenceTypeInit == Init => TypeOK
<1> SUFFICES ASSUME Init PROVE TypeOK
  OBVIOUS
<1>1. clock \in 0 .. SuperframeMs - 1
  BY StartFacts DEF Init
<1>2. pending_ack \in Pending
  BY StartFacts, PresenceAssumption DEF Init, NoPending, Pending
<1>3. relay_forward \in 0 .. RelayForwardCapacity
  BY PresenceAssumption DEF Init
<1>4. losses \in [gap : LossGaps, since : Nat] /\ losses.since <= losses.gap
  <2>1. PICK g \in LossGaps : losses = [gap |-> g, since |-> g]
    BY DEF Init
  <2>2. g \in Nat
    BY PresenceAssumption
  <2> QED
    BY <2>1, <2>2
<1>5. sensor_retry \in BOOLEAN /\ alarm_waiting \in BOOLEAN
  BY Zenon DEF Init
<1> QED
  BY <1>1, <1>2, <1>3, <1>4, <1>5 DEF Init, TypeOK, Pending, Ages

\* A loss, or none, keeps the account of losses.
LEMMA LossType ==
    ASSUME TypeOK, Kept \/ Lost
    PROVE  losses' \in [gap : LossGaps, since : Nat] /\ losses'.since <= losses'.gap
<1>1. losses.gap \in Nat
  BY PresenceAssumption DEF TypeOK
<1> QED
  BY <1>1 DEF TypeOK, Kept, Lost

LEMMA OlderType ==
    ASSUME NEW limit \in Nat, NEW a \in Ages(limit)
    PROVE  Older(a, limit) \in Ages(limit)
  BY PresenceAssumption DEF Ages, Older

LEMMA StatusType ==
    ASSUME NEW seen PROVE Status(seen) \in [Tracked -> {Online, Offline, Unknown}]
  BY DEF Status

LEMMA TypeAdvance == ASSUME TypeOK, Advance PROVE TypeOK'
<1>1. clock' \in 0 .. SuperframeMs - 1
  BY Later DEF TypeOK, Advance
<1>2. served' \subseteq Node
  BY DEF TypeOK, Advance
<1>3. to_relay' \subseteq Air /\ to_gateway' \subseteq Air
  <2>1. \A f \in to_relay \cup to_gateway : [f EXCEPT !.left = @ - 1] \in Air
    <3> SUFFICES ASSUME NEW f \in to_relay \cup to_gateway
                 PROVE  [f EXCEPT !.left = @ - 1] \in Air
      OBVIOUS
    <3>1. f \in Air /\ f.left > 0
      BY DEF TypeOK, Advance
    <3>2. f.left - 1 \in 0 .. Top
      BY <3>1, DelayFacts DEF Air, Top
    <3> QED
      BY <3>1, <3>2 DEF Air, Top
  <2> QED
    BY <2>1 DEF Advance
<1>4. pending_ack' \in Pending
  <2>1. pending_ack \in Pending /\ RetryDelayMs \in Nat
    BY StartFacts DEF TypeOK, Pending
  <2>2. Min(pending_ack.age + 1, RetryDelayMs) \in 0 .. RetryDelayMs
    BY <2>1 DEF Min, Pending
  <2> QED
    BY <2>1, <2>2 DEF Advance, Pending
<1>5. sensor_seen' \in Ages(StaleLimit)
  BY OlderType, NewsFacts DEF TypeOK, Advance
<1>6. last_seen' \in [Tracked -> Ages(HeartbeatTimeout)]
  <2>1. HeartbeatTimeout \in Nat
    BY StartFacts
  <2> QED
    BY <2>1, OlderType DEF TypeOK, Advance
<1>7. losses' \in [gap : LossGaps, since : Nat] /\ losses'.since <= losses'.gap
  <2>1. losses.gap \in Nat
    BY PresenceAssumption DEF TypeOK
  <2> QED
    BY <2>1 DEF TypeOK, Advance, Min
<1> QED
  BY <1>1, <1>2, <1>3, <1>4, <1>5, <1>6, <1>7 DEF TypeOK, Advance, Pending

LEMMA ServeType ==
    ASSUME TypeOK, NEW n \in Node, Serve(n)
    PROVE  clock' \in 0 .. SuperframeMs - 1 /\ served' \subseteq Node
  BY DEF TypeOK, Serve

LEMMA TypeSensorWork ==
    ASSUME TypeOK, SensorSlot \/ SensorRetrySlot \/ SensorHeartbeatSlot PROVE TypeOK'
<1>1. Serve(Sensor) /\ (Kept \/ Lost) /\ UNCHANGED <<to_gateway, relayVars, gatewayVars>>
  BY DEF SensorSlot, SensorRetrySlot, SensorHeartbeatSlot
<1>2. to_relay' \subseteq Air
  <2>1. {} \in SUBSET Tracked /\ {Sensor} \in SUBSET Tracked
    BY DEF Tracked
  <2> QED
    BY <2>1, AirType DEF TypeOK, SensorSlot, SensorRetrySlot, SensorHeartbeatSlot
<1>3. sensor_retry' \in BOOLEAN
  <2>1. sensor_retry' \in BOOLEAN \/ sensor_retry' = FALSE \/ sensor_retry' = sensor_retry
    BY DEF SensorSlot, SensorRetrySlot, SensorHeartbeatSlot
  <2> QED
    BY <2>1, Zenon DEF TypeOK
<1>4. Sensor \in Node
  BY DEF Node
<1> QED
  BY <1>1, <1>2, <1>3, <1>4, ServeType, LossType DEF TypeOK, relayVars, gatewayVars

LEMMA TypeRelaySlot == ASSUME TypeOK, RelaySlot PROVE TypeOK'
<1> DEFINE count == Min(relay_forward, MaxForwardPerSlot)
<1>1. PICK alarm \in {{}} \cup Sent(Alarm, Delays, {}),
           data \in {{}} \cup Sent(Data, DataDelays, {}) :
         to_gateway' = to_gateway \cup alarm \cup data
  BY DEF RelaySlot
<1>2. alarm \subseteq Air /\ data \subseteq Air
  BY AirType
<1>3. relay_forward' \in 0 .. RelayForwardCapacity
  BY PresenceAssumption DEF RelaySlot, TypeOK, Min
<1>4. pending_ack' \in Pending
  <2>1. 1 \in 0 .. MaxAttempts /\ 0 \in 0 .. RetryDelayMs
    BY PresenceAssumption, StartFacts
  <2>2. [NoPending EXCEPT !.attempts = 1] \in Pending
    BY <2>1 DEF NoPending, Pending
  <2> QED
    BY <2>2 DEF RelaySlot, TypeOK, Pending
<1>5. alarm_waiting' \in BOOLEAN
  BY Zenon DEF RelaySlot
<1>6. Relay \in Node /\ Serve(Relay) /\ (Kept \/ Lost)
  BY DEF Node, RelaySlot
<1> QED
  BY <1>1, <1>2, <1>3, <1>4, <1>5, <1>6, ServeType, LossType
     DEF RelaySlot, TypeOK, Pending, gatewayVars

LEMMA TypeRelayRetrySlot == ASSUME TypeOK, RelayRetrySlot PROVE TypeOK'
<1>1. pending_ack \in Pending /\ NoPending \in Pending
  BY StartFacts, PresenceAssumption DEF TypeOK, Pending, NoPending
<1>2. pending_ack' \in Pending
  <2>1. CASE MayRetry(pending_ack.age >= RetryDelayMs)
    <3>1. pending_ack.attempts + 1 \in 0 .. MaxAttempts /\ 0 \in 0 .. RetryDelayMs
      BY <2>1, PresenceAssumption, StartFacts DEF MayRetry
    <3>2. pending_ack' = [pending_ack EXCEPT !.attempts = @ + 1, !.age = 0]
      BY <2>1 DEF RelayRetrySlot
    <3> QED
      BY <1>1, <3>1, <3>2 DEF Pending
  <2>2. CASE ~ MayRetry(pending_ack.age >= RetryDelayMs)
    BY <1>1, <2>2 DEF RelayRetrySlot
  <2> QED
    BY <2>1, <2>2
<1>3. to_gateway' \subseteq Air
  BY AirType DEF RelayRetrySlot, TypeOK
<1>4. Relay \in Node /\ Serve(Relay) /\ (Kept \/ Lost)
  BY DEF Node, RelayRetrySlot
<1> QED
  BY <1>2, <1>3, <1>4, ServeType, LossType
     DEF RelayRetrySlot, TypeOK, Pending, gatewayVars

LEMMA TypeRelayHeartbeatSlot == ASSUME TypeOK, RelayHeartbeatSlot PROVE TypeOK'
<1>1. to_gateway' \subseteq Air
  <2>1. PresenceMask \in SUBSET Tracked
    BY DEF PresenceMask, Tracked
  <2> QED
    BY <2>1, AirType DEF RelayHeartbeatSlot, TypeOK
<1>2. Relay \in Node /\ Serve(Relay) /\ (Kept \/ Lost)
  BY DEF Node, RelayHeartbeatSlot
<1> QED
  BY <1>1, <1>2, ServeType, LossType
     DEF RelayHeartbeatSlot, TypeOK, relayVars, gatewayVars

LEMMA TypeRelayRx == ASSUME TypeOK, RelayRx PROVE TypeOK'
<1>1. PICK f \in to_relay :
         /\ to_relay' = to_relay \ {f} /\ sensor_seen' = 0
         /\ alarm_waiting' = (alarm_waiting \/ f.frame_type = Alarm)
         /\ relay_forward' =
               IF f.frame_type = Data THEN Min(relay_forward + 1, RelayForwardCapacity)
               ELSE relay_forward
         /\ UNCHANGED <<clock, served, to_gateway, losses, pending_ack>>
         /\ UNCHANGED <<sensor_retry, gatewayVars>>
  BY DEF RelayRx, Arrives
<1>2. relay_forward' \in 0 .. RelayForwardCapacity
  BY <1>1, PresenceAssumption DEF TypeOK, Min
<1>3. alarm_waiting' \in BOOLEAN
  BY <1>1, Zenon
<1>4. sensor_seen' \in Ages(StaleLimit)
  BY <1>1, NewsFacts DEF Ages
<1> QED
  BY <1>1, <1>2, <1>3, <1>4 DEF TypeOK, gatewayVars

LEMMA SeenType ==
    ASSUME TypeOK, NEW nodes, RecordSeen(nodes)
    PROVE  /\ last_seen' \in [Tracked -> Ages(HeartbeatTimeout)]
           /\ last_reported' \in [Tracked -> {Online, Offline, Unknown}]
<1>1. 0 \in Ages(HeartbeatTimeout)
  BY StartFacts DEF Ages
<1> QED
  BY <1>1, StatusType DEF RecordSeen, TypeOK

LEMMA TypeGatewayRx ==
    ASSUME TypeOK, GatewayRxData \/ GatewayRxAlarm \/ GatewayRxHeartbeat PROVE TypeOK'
<1>1. /\ UNCHANGED <<clock, served, to_relay, sensor_retry>>
      /\ UNCHANGED <<relay_forward, alarm_waiting, sensor_seen>>
      /\ to_gateway' \subseteq to_gateway /\ (Kept \/ Lost)
  BY DEF GatewayRxData, GatewayRxAlarm, GatewayRxHeartbeat, relayVars, Kept
<1>2. pending_ack \in Pending /\ NoPending \in Pending
  BY StartFacts, PresenceAssumption DEF TypeOK, Pending, NoPending
<1>3. pending_ack' \in Pending
  <2>1. \A b \in BOOLEAN : [pending_ack EXCEPT !.applied = b] \in Pending
    BY <1>2 DEF Pending
  <2>2. \/ pending_ack' \in {pending_ack, NoPending}
        \/ pending_ack' = [pending_ack EXCEPT !.applied = FALSE]
        \/ pending_ack' = [pending_ack EXCEPT !.applied = TRUE]
    BY DEF GatewayRxData, GatewayRxAlarm, GatewayRxHeartbeat, relayVars
  <2> QED
    BY <1>2, <2>1, <2>2, Zenon
<1>4. /\ last_seen' \in [Tracked -> Ages(HeartbeatTimeout)]
      /\ last_reported' \in [Tracked -> {Online, Offline, Unknown}]
  <2>1. (\E nodes : RecordSeen(nodes)) \/ UNCHANGED gatewayVars
    BY DEF GatewayRxData, GatewayRxAlarm, GatewayRxHeartbeat
  <2> QED
    BY <2>1, SeenType DEF TypeOK, gatewayVars
<1> QED
  BY <1>1, <1>3, <1>4, LossType DEF TypeOK, Pending

LEMMA TypeGatewayPoll == ASSUME TypeOK, GatewayPoll PROVE TypeOK'
<1>1. clock' \in 0 .. SuperframeMs - 1 /\ served' \subseteq Node
  <2>1. Gateway \in Node
    BY DEF Node
  <2>2. CASE Serve(Gateway)
    BY <2>1, <2>2, ServeType
  <2>3. CASE UNCHANGED <<clock, served>>
    BY <2>3 DEF TypeOK
  <2> QED
    BY <2>2, <2>3 DEF GatewayPoll
<1> QED
  BY <1>1, StatusType DEF GatewayPoll, TypeOK, frameVars, relayVars

LEMMA PresenceTypeStep == TypeOK /\ [Next]_vars => TypeOK'
<1> SUFFICES ASSUME TypeOK, [Next]_vars PROVE TypeOK'
  OBVIOUS
<1>1. CASE UNCHANGED vars
  BY <1>1 DEF TypeOK, vars
<1> QED
  BY <1>1, TypeAdvance, TypeSensorWork, TypeRelaySlot, TypeRelayRetrySlot,
     TypeRelayHeartbeatSlot, TypeRelayRx, TypeGatewayRx, TypeGatewayPoll DEF Next

\* Every age is a time or None, every buffer within its capacity, no frame is on
\* its way for longer than the slowest, and losses keep their distance.
THEOREM PresenceTypeCorrect == Spec => []TypeOK
  BY PresenceTypeInit, PresenceTypeStep, PTL DEF Spec
-----------------------------------------------------------------------------
(***************************************************************************)
(* The road of the news from the relay to the gateway: each part bounds,   *)
(* by where the news is, how long ago the relay has heard the sensor.      *)
(***************************************************************************)
Heard(age) == sensor_seen # None /\ sensor_seen <= age

\* Who works in a slot has done so at the end of the window, and nobody has
\* before it begins.
ServedInWindow ==
    /\ SlotElapsed(clock) > Last => \A n \in Node : Works(n) => n \in served
    /\ served # {} => SlotElapsed(clock) >= First

\* Sent in the slot that begins then: handled before anybody works in the next.
SentIn(f, start) == start + First <= clock /\ clock + f.left < start + SlotMs + First

\* What the sensor sends is fresh in slot 2, and perhaps sent again in slot 4.
SensorFrames ==
    \A f \in to_relay :
        /\ f.frame_type = Data => SentIn(f, 2 * SlotMs)
        /\ f.frame_type = Alarm =>
              \/ SentIn(f, 2 * SlotMs)
              \/ /\ SentIn(f, 4 * SlotMs)
                 /\ 4 * SlotMs + First + Quick <= clock + f.left

DataOnAir == \E f \in to_relay : f.frame_type = Data

\* One sample in a superframe: the buffer is empty again after slot 3.
OneSample ==
    /\ \A f, g \in to_relay : f.frame_type = Data /\ g.frame_type = Data => f = g
    /\ relay_forward = 0 \/ (relay_forward = 1 /\ ~ DataOnAir /\ Heard(clock - 2 * SlotMs))
    /\ relay_forward = 1 \/ DataOnAir =>
          (slot = 2 /\ Sensor \in served) \/ (slot = 3 /\ Relay \notin served)

\* An ALARM waits for slot 3: heard since slot 2, or since the slot 4 before.
WaitingAlarm ==
    alarm_waiting =>
        \/ /\ clock < 4 * SlotMs /\ (slot = 3 => Relay \notin served)
           /\ Heard(clock + 4 * SlotMs - First - Quick)
        \/ /\ clock >= 4 * SlotMs + First + Quick
           /\ Heard(clock - 4 * SlotMs - First - Quick)

\* The relay's retry of this superframe is still to come.
BeforeRetry == clock < 4 * SlotMs \/ (slot = 4 /\ Relay \notin served)

\* An ALARM transmitted k times has been waiting for k superframes or one less,
\* and is due for the next transmission in slot 4, unless it is a fresh one.
PendingAlarm ==
    LET k == pending_ack.attempts
    IN  k > 0 =>
          IF BeforeRetry
          THEN \/ /\ pending_ack.age = RetryDelayMs
                  /\ Heard(clock + Hold(k) + 4 * SlotMs - First - Quick)
               \/ /\ k = 1 /\ pending_ack.age <= clock - 3 * SlotMs - First
                  /\ Heard(clock + 4 * SlotMs - First - Quick)
          ELSE /\ pending_ack.age = RetryDelayMs
                  \/ pending_ack.age >= clock - 4 * SlotMs - Last
               /\ Heard(clock + Hold(k) - 4 * SlotMs - First - Quick)

\* A frame that says the sensor is there says so in time.
IsNews(f) == f.frame_type # Heartbeat \/ Sensor \in f.presence
NewsOnAir == \A f \in to_gateway : IsNews(f) => Heard(LongestNews - f.left)

\* What the gateway knows, and since its last poll reports.
SincePoll ==
    IF Gateway \in served THEN SlotElapsed(clock) - First
    ELSE SlotMs + SlotElapsed(clock)

GatewayNews ==
    /\ Recent(last_seen[Sensor]) => Heard(LongestNews + last_seen[Sensor])
    /\ last_reported[Sensor] = Online =>
          Heard(LongestNews + HeartbeatTimeout + SincePoll)

IInv ==
    /\ TypeOK
    /\ ServedInWindow /\ SensorFrames /\ OneSample /\ WaitingAlarm /\ PendingAlarm
    /\ NewsOnAir /\ GatewayNews

\* The figures of the schedule.
LEMMA Figures ==
    /\ SlotMs \in Nat \ {0} /\ RetryDelayMs = 2 * SlotMs
    /\ First \in Nat /\ Last \in Nat /\ First <= Last /\ Last < SlotMs
    /\ Quick \in Nat \ {0} /\ Slow \in Nat /\ Top \in Nat
    /\ Quick <= Slow /\ Slow <= Top /\ Last + Top < SlotMs + First
  BY StartFacts, DelayFacts

\* What was heard is a tick older a tick later.
LEMMA HeardLater ==
    ASSUME TypeOK, sensor_seen' = Older(sensor_seen, StaleLimit)
    PROVE  \A b \in Int : Heard(b) => sensor_seen' # None /\ sensor_seen' <= b + 1
  BY PresenceAssumption, NewsFacts DEF TypeOK, Ages, Older, Heard

LEMMA SameTime ==
    ASSUME clock' = clock
    PROVE  slot' = slot /\ SlotElapsed(clock') = SlotElapsed(clock)
  BY DEF slot

\* Work is done within the window.
LEMMA InWindow ==
    ASSUME NEW n, Serve(n)
    PROVE  /\ SlotElapsed(clock) \in Nat
           /\ First <= SlotElapsed(clock) /\ SlotElapsed(clock) <= Last
           /\ n \notin served /\ served' = served \cup {n} /\ clock' = clock
  BY StartFacts DEF Serve

\* Which node works in an action, and when.
LEMMA WorkOf ==
    /\ SensorSlot => Serve(Sensor) /\ slot = 2
    /\ SensorRetrySlot => Serve(Sensor) /\ slot = 4
    /\ SensorHeartbeatSlot => Serve(Sensor) /\ slot = 6
    /\ RelaySlot => Serve(Relay) /\ slot = 3
    /\ RelayRetrySlot => Serve(Relay) /\ slot = 4
    /\ RelayHeartbeatSlot => Serve(Relay) /\ slot = 5
    /\ GatewayPoll => Serve(Gateway) \/ (clock' = clock /\ served' = served)
    /\ RelayRx \/ GatewayRxData \/ GatewayRxAlarm \/ GatewayRxHeartbeat
          => clock' = clock /\ served' = served
  BY DEF SensorSlot, SensorRetrySlot, SensorHeartbeatSlot, RelaySlot, RelayRetrySlot,
         RelayHeartbeatSlot, GatewayPoll, RelayRx, GatewayRxData, GatewayRxAlarm,
         GatewayRxHeartbeat, SensorSlotNo, RelaySlotNo, AlarmRetrySlotNo,
         RelayHeartbeatSlotNo, SensorHeartbeatSlotNo

\* No tick leaves a slot in which a node has not done its work.
LEMMA WorkedInTime ==
    ASSUME TypeOK, ServedInWindow, Advance
    PROVE  SlotElapsed(clock) >= Last => \A n \in Node : Works(n) => n \in served
  BY Figures, Now DEF ServedInWindow, Advance, TypeOK, Last

LEMMA Roles ==
    /\ Gateway \in Node /\ Relay \in Node /\ Sensor \in Node
    /\ Gateway # Relay /\ Gateway # Sensor /\ Relay # Sensor
    /\ Relay \in Tracked /\ Sensor \in Tracked
    /\ Works(Gateway) /\ (slot \in {3, 4, 5} => Works(Relay))
    /\ Data # Alarm /\ Data # Heartbeat /\ Alarm # Heartbeat
  BY DEF Node, Gateway, Relay, Sensor, Tracked, Works, Data, Alarm, Heartbeat,
         RelaySlotNo, AlarmRetrySlotNo, RelayHeartbeatSlotNo

LEMMA ServedStep == ASSUME IInv, [Next]_vars PROVE ServedInWindow'
<1> USE DEF IInv
<1>1. CASE Advance
  <2>1. clock \in 0 .. SuperframeMs - 1 /\ clock' = (clock + 1) % SuperframeMs
    BY <1>1 DEF TypeOK, Advance
  <2>2. CASE SlotElapsed(clock') = 0
    BY <1>1, <2>2, Figures DEF ServedInWindow, Advance
  <2>3. CASE SlotElapsed(clock') # 0
    <3>1. /\ SlotElapsed(clock') = SlotElapsed(clock) + 1 /\ slot' = slot
          /\ served' = served /\ SlotElapsed(clock) \in Nat
      BY <1>1, <2>1, <2>3, Later, Now DEF Advance
    <3>2. \A n : Works(n)' = Works(n)
      BY <3>1 DEF Works
    <3> QED
      BY <1>1, <3>1, <3>2, WorkedInTime, Figures DEF ServedInWindow
  <2> QED
    BY <2>2, <2>3
<1>2. CASE \E n \in Node : Serve(n)
  <2>1. PICK n \in Node : Serve(n)
    BY <1>2
  <2> QED
    BY <2>1, InWindow, SameTime, Figures DEF ServedInWindow
<1>3. CASE clock' = clock /\ served' = served
  BY <1>3, SameTime DEF ServedInWindow, Works
<1> QED
  BY <1>1, <1>2, <1>3, WorkOf, Roles DEF Next, vars
\* What the sensor puts on the air is in its slot, and there for the next one.
LEMMA SensorSends ==
    ASSUME IInv, SensorSlot \/ SensorRetrySlot \/ SensorHeartbeatSlot
    PROVE  /\ UNCHANGED <<to_gateway, relayVars, gatewayVars>>
           /\ \/ to_relay' = to_relay
              \/ \E f : /\ to_relay' = to_relay \cup {f} /\ f.left \in Nat
                        /\ \/ f.frame_type = Data /\ SensorSlot /\ SentIn(f, 2 * SlotMs)
                           \/ f.frame_type = Alarm /\ SensorSlot /\ SentIn(f, 2 * SlotMs)
                           \/ /\ f.frame_type = Alarm /\ SensorRetrySlot
                              /\ SentIn(f, 4 * SlotMs)
                              /\ 4 * SlotMs + First + Quick <= clock + f.left
                           \/ f.frame_type = Heartbeat
<1>1. UNCHANGED <<to_gateway, relayVars, gatewayVars>>
  BY DEF SensorSlot, SensorRetrySlot, SensorHeartbeatSlot
<1>2. /\ SlotElapsed(clock) \in Nat /\ First <= SlotElapsed(clock)
      /\ SlotElapsed(clock) <= Last
  BY InWindow, WorkOf
<1>3. clock \in 0 .. SuperframeMs - 1
  BY DEF IInv, TypeOK
<1>4. CASE SensorSlot
  <2>1. clock = 2 * SlotMs + SlotElapsed(clock)
    BY <1>3, <1>4, WorkOf, Now
  <2>2. ASSUME NEW t \in {Data, Alarm}, NEW d \in Nat, d <= Top
        PROVE  SentIn([frame_type |-> t, presence |-> {}, left |-> d], 2 * SlotMs)
    BY <1>2, <2>1, <2>2, Figures DEF SentIn
  <2>3. \/ to_relay' = to_relay
        \/ \E fs \in Sent(Data, DataDelays, {}) : to_relay' = to_relay \cup fs
        \/ \E fs \in Sent(Alarm, Delays, {}) : to_relay' = to_relay \cup fs
    BY <1>4 DEF SensorSlot
  <2>4. \/ to_relay' = to_relay
        \/ \E t \in {Data, Alarm}, d \in Delays \cup DataDelays :
              to_relay' = to_relay \cup
                  {[frame_type |-> t, presence |-> {}, left |-> d]}
    BY <2>3 DEF Sent
  <2>5. \A d \in Delays \cup DataDelays : d \in Nat /\ d <= Top
    BY DelayFacts
  <2> QED
    BY <1>1, <1>4, <2>2, <2>4, <2>5
<1>5. CASE SensorRetrySlot
  <2>1. clock = 4 * SlotMs + SlotElapsed(clock)
    BY <1>3, <1>5, WorkOf, Now
  <2>2. ASSUME NEW d \in Delays
        PROVE  LET f == [frame_type |-> Alarm, presence |-> {}, left |-> d]
               IN  /\ SentIn(f, 4 * SlotMs) /\ d \in Nat
                   /\ 4 * SlotMs + First + Quick <= clock + f.left
    BY <1>2, <2>1, DelayFacts, Figures DEF SentIn
  <2>3. \/ to_relay' = to_relay
        \/ \E fs \in Sent(Alarm, Delays, {}) : to_relay' = to_relay \cup fs
    BY <1>5 DEF SensorRetrySlot
  <2>4. \/ to_relay' = to_relay
        \/ \E d \in Delays :
              to_relay' = to_relay \cup
                  {[frame_type |-> Alarm, presence |-> {}, left |-> d]}
    BY <2>3 DEF Sent
  <2> QED
    BY <1>1, <1>5, <2>2, <2>4
<1>6. CASE SensorHeartbeatSlot
  <2>1. \/ to_relay' = to_relay
        \/ \E fs \in Sent(Heartbeat, Delays, {Sensor}) : to_relay' = to_relay \cup fs
    BY <1>6 DEF SensorHeartbeatSlot
  <2>2. \/ to_relay' = to_relay
        \/ \E d \in Delays :
              to_relay' = to_relay \cup
                  {[frame_type |-> Heartbeat, presence |-> {Sensor}, left |-> d]}
    BY <2>1 DEF Sent
  <2>3. \A d \in Delays : d \in Nat
    BY DelayFacts
  <2>4. CASE \E d \in Delays :
                to_relay' = to_relay \cup
                    {[frame_type |-> Heartbeat, presence |-> {Sensor}, left |-> d]}
    <3>1. PICK d \in Delays :
             to_relay' = to_relay \cup
                 {[frame_type |-> Heartbeat, presence |-> {Sensor}, left |-> d]}
      BY <2>4
    <3> DEFINE f == [frame_type |-> Heartbeat, presence |-> {Sensor}, left |-> d]
    <3>2. f.left \in Nat /\ f.frame_type = Heartbeat /\ to_relay' = to_relay \cup {f}
      BY <2>3, <3>1
    <3> HIDE DEF f
    <3> QED
      BY <1>1, <3>2
  <2> QED
    BY <1>1, <2>2, <2>4
<1> QED
  BY <1>4, <1>5, <1>6

\* A tick brings every frame nearer.
LEMMA AirLater ==
    ASSUME TypeOK, Advance
    PROVE  /\ \A g \in to_relay' : \E f \in to_relay :
                 /\ f.left \in Nat \ {0} /\ g.left = f.left - 1
                 /\ g.frame_type = f.frame_type
           /\ \A g \in to_gateway' : \E f \in to_gateway :
                 /\ f.left \in Nat \ {0} /\ g.left = f.left - 1
                 /\ g.frame_type = f.frame_type /\ g.presence = f.presence
<1> DEFINE Nearer(f) == [f EXCEPT !.left = @ - 1]
<1>1. ASSUME NEW f \in to_relay \cup to_gateway
      PROVE  /\ f.left \in Nat \ {0} /\ Nearer(f).left = f.left - 1
             /\ Nearer(f).frame_type = f.frame_type
             /\ Nearer(f).presence = f.presence
  <2>1. f \in Air /\ f.left > 0
    BY DEF TypeOK, Advance
  <2> QED
    BY <2>1 DEF Air
<1>2. /\ to_relay' = {Nearer(f) : f \in to_relay}
      /\ to_gateway' = {Nearer(f) : f \in to_gateway}
  BY DEF Advance
<1> HIDE DEF Nearer
<1> QED
  BY <1>1, <1>2

LEMMA SensorFramesStep == ASSUME IInv, [Next]_vars PROVE SensorFrames'
<1>1. CASE Advance
  <2>1. clock \in 0 .. SuperframeMs - 1 /\ clock' = (clock + 1) % SuperframeMs
    BY <1>1 DEF IInv, TypeOK, Advance
  <2>2. ASSUME NEW g \in to_relay', g.frame_type = Data \/ g.frame_type = Alarm
        PROVE  /\ g.frame_type = Data => SentIn(g, 2 * SlotMs)'
               /\ g.frame_type = Alarm =>
                     \/ SentIn(g, 2 * SlotMs)'
                     \/ /\ SentIn(g, 4 * SlotMs)'
                        /\ 4 * SlotMs + First + Quick <= clock' + g.left
    <3>1. PICK f \in to_relay : /\ f.left \in Nat \ {0} /\ g.left = f.left - 1
                                /\ g.frame_type = f.frame_type
      BY <1>1, AirLater DEF IInv
    <3>2. /\ f.frame_type = Data => SentIn(f, 2 * SlotMs)
          /\ f.frame_type = Alarm =>
                \/ SentIn(f, 2 * SlotMs)
                \/ /\ SentIn(f, 4 * SlotMs)
                   /\ 4 * SlotMs + First + Quick <= clock + f.left
      BY DEF IInv, SensorFrames
    <3>3. clock + f.left < 6 * SlotMs
      BY <2>1, <2>2, <3>1, <3>2, Now, Figures DEF SentIn
    <3>4. clock' = clock + 1
      BY <2>1, <3>1, <3>3, Later, Now, Figures
    <3> QED
      BY <2>1, <3>1, <3>2, <3>4, Now, Figures DEF SentIn
  <2> QED
    BY <2>2 DEF SensorFrames
<1>2. CASE SensorSlot \/ SensorRetrySlot \/ SensorHeartbeatSlot
  <2>1. clock' = clock
    BY <1>2, WorkOf DEF Serve
  <2> QED
    BY <1>2, <2>1, SensorSends, Roles DEF IInv, SensorFrames, SentIn
<1>3. CASE to_relay' \subseteq to_relay /\ clock' = clock
  BY <1>3 DEF IInv, SensorFrames, SentIn
<1>4. RelaySlot \/ RelayRetrySlot \/ RelayHeartbeatSlot \/ GatewayPoll
         => to_relay' = to_relay /\ clock' = clock
  BY DEF RelaySlot, RelayRetrySlot, RelayHeartbeatSlot, GatewayPoll, Serve, frameVars
<1>5. RelayRx \/ GatewayRxData \/ GatewayRxAlarm \/ GatewayRxHeartbeat
         => to_relay' \subseteq to_relay /\ clock' = clock
  BY DEF RelayRx, GatewayRxData, GatewayRxAlarm, GatewayRxHeartbeat
<1> QED
  BY <1>1, <1>2, <1>3, <1>4, <1>5 DEF Next, vars

LEMMA OneSampleStep == ASSUME IInv, [Next]_vars PROVE OneSample'
<1>1. TypeOK /\ OneSample /\ SensorFrames /\ ServedInWindow /\ to_relay \subseteq Air
  BY DEF IInv, TypeOK
<1>2. clock \in 0 .. SuperframeMs - 1
  BY <1>1 DEF TypeOK
<1>3. CASE Advance
  <2>1. /\ relay_forward' = relay_forward /\ clock' = (clock + 1) % SuperframeMs
        /\ to_relay' = {[f EXCEPT !.left = @ - 1] : f \in to_relay}
        /\ sensor_seen' = Older(sensor_seen, StaleLimit)
        /\ served' = IF SlotElapsed(clock') = 0 THEN {} ELSE served
    BY <1>3 DEF Advance
  <2>2. \A f \in to_relay : [f EXCEPT !.left = @ - 1].frame_type = f.frame_type
    BY <1>1 DEF Air
  <2>3. DataOnAir' = DataOnAir
    BY <2>1, <2>2 DEF DataOnAir
  <2>4. relay_forward = 1 \/ DataOnAir =>
          /\ clock' = clock + 1
          /\ (slot' = 2 /\ Sensor \in served') \/ (slot' = 3 /\ Relay \notin served')
    <3> SUFFICES ASSUME relay_forward = 1 \/ DataOnAir
                 PROVE  /\ clock' = clock + 1
                        /\ \/ slot' = 2 /\ Sensor \in served'
                           \/ slot' = 3 /\ Relay \notin served'
      OBVIOUS
    <3>1. CASE slot = 2 /\ Sensor \in served
      BY <1>2, <2>1, <3>1, Later, Now, Figures
    <3>2. CASE slot = 3 /\ Relay \notin served
      <4>1. SlotElapsed(clock) < Last
        BY <1>1, <1>2, <1>3, <3>2, WorkedInTime, Roles, Now, Figures
      <4> QED
        BY <1>2, <2>1, <3>2, <4>1, Later, Now, Figures
    <3> QED
      BY <1>1, <3>1, <3>2 DEF OneSample
  <2>5. \A f, g \in to_relay' : f.frame_type = Data /\ g.frame_type = Data => f = g
    <3>1. \A f, g \in to_relay : f.frame_type = Data /\ g.frame_type = Data => f = g
      BY <1>1 DEF OneSample
    <3>2. \A g \in to_relay' : \E f \in to_relay : g = [f EXCEPT !.left = @ - 1]
      BY <2>1
    <3> SUFFICES ASSUME NEW f \in to_relay', NEW g \in to_relay',
                        f.frame_type = Data, g.frame_type = Data
                 PROVE  f = g
      OBVIOUS
    <3>3. PICK a \in to_relay : f = [a EXCEPT !.left = @ - 1]
      BY <3>2
    <3>4. PICK b \in to_relay : g = [b EXCEPT !.left = @ - 1]
      BY <3>2
    <3>5. a = b
      BY <2>2, <3>1, <3>3, <3>4
    <3> QED
      BY <3>3, <3>4, <3>5
  <2>6. Heard(clock - 2 * SlotMs)
          => sensor_seen' # None /\ sensor_seen' <= (clock - 2 * SlotMs) + 1
    BY <1>1, <1>2, <2>1, HeardLater, Now, Figures
  <2>7. relay_forward' = 0
          \/ (relay_forward' = 1 /\ ~ DataOnAir' /\ Heard(clock - 2 * SlotMs)')
    BY <1>1, <1>2, <2>1, <2>3, <2>4, <2>6, Now, Figures DEF OneSample, Heard
  <2> QED
    BY <2>1, <2>3, <2>4, <2>5, <2>7 DEF OneSample
<1>4. CASE SensorSlot \/ SensorRetrySlot \/ SensorHeartbeatSlot
  <2>1. /\ clock' = clock /\ slot' = slot /\ served' = served \cup {Sensor}
        /\ Sensor \notin served /\ slot \in {2, 4, 6}
        /\ relay_forward' = relay_forward /\ sensor_seen' = sensor_seen
    BY <1>4, WorkOf, SameTime, SensorSends DEF relayVars, Serve
  <2>2. relay_forward = 0 /\ ~ DataOnAir
    BY <1>1, <2>1 DEF OneSample
  <2>3. CASE SensorSlot
    <3>1. slot = 2
      BY <2>3, WorkOf
    <3>2. \E f : to_relay' \subseteq to_relay \cup {f}
      BY <1>4, SensorSends
    <3> QED
      BY <2>1, <2>2, <3>1, <3>2 DEF OneSample, DataOnAir
  <2>4. CASE ~ SensorSlot
    <3>1. ~ DataOnAir'
      BY <1>4, <2>2, <2>4, SensorSends, Roles DEF DataOnAir
    <3> QED
      BY <2>1, <2>2, <3>1 DEF OneSample, DataOnAir
  <2> QED
    BY <2>3, <2>4
<1>5. CASE RelaySlot
  <2>1. clock' = clock /\ to_relay' = to_relay /\ slot = 3 /\ SlotElapsed(clock) >= First
    BY <1>5, WorkOf, InWindow DEF RelaySlot
  <2>2. ~ DataOnAir
    <3>1. \A f \in to_relay : f.left \in Nat
      BY <1>1 DEF Air
    <3> QED
      BY <1>1, <1>2, <2>1, <3>1, Now, Figures DEF SensorFrames, SentIn, DataOnAir
  <2>3. relay_forward' = 0
    BY <1>1, <1>5, PresenceAssumption DEF RelaySlot, OneSample, Min
  <2> QED
    BY <2>1, <2>2, <2>3 DEF OneSample, DataOnAir
<1>6. CASE RelayRx
  <2>1. PICK f \in to_relay :
           /\ f.left = 0 /\ to_relay' = to_relay \ {f} /\ sensor_seen' = 0
           /\ relay_forward' = IF f.frame_type = Data
                               THEN Min(relay_forward + 1, RelayForwardCapacity)
                               ELSE relay_forward
    BY <1>6 DEF RelayRx, Arrives
  <2>2. clock' = clock /\ served' = served /\ slot' = slot
    BY <1>6, WorkOf, SameTime
  <2>3. CASE f.frame_type = Data
    <3>1. relay_forward = 0 /\ ~ DataOnAir'
      BY <1>1, <2>1, <2>3 DEF OneSample, DataOnAir
    <3>2. relay_forward' = 1
      BY <2>1, <2>3, <3>1, PresenceAssumption DEF Min
    <3>3. Heard(clock - 2 * SlotMs)'
      BY <1>1, <1>2, <2>1, <2>2, <2>3, Now, Figures, PresenceAssumption
         DEF SensorFrames, SentIn, Heard
    <3> QED
      BY <1>1, <2>1, <2>2, <2>3, <3>1, <3>2, <3>3 DEF OneSample, DataOnAir
  <2>4. CASE f.frame_type # Data
    <3>1. DataOnAir' => DataOnAir
      BY <2>1 DEF DataOnAir
    <3>2. relay_forward = 1 => clock >= 2 * SlotMs
      BY <1>1, <1>2, Now, Figures DEF OneSample
    <3>3. relay_forward = 1 => Heard(clock - 2 * SlotMs)'
      BY <1>2, <2>1, <2>2, <3>2, Now, Figures, PresenceAssumption DEF Heard
    <3> QED
      BY <1>1, <2>1, <2>2, <2>4, <3>1, <3>3 DEF OneSample
  <2> QED
    BY <2>3, <2>4
<1>7. CASE RelayRetrySlot \/ RelayHeartbeatSlot \/ GatewayPoll \/ GatewayRxData
              \/ GatewayRxAlarm \/ GatewayRxHeartbeat \/ UNCHANGED vars
  <2>1. /\ clock' = clock /\ slot' = slot /\ to_relay' = to_relay
        /\ relay_forward' = relay_forward /\ sensor_seen' = sensor_seen
    BY <1>7, SameTime
       DEF RelayRetrySlot, RelayHeartbeatSlot, GatewayPoll, GatewayRxData,
           GatewayRxAlarm, GatewayRxHeartbeat, vars, frameVars, relayVars, Serve
  <2>2. served \subseteq served'
        /\ (slot = 3 => served' \subseteq served \cup {Gateway})
    BY <1>7, WorkOf DEF Serve, vars
  <2> QED
    BY <1>1, <2>1, <2>2, Roles DEF OneSample, DataOnAir, Heard
<1> QED
  BY <1>3, <1>4, <1>5, <1>6, <1>7 DEF Next
LEMMA WaitingAlarmStep == ASSUME IInv, [Next]_vars PROVE WaitingAlarm'
<1>1. TypeOK /\ WaitingAlarm /\ SensorFrames /\ ServedInWindow /\ to_relay \subseteq Air
  BY DEF IInv, TypeOK
<1>2. clock \in 0 .. SuperframeMs - 1
  BY <1>1 DEF TypeOK
<1>3. CASE Advance
  <2>1. /\ alarm_waiting' = alarm_waiting /\ clock' = (clock + 1) % SuperframeMs
        /\ sensor_seen' = Older(sensor_seen, StaleLimit)
        /\ served' = IF SlotElapsed(clock') = 0 THEN {} ELSE served
    BY <1>3 DEF Advance
  <2>2. \A b \in Int : Heard(b) => sensor_seen' # None /\ sensor_seen' <= b + 1
    BY <1>1, <2>1, HeardLater
  <2> SUFFICES ASSUME alarm_waiting PROVE WaitingAlarm'
    BY <2>1 DEF WaitingAlarm
  <2>3. CASE /\ clock < 4 * SlotMs /\ (slot = 3 => Relay \notin served)
             /\ Heard(clock + 4 * SlotMs - First - Quick)
    <3>1. sensor_seen' # None
          /\ sensor_seen' <= (clock + 4 * SlotMs - First - Quick) + 1
      BY <1>2, <2>2, <2>3, Now, Figures
    <3>2. slot = 3 => SlotElapsed(clock) < Last
      BY <1>1, <1>2, <1>3, <2>3, WorkedInTime, Roles, Now, Figures
    <3>3. /\ clock' = clock + 1 /\ clock' < 4 * SlotMs
          /\ (slot' = 3 => Relay \notin served')
      BY <1>2, <2>1, <2>3, <3>2, Later, Now, Figures
    <3> QED
      BY <1>2, <3>1, <3>3, Figures DEF WaitingAlarm, Heard
  <2>4. CASE /\ clock >= 4 * SlotMs + First + Quick
             /\ Heard(clock - 4 * SlotMs - First - Quick)
    <3>1. sensor_seen' # None
          /\ sensor_seen' <= (clock - 4 * SlotMs - First - Quick) + 1
      BY <1>2, <2>2, <2>4, Now, Figures
    <3>2. \/ clock' = clock + 1
          \/ clock = 8 * SlotMs - 1 /\ clock' = 0 /\ slot' = 0
      BY <1>2, <2>1, Later, Now, Figures
    <3> QED
      BY <1>2, <2>4, <3>1, <3>2, Now, Figures DEF WaitingAlarm, Heard
  <2> QED
    BY <1>1, <2>3, <2>4 DEF WaitingAlarm
<1>4. CASE RelaySlot
  BY <1>4, Zenon DEF RelaySlot, WaitingAlarm
<1>5. CASE RelayRx
  <2>1. PICK f \in to_relay :
           /\ f.left = 0 /\ sensor_seen' = 0
           /\ alarm_waiting' = (alarm_waiting \/ f.frame_type = Alarm)
    BY <1>5 DEF RelayRx, Arrives
  <2>2. clock' = clock /\ served' = served /\ slot' = slot
    BY <1>5, WorkOf, SameTime
  <2>3. 0 # None
    BY PresenceAssumption
  <2>4. CASE alarm_waiting
    BY <1>1, <1>2, <2>1, <2>2, <2>3, <2>4, Now, Figures DEF WaitingAlarm, Heard
  <2>5. CASE f.frame_type = Alarm
    <3>1. \/ 2 * SlotMs + First <= clock /\ clock < 3 * SlotMs + First
          \/ 4 * SlotMs + First + Quick <= clock
      BY <1>1, <1>2, <2>1, <2>5, Now, Figures DEF SensorFrames, SentIn
    <3>2. slot = 3 /\ clock < 3 * SlotMs + First => served = {}
      BY <1>1, <1>2, Now, Figures DEF ServedInWindow
    <3> QED
      BY <1>2, <2>1, <2>2, <2>3, <3>1, <3>2, Now, Figures DEF WaitingAlarm, Heard
  <2>6. CASE ~ alarm_waiting /\ f.frame_type # Alarm
    BY <2>1, <2>6 DEF WaitingAlarm
  <2> QED
    BY <2>4, <2>5, <2>6
<1>6. CASE SensorSlot \/ SensorRetrySlot \/ SensorHeartbeatSlot \/ RelayRetrySlot
              \/ RelayHeartbeatSlot \/ GatewayPoll \/ GatewayRxData
              \/ GatewayRxAlarm \/ GatewayRxHeartbeat \/ UNCHANGED vars
  <2>1. /\ clock' = clock /\ slot' = slot
        /\ alarm_waiting' = alarm_waiting /\ sensor_seen' = sensor_seen
    BY <1>6, SameTime
       DEF SensorSlot, SensorRetrySlot, SensorHeartbeatSlot, RelayRetrySlot,
           RelayHeartbeatSlot, GatewayPoll, GatewayRxData, GatewayRxAlarm,
           GatewayRxHeartbeat, vars, relayVars, Serve
  <2>2. slot = 3 => served' \subseteq served \cup {Gateway}
    BY <1>6, WorkOf DEF Serve, vars
  <2> QED
    BY <1>1, <2>1, <2>2, Roles DEF WaitingAlarm, Heard
<1> QED
  BY <1>3, <1>4, <1>5, <1>6 DEF Next

\* Whether the retry of this superframe is to come changes with it only.
LEMMA RetryTime ==
    ASSUME IInv, [Next]_vars
    PROVE  /\ ~ Advance /\ ~ RelayRetrySlot => BeforeRetry' = BeforeRetry
           /\ Advance /\ BeforeRetry => BeforeRetry' /\ clock' = clock + 1
           /\ Advance /\ ~ BeforeRetry =>
                 \/ ~ BeforeRetry' /\ clock' = clock + 1
                 \/ BeforeRetry' /\ clock = 8 * SlotMs - 1 /\ clock' = 0
           /\ BeforeRetry => clock <= 4 * SlotMs + Last
           /\ ~ BeforeRetry => clock >= 4 * SlotMs
<1>1. TypeOK /\ ServedInWindow /\ clock \in 0 .. SuperframeMs - 1
  BY DEF IInv, TypeOK
<1>2. slot = 4 /\ Relay \notin served => SlotElapsed(clock) <= Last
  BY <1>1, Roles, Now, Figures DEF ServedInWindow
<1>3. CASE Advance
  <2>1. /\ clock' = (clock + 1) % SuperframeMs
        /\ served' = IF SlotElapsed(clock') = 0 THEN {} ELSE served
    BY <1>3 DEF Advance
  <2>2. slot = 4 /\ Relay \notin served => SlotElapsed(clock) < Last
    BY <1>1, <1>3, WorkedInTime, Roles, Now, Figures
  <2>3. BeforeRetry => BeforeRetry' /\ clock' = clock + 1
    BY <1>1, <2>1, <2>2, Later, Now, Figures DEF BeforeRetry
  <2>4. ~ BeforeRetry => \/ ~ BeforeRetry' /\ clock' = clock + 1
                         \/ BeforeRetry' /\ clock = 8 * SlotMs - 1 /\ clock' = 0
    BY <1>1, <2>1, <2>2, Later, Now, Figures DEF BeforeRetry
  <2> QED
    BY <1>1, <1>2, <1>3, <2>3, <2>4, Now, Figures DEF BeforeRetry
<1>4. CASE ~ Advance
  <2>1. clock' = clock /\ slot' = slot
    BY <1>4, WorkOf, SameTime DEF Next, Serve, vars
  <2>2. ~ RelayRetrySlot => served' = served \/ served' = served \cup {Gateway}
           \/ served' = served \cup {Sensor} \/ (slot # 4 /\ served' = served \cup {Relay})
    BY <1>4, WorkOf DEF Next, Serve, vars
  <2>3. ~ RelayRetrySlot => BeforeRetry' = BeforeRetry
    BY <2>1, <2>2, Roles DEF BeforeRetry
  <2> QED
    BY <1>1, <1>2, <1>4, <2>3, Now, Figures DEF BeforeRetry
<1> QED
  BY <1>3, <1>4
LEMMA PendingType ==
    ASSUME TypeOK, pending_ack.attempts > 0
    PROVE  /\ pending_ack.attempts \in 1 .. MaxAttempts
           /\ pending_ack.age \in Nat /\ pending_ack.age <= RetryDelayMs
           /\ Hold(pending_ack.attempts) \in Nat /\ Hold(pending_ack.attempts) >= 8 * SlotMs
<1>1. pending_ack.attempts \in 1 .. MaxAttempts
  BY DEF TypeOK
<1>2. \A k \in 1 .. MaxAttempts : Hold(k) >= 8 * SlotMs
  BY StartFacts, PresenceAssumption DEF Hold
<1> QED
  BY <1>1, <1>2, HoldFacts, Figures DEF TypeOK

LEMMA PendingAdvance == ASSUME IInv, Advance PROVE PendingAlarm'
<1>1. TypeOK /\ PendingAlarm
  BY DEF IInv
<1>2. clock \in 0 .. SuperframeMs - 1
  BY <1>1 DEF TypeOK
<1>3. CASE pending_ack.attempts = 0
  BY <1>3 DEF Advance, PendingAlarm
<1>4. CASE pending_ack.attempts > 0
  <2> DEFINE k == pending_ack.attempts
             age == pending_ack.age
             late == 4 * SlotMs - First - Quick
  <2>1. /\ k \in 1 .. MaxAttempts /\ age \in Nat /\ age <= RetryDelayMs
        /\ Hold(k) \in Nat /\ Hold(k) >= 8 * SlotMs /\ k > 0
    BY <1>1, <1>4, PendingType
  <2>2. pending_ack'.attempts = k /\ pending_ack'.age = Min(age + 1, RetryDelayMs)
    <3>1. pending_ack \in Pending
      BY <1>1 DEF TypeOK, Pending
    <3> QED
      BY <1>4, <3>1 DEF Advance, Pending
  <2>3. \A b \in Int : Heard(b) => sensor_seen' # None /\ sensor_seen' <= b + 1
    BY <1>1, HeardLater DEF Advance
  <2>4. late \in Int /\ clock \in Int /\ 4 * SlotMs \in Int
    BY <1>2, Now, Figures
  <2>5. CASE BeforeRetry
    <3>1. BeforeRetry' /\ clock' = clock + 1
      BY <2>5, RetryTime DEF Next
    <3>2. CASE age = RetryDelayMs /\ Heard(clock + Hold(k) + 4 * SlotMs - First - Quick)
      <4>1. pending_ack'.age = RetryDelayMs
        BY <2>1, <2>2, <3>2, Figures DEF Min
      <4>2. Heard(clock + Hold(k) + 4 * SlotMs - First - Quick)'
        BY <1>2, <2>1, <2>2, <2>3, <3>1, <3>2, Now, Figures DEF Heard, Hold
      <4> QED
        BY <2>2, <3>1, <4>1, <4>2 DEF PendingAlarm
    <3>3. CASE /\ k = 1 /\ age <= clock - 3 * SlotMs - First
               /\ Heard(clock + 4 * SlotMs - First - Quick)
      <4>1. Heard(clock + 4 * SlotMs - First - Quick)'
        BY <1>2, <2>3, <3>1, <3>3, Now, Figures DEF Heard
      <4>2. pending_ack'.age <= clock' - 3 * SlotMs - First
        BY <1>2, <2>1, <2>2, <3>1, <3>3, Now, Figures DEF Min
      <4> QED
        BY <2>2, <3>1, <3>3, <4>1, <4>2 DEF PendingAlarm
    <3> QED
      BY <1>1, <2>1, <2>5, <3>2, <3>3 DEF PendingAlarm
  <2>6. CASE ~ BeforeRetry
    <3>1. /\ age = RetryDelayMs \/ age >= clock - 4 * SlotMs - Last
          /\ Heard(clock + Hold(k) - 4 * SlotMs - First - Quick)
      BY <1>1, <2>1, <2>6 DEF PendingAlarm
    <3>2. sensor_seen' # None
          /\ sensor_seen' <= (clock + Hold(k) - 4 * SlotMs - First - Quick) + 1
      BY <1>2, <2>1, <2>3, <3>1, Now, Figures
    <3>3. CASE ~ BeforeRetry' /\ clock' = clock + 1
      <4>1. pending_ack'.age = RetryDelayMs
            \/ pending_ack'.age >= clock' - 4 * SlotMs - Last
        BY <1>2, <2>1, <2>2, <3>1, <3>3, Now, Figures DEF Min
      <4>2. Heard(clock + Hold(k) - 4 * SlotMs - First - Quick)'
        BY <1>2, <2>1, <2>2, <3>2, <3>3, Now, Figures DEF Heard, Hold
      <4> QED
        BY <2>2, <3>3, <4>1, <4>2 DEF PendingAlarm
    <3>4. CASE BeforeRetry' /\ clock = 8 * SlotMs - 1 /\ clock' = 0
      <4>1. pending_ack'.age = RetryDelayMs
        BY <2>1, <2>2, <3>1, <3>4, Figures DEF Min
      <4>2. Heard(clock + Hold(k) + 4 * SlotMs - First - Quick)'
        BY <1>2, <2>1, <2>2, <3>2, <3>4, Now, Figures DEF Heard, Hold
      <4> QED
        BY <2>2, <3>4, <4>1, <4>2 DEF PendingAlarm
    <3> QED
      BY <2>6, <3>3, <3>4, RetryTime DEF Next
  <2> QED
    BY <2>5, <2>6
<1> QED
  BY <1>1, <1>3, <1>4 DEF TypeOK

LEMMA PendingRetry == ASSUME IInv, RelayRetrySlot PROVE PendingAlarm'
<1>1. /\ TypeOK /\ PendingAlarm /\ pending_ack \in Pending
      /\ clock \in 0 .. SuperframeMs - 1
  BY DEF IInv, TypeOK, Pending
<1> DEFINE k == pending_ack.attempts
           due == pending_ack.age >= RetryDelayMs
<1>2. /\ slot = 4 /\ clock' = clock /\ slot' = slot /\ Relay \in served'
      /\ First <= SlotElapsed(clock) /\ SlotElapsed(clock) <= Last
      /\ SlotElapsed(clock) \in Nat /\ sensor_seen' = sensor_seen /\ BeforeRetry
  <2>1. Relay \notin served /\ Relay \in served' /\ clock' = clock
    BY WorkOf, InWindow
  <2> QED
    BY <2>1, WorkOf, InWindow, SameTime DEF RelayRetrySlot, BeforeRetry
<1>3. clock = 4 * SlotMs + SlotElapsed(clock) /\ clock \in Int
  BY <1>1, <1>2, Now
<1>4. ~ BeforeRetry'
  BY <1>2, <1>3, Figures DEF BeforeRetry
<1>5. CASE k = 0
  BY <1>1, <1>5, PresenceAssumption
     DEF RelayRetrySlot, MayRetry, PendingAlarm, NoPending
<1>6. CASE k > 0
  <2>1. /\ k \in 1 .. MaxAttempts /\ pending_ack.age \in Nat
        /\ pending_ack.age <= RetryDelayMs /\ Hold(k) \in Nat
    BY <1>1, <1>6, PendingType
  <2>2. \/ /\ pending_ack.age = RetryDelayMs
           /\ Heard(clock + Hold(k) + 4 * SlotMs - First - Quick)
        \/ /\ k = 1 /\ pending_ack.age <= clock - 3 * SlotMs - First
           /\ Heard(clock + 4 * SlotMs - First - Quick)
    BY <1>1, <1>2, <1>6 DEF PendingAlarm
  <2>3. due => Heard(clock + Hold(k) + 4 * SlotMs - First - Quick)
    BY <1>2, <1>3, <2>1, <2>2, Figures
  <2>4. ~ due => k = 1 /\ Heard(clock + 4 * SlotMs - First - Quick)
    BY <2>1, <2>2, Figures
  <2>5. CASE MayRetry(due)
    <3>1. pending_ack' = [pending_ack EXCEPT !.attempts = @ + 1, !.age = 0]
      BY <2>5 DEF RelayRetrySlot
    <3>2. pending_ack'.attempts = k + 1 /\ pending_ack'.age = 0
      BY <1>1, <3>1 DEF Pending
    <3>3. Hold(k + 1) = Hold(k) + 8 * SlotMs
      BY <2>1, HoldFacts
    <3>4. Heard(clock + Hold(k) + 4 * SlotMs - First - Quick)
      BY <2>3, <2>5 DEF MayRetry
    <3>5. 0 >= clock' - 4 * SlotMs - Last
      BY <1>2, <1>3, Figures
    <3>6. Hold(pending_ack'.attempts) = Hold(k) + 8 * SlotMs
      BY <3>2, <3>3
    <3>7. Heard(clock + Hold(pending_ack.attempts) - 4 * SlotMs - First - Quick)'
      <4>1. clock + (Hold(k) + 8 * SlotMs) - 4 * SlotMs - First - Quick
              = clock + Hold(k) + 4 * SlotMs - First - Quick
        BY <1>3, <2>1, Figures
      <4>2. Hold(pending_ack.attempts)' = Hold(pending_ack'.attempts)
        BY DEF Hold
      <4> QED
        BY <1>2, <3>4, <3>6, <4>1, <4>2 DEF Heard
    <3> QED
      BY <1>4, <3>2, <3>5, <3>7 DEF PendingAlarm
  <2>6. CASE ~ MayRetry(due)
    <3>1. CASE due
      <4>1. pending_ack' = NoPending
        BY <2>1, <2>6, <3>1, PresenceAssumption DEF RelayRetrySlot, MayRetry
      <4> QED
        BY <4>1 DEF PendingAlarm, NoPending
    <3>2. CASE ~ due
      <4>1. pending_ack' = pending_ack
        BY <2>6, <3>2 DEF RelayRetrySlot
      <4>2. k = 1 /\ Heard(clock + 4 * SlotMs - First - Quick)
        BY <2>4, <3>2
      <4>3. pending_ack.age >= clock' - 4 * SlotMs - Last
        BY <1>2, <1>3, <2>1, Figures
      <4>4. Heard(clock + Hold(pending_ack.attempts) - 4 * SlotMs - First - Quick)'
        <5>1. Hold(k) = 8 * SlotMs
          BY <4>2, HoldFacts
        <5>2. clock + 8 * SlotMs - 4 * SlotMs - First - Quick
                = clock + 4 * SlotMs - First - Quick
          BY <1>3, Figures
        <5> QED
          BY <1>2, <4>1, <4>2, <5>1, <5>2 DEF Heard, Hold
      <4> QED
        BY <1>4, <4>1, <4>3, <4>4 DEF PendingAlarm
    <3> QED
      BY <3>1, <3>2
  <2> QED
    BY <2>5, <2>6
<1> QED
  BY <1>1, <1>5, <1>6 DEF Pending

LEMMA PendingStep == ASSUME IInv, [Next]_vars PROVE PendingAlarm'
<1>1. TypeOK /\ PendingAlarm /\ WaitingAlarm /\ pending_ack \in Pending
  BY DEF IInv, TypeOK, Pending
<1>2. clock \in 0 .. SuperframeMs - 1
  BY <1>1 DEF TypeOK
<1>3. CASE RelaySlot
  <2>1. /\ slot = 3 /\ clock' = clock /\ First <= SlotElapsed(clock)
        /\ SlotElapsed(clock) <= Last /\ SlotElapsed(clock) \in Nat
    BY <1>3, WorkOf, InWindow
  <2>2. sensor_seen' = sensor_seen /\ BeforeRetry' = BeforeRetry /\ BeforeRetry'
    <3>1. slot # 4 /\ clock < 4 * SlotMs /\ clock = 3 * SlotMs + SlotElapsed(clock)
      BY <1>2, <2>1, Now, Figures
    <3> QED
      BY <1>3, <2>1, <3>1 DEF RelaySlot, BeforeRetry
  <2>3. CASE alarm_waiting
    <3>1. pending_ack' = [NoPending EXCEPT !.attempts = 1]
      BY <1>3, <2>3 DEF RelaySlot
    <3>2. pending_ack'.attempts = 1 /\ pending_ack'.age = 0
      BY <3>1 DEF NoPending
    <3>3. Heard(clock + 4 * SlotMs - First - Quick)
      BY <1>1, <1>2, <2>1, <2>3, Now, Figures DEF WaitingAlarm
    <3>4. 0 <= clock' - 3 * SlotMs - First
      BY <1>2, <2>1, Now, Figures
    <3> QED
      BY <2>1, <2>2, <3>2, <3>3, <3>4 DEF PendingAlarm, Heard
  <2>4. CASE ~ alarm_waiting
    <3>1. pending_ack' = pending_ack
      BY <1>3, <2>4 DEF RelaySlot
    <3> QED
      BY <1>1, <2>1, <2>2, <3>1 DEF PendingAlarm, Heard, Hold
  <2> QED
    BY <2>3, <2>4
<1>4. CASE RelayRx
  <2>1. sensor_seen' = 0 /\ pending_ack' = pending_ack /\ 0 # None
    BY <1>4, PresenceAssumption DEF RelayRx
  <2>2. clock' = clock /\ slot' = slot /\ served' = served
    BY <1>4, WorkOf, SameTime
  <2>3. BeforeRetry' = BeforeRetry /\ (~ BeforeRetry => clock >= 4 * SlotMs)
    BY <1>4, <2>2, RetryTime DEF BeforeRetry, Next
  <2>4. clock \in Int /\ clock >= 0
    BY <1>2, Now
  <2>5. CASE pending_ack.attempts > 0
    <3>1. /\ Hold(pending_ack.attempts) \in Nat
          /\ Hold(pending_ack.attempts) >= 8 * SlotMs
          /\ Hold(pending_ack.attempts)' = Hold(pending_ack.attempts)
      BY <1>1, <2>1, <2>5, PendingType DEF Hold
    <3>2. /\ 0 <= clock + Hold(pending_ack.attempts) + 4 * SlotMs - First - Quick
          /\ 0 <= clock + 4 * SlotMs - First - Quick
          /\ 0 <= clock + Hold(pending_ack.attempts) - 4 * SlotMs - First - Quick
      BY <2>4, <3>1, Figures
    <3> QED
      BY <1>1, <2>1, <2>2, <2>3, <2>5, <3>1, <3>2 DEF PendingAlarm, Heard
  <2>6. CASE ~ (pending_ack.attempts > 0)
    BY <2>1, <2>6 DEF PendingAlarm
  <2> QED
    BY <2>5, <2>6
<1>5. CASE GatewayRxData \/ GatewayRxAlarm \/ GatewayRxHeartbeat
  <2>1. clock' = clock /\ slot' = slot /\ served' = served /\ sensor_seen' = sensor_seen
    BY <1>5, WorkOf, SameTime
       DEF GatewayRxData, GatewayRxAlarm, GatewayRxHeartbeat, relayVars
  <2>2. \/ pending_ack' \in {pending_ack, NoPending}
        \/ \E b \in BOOLEAN : pending_ack' = [pending_ack EXCEPT !.applied = b]
    BY <1>5 DEF GatewayRxData, GatewayRxAlarm, GatewayRxHeartbeat, relayVars
  <2>3. \/ pending_ack'.attempts = 0
        \/ pending_ack'.attempts = pending_ack.attempts /\ pending_ack'.age = pending_ack.age
    BY <1>1, <2>2 DEF Pending, NoPending
  <2>4. BeforeRetry' = BeforeRetry
    BY <2>1 DEF BeforeRetry
  <2> QED
    BY <1>1, <2>1, <2>3, <2>4 DEF PendingAlarm, Heard, Hold
<1>6. CASE SensorSlot \/ SensorRetrySlot \/ SensorHeartbeatSlot \/ RelayHeartbeatSlot
              \/ GatewayPoll \/ UNCHANGED vars
  <2>1. clock' = clock /\ sensor_seen' = sensor_seen /\ pending_ack' = pending_ack
    BY <1>6 DEF SensorSlot, SensorRetrySlot, SensorHeartbeatSlot, RelayHeartbeatSlot,
                GatewayPoll, vars, relayVars, Serve
  <2>2. slot' = slot /\ (slot = 4 => (Relay \in served' <=> Relay \in served))
    BY <1>6, <2>1, SameTime, WorkOf, Roles DEF Serve, vars
  <2>3. BeforeRetry' <=> BeforeRetry
    BY <2>1, <2>2 DEF BeforeRetry
  <2> QED
    BY <1>1, <2>1, <2>3 DEF PendingAlarm, Heard, Hold
<1> QED
  BY <1>3, <1>4, <1>5, <1>6, PendingAdvance, PendingRetry DEF Next
\* What the relay sends is news in time.
LEMMA RelaySends ==
    ASSUME IInv, RelaySlot \/ RelayRetrySlot \/ RelayHeartbeatSlot
    PROVE  \A f \in to_gateway' \ to_gateway : IsNews(f) => Heard(LongestNews - f.left)
<1>1. /\ TypeOK /\ OneSample /\ WaitingAlarm /\ PendingAlarm
      /\ clock \in 0 .. SuperframeMs - 1
  BY DEF IInv, TypeOK
<1>2. /\ SlotElapsed(clock) \in Nat /\ First <= SlotElapsed(clock)
      /\ SlotElapsed(clock) <= Last /\ Relay \notin served
  BY WorkOf, InWindow
<1>3. /\ LongestNews \in Nat /\ 16 * SlotMs <= LongestNews
      /\ LongestNews = LongestHold + (Last - First) + (Slow - Quick)
      /\ LongestHold \in Nat /\ 16 * SlotMs <= LongestHold
  BY NewsFacts, HoldFacts
<1>4. CASE RelaySlot
  <2>1. clock = 3 * SlotMs + SlotElapsed(clock)
    BY <1>1, <1>4, WorkOf, Now
  <2>2. PICK alarm \in {{}} \cup Sent(Alarm, Delays, {}),
             data \in {{}} \cup Sent(Data, DataDelays, {}) :
           /\ alarm # {} => alarm_waiting
           /\ data # {} => Min(relay_forward, MaxForwardPerSlot) > 0
           /\ to_gateway' = to_gateway \cup alarm \cup data
    BY <1>4 DEF RelaySlot
  <2>3. ASSUME NEW f \in alarm PROVE Heard(LongestNews - f.left)
    <3>1. f.left \in Nat /\ Quick <= f.left /\ f.left <= Slow /\ alarm_waiting
      BY <2>2, <2>3, DelayFacts DEF Sent
    <3>2. Heard(clock + 4 * SlotMs - First - Quick)
      BY <1>1, <1>2, <2>1, <3>1, Figures DEF WaitingAlarm
    <3>3. clock + 4 * SlotMs - First - Quick <= LongestNews - f.left
      BY <1>2, <1>3, <2>1, <3>1, Figures
    <3>4. sensor_seen \in Nat
      BY <1>1, <3>2, NewsFacts DEF TypeOK, Ages, Heard
    <3> QED
      BY <1>2, <1>3, <2>1, <3>1, <3>2, <3>3, <3>4, Figures DEF Heard
  <2>4. ASSUME NEW f \in data PROVE Heard(LongestNews - f.left)
    <3>1. f.left \in Nat /\ f.left <= Top
      BY <2>4, DelayFacts DEF Sent
    <3>2. Heard(clock - 2 * SlotMs)
      <4>1. Min(relay_forward, MaxForwardPerSlot) > 0
        BY <2>2, <2>4
      <4>2. relay_forward = 1
        BY <1>1, <4>1, PresenceAssumption DEF OneSample, Min
      <4> QED
        BY <1>1, <4>2 DEF OneSample
    <3>3. clock - 2 * SlotMs <= LongestNews - f.left
      BY <1>2, <1>3, <2>1, <3>1, Figures
    <3>4. sensor_seen \in Nat
      BY <1>1, <3>2, NewsFacts DEF TypeOK, Ages, Heard
    <3> QED
      BY <1>2, <1>3, <2>1, <3>1, <3>2, <3>3, <3>4, Figures DEF Heard
  <2> QED
    BY <2>2, <2>3, <2>4
<1>5. CASE RelayRetrySlot
  <2>1. clock = 4 * SlotMs + SlotElapsed(clock) /\ BeforeRetry
    BY <1>1, <1>2, <1>5, WorkOf, Now DEF BeforeRetry
  <2> SUFFICES ASSUME NEW f \in to_gateway' \ to_gateway
               PROVE  Heard(LongestNews - f.left)
    OBVIOUS
  <2> DEFINE k == pending_ack.attempts
  <2>2. PICK d \in Delays :
           f = [frame_type |-> Alarm, presence |-> {}, left |-> d]
    BY <1>5 DEF RelayRetrySlot, Sent
  <2>3. f.left \in Nat /\ Quick <= f.left /\ f.left <= Slow
    BY <2>2, DelayFacts
  <2>4. MayRetry(pending_ack.age >= RetryDelayMs)
    BY <1>5 DEF RelayRetrySlot
  <2>5. k \in 1 .. MaxAttempts - 1 /\ pending_ack.age >= RetryDelayMs
    BY <2>4 DEF MayRetry
  <2>6. k > 0 /\ k \in 1 .. MaxAttempts /\ k + 1 \in 1 .. MaxAttempts
    BY <2>5, PresenceAssumption
  <2>7. /\ Hold(k) \in Nat /\ Hold(k + 1) = Hold(k) + 8 * SlotMs
        /\ Hold(k + 1) <= LongestHold
    BY <2>6, HoldFacts
  <2>8. Heard(clock + Hold(k) + 4 * SlotMs - First - Quick)
    <3>1. \/ /\ pending_ack.age = RetryDelayMs
             /\ Heard(clock + Hold(k) + 4 * SlotMs - First - Quick)
          \/ pending_ack.age <= clock - 3 * SlotMs - First
      BY <1>1, <2>1, <2>6 DEF PendingAlarm
    <3>2. pending_ack.age \in Nat
      BY <1>1, <2>6, PendingType
    <3> QED
      BY <1>2, <2>1, <2>5, <3>1, <3>2, Figures
  <2>9. clock + Hold(k) + 4 * SlotMs - First - Quick <= LongestNews - f.left
    BY <1>2, <1>3, <2>1, <2>3, <2>7, Figures
  <2>10. sensor_seen \in Nat
    BY <1>1, <2>8, NewsFacts DEF TypeOK, Ages, Heard
  <2> QED
    BY <1>2, <1>3, <2>1, <2>3, <2>7, <2>8, <2>9, <2>10, Figures DEF Heard
<1>6. CASE RelayHeartbeatSlot
  <2> SUFFICES ASSUME NEW f \in to_gateway' \ to_gateway, IsNews(f)
               PROVE  Heard(LongestNews - f.left)
    OBVIOUS
  <2>1. PICK d \in Delays :
           f = [frame_type |-> Heartbeat, presence |-> PresenceMask, left |-> d]
    BY <1>6 DEF RelayHeartbeatSlot, Sent
  <2>2. f.left \in Nat /\ f.left <= Slow /\ Sensor \in PresenceMask
    BY <2>1, DelayFacts DEF IsNews
  <2>3. sensor_seen # None /\ sensor_seen <= HeartbeatTimeout
    BY <2>2, Roles DEF PresenceMask, Recent
  <2>4. sensor_seen \in Nat
    BY <1>1, <2>3, NewsFacts DEF TypeOK, Ages
  <2> QED
    BY <1>3, <2>2, <2>3, <2>4, StartFacts, Figures DEF Heard
<1> QED
  BY <1>4, <1>5, <1>6

LEMMA NewsStep == ASSUME IInv, [Next]_vars PROVE NewsOnAir'
<1>1. TypeOK /\ NewsOnAir /\ to_gateway \subseteq Air
  BY DEF IInv, TypeOK
<1>2. CASE Advance
  <2> SUFFICES ASSUME NEW g \in to_gateway', IsNews(g)
               PROVE  sensor_seen' # None /\ sensor_seen' <= LongestNews - g.left
    BY DEF NewsOnAir, Heard, IsNews
  <2>1. PICK f \in to_gateway :
           /\ f.left \in Nat \ {0} /\ g.left = f.left - 1
           /\ g.frame_type = f.frame_type /\ g.presence = f.presence
    BY <1>1, <1>2, AirLater
  <2>2. Heard(LongestNews - f.left) /\ LongestNews - f.left \in Int
    BY <1>1, <2>1, NewsFacts DEF NewsOnAir, IsNews
  <2>3. sensor_seen' # None /\ sensor_seen' <= (LongestNews - f.left) + 1
    BY <1>1, <1>2, <2>2, HeardLater DEF Advance
  <2>4. (LongestNews - f.left) + 1 = LongestNews - g.left
    BY <2>1, NewsFacts
  <2> QED
    BY <2>3, <2>4
<1>3. CASE RelaySlot \/ RelayRetrySlot \/ RelayHeartbeatSlot
  <2>1. sensor_seen' = sensor_seen
    BY <1>3 DEF RelaySlot, RelayRetrySlot, RelayHeartbeatSlot, relayVars
  <2> QED
    BY <1>1, <1>3, <2>1, RelaySends DEF NewsOnAir, Heard, IsNews
<1>4. CASE RelayRx
  <2>1. sensor_seen' = 0 /\ to_gateway' = to_gateway /\ 0 # None
    BY <1>4, PresenceAssumption DEF RelayRx
  <2>2. \A f \in to_gateway : f.left \in 0 .. Top
    BY <1>1 DEF Air, Top
  <2> QED
    BY <2>1, <2>2, NewsFacts, Figures DEF NewsOnAir, Heard
<1>5. CASE SensorSlot \/ SensorRetrySlot \/ SensorHeartbeatSlot \/ GatewayPoll
              \/ GatewayRxData \/ GatewayRxAlarm \/ GatewayRxHeartbeat
              \/ UNCHANGED vars
  <2>1. to_gateway' \subseteq to_gateway /\ sensor_seen' = sensor_seen
    BY <1>5 DEF SensorSlot, SensorRetrySlot, SensorHeartbeatSlot, GatewayPoll,
                GatewayRxData, GatewayRxAlarm, GatewayRxHeartbeat, vars, frameVars,
                relayVars
  <2> QED
    BY <1>1, <2>1 DEF NewsOnAir, Heard, IsNews
<1> QED
  BY <1>2, <1>3, <1>4, <1>5 DEF Next

\* Who is reported ONLINE was seen in time.
LEMMA StatusFacts ==
    ASSUME NEW seen PROVE Status(seen)[Sensor] = Online => Recent(seen[Sensor])
  BY Roles DEF Status, Online, Unknown, Offline

LEMMA SinceFacts ==
    ASSUME IInv
    PROVE  /\ SincePoll \in Nat /\ SincePoll <= SlotMs + Last
           /\ SlotElapsed(clock) \in 0 .. SlotMs - 1
<1>1. TypeOK /\ ServedInWindow /\ clock \in 0 .. SuperframeMs - 1
  BY DEF IInv, TypeOK
<1>2. SlotElapsed(clock) \in 0 .. SlotMs - 1
  BY <1>1, Now
<1>3. Gateway \in served => SlotElapsed(clock) >= First
  BY <1>1 DEF ServedInWindow
<1>4. Gateway \notin served => SlotElapsed(clock) <= Last
  BY <1>1, <1>2, Roles, Figures DEF ServedInWindow
<1> QED
  BY <1>2, <1>3, <1>4, Figures DEF SincePoll

\* The gateway has news of the sensor, or polls: what it knows it may report.
LEMMA GatewayReports ==
    ASSUME IInv, last_reported' = Status(last_seen'), sensor_seen' = sensor_seen,
           SincePoll' \in Nat,
           Recent(last_seen'[Sensor]) => Heard(LongestNews + last_seen'[Sensor]),
           last_seen' \in [Tracked -> Ages(HeartbeatTimeout)]
    PROVE  GatewayNews'
<1>1. last_seen'[Sensor] \in Ages(HeartbeatTimeout)
  BY Roles
<1>2. ASSUME Recent(last_seen'[Sensor])
      PROVE  Heard(LongestNews + HeartbeatTimeout + SincePoll)'
  <2>1. last_seen'[Sensor] \in Nat /\ last_seen'[Sensor] <= HeartbeatTimeout
    BY <1>1, <1>2, StartFacts DEF Recent, Ages
  <2>2. sensor_seen # None /\ sensor_seen <= LongestNews + last_seen'[Sensor]
    BY <1>2 DEF Heard
  <2>3. sensor_seen \in Nat
    BY <2>2, NewsFacts DEF IInv, TypeOK, Ages
  <2>4. HeartbeatTimeout \in Nat /\ LongestNews \in Nat
    BY StartFacts, NewsFacts
  <2>5. sensor_seen <= LongestNews + HeartbeatTimeout + SincePoll'
    BY <2>1, <2>2, <2>3, <2>4 DEF SincePoll
  <2> QED
    BY <2>2, <2>5 DEF Heard
<1>3. last_reported'[Sensor] = Online => Recent(last_seen'[Sensor])
  BY StatusFacts
<1> QED
  BY <1>2, <1>3 DEF GatewayNews, Heard, Recent

LEMMA GatewayStep == ASSUME IInv, [Next]_vars PROVE GatewayNews'
<1>1. /\ TypeOK /\ TypeOK' /\ NewsOnAir /\ GatewayNews /\ ServedInWindow
      /\ clock \in 0 .. SuperframeMs - 1
  BY PresenceTypeStep DEF IInv, TypeOK
<1>2. last_seen' \in [Tracked -> Ages(HeartbeatTimeout)]
  BY <1>1 DEF TypeOK
<1>3. LongestNews \in Nat /\ HeartbeatTimeout \in Nat
  BY NewsFacts, StartFacts
<1>4. CASE Advance
  <2>1. /\ clock' = (clock + 1) % SuperframeMs
        /\ last_seen' = [n \in Tracked |-> Older(last_seen[n], HeartbeatTimeout)]
        /\ sensor_seen' = Older(sensor_seen, StaleLimit)
        /\ last_reported' = last_reported
        /\ served' = IF SlotElapsed(clock') = 0 THEN {} ELSE served
    BY <1>4 DEF Advance
  <2>2. \A b \in Int : Heard(b) => sensor_seen' # None /\ sensor_seen' <= b + 1
    BY <1>1, <2>1, HeardLater
  <2>3. Recent(last_seen'[Sensor])
          => sensor_seen' # None /\ sensor_seen' <= LongestNews + last_seen'[Sensor]
    <3> SUFFICES ASSUME Recent(last_seen'[Sensor])
                 PROVE  /\ sensor_seen' # None
                        /\ sensor_seen' <= LongestNews + last_seen'[Sensor]
      OBVIOUS
    <3>1. last_seen[Sensor] \in Ages(HeartbeatTimeout)
          /\ last_seen'[Sensor] = Older(last_seen[Sensor], HeartbeatTimeout)
      BY <1>1, <2>1, Roles DEF TypeOK
    <3>2. /\ last_seen[Sensor] \in Nat /\ Recent(last_seen[Sensor])
          /\ last_seen'[Sensor] = last_seen[Sensor] + 1
      BY <1>3, <3>1, PresenceAssumption DEF Ages, Older, Recent
    <3>3. Heard(LongestNews + last_seen[Sensor])
      BY <1>1, <3>2 DEF GatewayNews
    <3>4. sensor_seen' # None /\ sensor_seen' <= (LongestNews + last_seen[Sensor]) + 1
      BY <1>3, <2>2, <3>2, <3>3
    <3> QED
      BY <1>3, <3>2, <3>4
  <2>4. SincePoll' \in Nat /\ SincePoll' >= SincePoll + 1
    <3>1. /\ SincePoll \in Nat /\ SlotElapsed(clock) \in 0 .. SlotMs - 1
          /\ Gateway \in served => SlotElapsed(clock) >= First
      BY <1>1, SinceFacts DEF ServedInWindow
    <3>2. SlotElapsed(clock) >= Last => Gateway \in served
      BY <1>1, <1>4, WorkedInTime, Roles
    <3>3. \/ SlotElapsed(clock') = SlotElapsed(clock) + 1
          \/ SlotElapsed(clock) = SlotMs - 1 /\ SlotElapsed(clock') = 0
      BY <1>1, <2>1, Later
    <3> QED
      BY <2>1, <3>1, <3>2, <3>3, Figures DEF SincePoll
  <2>5. last_reported'[Sensor] = Online =>
           /\ sensor_seen' # None
           /\ sensor_seen' <= LongestNews + HeartbeatTimeout + SincePoll'
    <3> SUFFICES ASSUME last_reported[Sensor] = Online
                 PROVE  /\ sensor_seen' # None
                        /\ sensor_seen' <= LongestNews + HeartbeatTimeout + SincePoll'
      BY <2>1
    <3>1. Heard(LongestNews + HeartbeatTimeout + SincePoll) /\ SincePoll \in Nat
      BY <1>1, SinceFacts DEF GatewayNews
    <3>2. /\ sensor_seen' # None
          /\ sensor_seen' <= (LongestNews + HeartbeatTimeout + SincePoll) + 1
      BY <1>3, <2>2, <3>1
    <3>3. sensor_seen' \in Nat
      BY <1>1, <3>2, NewsFacts DEF TypeOK, Ages
    <3> DEFINE p == SincePoll
    <3>4. p \in Nat /\ sensor_seen' <= (LongestNews + HeartbeatTimeout + p) + 1
      BY <3>1, <3>2
    <3>5. SincePoll' \in Nat /\ SincePoll' >= p + 1
      BY <2>4
    <3> HIDE DEF p
    <3> QED
      BY <1>3, <3>2, <3>3, <3>4, <3>5 DEF SincePoll
  <2> QED
    BY <2>3, <2>5 DEF GatewayNews, Heard, Recent
<1>5. CASE RelayRx
  <2>1. /\ sensor_seen' = 0 /\ 0 # None /\ last_seen' = last_seen
        /\ last_reported' = last_reported
    BY <1>5, PresenceAssumption DEF RelayRx, gatewayVars
  <2>2. SincePoll' \in Nat
    <3>1. SincePoll' = SincePoll
      BY <1>5, WorkOf, SameTime DEF SincePoll
    <3> QED
      BY <3>1, SinceFacts
  <2>3. Recent(last_seen[Sensor]) => last_seen[Sensor] \in Nat
    BY <1>1, <1>3, Roles DEF TypeOK, Ages, Recent
  <2> QED
    BY <1>3, <2>1, <2>2, <2>3 DEF GatewayNews, Heard, Recent, SincePoll
<1>6. CASE \E nodes \in SUBSET Tracked :
              /\ RecordSeen(nodes) /\ clock' = clock /\ served' = served
              /\ sensor_seen' = sensor_seen
              /\ Sensor \in nodes => Heard(LongestNews)
  <2>1. PICK nodes \in SUBSET Tracked :
           /\ RecordSeen(nodes) /\ clock' = clock /\ served' = served
           /\ sensor_seen' = sensor_seen
           /\ Sensor \in nodes => Heard(LongestNews)
    BY <1>6
  <2>2. SincePoll' \in Nat
    <3>1. SincePoll' = SincePoll
      BY <2>1, SameTime DEF SincePoll
    <3> QED
      BY <3>1, SinceFacts
  <2>3. Recent(last_seen'[Sensor]) => Heard(LongestNews + last_seen'[Sensor])
    <3>1. last_seen'[Sensor] = IF Sensor \in nodes THEN 0 ELSE last_seen[Sensor]
      BY <2>1, Roles DEF RecordSeen
    <3>2. LongestNews + 0 = LongestNews
      BY <1>3
    <3> QED
      BY <1>1, <2>1, <3>1, <3>2 DEF GatewayNews
  <2> QED
    BY <1>2, <2>1, <2>2, <2>3, GatewayReports DEF RecordSeen
<1>7. CASE GatewayPoll
  <2>1. /\ last_seen' = last_seen /\ last_reported' = Status(last_seen')
        /\ sensor_seen' = sensor_seen
    BY <1>7 DEF GatewayPoll, relayVars
  <2>2. SincePoll' \in Nat
    <3>1. CASE Serve(Gateway)
      BY <3>1, InWindow, SameTime, Figures DEF SincePoll
    <3>2. CASE clock' = clock /\ served' = served
      <4>1. SincePoll' = SincePoll
        BY <3>2, SameTime DEF SincePoll
      <4> QED
        BY <4>1, SinceFacts
    <3> QED
      BY <1>7, <3>1, <3>2, WorkOf
  <2>3. Recent(last_seen'[Sensor]) => Heard(LongestNews + last_seen'[Sensor])
    BY <1>1, <2>1 DEF GatewayNews
  <2> QED
    BY <1>2, <2>1, <2>2, <2>3, GatewayReports
<1>8. CASE UNCHANGED <<gatewayVars, sensor_seen>> /\ ~ Advance /\ ~ GatewayPoll
  <2>1. SincePoll' = SincePoll
    <3>1. clock' = clock /\ (Gateway \in served' <=> Gateway \in served)
      BY <1>8, WorkOf, Roles DEF Next, Serve, vars
    <3> QED
      BY <3>1, SameTime DEF SincePoll
  <2> QED
    BY <1>1, <1>8, <2>1 DEF GatewayNews, Heard, Recent, gatewayVars
<1>9. SensorSlot \/ SensorRetrySlot \/ SensorHeartbeatSlot \/ RelaySlot
        \/ RelayRetrySlot \/ RelayHeartbeatSlot \/ UNCHANGED vars
        => UNCHANGED <<gatewayVars, sensor_seen>>
  BY DEF SensorSlot, SensorRetrySlot, SensorHeartbeatSlot, RelaySlot, RelayRetrySlot,
         RelayHeartbeatSlot, gatewayVars, relayVars, vars
<1>10. ASSUME NEW f \in to_gateway, f.left = 0, IsNews(f) PROVE Heard(LongestNews)
  BY <1>1, <1>3, <1>10 DEF NewsOnAir
<1>11. CASE GatewayRxData
  <2>1. \E f \in to_gateway : f.left = 0 /\ f.frame_type = Data
    BY <1>11 DEF GatewayRxData, Arrives
  <2>2. Heard(LongestNews)
    BY <1>10, <2>1, Roles DEF IsNews
  <2> QED
    BY <1>6, <1>11, <2>2 DEF GatewayRxData
<1>12. CASE GatewayRxAlarm
  <2>1. \E f \in to_gateway : f.left = 0 /\ f.frame_type = Alarm
    BY <1>12 DEF GatewayRxAlarm, Arrives
  <2>2. Heard(LongestNews)
    BY <1>10, <2>1, Roles DEF IsNews
  <2>3. CASE RecordSeen(Tracked)
    BY <1>6, <1>12, <2>2, <2>3 DEF GatewayRxAlarm
  <2>4. CASE UNCHANGED gatewayVars
    <3>1. SincePoll' = SincePoll /\ sensor_seen' = sensor_seen
      BY <1>12, WorkOf, SameTime DEF SincePoll, GatewayRxAlarm
    <3> QED
      BY <1>1, <2>4, <3>1 DEF GatewayNews, Heard, Recent, gatewayVars
  <2> QED
    BY <1>12, <2>3, <2>4 DEF GatewayRxAlarm
<1>13. CASE GatewayRxHeartbeat
  <2>1. PICK f \in to_gateway : f.left = 0 /\ RecordSeen(f.presence)
    BY <1>13 DEF GatewayRxHeartbeat, Arrives
  <2>2. f.presence \in SUBSET Tracked /\ (Sensor \in f.presence => Heard(LongestNews))
    BY <1>1, <1>10, <2>1 DEF IsNews, TypeOK, Air
  <2>3. clock' = clock /\ served' = served /\ sensor_seen' = sensor_seen
    BY <1>13 DEF GatewayRxHeartbeat, relayVars
  <2> QED
    BY <1>6, <2>1, <2>2, <2>3
<1>14. Advance \/ GatewayPoll \/ (~ Advance /\ ~ GatewayPoll)
  OBVIOUS
<1> QED
  BY <1>4, <1>5, <1>7, <1>8, <1>9, <1>11, <1>12, <1>13, <1>14 DEF Next

LEMMA NewsInit == Init => IInv
<1> SUFFICES ASSUME Init PROVE IInv
  OBVIOUS
<1>1. slot = 0 /\ SlotElapsed(clock) = 0
  <2>1. clock = 0 /\ 0 \in 0 .. SuperframeMs - 1
    BY StartFacts DEF Init
  <2> QED
    BY <2>1, Now, Figures
<1>2. ServedInWindow /\ SensorFrames /\ OneSample /\ WaitingAlarm /\ NewsOnAir
  BY <1>1, Figures
     DEF Init, ServedInWindow, SensorFrames, OneSample, DataOnAir, WaitingAlarm, NewsOnAir
<1>3. PendingAlarm
  BY DEF Init, NoPending, PendingAlarm
<1>4. GatewayNews
  BY Roles DEF Init, GatewayNews, Recent, Online, Offline
<1> QED
  BY <1>2, <1>3, <1>4, PresenceTypeInit DEF IInv

LEMMA IInvStep == IInv /\ [Next]_vars => IInv'
  BY PresenceTypeStep, ServedStep, SensorFramesStep, OneSampleStep, WaitingAlarmStep,
     PendingStep, NewsStep, GatewayStep DEF IInv

LEMMA NewsInvariant == Spec => []IInv
  BY NewsInit, IInvStep, PTL DEF Spec

\* The gateway never reports the sensor ONLINE when the relay has not heard it for
\* StaleLimit: record_relayed_sensor_frame and presence_mask, for every number of
\* attempts and every jitter.
THEOREM OnlineCorrect == Spec => []OnlineMeansHeard
<1>1. IInv => OnlineMeansHeard
  <2> SUFFICES ASSUME IInv, last_reported[Sensor] = Online
               PROVE  sensor_seen # None /\ sensor_seen <= StaleLimit
    BY DEF OnlineMeansHeard
  <2>1. Heard(LongestNews + HeartbeatTimeout + SincePoll)
    BY DEF IInv, GatewayNews
  <2>2. sensor_seen \in Nat
    BY <2>1, NewsFacts DEF IInv, TypeOK, Ages, Heard
  <2> QED
    BY <2>1, <2>2, SinceFacts, NewsFacts, StartFacts DEF Heard
<1> QED
  BY <1>1, NewsInvariant, PTL
-----------------------------------------------------------------------------
(***************************************************************************)
(* One loss is tolerated.  What tells that the sensor is there it sends in *)
(* slots 2 and 6, and the relay passes it on in slots 3 and 5, which tell  *)
(* of the relay too: of the two chances in a superframe one loss takes one *)
(* at most.                                                                *)
(***************************************************************************)
\* What a node does in the slot that begins then it has still to do.
Due(n, start) == clock < start \/ (clock < start + SlotMs /\ n \notin served)

\* What is sent in that slot is on its way, or has still to be sent.
OnAir(link, start) == \E f \in link : SentIn(f, start)

AwaitSample  == Due(Sensor, 2 * SlotMs) \/ OnAir(to_relay, 2 * SlotMs)
AwaitSign    == Due(Sensor, 6 * SlotMs) \/ OnAir(to_relay, 6 * SlotMs)
AwaitForward == Due(Relay, 3 * SlotMs) \/ OnAir(to_gateway, 3 * SlotMs)
AwaitBeat    == Due(Relay, 5 * SlotMs) \/ OnAir(to_gateway, 5 * SlotMs)

\* Which frames are on their way, and when.
Sends(f, start) ==
    /\ SentIn(f, start)
    /\ start + First + Quick <= clock + f.left /\ clock + f.left <= start + Last + Top

ToRelayAir ==
    \A f \in to_relay :
        \/ /\ Sends(f, 2 * SlotMs) /\ ~ Due(Sensor, 2 * SlotMs)
           /\ f.frame_type \in {Data, Alarm}
        \/ Sends(f, 4 * SlotMs)
        \/ Sends(f, 6 * SlotMs) /\ ~ Due(Sensor, 6 * SlotMs)

\* An ALARM in slot 3 is a new one.
GatewayFrame(f) ==
    \/ /\ Sends(f, 3 * SlotMs) /\ ~ Due(Relay, 3 * SlotMs)
       /\ f.frame_type = Data \/ (f.frame_type = Alarm /\ ~ pending_ack.applied)
    \/ /\ Sends(f, 4 * SlotMs) /\ ~ Due(Relay, 4 * SlotMs)
       /\ f.frame_type = Alarm
    \/ /\ Sends(f, 5 * SlotMs) /\ ~ Due(Relay, 5 * SlotMs)
       /\ f.frame_type = Heartbeat /\ Relay \in f.presence

ToGatewayAir ==
    /\ \A f \in to_gateway : GatewayFrame(f)
    /\ \A f, g \in to_gateway : f.frame_type = g.frame_type => f = g

\* The gateway knows of the sensor through the relay, and the relay first.
Known ==
    /\ last_seen[Sensor] # None => last_seen[Relay] # None /\ sensor_seen # None
    /\ \A n \in Tracked : last_reported[n] = Online => last_seen[n] # None

(***************************************************************************)
(* An age a at the moment c, l after the last loss, of what is told in the *)
(* slots that begin at x and y; w1 and w2: whether one awaits the first or *)
(* the second of this superframe.  The last one was heard, or it was the   *)
(* one that got lost and the one before was heard.                         *)
(***************************************************************************)
BeforeBoth(a, c, l, x, y) ==
    \/ a <= c + 8 * SlotMs - y - First - Quick
    \/ /\ a <= c + 8 * SlotMs - x - First - Quick
       /\ l <= c + 8 * SlotMs - y - First
       /\ l > c - 2 * SlotMs - First

Between(a, c, l, x, y) ==
    \/ a <= c - x - First - Quick
    \/ /\ a <= c + 8 * SlotMs - y - First - Quick
       /\ l <= c - 2 * SlotMs - First

AfterBoth(a, c, l, x, y) ==
    \/ a <= c - y - First - Quick
    \/ /\ a <= c - x - First - Quick
       /\ l <= c - y - First

Timely(a, c, l, x, y, w1, w2) ==
    IF w1 THEN BeforeBoth(a, c, l, x, y)
    ELSE IF w2 THEN Between(a, c, l, x, y) ELSE AfterBoth(a, c, l, x, y)

SensorTimely ==
    sensor_seen # None =>
        Timely(sensor_seen, clock, losses.since, 2 * SlotMs, 6 * SlotMs,
               AwaitSample, AwaitSign)

NodesTimely ==
    \A n \in Tracked :
        last_seen[n] # None =>
            Timely(last_seen[n], clock, losses.since, 3 * SlotMs, 5 * SlotMs,
                   AwaitForward, AwaitBeat)

\* The relay has something to forward in slot 3, unless that was lost.
ToForward ==
    Due(Relay, 3 * SlotMs) /\ ~ AwaitSample =>
        relay_forward > 0 \/ alarm_waiting
            \/ losses.since <= clock - 2 * SlotMs - First

\* A heartbeat without the sensor says nothing the gateway believed.
HeartbeatsTell ==
    \A f \in to_gateway :
        f.frame_type = Heartbeat => Sensor \in f.presence \/ last_seen[Sensor] = None

AirInv  == IInv /\ ToRelayAir /\ ToGatewayAir /\ Known
LossInv == LossesRare => SensorTimely /\ NodesTimely /\ ToForward /\ HeartbeatsTell

Slots == {2 * SlotMs, 3 * SlotMs, 4 * SlotMs, 5 * SlotMs, 6 * SlotMs}

\* An age a and the time l since the last loss, a tick later; the time since a
\* loss is not counted any further than the next one takes.
Tick(a, b, l, m) ==
    /\ b \in Nat /\ b <= a + 1
    /\ m \in Nat /\ m <= l + 1 /\ (m = l + 1 \/ m >= 7 * SlotMs)

\* A tick within the superframe.
LEMMA TimelyTick ==
    ASSUME NEW a \in Nat, NEW b, NEW c \in 0 .. 8 * SlotMs - 1,
           NEW l \in Nat, NEW m, Tick(a, b, l, m),
           NEW x \in {2 * SlotMs, 3 * SlotMs}, NEW y \in {5 * SlotMs, 6 * SlotMs}
    PROVE  /\ BeforeBoth(a, c, l, x, y) /\ c < x + SlotMs + First
                => BeforeBoth(b, c + 1, m, x, y)
           /\ Between(a, c, l, x, y) /\ c < y + SlotMs + First
                => Between(b, c + 1, m, x, y)
           /\ AfterBoth(a, c, l, x, y) => AfterBoth(b, c + 1, m, x, y)
<1>1. BeforeBoth(a, c, l, x, y) /\ c < x + SlotMs + First
         => BeforeBoth(b, c + 1, m, x, y)
  BY Figures DEF BeforeBoth, Tick
<1>2. Between(a, c, l, x, y) /\ c < y + SlotMs + First => Between(b, c + 1, m, x, y)
  BY Figures DEF Between, Tick
<1>3. AfterBoth(a, c, l, x, y) => AfterBoth(b, c + 1, m, x, y)
  BY Figures DEF AfterBoth, Tick
<1> QED
  BY <1>1, <1>2, <1>3

\* The tick at its end.
LEMMA TimelyWrap ==
    ASSUME NEW a \in Nat, NEW b, NEW l \in Nat, NEW m, Tick(a, b, l, m),
           NEW x \in {2 * SlotMs, 3 * SlotMs}, NEW y \in {5 * SlotMs, 6 * SlotMs},
           AfterBoth(a, 8 * SlotMs - 1, l, x, y)
    PROVE  BeforeBoth(b, 0, m, x, y)
  BY Figures DEF AfterBoth, BeforeBoth, Tick

\* A frame is lost that tells nothing.
LEMMA TimelyLoss ==
    ASSUME NEW a \in Nat, NEW c \in 0 .. 8 * SlotMs - 1,
           NEW l \in Nat, l >= 7 * SlotMs,
           NEW x \in {2 * SlotMs, 3 * SlotMs}, NEW y \in {5 * SlotMs, 6 * SlotMs},
           y - x >= 2 * SlotMs,
           NEW w1 \in BOOLEAN, NEW w2 \in BOOLEAN, Timely(a, c, l, x, y, w1, w2),
           w1 => c < x + SlotMs + First, w2 => c < y + SlotMs + First
    PROVE  Timely(a, c, 0, x, y, w1, w2)
  BY Figures DEF Timely, BeforeBoth, Between, AfterBoth

\* The first chance of the superframe is lost, or there was nothing to send.
LEMMA TimelyFirst ==
    ASSUME NEW a \in Nat, NEW c \in 0 .. 8 * SlotMs - 1, NEW l \in Nat,
           NEW x \in {2 * SlotMs, 3 * SlotMs}, NEW y \in {5 * SlotMs, 6 * SlotMs},
           y - x >= 2 * SlotMs, BeforeBoth(a, c, l, x, y),
           x + First <= c, c < x + SlotMs
    PROVE  /\ l >= 7 * SlotMs => Between(a, c, 0, x, y)
           /\ l <= c - 2 * SlotMs - First => Between(a, c, l, x, y)
  BY Figures DEF BeforeBoth, Between

\* The second chance is lost.
LEMMA TimelySecond ==
    ASSUME NEW a \in Nat, NEW c \in 0 .. 8 * SlotMs - 1,
           NEW l \in Nat, l >= 7 * SlotMs,
           NEW x \in {2 * SlotMs, 3 * SlotMs}, NEW y \in {5 * SlotMs, 6 * SlotMs},
           Between(a, c, l, x, y), y + First <= c, c < y + SlotMs
    PROVE  AfterBoth(a, c, 0, x, y)
  BY Figures DEF Between, AfterBoth

\* What was heard just now.
LEMMA TimelyNow ==
    ASSUME NEW c \in 0 .. 8 * SlotMs - 1, NEW l \in Nat,
           NEW x \in {2 * SlotMs, 3 * SlotMs}, NEW y \in {5 * SlotMs, 6 * SlotMs},
           NEW w1 \in BOOLEAN, NEW w2 \in BOOLEAN,
           x + First + Quick <= c, w2 \/ y + First + Quick <= c
    PROVE  Timely(0, c, l, x, y, w1, w2)
  BY Figures DEF Timely, BeforeBoth, Between, AfterBoth

\* In which slot one is.
LEMMA SlotBounds ==
    ASSUME clock \in 0 .. SuperframeMs - 1
    PROVE  /\ slot = 2 <=> 2 * SlotMs <= clock /\ clock < 3 * SlotMs
           /\ slot = 3 <=> 3 * SlotMs <= clock /\ clock < 4 * SlotMs
           /\ slot = 4 <=> 4 * SlotMs <= clock /\ clock < 5 * SlotMs
           /\ slot = 5 <=> 5 * SlotMs <= clock /\ clock < 6 * SlotMs
           /\ slot = 6 <=> 6 * SlotMs <= clock /\ clock < 7 * SlotMs
           /\ \A start \in Slots :
                 start <= clock /\ clock < start + SlotMs
                    => SlotElapsed(clock) = clock - start
  BY Now, Figures DEF Slots

LEMMA SensorWorks ==
    /\ slot = 2 => Works(Sensor)
    /\ slot = 6 => Works(Sensor)
  BY DEF Works, Sensor, Relay, Gateway, SensorSlotNo, SensorHeartbeatSlotNo

\* A tick does not change what is still to do.
LEMMA DueTick ==
    ASSUME IInv, Advance, NEW n \in Node, NEW start \in Slots,
           start <= clock /\ clock < start + SlotMs => Works(n)
    PROVE  /\ clock + 1 < 8 * SlotMs => (Due(n, start)' <=> Due(n, start))
           /\ clock + 1 = 8 * SlotMs => ~ Due(n, start) /\ Due(n, start)'
<1>1. /\ clock \in 0 .. SuperframeMs - 1 /\ clock' = (clock + 1) % SuperframeMs
      /\ served' = IF SlotElapsed(clock') = 0 THEN {} ELSE served
      /\ SuperframeMs = 8 * SlotMs
  BY StartFacts DEF IInv, TypeOK, Advance
<1>2. start \in Nat /\ start + SlotMs < 8 * SlotMs /\ start > 0
  BY Figures DEF Slots
<1>3. SlotElapsed(clock) >= Last => (Works(n) => n \in served)
  BY WorkedInTime DEF IInv
<1>4. start <= clock /\ clock < start + SlotMs => SlotElapsed(clock) = clock - start
  BY <1>1, SlotBounds
<1>5. CASE clock + 1 < 8 * SlotMs
  <2>1. clock' = clock + 1 /\ clock' \in 0 .. SuperframeMs - 1
    BY <1>1, <1>5, Later, Figures
  <2>2. start <= clock' /\ clock' < start + SlotMs => SlotElapsed(clock') = clock' - start
    <3>1. SlotElapsed(clock') \in 0 .. SlotMs - 1
      BY <2>1, SlotTimes
    <3>2. \/ clock' = SlotElapsed(clock') \/ clock' = SlotMs + SlotElapsed(clock')
          \/ clock' = 2 * SlotMs + SlotElapsed(clock')
          \/ clock' = 3 * SlotMs + SlotElapsed(clock')
          \/ clock' = 4 * SlotMs + SlotElapsed(clock')
          \/ clock' = 5 * SlotMs + SlotElapsed(clock')
          \/ clock' = 6 * SlotMs + SlotElapsed(clock')
          \/ clock' = 7 * SlotMs + SlotElapsed(clock')
      BY <2>1, SlotTimes
    <3> QED
      BY <3>1, <3>2, Figures DEF Slots
  <2>3. CASE clock' < start
    BY <1>1, <1>2, <2>1, <2>3, Figures DEF Due
  <2>4. CASE clock' = start
    BY <1>1, <1>2, <2>1, <2>2, <2>4, Figures DEF Due
  <2>5. CASE start < clock' /\ clock' < start + SlotMs
    BY <1>1, <1>2, <2>1, <2>2, <2>5, Figures DEF Due
  <2>6. CASE clock' >= start + SlotMs
    <3>1. ~ Due(n, start)'
      BY <1>2, <2>1, <2>6, Figures DEF Due
    <3>2. clock < start + SlotMs => SlotElapsed(clock) >= Last /\ start <= clock
      BY <1>1, <1>2, <1>4, <2>1, <2>6, Figures
    <3>3. clock < start + SlotMs => n \in served
      BY <1>3, <3>2
    <3>4. ~ (clock < start)
      BY <1>1, <1>2, <2>1, <2>6, Figures
    <3>5. ~ Due(n, start)
      BY <3>3, <3>4 DEF Due
    <3> QED
      BY <1>1, <1>5, <3>1, <3>5, Figures
  <2>7. \/ clock' < start \/ clock' = start
        \/ (start < clock' /\ clock' < start + SlotMs) \/ clock' >= start + SlotMs
    BY <1>2, <2>1, Figures
  <2> QED
    BY <2>3, <2>4, <2>5, <2>6, <2>7
<1>6. CASE clock + 1 = 8 * SlotMs
  <2>1. clock' = 0
    BY <1>1, <1>6, Later, Figures
  <2> QED
    BY <1>1, <1>2, <1>6, <2>1, Figures DEF Due
<1> QED
  BY <1>5, <1>6

LEMMA TickTime ==
    ASSUME TypeOK, Advance
    PROVE  /\ clock \in 0 .. 8 * SlotMs - 1
           /\ \/ clock + 1 < 8 * SlotMs /\ clock' = clock + 1
              \/ clock + 1 = 8 * SlotMs /\ clock' = 0
<1>1. /\ clock \in 0 .. SuperframeMs - 1 /\ clock' = (clock + 1) % SuperframeMs
      /\ SuperframeMs = 8 * SlotMs
  BY StartFacts DEF TypeOK, Advance
<1> QED
  BY <1>1, Later, Now, Figures

\* What is sent in some slot stays what is sent in that slot.
LEMMA SentTick ==
    ASSUME clock \in Nat, clock' = clock + 1, NEW s \in Slots, NEW start \in Slots,
           NEW f, NEW g, f.left \in Nat \ {0}, g.left = f.left - 1, SentIn(f, s)
    PROVE  /\ SentIn(g, start)' <=> SentIn(f, start)
           /\ SentIn(g, s)' /\ (Sends(f, s) => Sends(g, s)')
<1>1. PICK n \in Nat \ {0} : f.left = n /\ g.left = n - 1
  OBVIOUS
<1>2. start \in Nat /\ s \in Nat /\ s + First <= clock /\ clock + n < s + SlotMs + First
  BY <1>1, Figures DEF SentIn, Slots
<1>3. /\ SentIn(f, start) <=> start + First <= clock /\ clock + n < start + SlotMs + First
      /\ SentIn(g, start)' <=> start + First <= clock + 1
                               /\ clock + 1 + (n - 1) < start + SlotMs + First
  BY <1>1 DEF SentIn
<1>4. clock + 1 = start + First => clock + n >= start + SlotMs + First
  BY <1>1, <1>2, Figures DEF Slots
<1>5. SentIn(g, start)' <=> SentIn(f, start)
  BY <1>1, <1>2, <1>3, <1>4, Figures
<1>6. SentIn(g, s)'
  BY <1>1, <1>2, Figures DEF SentIn
<1>7. Sends(f, s) => Sends(g, s)'
  <2>1. Sends(f, s) => s + First + Quick <= clock + n /\ clock + n <= s + Last + Top
    BY <1>1 DEF Sends
  <2>2. clock' + g.left = clock + n
    BY <1>1
  <2> QED
    BY <1>6, <2>1, <2>2 DEF Sends
<1> QED
  BY <1>5, <1>6, <1>7

\* The slots two actions cannot share.
LEMMA SlotSum ==
    /\ \A s \in Slots : s \in Nat /\ 2 * SlotMs <= s /\ s <= 6 * SlotMs
    /\ \A s, t \in Slots : s < t => s + SlotMs <= t
    /\ SuperframeMs = 8 * SlotMs
    /\ 2 * SlotMs \in Slots /\ 3 * SlotMs \in Slots /\ 4 * SlotMs \in Slots
    /\ 5 * SlotMs \in Slots /\ 6 * SlotMs \in Slots
  BY Figures, StartFacts DEF Slots

\* What is on its way has a slot it was sent in.
LEMMA AirSlots ==
    ASSUME ToRelayAir, ToGatewayAir
    PROVE  \A f \in to_relay \cup to_gateway : \E s \in Slots : Sends(f, s)
  BY SlotSum DEF ToRelayAir, ToGatewayAir, GatewayFrame

\* A tick brings nothing on its way, and takes nothing from it.
LEMMA OnAirTick ==
    ASSUME AirInv, Advance, NEW start \in Slots
    PROVE  /\ clock + 1 < 8 * SlotMs =>
                 /\ OnAir(to_relay, start)' <=> OnAir(to_relay, start)
                 /\ OnAir(to_gateway, start)' <=> OnAir(to_gateway, start)
           /\ clock + 1 = 8 * SlotMs =>
                 ~ OnAir(to_relay, start) /\ ~ OnAir(to_gateway, start)
<1>1. TypeOK /\ clock \in Nat
  BY TickTime DEF AirInv, IInv
<1> DEFINE Nearer(f) == [f EXCEPT !.left = @ - 1]
<1>2. ASSUME NEW f \in to_relay \cup to_gateway
      PROVE  /\ f.left \in Nat \ {0} /\ Nearer(f).left = f.left - 1
             /\ \E s \in Slots : SentIn(f, s)
  <2>1. f \in Air /\ f.left > 0
    BY <1>1 DEF TypeOK, Advance
  <2>2. \E s \in Slots : SentIn(f, s)
    BY AirSlots DEF AirInv, Sends
  <2> QED
    BY <2>1, <2>2 DEF Air
<1>3. /\ to_relay' = {Nearer(f) : f \in to_relay}
      /\ to_gateway' = {Nearer(f) : f \in to_gateway}
  BY DEF Advance
<1> HIDE DEF Nearer
<1>4. CASE clock + 1 < 8 * SlotMs
  <2>1. clock' = clock + 1
    BY <1>1, <1>4, TickTime, Figures
  <2>2. \A f \in to_relay \cup to_gateway :
           SentIn(Nearer(f), start)' <=> SentIn(f, start)
    BY <1>1, <1>2, <2>1, SentTick
  <2>3. OnAir(to_relay, start)' <=> OnAir(to_relay, start)
    BY <1>3, <2>2 DEF OnAir
  <2>4. OnAir(to_gateway, start)' <=> OnAir(to_gateway, start)
    BY <1>3, <2>2 DEF OnAir
  <2> QED
    BY <1>1, <1>4, <2>3, <2>4, Figures
<1>5. CASE clock + 1 = 8 * SlotMs
  <2>1. ASSUME NEW f \in to_relay \cup to_gateway PROVE ~ SentIn(f, start)
    BY <1>1, <1>2, <1>5, Figures, SlotSum DEF SentIn
  <2> QED
    BY <1>1, <1>5, <2>1, Figures DEF OnAir
<1>6. clock + 1 < 8 * SlotMs \/ clock + 1 = 8 * SlotMs
  BY <1>1, TickTime
<1> QED
  BY <1>4, <1>5, <1>6

\* Within an action that takes no time, nothing falls due.
LEMMA DueSame ==
    ASSUME clock' = clock, served \subseteq served', NEW n, NEW start
    PROVE  Due(n, start)' => Due(n, start)
  BY DEF Due

LEMMA DueTicks ==
    ASSUME IInv, Advance
    PROVE  /\ clock + 1 < 8 * SlotMs =>
                 /\ Due(Sensor, 2 * SlotMs)' <=> Due(Sensor, 2 * SlotMs)
                 /\ Due(Sensor, 6 * SlotMs)' <=> Due(Sensor, 6 * SlotMs)
                 /\ Due(Relay, 3 * SlotMs)' <=> Due(Relay, 3 * SlotMs)
                 /\ Due(Relay, 4 * SlotMs)' <=> Due(Relay, 4 * SlotMs)
                 /\ Due(Relay, 5 * SlotMs)' <=> Due(Relay, 5 * SlotMs)
           /\ clock + 1 = 8 * SlotMs =>
                 /\ ~ Due(Sensor, 2 * SlotMs) /\ Due(Sensor, 2 * SlotMs)'
                 /\ ~ Due(Sensor, 6 * SlotMs) /\ Due(Sensor, 6 * SlotMs)'
                 /\ ~ Due(Relay, 3 * SlotMs) /\ Due(Relay, 3 * SlotMs)'
                 /\ ~ Due(Relay, 5 * SlotMs) /\ Due(Relay, 5 * SlotMs)'
<1>1. clock \in 0 .. SuperframeMs - 1
  BY DEF IInv, TypeOK
<1>2. ASSUME NEW k \in Slots, k <= clock, clock < k + SlotMs
      PROVE  /\ k \in {2 * SlotMs, 6 * SlotMs} => Works(Sensor)
             /\ k \in {3 * SlotMs, 4 * SlotMs, 5 * SlotMs} => Works(Relay)
  BY <1>1, <1>2, SlotBounds, SensorWorks, Roles, Figures
<1>3. Sensor \in Node /\ Relay \in Node
  BY Roles
<1>4. ASSUME NEW n \in Node, NEW k \in Slots,
             \/ n = Sensor /\ k \in {2 * SlotMs, 6 * SlotMs}
             \/ n = Relay /\ k \in {3 * SlotMs, 4 * SlotMs, 5 * SlotMs}
      PROVE  /\ clock + 1 < 8 * SlotMs => (Due(n, k)' <=> Due(n, k))
             /\ clock + 1 = 8 * SlotMs => ~ Due(n, k) /\ Due(n, k)'
  BY <1>2, <1>4, DueTick
<1> QED
  BY <1>3, <1>4, SlotSum

LEMMA DelayBounds ==
    \A d \in Delays \cup DataDelays : d \in Nat /\ Quick <= d /\ d <= Top
<1>1. \A d \in Delays : d \in Nat /\ Quick <= d /\ d <= Top
  BY DelayFacts
<1>2. PICK q \in Delays : TRUE
  BY PresenceAssumption
<1>3. ASSUME NEW e \in DataDelays PROVE e \in Nat /\ Quick <= e /\ e <= Top
  <2>1. q < e /\ e \in Nat /\ e <= Top /\ q \in Nat /\ Quick <= q
    BY <1>1, <1>2, DelayFacts, PresenceAssumption
  <2> QED
    BY <2>1, Figures
<1> QED
  BY <1>1, <1>3

\* What is sent in a slot, in the window of its beginning.
LEMMA SendsNow ==
    ASSUME TypeOK, NEW n, Serve(n), NEW start \in Slots,
           start <= clock, clock < start + SlotMs,
           NEW d \in Delays \cup DataDelays, NEW f, f.left = d
    PROVE  Sends(f, start) /\ start + First <= clock /\ clock <= start + Last
<1>1. clock \in 0 .. SuperframeMs - 1
  BY DEF TypeOK
<1>2. SlotElapsed(clock) = clock - start
  BY <1>1, SlotBounds
<1>3. First <= clock - start /\ clock - start <= Last
  BY <1>2, InWindow
<1>4. clock \in Nat /\ start \in Nat
  BY <1>1, SlotSum
<1>5. d \in Nat /\ Quick <= d /\ d <= Top
  BY DelayBounds
<1>6. start + First <= clock /\ clock + d < start + SlotMs + First
      /\ start + First + Quick <= clock + d /\ clock + d <= start + Last + Top
  BY <1>3, <1>4, <1>5, Figures
<1> QED
  BY <1>3, <1>4, <1>6, Figures DEF Sends, SentIn

\* An action of a slot is at its time, and not due after it.
LEMMA ServesIn ==
    ASSUME TypeOK, NEW n, Serve(n), NEW start \in Slots,
           start <= clock, clock < start + SlotMs
    PROVE  /\ start + First <= clock /\ clock <= start + Last
           /\ Due(n, start) /\ ~ Due(n, start)' /\ clock' = clock
           /\ clock \in 0 .. 8 * SlotMs - 1
<1>1. clock \in 0 .. SuperframeMs - 1
  BY DEF TypeOK
<1>2. SlotElapsed(clock) = clock - start
  BY <1>1, SlotBounds
<1>3. First <= clock - start /\ clock - start <= Last
  BY <1>2, InWindow
<1>4. clock' = clock /\ n \notin served /\ n \in served'
  BY InWindow
<1>5. clock \in Nat /\ start \in Nat
  BY <1>1, SlotSum
<1> QED
  BY <1>1, <1>3, <1>4, <1>5, SlotSum, Figures DEF Due

\* What was sent in an earlier slot has been handled.
LEMMA EarlierHandled ==
    ASSUME TypeOK, NEW start \in Slots, start + First <= clock,
           NEW s \in Slots, s < start,
           NEW f \in to_relay \cup to_gateway
    PROVE  ~ SentIn(f, s)
<1>1. f.left \in Nat /\ clock \in Nat
  BY DEF TypeOK, Air
<1> QED
  BY <1>1, SlotSum, Figures DEF SentIn

\* The slot of a node's action.
LEMMA SlotOfWork ==
    ASSUME TypeOK
    PROVE  /\ SensorSlot => 2 * SlotMs <= clock /\ clock < 2 * SlotMs + SlotMs
           /\ RelaySlot => 3 * SlotMs <= clock /\ clock < 3 * SlotMs + SlotMs
           /\ SensorRetrySlot \/ RelayRetrySlot =>
                 4 * SlotMs <= clock /\ clock < 4 * SlotMs + SlotMs
           /\ RelayHeartbeatSlot => 5 * SlotMs <= clock /\ clock < 5 * SlotMs + SlotMs
           /\ SensorHeartbeatSlot => 6 * SlotMs <= clock /\ clock < 6 * SlotMs + SlotMs
  BY WorkOf, SlotBounds, Figures DEF TypeOK

\* An action that takes no time loses one frame or none.
LEMMA OneLoss ==
    ASSUME TypeOK, Next, ~ Advance
    PROVE  /\ clock' = clock /\ served \subseteq served'
           /\ losses'.gap = losses.gap
           /\ \/ losses'.since = losses.since
              \/ losses.since = losses.gap /\ losses'.since = 0
<1>1. clock' = clock /\ served \subseteq served'
  BY WorkOf DEF Next, Serve
<1>2. UNCHANGED losses \/ Lost
  BY DEF Next, Kept, SensorSlot, SensorRetrySlot, SensorHeartbeatSlot, RelaySlot,
         RelayRetrySlot, RelayHeartbeatSlot, RelayRx, GatewayRxData, GatewayRxAlarm,
         GatewayRxHeartbeat, GatewayPoll, frameVars
<1>3. losses \in [gap : LossGaps, since : Nat]
  BY DEF TypeOK
<1> QED
  BY <1>1, <1>2, <1>3 DEF Lost

LEMMA ToRelayStep == ASSUME AirInv, [Next]_vars PROVE ToRelayAir'
<1>1. TypeOK /\ IInv /\ clock \in 0 .. 8 * SlotMs - 1
  BY SlotSum DEF AirInv, IInv, TypeOK
<1>2. CASE Advance
  <2> SUFFICES ASSUME NEW g \in to_relay'
               PROVE  \/ /\ Sends(g, 2 * SlotMs)' /\ ~ Due(Sensor, 2 * SlotMs)'
                         /\ g.frame_type \in {Data, Alarm}
                      \/ Sends(g, 4 * SlotMs)'
                      \/ Sends(g, 6 * SlotMs)' /\ ~ Due(Sensor, 6 * SlotMs)'
    BY DEF ToRelayAir
  <2>1. PICK f \in to_relay : /\ f.left \in Nat \ {0} /\ g.left = f.left - 1
                              /\ g.frame_type = f.frame_type
    BY <1>1, <1>2, AirLater
  <2>2. PICK s \in Slots : /\ Sends(f, s)
                           /\ \/ /\ s = 2 * SlotMs /\ ~ Due(Sensor, 2 * SlotMs)
                                 /\ f.frame_type \in {Data, Alarm}
                              \/ s = 4 * SlotMs
                              \/ s = 6 * SlotMs /\ ~ Due(Sensor, 6 * SlotMs)
    BY SlotSum DEF AirInv, ToRelayAir
  <2>3. clock + 1 < 8 * SlotMs
    BY <1>1, <2>1, <2>2, SlotSum, Figures DEF Sends, SentIn
  <2>4. clock' = clock + 1
    BY <1>1, <1>2, <2>3, TickTime, Figures
  <2>5. Sends(g, s)'
    BY <1>1, <2>1, <2>2, <2>4, SentTick DEF Sends
  <2> QED
    BY <1>1, <1>2, <2>1, <2>2, <2>3, <2>5, DueTicks
<1>3. CASE ~ Advance /\ to_relay' \subseteq to_relay /\ (Next \/ UNCHANGED vars)
  <2>1. clock' = clock /\ served \subseteq served'
    BY <1>1, <1>3, OneLoss DEF vars
  <2>2. \A n, start : Due(n, start)' => Due(n, start)
    BY <2>1, DueSame
  <2> QED
    BY <1>3, <2>1, <2>2 DEF AirInv, ToRelayAir, Sends, SentIn
<1>4. CASE SensorSlot \/ SensorRetrySlot \/ SensorHeartbeatSlot
  <2>1. Serve(Sensor)
    BY <1>4, WorkOf
  <2>2. clock' = clock /\ served \subseteq served'
    BY <2>1 DEF Serve
  <2>3. \A n, start : Due(n, start)' => Due(n, start)
    BY <2>2, DueSame
  <2>4. ASSUME NEW f \in to_relay' \ to_relay
        PROVE  \/ /\ Sends(f, 2 * SlotMs) /\ ~ Due(Sensor, 2 * SlotMs)'
                  /\ f.frame_type \in {Data, Alarm}
               \/ Sends(f, 4 * SlotMs)
               \/ Sends(f, 6 * SlotMs) /\ ~ Due(Sensor, 6 * SlotMs)'
    <3>1. CASE SensorSlot
      <4>1. \E d \in Delays \cup DataDelays : f.left = d /\ f.frame_type \in {Data, Alarm}
        BY <2>4, <3>1 DEF SensorSlot, Sent
      <4> QED
        BY <1>1, <2>1, <3>1, <4>1, SlotOfWork, SendsNow, ServesIn, SlotSum
    <3>2. CASE SensorRetrySlot
      <4>1. \E d \in Delays \cup DataDelays : f.left = d
        <5>1. \/ to_relay' = to_relay
              \/ \E fs \in Sent(Alarm, Delays, {}) : to_relay' = to_relay \cup fs
          BY <3>2 DEF SensorRetrySlot
        <5> QED
          BY <2>4, <5>1 DEF Sent
      <4>2. 4 * SlotMs <= clock /\ clock < 4 * SlotMs + SlotMs
        BY <1>1, <3>2, SlotOfWork
      <4>3. Sends(f, 4 * SlotMs)
        BY <1>1, <2>1, <4>1, <4>2, SendsNow, SlotSum
      <4> QED
        BY <4>3
    <3>3. CASE SensorHeartbeatSlot
      <4>1. \E d \in Delays \cup DataDelays : f.left = d
        BY <2>4, <3>3 DEF SensorHeartbeatSlot, Sent
      <4> QED
        BY <1>1, <2>1, <3>3, <4>1, SlotOfWork, SendsNow, ServesIn, SlotSum
    <3> QED
      BY <1>4, <3>1, <3>2, <3>3
  <2> QED
    BY <2>2, <2>3, <2>4 DEF AirInv, ToRelayAir, Sends, SentIn
<1>5. \/ Advance \/ SensorSlot \/ SensorRetrySlot \/ SensorHeartbeatSlot
      \/ ~ Advance /\ to_relay' \subseteq to_relay /\ (Next \/ UNCHANGED vars)
  BY DEF Next, vars, RelaySlot, RelayRetrySlot, RelayHeartbeatSlot, RelayRx,
         GatewayRxData, GatewayRxAlarm, GatewayRxHeartbeat, GatewayPoll, frameVars
<1> QED
  BY <1>2, <1>3, <1>4, <1>5

\* When the relay works nothing it sent is on its way.
LEMMA GatewayAirClear ==
    ASSUME TypeOK, ToGatewayAir, Serve(Relay),
           NEW start \in {3 * SlotMs, 4 * SlotMs, 5 * SlotMs},
           start <= clock, clock < start + SlotMs
    PROVE  to_gateway = {}
<1>1. start \in Slots /\ start + First <= clock /\ Due(Relay, start)
  BY ServesIn, SlotSum
<1>2. clock \in 0 .. 8 * SlotMs - 1
  BY <1>1, ServesIn
<1> SUFFICES ASSUME NEW f \in to_gateway PROVE FALSE
  OBVIOUS
<1>3. PICK s \in {3 * SlotMs, 4 * SlotMs, 5 * SlotMs} : SentIn(f, s) /\ ~ Due(Relay, s)
  BY DEF ToGatewayAir, GatewayFrame, Sends
<1>4. s \in Slots /\ s # start
  BY <1>1, <1>3, SlotSum
<1>5. s < start => FALSE
  BY <1>1, <1>3, <1>4, EarlierHandled
<1>6. s > start => FALSE
  BY <1>1, <1>2, <1>3, <1>4, SlotSum, Figures DEF SentIn
<1> QED
  BY <1>1, <1>4, <1>5, <1>6, SlotSum

LEMMA ToGatewayStep == ASSUME AirInv, [Next]_vars PROVE ToGatewayAir'
<1>1. /\ TypeOK /\ IInv /\ ToGatewayAir /\ clock \in 0 .. 8 * SlotMs - 1
      /\ to_gateway \subseteq Air
  BY SlotSum DEF AirInv, IInv, TypeOK
<1>2. CASE Advance
  <2>1. pending_ack'.applied = pending_ack.applied
    BY <1>1, <1>2 DEF Advance, TypeOK
  <2>2. ASSUME NEW g \in to_gateway' PROVE GatewayFrame(g)'
    <3>1. PICK f \in to_gateway : /\ f.left \in Nat \ {0} /\ g.left = f.left - 1
                                  /\ g.frame_type = f.frame_type
                                  /\ g.presence = f.presence
      BY <1>1, <1>2, AirLater
    <3>2. PICK s \in Slots :
             /\ Sends(f, s)
             /\ \/ /\ s = 3 * SlotMs /\ ~ Due(Relay, 3 * SlotMs)
                   /\ \/ f.frame_type = Data
                      \/ f.frame_type = Alarm /\ ~ pending_ack.applied
                \/ s = 4 * SlotMs /\ ~ Due(Relay, 4 * SlotMs) /\ f.frame_type = Alarm
                \/ /\ s = 5 * SlotMs /\ ~ Due(Relay, 5 * SlotMs)
                   /\ f.frame_type = Heartbeat /\ Relay \in f.presence
      BY <1>1, SlotSum DEF ToGatewayAir, GatewayFrame
    <3>3. clock + 1 < 8 * SlotMs
      BY <1>1, <3>1, <3>2, SlotSum, Figures DEF Sends, SentIn
    <3>4. clock' = clock + 1
      BY <1>1, <1>2, <3>3, TickTime, Figures
    <3>5. Sends(g, s)'
      BY <1>1, <3>1, <3>2, <3>4, SentTick DEF Sends
    <3> QED
      BY <1>1, <1>2, <2>1, <3>1, <3>2, <3>3, <3>5, DueTicks DEF GatewayFrame
  <2>3. ASSUME NEW f \in to_gateway', NEW g \in to_gateway', f.frame_type = g.frame_type
        PROVE  f = g
    <3>1. /\ \A a \in to_gateway : [a EXCEPT !.left = @ - 1].frame_type = a.frame_type
          /\ to_gateway' = {[a EXCEPT !.left = @ - 1] : a \in to_gateway}
      BY <1>1, <1>2 DEF Air, Advance
    <3>2. PICK a \in to_gateway : f = [a EXCEPT !.left = @ - 1]
      BY <3>1
    <3>3. PICK b \in to_gateway : g = [b EXCEPT !.left = @ - 1]
      BY <3>1
    <3>4. a = b
      BY <1>1, <2>3, <3>1, <3>2, <3>3 DEF ToGatewayAir
    <3> QED
      BY <3>2, <3>3, <3>4
  <2> QED
    BY <2>2, <2>3 DEF ToGatewayAir
<1>3. CASE /\ ~ Advance /\ (Next \/ UNCHANGED vars)
           /\ to_gateway' \subseteq to_gateway
           /\ \/ pending_ack' = pending_ack
              \/ ~ pending_ack'.applied
              \/ \A f \in to_gateway' : f.frame_type # Alarm
  <2>1. clock' = clock /\ served \subseteq served'
    BY <1>1, <1>3, OneLoss DEF vars
  <2>2. \A n, start : Due(n, start)' => Due(n, start)
    BY <2>1, DueSame
  <2>3. ASSUME NEW f \in to_gateway' PROVE GatewayFrame(f)'
    BY <1>1, <1>3, <2>1, <2>2 DEF ToGatewayAir, GatewayFrame, Sends, SentIn
  <2> QED
    BY <1>1, <1>3, <2>3 DEF ToGatewayAir
<1>4. CASE RelaySlot
  <2>1. Serve(Relay) /\ 3 * SlotMs <= clock /\ clock < 3 * SlotMs + SlotMs
    BY <1>1, <1>4, WorkOf, SlotOfWork
  <2>2. to_gateway = {}
    BY <1>1, <2>1, GatewayAirClear
  <2>3. PICK alarm \in {{}} \cup Sent(Alarm, Delays, {}),
             data \in {{}} \cup Sent(Data, DataDelays, {}) :
           /\ alarm # {} => alarm_waiting
           /\ to_gateway' = alarm \cup data
    BY <1>4, <2>2 DEF RelaySlot
  <2>4. alarm # {} => ~ pending_ack'.applied
    BY <1>4, <2>3 DEF RelaySlot, NoPending
  <2>5. /\ \A f \in alarm : f.frame_type = Alarm /\ (\E d \in Delays : f.left = d)
        /\ \A f \in data : f.frame_type = Data /\ (\E d \in DataDelays : f.left = d)
    BY DEF Sent
  <2>6. ASSUME NEW f \in to_gateway' PROVE GatewayFrame(f)'
    <3>1. \E d \in Delays \cup DataDelays : f.left = d
      BY <2>3, <2>5
    <3>2. Sends(f, 3 * SlotMs) /\ ~ Due(Relay, 3 * SlotMs)' /\ clock' = clock
      BY <1>1, <2>1, <3>1, SendsNow, ServesIn, SlotSum
    <3>3. f.frame_type = Data \/ (f.frame_type = Alarm /\ ~ pending_ack'.applied)
      BY <2>3, <2>4, <2>5
    <3> QED
      BY <3>2, <3>3 DEF GatewayFrame, Sends, SentIn
  <2>7. ASSUME NEW f \in to_gateway', NEW g \in to_gateway', f.frame_type = g.frame_type
        PROVE  f = g
    <3>1. (\A a, b \in alarm : a = b) /\ (\A a, b \in data : a = b)
      BY DEF Sent
    <3>2. (f \in alarm /\ g \in alarm) \/ (f \in data /\ g \in data)
      BY <2>3, <2>5, <2>7, Roles
    <3> QED
      BY <3>1, <3>2
  <2> QED
    BY <2>6, <2>7 DEF ToGatewayAir
<1>5. CASE RelayRetrySlot
  <2>1. Serve(Relay) /\ 4 * SlotMs <= clock /\ clock < 4 * SlotMs + SlotMs
    BY <1>1, <1>5, WorkOf, SlotOfWork
  <2>2. to_gateway = {}
    BY <1>1, <2>1, GatewayAirClear
  <2>3. \/ to_gateway' = {}
        \/ \E d \in Delays : to_gateway' =
              {[frame_type |-> Alarm, presence |-> {}, left |-> d]}
    BY <1>5, <2>2 DEF RelayRetrySlot, Sent
  <2>4. ASSUME NEW f \in to_gateway' PROVE GatewayFrame(f)'
    <3>1. f.frame_type = Alarm /\ \E d \in Delays \cup DataDelays : f.left = d
      BY <2>3
    <3>2. Sends(f, 4 * SlotMs) /\ ~ Due(Relay, 4 * SlotMs)' /\ clock' = clock
      BY <1>1, <2>1, <3>1, SendsNow, ServesIn, SlotSum
    <3> QED
      BY <3>1, <3>2 DEF GatewayFrame, Sends, SentIn
  <2> QED
    BY <2>3, <2>4 DEF ToGatewayAir
<1>6. CASE RelayHeartbeatSlot
  <2>1. Serve(Relay) /\ 5 * SlotMs <= clock /\ clock < 5 * SlotMs + SlotMs
    BY <1>1, <1>6, WorkOf, SlotOfWork
  <2>2. to_gateway = {}
    BY <1>1, <2>1, GatewayAirClear
  <2>3. \/ to_gateway' = {}
        \/ \E d \in Delays : to_gateway' =
              {[frame_type |-> Heartbeat, presence |-> PresenceMask, left |-> d]}
    BY <1>6, <2>2 DEF RelayHeartbeatSlot, Sent
  <2>4. ASSUME NEW f \in to_gateway' PROVE GatewayFrame(f)'
    <3>1. /\ f.frame_type = Heartbeat /\ Relay \in f.presence
          /\ \E d \in Delays \cup DataDelays : f.left = d
      BY <2>3 DEF PresenceMask
    <3>2. Sends(f, 5 * SlotMs) /\ ~ Due(Relay, 5 * SlotMs)' /\ clock' = clock
      BY <1>1, <2>1, <3>1, SendsNow, ServesIn, SlotSum
    <3> QED
      BY <3>1, <3>2 DEF GatewayFrame, Sends, SentIn
  <2> QED
    BY <2>3, <2>4 DEF ToGatewayAir
<1>7. CASE GatewayRxAlarm
  <2>1. PICK f \in to_gateway : f.frame_type = Alarm /\ to_gateway' = to_gateway \ {f}
    BY <1>7 DEF GatewayRxAlarm, Arrives
  <2>2. \A g \in to_gateway' : g.frame_type # Alarm
    BY <1>1, <2>1 DEF ToGatewayAir
  <2>3. ~ Advance
    BY <1>1, <1>7, <2>1, WorkOf, TickTime, Figures
  <2> QED
    BY <1>3, <1>7, <2>1, <2>2, <2>3 DEF Next
<1>8. CASE GatewayRxData
  <2>1. ~ pending_ack'.applied
    <3>1. pending_ack' = [pending_ack EXCEPT !.applied = FALSE]
      BY <1>8 DEF GatewayRxData
    <3>2. pending_ack \in Pending
      BY <1>1 DEF TypeOK, Pending
    <3> QED
      BY <3>1, <3>2 DEF Pending
  <2>2. to_gateway' \subseteq to_gateway
    BY <1>8 DEF GatewayRxData
  <2>3. ~ Advance
    BY <1>1, <1>8, WorkOf, TickTime, Figures
  <2> QED
    BY <1>3, <1>8, <2>1, <2>2, <2>3 DEF Next
<1>9. CASE SensorSlot \/ SensorRetrySlot \/ SensorHeartbeatSlot \/ RelayRx
              \/ GatewayRxHeartbeat \/ GatewayPoll \/ UNCHANGED vars
  <2>1. to_gateway' \subseteq to_gateway /\ pending_ack' = pending_ack
    BY <1>9 DEF SensorSlot, SensorRetrySlot, SensorHeartbeatSlot, RelayRx, GatewayPoll,
                GatewayRxHeartbeat, vars, frameVars, relayVars
  <2>2. ~ Advance
    <3>1. clock' = clock
      BY <1>9, WorkOf DEF Serve, vars
    <3> QED
      BY <1>1, <3>1, TickTime, Figures
  <2> QED
    BY <1>3, <1>9, <2>1, <2>2 DEF Next
<1> QED
  BY <1>2, <1>4, <1>5, <1>6, <1>7, <1>8, <1>9 DEF Next

LEMMA AgeFacts ==
    ASSUME TypeOK
    PROVE  /\ sensor_seen # None => sensor_seen \in Nat
           /\ \A n \in Tracked : last_seen[n] # None => last_seen[n] \in Nat
           /\ 0 # None /\ losses.since \in Nat /\ losses.gap \in Nat
           /\ losses.since <= losses.gap
<1>1. LossGaps \subseteq Nat /\ None \notin Int
  BY PresenceAssumption
<1>2. HeartbeatTimeout \in Nat /\ StaleLimit \in Nat
  BY StartFacts, NewsFacts
<1>3. sensor_seen # None => sensor_seen \in Nat
  BY <1>2 DEF TypeOK, Ages
<1>4. \A n \in Tracked : last_seen[n] # None => last_seen[n] \in Nat
  <2>1. \A n \in Tracked : last_seen[n] \in Ages(HeartbeatTimeout)
    BY DEF TypeOK
  <2> QED
    BY <1>2, <2>1 DEF Ages
<1>5. /\ losses.since \in Nat /\ losses.gap \in LossGaps
      /\ losses.since <= losses.gap
  BY DEF TypeOK
<1>6. 0 # None
  BY <1>1
<1>7. losses.gap \in Nat
  BY <1>1, <1>5
<1> QED
  BY <1>3, <1>4, <1>5, <1>6, <1>7

\* Whom the gateway has just heard of.
LEMMA SeenNow ==
    ASSUME TypeOK, NEW nodes, RecordSeen(nodes)
    PROVE  /\ \A n \in Tracked : n \in nodes => last_seen'[n] = 0
           /\ \A n \in Tracked : n \notin nodes => last_seen'[n] = last_seen[n]
           /\ \A n \in Tracked : last_seen[n] # None => last_seen'[n] # None
           /\ last_reported' = Status(last_seen')
  BY AgeFacts DEF RecordSeen

LEMMA OnlineSeen ==
    ASSUME NEW seen, NEW n \in Tracked, Status(seen)[n] = Online
    PROVE  Recent(seen[Relay]) /\ Recent(seen[n])
  BY DEF Status, Online, Offline, Unknown

LEMMA KnownStep == ASSUME AirInv, [Next]_vars PROVE Known'
<1>1. TypeOK /\ TypeOK' /\ Known /\ NewsOnAir /\ ToGatewayAir
  BY PresenceTypeStep DEF AirInv, IInv
<1>2. CASE Advance
  <2>1. /\ last_reported' = last_reported
        /\ \A n \in Tracked : last_seen'[n] = Older(last_seen[n], HeartbeatTimeout)
        /\ sensor_seen' = Older(sensor_seen, StaleLimit)
    BY <1>2 DEF Advance
  <2>2. \A a, limit : (a = None \/ a \in Nat) => (Older(a, limit) = None <=> a = None)
    BY PresenceAssumption DEF Older
  <2> QED
    BY <1>1, <2>1, <2>2, AgeFacts, Roles DEF Known
<1>3. CASE \E nodes : /\ RecordSeen(nodes) /\ Relay \in nodes
                      /\ sensor_seen' = sensor_seen
                      /\ Sensor \in nodes => sensor_seen # None
  <2>1. PICK nodes : /\ RecordSeen(nodes) /\ Relay \in nodes
                     /\ sensor_seen' = sensor_seen
                     /\ Sensor \in nodes => sensor_seen # None
    BY <1>3
  <2>2. last_seen'[Sensor] # None => last_seen'[Relay] # None /\ sensor_seen' # None
    BY <1>1, <2>1, SeenNow, AgeFacts, Roles DEF Known
  <2>3. \A n \in Tracked : last_reported'[n] = Online => last_seen'[n] # None
    BY <1>1, <2>1, SeenNow, OnlineSeen DEF Recent
  <2> QED
    BY <2>2, <2>3 DEF Known
<1>4. CASE GatewayPoll
  BY <1>1, <1>4, OnlineSeen DEF GatewayPoll, Known, Recent, relayVars
<1>5. CASE RelayRx
  BY <1>1, <1>5, AgeFacts DEF RelayRx, Known, gatewayVars
<1>6. CASE UNCHANGED <<gatewayVars, sensor_seen>>
  BY <1>1, <1>6 DEF Known, gatewayVars
<1>7. ASSUME NEW f \in to_gateway, IsNews(f) PROVE sensor_seen # None
  BY <1>1, <1>7 DEF NewsOnAir, Heard
<1>8. CASE GatewayRxData
  <2>1. \E f \in to_gateway : f.frame_type = Data
    BY <1>8 DEF GatewayRxData, Arrives
  <2> QED
    BY <1>3, <1>7, <1>8, <2>1, Roles DEF GatewayRxData, IsNews
<1>9. CASE GatewayRxAlarm
  <2>1. \E f \in to_gateway : f.frame_type = Alarm
    BY <1>9 DEF GatewayRxAlarm, Arrives
  <2>2. sensor_seen # None
    BY <1>7, <2>1, Roles DEF IsNews
  <2>3. RecordSeen(Tracked) \/ UNCHANGED gatewayVars
    BY <1>9 DEF GatewayRxAlarm
  <2>4. sensor_seen' = sensor_seen
    BY <1>9 DEF GatewayRxAlarm
  <2> QED
    BY <1>3, <1>6, <2>2, <2>3, <2>4, Roles
<1>10. CASE GatewayRxHeartbeat
  <2>1. PICK f \in to_gateway : f.frame_type = Heartbeat /\ RecordSeen(f.presence)
    BY <1>10 DEF GatewayRxHeartbeat, Arrives
  <2>2. Relay \in f.presence
    BY <1>1, <2>1, Roles DEF ToGatewayAir, GatewayFrame
  <2>3. Sensor \in f.presence => sensor_seen # None
    BY <1>7, <2>1 DEF IsNews
  <2>4. sensor_seen' = sensor_seen
    BY <1>10 DEF GatewayRxHeartbeat, relayVars
  <2> QED
    BY <1>3, <2>1, <2>2, <2>3, <2>4
<1>11. SensorSlot \/ SensorRetrySlot \/ SensorHeartbeatSlot \/ RelaySlot
         \/ RelayRetrySlot \/ RelayHeartbeatSlot \/ UNCHANGED vars
         => UNCHANGED <<gatewayVars, sensor_seen>>
  BY DEF SensorSlot, SensorRetrySlot, SensorHeartbeatSlot, RelaySlot, RelayRetrySlot,
         RelayHeartbeatSlot, gatewayVars, relayVars, vars
<1> QED
  BY <1>2, <1>4, <1>5, <1>6, <1>8, <1>9, <1>10, <1>11 DEF Next

\* Losses keep their distance.
LEMMA RareFacts ==
    ASSUME TypeOK, LossesRare
    PROVE  losses.gap \in Nat /\ losses.gap >= 7 * SlotMs
  BY AgeFacts, StartFacts DEF LossesRare

LEMMA SameLosses ==
    ASSUME TypeOK, [Next]_vars PROVE LossesRare' <=> LossesRare
<1>1. losses'.gap = losses.gap
  <2>1. CASE Advance
    BY <2>1 DEF Advance, TypeOK
  <2>2. CASE UNCHANGED vars
    BY <2>2 DEF vars
  <2> QED
    BY <2>1, <2>2, OneLoss
<1> QED
  BY <1>1 DEF LossesRare

\* The timeout allows for the width of the window.
LEMMA WindowWidth == Last - First < ActiveMs
<1>1. GuardBeforeMs <= First /\ Last <= ActiveEnd - 1
  BY StartFacts, PresenceAssumption, ScheduleAssumption DEF ActiveEnd
<1> QED
  BY <1>1, StartFacts, ScheduleAssumption DEF ActiveEnd

LEMMA HeartbeatsTellStep ==
    ASSUME AirInv, LossesRare, SensorTimely, HeartbeatsTell, [Next]_vars
    PROVE  HeartbeatsTell'
<1>1. /\ TypeOK /\ Known /\ ToGatewayAir /\ HeartbeatsTell
      /\ clock \in 0 .. 8 * SlotMs - 1
  BY SlotSum DEF AirInv, IInv, TypeOK
<1>2. CASE Advance
  <2>1. last_seen[Sensor] = None => last_seen'[Sensor] = None
    BY <1>2, Roles DEF Advance, Older
  <2> QED
    BY <1>1, <1>2, <2>1, AirLater DEF HeartbeatsTell
<1>3. CASE to_gateway' \subseteq to_gateway /\ last_seen' = last_seen
  BY <1>1, <1>3 DEF HeartbeatsTell
<1>4. CASE \A f \in to_gateway' : f.frame_type # Heartbeat
  BY <1>4 DEF HeartbeatsTell
<1>5. ASSUME NEW f \in to_gateway, f.frame_type # Heartbeat
      PROVE  \A g \in to_gateway : g.frame_type # Heartbeat
  <2> SUFFICES ASSUME NEW g \in to_gateway, g.frame_type = Heartbeat PROVE FALSE
    OBVIOUS
  <2>1. SentIn(g, 5 * SlotMs)
    BY <1>1, Roles DEF ToGatewayAir, GatewayFrame, Sends
  <2>2. SentIn(f, 3 * SlotMs) \/ SentIn(f, 4 * SlotMs)
    BY <1>1, <1>5 DEF ToGatewayAir, GatewayFrame, Sends
  <2>3. 5 * SlotMs + First <= clock
    BY <2>1 DEF SentIn
  <2> QED
    BY <1>1, <2>2, <2>3, EarlierHandled, SlotSum, Figures
<1>6. CASE GatewayRxData \/ GatewayRxAlarm
  <2>1. \E f \in to_gateway : f.frame_type # Heartbeat
    BY <1>6, Roles DEF GatewayRxData, GatewayRxAlarm, Arrives
  <2>2. to_gateway' \subseteq to_gateway
    BY <1>6 DEF GatewayRxData, GatewayRxAlarm
  <2> QED
    BY <1>4, <1>5, <2>1, <2>2
<1>7. CASE GatewayRxHeartbeat
  <2>1. PICK f \in to_gateway : f.frame_type = Heartbeat /\ to_gateway' = to_gateway \ {f}
    BY <1>7 DEF GatewayRxHeartbeat, Arrives
  <2> QED
    BY <1>1, <1>4, <2>1 DEF ToGatewayAir
<1>8. CASE RelaySlot \/ RelayRetrySlot
  <2>1. \A f \in to_gateway' : f \in to_gateway \/ f.frame_type # Heartbeat
    BY <1>8, Roles DEF RelaySlot, RelayRetrySlot, Sent
  <2>2. last_seen' = last_seen
    BY <1>8 DEF RelaySlot, RelayRetrySlot, gatewayVars
  <2> QED
    BY <1>1, <2>1, <2>2 DEF HeartbeatsTell
<1>9. CASE RelayHeartbeatSlot
  <2>1. /\ last_seen' = last_seen
        /\ \A f \in to_gateway' : f \in to_gateway \/ f.presence = PresenceMask
    BY <1>9 DEF RelayHeartbeatSlot, Sent, gatewayVars
  <2>2. ASSUME last_seen[Sensor] # None PROVE Sensor \in PresenceMask
    <3>1. sensor_seen # None /\ sensor_seen \in Nat
      BY <1>1, <2>2, AgeFacts DEF Known
    <3>2. Serve(Relay) /\ 5 * SlotMs <= clock /\ clock < 5 * SlotMs + SlotMs
      BY <1>1, <1>9, WorkOf, SlotOfWork
    <3>3. 5 * SlotMs + First <= clock /\ clock <= 5 * SlotMs + Last
      BY <1>1, <3>2, ServesIn, SlotSum
    <3>4. ~ AwaitSample /\ AwaitSign
      <4>1. ~ OnAir(to_relay, 2 * SlotMs)
        BY <1>1, <3>3, EarlierHandled, SlotSum, Figures DEF OnAir
      <4> QED
        BY <1>1, <3>2, <4>1, Figures DEF AwaitSample, AwaitSign, Due
    <3>5. sensor_seen <= 8 * SlotMs + (Last - First)
      BY <1>1, <3>1, <3>3, <3>4, AgeFacts, Figures DEF SensorTimely, Timely, Between
    <3>6. Last - First < ActiveMs
      BY WindowWidth
    <3>7. sensor_seen <= HeartbeatTimeout
      BY <3>1, <3>5, <3>6, StartFacts, Figures
    <3> QED
      BY <3>1, <3>7 DEF PresenceMask, Recent
  <2> QED
    BY <1>1, <2>1, <2>2 DEF HeartbeatsTell
<1>10. SensorSlot \/ SensorRetrySlot \/ SensorHeartbeatSlot \/ RelayRx \/ GatewayPoll
         \/ UNCHANGED vars => to_gateway' \subseteq to_gateway /\ last_seen' = last_seen
  BY DEF SensorSlot, SensorRetrySlot, SensorHeartbeatSlot, RelayRx, GatewayPoll, vars,
         frameVars, gatewayVars
<1> QED
  BY <1>2, <1>3, <1>6, <1>7, <1>8, <1>9, <1>10 DEF Next

\* A transmission puts a frame on the air, with a delay of its kind.
LEMMA SentOne ==
    ASSUME NEW t, NEW delays, delays \subseteq Delays \cup DataDelays,
           NEW presence, NEW fs \in Sent(t, delays, presence)
    PROVE  \E f \in fs : /\ fs = {f} /\ f.frame_type = t /\ f.presence = presence
                         /\ \E d \in Delays \cup DataDelays : f.left = d
<1>1. PICK d \in delays : fs = {[frame_type |-> t, presence |-> presence, left |-> d]}
  BY SentFacts
<1> QED
  BY <1>1

\* Of two chances the sensor has to be heard by the relay one is not lost.
LEMMA SensorTimelyStep ==
    ASSUME AirInv, LossesRare, SensorTimely, [Next]_vars PROVE SensorTimely'
<1> DEFINE x == 2 * SlotMs
           y == 6 * SlotMs
<1>1. /\ TypeOK /\ TypeOK' /\ IInv /\ ToRelayAir /\ ToGatewayAir
      /\ clock \in 0 .. 8 * SlotMs - 1
  BY PresenceTypeStep, SlotSum DEF AirInv, IInv, TypeOK
<1>2. losses.gap \in Nat /\ losses.gap >= 7 * SlotMs
  BY <1>1, RareFacts
<1>3. /\ AwaitSample => clock < x + SlotMs + First
      /\ AwaitSign => clock < y + SlotMs + First
  <2>1. \A f \in to_relay : f.left \in Nat
    BY <1>1 DEF TypeOK, Air
  <2> QED
    BY <1>1, <2>1, Figures DEF AwaitSample, AwaitSign, Due, OnAir, SentIn
<1>4. /\ AwaitSample \in BOOLEAN /\ AwaitSign \in BOOLEAN
      /\ AwaitSample' \in BOOLEAN /\ AwaitSign' \in BOOLEAN
  BY DEF AwaitSample, AwaitSign
<1>5. /\ x \in {2 * SlotMs, 3 * SlotMs} /\ y \in {5 * SlotMs, 6 * SlotMs}
      /\ y - x >= 2 * SlotMs
  BY Figures
<1>6. /\ losses.since \in 0 .. losses.gap /\ losses.since \in Nat /\ 0 # None
      /\ sensor_seen # None => sensor_seen \in Nat
  BY <1>1, AgeFacts
<1> HIDE DEF x, y
<1>7. CASE Advance
  <2>1. /\ sensor_seen' = Older(sensor_seen, StaleLimit)
        /\ losses'.since = IF losses.since + 1 < losses.gap THEN losses.since + 1
                           ELSE losses.gap
    BY <1>1, <1>7 DEF Advance, Min, TypeOK
  <2>2. sensor_seen' # None =>
           /\ sensor_seen # None /\ sensor_seen' \in Nat
           /\ sensor_seen' <= sensor_seen + 1
    BY <1>1, <1>6, <2>1, AgeFacts, NewsFacts DEF Older
  <2>3. /\ clock + 1 < 8 * SlotMs => /\ AwaitSample' = AwaitSample
                                     /\ AwaitSign' = AwaitSign
        /\ clock + 1 = 8 * SlotMs => /\ ~ AwaitSample /\ ~ AwaitSign
                                     /\ AwaitSample' = TRUE /\ AwaitSign' = TRUE
    <3>1. /\ clock + 1 < 8 * SlotMs => /\ AwaitSample' <=> AwaitSample
                                       /\ AwaitSign' <=> AwaitSign
          /\ clock + 1 = 8 * SlotMs => /\ ~ AwaitSample /\ ~ AwaitSign
                                       /\ AwaitSample' /\ AwaitSign'
      BY <1>1, <1>7, DueTicks, OnAirTick, SlotSum DEF AwaitSample, AwaitSign
    <3> QED
      BY <1>4, <3>1
  <2>4. \/ clock + 1 < 8 * SlotMs /\ clock' = clock + 1
        \/ clock + 1 = 8 * SlotMs /\ clock' = 0
    BY <1>1, <1>7, TickTime
  <2> SUFFICES ASSUME sensor_seen' # None
               PROVE  Timely(sensor_seen', clock', losses'.since, x, y,
                             AwaitSample', AwaitSign')
    BY DEF SensorTimely, x, y
  <2>5. Timely(sensor_seen, clock, losses.since, x, y, AwaitSample, AwaitSign)
    BY <2>2 DEF SensorTimely, x, y
  <2>6. /\ losses'.since \in Nat /\ losses'.since <= losses.since + 1
        /\ losses'.since = losses.since + 1 \/ losses'.since >= 7 * SlotMs
    BY <1>2, <1>6, <2>1, Figures
  <2>7. /\ sensor_seen \in Nat /\ losses.since \in Nat
        /\ Tick(sensor_seen, sensor_seen', losses.since, losses'.since)
    BY <1>6, <2>2, <2>6 DEF Tick
  <2>8. CASE clock + 1 < 8 * SlotMs /\ clock' = clock + 1
    <3>1. /\ BeforeBoth(sensor_seen, clock, losses.since, x, y) /\ AwaitSample
                => BeforeBoth(sensor_seen', clock + 1, losses'.since, x, y)
          /\ Between(sensor_seen, clock, losses.since, x, y) /\ AwaitSign
                => Between(sensor_seen', clock + 1, losses'.since, x, y)
          /\ AfterBoth(sensor_seen, clock, losses.since, x, y)
                => AfterBoth(sensor_seen', clock + 1, losses'.since, x, y)
      BY <1>1, <1>3, <1>5, <2>7, TimelyTick
    <3> QED
      BY <2>3, <2>5, <2>8, <3>1 DEF Timely
  <2>9. CASE clock + 1 = 8 * SlotMs /\ clock' = 0
    <3>1. AfterBoth(sensor_seen, 8 * SlotMs - 1, losses.since, x, y)
      <4>1. clock = 8 * SlotMs - 1
        BY <1>1, <2>9, Figures
      <4> QED
        BY <2>3, <2>5, <2>9, <4>1 DEF Timely
    <3>2. BeforeBoth(sensor_seen', 0, losses'.since, x, y)
      BY <1>5, <2>7, <3>1, TimelyWrap
    <3> QED
      BY <2>3, <2>9, <3>2 DEF Timely
  <2> QED
    BY <2>4, <2>8, <2>9
<1>8. ASSUME Next, ~ Advance, sensor_seen' = sensor_seen,
             AwaitSample' = AwaitSample, AwaitSign' = AwaitSign
      PROVE  SensorTimely'
  <2> SUFFICES ASSUME sensor_seen # None
               PROVE  Timely(sensor_seen, clock', losses'.since, x, y,
                             AwaitSample', AwaitSign')
    BY <1>8 DEF SensorTimely, x, y
  <2>1. Timely(sensor_seen, clock, losses.since, x, y, AwaitSample, AwaitSign)
    BY DEF SensorTimely, x, y
  <2>2. clock' = clock
    BY <1>1, <1>8, OneLoss
  <2>3. CASE losses'.since = losses.since
    BY <1>8, <2>1, <2>2, <2>3
  <2>4. CASE losses.since = losses.gap /\ losses'.since = 0
    <3>1. Timely(sensor_seen, clock, 0, x, y, AwaitSample, AwaitSign)
      BY <1>1, <1>2, <1>3, <1>4, <1>5, <1>6, <2>1, <2>4, TimelyLoss
    <3> QED
      BY <1>8, <2>2, <2>4, <3>1
  <2> QED
    BY <1>1, <1>8, <2>3, <2>4, OneLoss
<1>9. CASE RelayRx
  <2>1. PICK f \in to_relay : f.left = 0 /\ sensor_seen' = 0
    BY <1>9 DEF RelayRx, Arrives
  <2>2. clock' = clock /\ losses' = losses
    BY <1>9, WorkOf DEF RelayRx
  <2>3. PICK s \in {2 * SlotMs, 4 * SlotMs, 6 * SlotMs} : Sends(f, s)
    BY <1>1 DEF ToRelayAir
  <2>4. s + First + Quick <= clock /\ clock < s + SlotMs + First
    BY <1>1, <2>1, <2>3, Figures DEF Sends, SentIn
  <2>5. clock < y => AwaitSign'
    BY <1>1, <2>2 DEF AwaitSign, Due, y
  <2>6. x + First + Quick <= clock /\ (AwaitSign' \/ y + First + Quick <= clock)
    BY <1>1, <2>4, <2>5, Figures DEF x, y
  <2>7. AwaitSample' \in BOOLEAN /\ AwaitSign' \in BOOLEAN
    BY DEF AwaitSample, AwaitSign
  <2>8. Timely(0, clock, losses.since, x, y, AwaitSample', AwaitSign')
    BY <1>1, <1>5, <1>6, <2>6, <2>7, TimelyNow
  <2> QED
    BY <2>1, <2>2, <2>8 DEF SensorTimely, x, y
<1>10. ASSUME NEW start \in Slots, Due(Sensor, start), start \in {x, y}
       PROVE  ~ OnAir(to_relay, start)
  <2> SUFFICES ASSUME NEW f \in to_relay, SentIn(f, start) PROVE FALSE
    BY DEF OnAir
  <2>1. PICK s \in Slots : /\ SentIn(f, s) /\ s \in {x, 4 * SlotMs, y}
                           /\ s # 4 * SlotMs => ~ Due(Sensor, s)
    BY <1>1, SlotSum DEF ToRelayAir, Sends, x, y
  <2>2. f.left \in Nat
    BY <1>1 DEF TypeOK, Air
  <2>3. s = start
    BY <1>1, <1>10, <2>1, <2>2, SlotSum, Figures DEF SentIn
  <2> QED
    BY <1>10, <2>1, <2>3, Figures DEF x, y
<1>11. CASE SensorSlot
  <2>1. Serve(Sensor) /\ x <= clock /\ clock < x + SlotMs /\ x \in Slots
    BY <1>1, <1>11, WorkOf, SlotOfWork, SlotSum DEF x
  <2>2. /\ x + First <= clock /\ clock' = clock
        /\ Due(Sensor, x) /\ ~ Due(Sensor, x)'
    BY <1>1, <2>1, ServesIn
  <2>3. AwaitSample /\ ~ OnAir(to_relay, x) /\ AwaitSign /\ AwaitSign'
    BY <1>1, <1>10, <2>1, <2>2, Figures DEF AwaitSample, AwaitSign, Due, x, y
  <2>4. sensor_seen' = sensor_seen
    BY <1>11 DEF SensorSlot, relayVars
  <2>5. CASE Kept /\ \E fs \in Sent(Data, DataDelays, {}) \cup Sent(Alarm, Delays, {}) :
                         to_relay' = to_relay \cup fs
    <3>1. PICK fs \in Sent(Data, DataDelays, {}) \cup Sent(Alarm, Delays, {}) :
             to_relay' = to_relay \cup fs
      BY <2>5
    <3>2. PICK f \in fs : \E d \in Delays \cup DataDelays : f.left = d
      BY SentOne
    <3>3. f \in to_relay' /\ SentIn(f, x)
      BY <1>1, <2>1, <3>1, <3>2, SendsNow DEF Sends
    <3>4. AwaitSample' = AwaitSample /\ AwaitSign' = AwaitSign
      BY <1>4, <2>2, <2>3, <3>3 DEF AwaitSample, OnAir, SentIn, x
    <3>5. ~ Advance
      BY <1>1, <2>2, TickTime, Figures
    <3> QED
      BY <1>8, <1>11, <2>4, <3>4, <3>5 DEF Next
  <2>6. CASE Lost /\ to_relay' = to_relay
    <3>1. AwaitSample' = FALSE /\ AwaitSign' = TRUE
      BY <1>4, <2>2, <2>3, <2>6 DEF AwaitSample, OnAir, SentIn, x
    <3>2. losses.since >= 7 * SlotMs /\ losses'.since = 0
      BY <1>1, <1>2, <2>6 DEF Lost, TypeOK
    <3>3. ASSUME sensor_seen # None PROVE Between(sensor_seen, clock, 0, x, y)
      <4>1. BeforeBoth(sensor_seen, clock, losses.since, x, y)
        BY <2>3, <3>3 DEF SensorTimely, Timely, x, y
      <4>2. sensor_seen \in Nat /\ losses.since \in Nat
        BY <1>6, <3>3
      <4> QED
        BY <1>1, <1>5, <2>1, <2>2, <3>2, <4>1, <4>2, TimelyFirst
    <3> QED
      BY <2>2, <2>4, <3>1, <3>2, <3>3 DEF SensorTimely, Timely, x, y
  <2> QED
    BY <1>11, <2>5, <2>6 DEF SensorSlot
<1>12. CASE SensorHeartbeatSlot
  <2>1. Serve(Sensor) /\ y <= clock /\ clock < y + SlotMs /\ y \in Slots
    BY <1>1, <1>12, WorkOf, SlotOfWork, SlotSum DEF y
  <2>2. /\ y + First <= clock /\ clock' = clock
        /\ Due(Sensor, y) /\ ~ Due(Sensor, y)'
    BY <1>1, <2>1, ServesIn
  <2>3. ASSUME NEW f \in to_relay' PROVE ~ SentIn(f, x)
    <3>1. f.left \in Nat
      BY PresenceTypeStep, <1>1 DEF TypeOK, Air
    <3> QED
      BY <1>1, <2>2, <3>1, Figures DEF SentIn, x, y
  <2>4. ASSUME NEW f \in to_relay PROVE ~ SentIn(f, x)
    <3>1. f.left \in Nat
      BY <1>1 DEF TypeOK, Air
    <3> QED
      BY <1>1, <2>2, <3>1, Figures DEF SentIn, x, y
  <2>5. AwaitSample' = FALSE /\ AwaitSample = FALSE /\ AwaitSign = TRUE
    BY <1>1, <1>4, <2>2, <2>3, <2>4, Figures
       DEF AwaitSample, AwaitSign, Due, OnAir, SentIn, x, y
  <2>6. sensor_seen' = sensor_seen
    BY <1>12 DEF SensorHeartbeatSlot, relayVars
  <2>7. CASE Kept /\ \E fs \in Sent(Heartbeat, Delays, {Sensor}) :
                         to_relay' = to_relay \cup fs
    <3>1. PICK fs \in Sent(Heartbeat, Delays, {Sensor}) : to_relay' = to_relay \cup fs
      BY <2>7
    <3>2. PICK f \in fs : \E d \in Delays \cup DataDelays : f.left = d
      BY SentOne
    <3>3. f \in to_relay' /\ SentIn(f, y)
      BY <1>1, <2>1, <3>1, <3>2, SendsNow DEF Sends
    <3>4. AwaitSample' = AwaitSample /\ AwaitSign' = AwaitSign
      BY <1>4, <2>2, <2>5, <3>3 DEF AwaitSign, OnAir, SentIn, y
    <3>5. ~ Advance
      BY <1>1, <2>2, TickTime, Figures
    <3> QED
      BY <1>8, <1>12, <2>6, <3>4, <3>5 DEF Next
  <2>8. CASE Lost /\ to_relay' = to_relay
    <3>1. ~ OnAir(to_relay, y)
      BY <1>10, <2>1, <2>2
    <3>2. AwaitSign' = FALSE
      BY <1>4, <2>2, <2>8, <3>1 DEF AwaitSign, OnAir, SentIn, y
    <3>3. losses.since >= 7 * SlotMs /\ losses'.since = 0
      BY <1>1, <1>2, <2>8 DEF Lost, TypeOK
    <3>4. ASSUME sensor_seen # None PROVE AfterBoth(sensor_seen, clock, 0, x, y)
      <4>1. Between(sensor_seen, clock, losses.since, x, y)
        BY <2>5, <3>4 DEF SensorTimely, Timely, x, y
      <4> QED
        BY <1>1, <1>5, <1>6, <2>1, <2>2, <3>3, <3>4, <4>1, TimelySecond
    <3> QED
      BY <2>2, <2>5, <2>6, <3>2, <3>3, <3>4 DEF SensorTimely, Timely, x, y
  <2> QED
    BY <1>12, <2>7, <2>8 DEF SensorHeartbeatSlot
<1>13. CASE SensorRetrySlot
  <2>1. Serve(Sensor) /\ 4 * SlotMs <= clock /\ clock < 4 * SlotMs + SlotMs
    BY <1>1, <1>13, WorkOf, SlotOfWork
  <2>2. /\ 4 * SlotMs + First <= clock /\ clock' = clock /\ ~ Advance
    BY <1>1, <2>1, ServesIn, SlotSum, TickTime, Figures
  <2>3. \A f \in to_relay \cup to_relay' : f.left \in Nat
    BY <1>1 DEF TypeOK, Air
  <2>4. \A f \in to_relay \cup to_relay' : ~ SentIn(f, x)
    BY <1>1, <2>2, <2>3, Figures DEF SentIn, x
  <2>5. AwaitSample' = AwaitSample /\ AwaitSign' = AwaitSign
    <3>1. ~ AwaitSample /\ ~ AwaitSample'
      BY <1>1, <2>2, <2>4, Figures DEF AwaitSample, Due, OnAir, SentIn, x
    <3>2. AwaitSign /\ AwaitSign'
      BY <1>1, <2>1, <2>2, Figures DEF AwaitSign, Due
    <3> QED
      BY <1>4, <3>1, <3>2
  <2>6. sensor_seen' = sensor_seen
    BY <1>13 DEF SensorRetrySlot, relayVars
  <2> QED
    BY <1>8, <1>13, <2>2, <2>5, <2>6 DEF Next
<1>14. CASE RelaySlot \/ RelayRetrySlot \/ RelayHeartbeatSlot \/ GatewayPoll
              \/ GatewayRxData \/ GatewayRxAlarm \/ GatewayRxHeartbeat
  <2>1. to_relay' = to_relay /\ sensor_seen' = sensor_seen
    BY <1>14 DEF RelaySlot, RelayRetrySlot, RelayHeartbeatSlot, GatewayPoll,
                 GatewayRxData, GatewayRxAlarm, GatewayRxHeartbeat, relayVars, frameVars
  <2>2. clock' = clock /\ (Sensor \in served' <=> Sensor \in served)
    BY <1>14, WorkOf, Roles DEF Serve
  <2>3. AwaitSample' = AwaitSample /\ AwaitSign' = AwaitSign
    BY <1>4, <2>1, <2>2 DEF AwaitSample, AwaitSign, Due, OnAir, SentIn
  <2>4. ~ Advance
    BY <1>1, <2>2, TickTime, Figures
  <2> QED
    BY <1>8, <1>14, <2>1, <2>3, <2>4 DEF Next
<1>15. CASE UNCHANGED vars
  BY <1>15 DEF vars, SensorTimely, AwaitSample, AwaitSign, Due, OnAir, SentIn
<1> QED
  BY <1>7, <1>9, <1>11, <1>12, <1>13, <1>14, <1>15 DEF Next

\* What a node has done in a slot it did in the window.
LEMMA DoneInWindow ==
    ASSUME IInv, NEW n, NEW start \in Slots, ~ Due(n, start)
    PROVE  start + First <= clock
<1>1. clock \in 0 .. SuperframeMs - 1 /\ ServedInWindow /\ start \in Nat
  BY SlotSum DEF IInv, TypeOK
<1>2. CASE clock < start + SlotMs
  <2>1. start <= clock /\ n \in served
    BY <1>1, <1>2, Figures DEF Due
  <2>2. SlotElapsed(clock) = clock - start
    BY <1>1, <1>2, <2>1, SlotBounds
  <2> QED
    BY <1>1, <2>1, <2>2, Figures DEF ServedInWindow
<1> QED
  BY <1>1, <1>2, Figures

\* What the relay has to forward comes from the sensor, in the slot before.
LEMMA ToForwardStep == ASSUME AirInv, ToForward, [Next]_vars PROVE ToForward'
<1>1. /\ TypeOK /\ TypeOK' /\ IInv /\ ToRelayAir
      /\ clock \in 0 .. 8 * SlotMs - 1
  BY PresenceTypeStep, SlotSum DEF AirInv, IInv, TypeOK
<1>2. /\ losses.since \in Nat /\ losses.gap \in Nat
      /\ relay_forward \in Nat /\ alarm_waiting \in BOOLEAN
  BY <1>1, AgeFacts, PresenceAssumption DEF TypeOK
<1>3. ~ AwaitSample => 0 <= clock - 2 * SlotMs - First
  BY <1>1, DoneInWindow, SlotSum, Figures DEF AwaitSample
<1>4. CASE Advance
  <2>1. CASE clock + 1 = 8 * SlotMs
    BY <1>1, <1>4, <2>1, DueTicks DEF ToForward, AwaitSample
  <2>2. CASE clock + 1 < 8 * SlotMs
    <3>1. /\ Due(Relay, 3 * SlotMs)' <=> Due(Relay, 3 * SlotMs)
          /\ AwaitSample' <=> AwaitSample
      BY <1>1, <1>4, <2>2, DueTicks, OnAirTick, SlotSum DEF AwaitSample
    <3>2. /\ losses'.since <= losses.since + 1 /\ losses'.since \in Nat
          /\ clock' = clock + 1
          /\ relay_forward' = relay_forward /\ alarm_waiting' = alarm_waiting
      BY <1>1, <1>2, <1>4, <2>2, TickTime, Figures DEF Advance, Min, TypeOK
    <3> QED
      BY <1>1, <1>2, <3>1, <3>2, Figures DEF ToForward
  <2> QED
    BY <1>1, <1>4, <2>1, <2>2, TickTime
<1>5. CASE clock >= 4 * SlotMs /\ clock' = clock
  BY <1>1, <1>5, Figures DEF ToForward, Due
<1>6. CASE SensorSlot
  <2>1. /\ Serve(Sensor) /\ 2 * SlotMs <= clock /\ clock < 2 * SlotMs + SlotMs
        /\ clock' = clock /\ 2 * SlotMs + First <= clock
    BY <1>1, <1>6, WorkOf, SlotOfWork, ServesIn, SlotSum
  <2>2. CASE Lost
    BY <1>1, <2>1, <2>2, Figures DEF ToForward, Lost, TypeOK
  <2>3. CASE \E fs \in Sent(Data, DataDelays, {}) \cup Sent(Alarm, Delays, {}) :
                to_relay' = to_relay \cup fs
    <3>1. PICK fs \in Sent(Data, DataDelays, {}) \cup Sent(Alarm, Delays, {}) :
             to_relay' = to_relay \cup fs
      BY <2>3
    <3>2. PICK f \in fs : \E d \in Delays \cup DataDelays : f.left = d
      BY SentOne
    <3>3. f \in to_relay' /\ SentIn(f, 2 * SlotMs)
      BY <1>1, <2>1, <3>1, <3>2, SendsNow, SlotSum DEF Sends
    <3> QED
      BY <2>1, <3>3 DEF ToForward, AwaitSample, OnAir, SentIn
  <2> QED
    BY <1>6, <2>2, <2>3 DEF SensorSlot
<1>7. CASE RelaySlot
  BY <1>1, <1>7, WorkOf, SlotOfWork, ServesIn, SlotSum DEF ToForward
<1>8. CASE SensorRetrySlot \/ SensorHeartbeatSlot \/ RelayRetrySlot \/ RelayHeartbeatSlot
  BY <1>1, <1>5, <1>8, WorkOf, SlotOfWork, Figures DEF Serve
<1>9. CASE RelayRx
  <2>1. PICK f \in to_relay :
           /\ to_relay' = to_relay \ {f}
           /\ alarm_waiting' = (alarm_waiting \/ f.frame_type = Alarm)
           /\ relay_forward' =
                 IF f.frame_type = Data THEN Min(relay_forward + 1, RelayForwardCapacity)
                 ELSE relay_forward
    BY <1>9 DEF RelayRx, Arrives
  <2>2. clock' = clock /\ served' = served /\ losses' = losses
    BY <1>9 DEF RelayRx
  <2>3. /\ f.frame_type = Data => relay_forward' > 0
        /\ f.frame_type = Alarm => alarm_waiting'
        /\ relay_forward > 0 => relay_forward' > 0
        /\ alarm_waiting => alarm_waiting'
    <3>1. /\ f.frame_type = Data => relay_forward' > 0
          /\ relay_forward > 0 => relay_forward' > 0
      BY <1>2, <2>1, PresenceAssumption DEF Min
    <3>2. /\ f.frame_type = Alarm => alarm_waiting'
          /\ alarm_waiting => alarm_waiting'
      BY <2>1
    <3> QED
      BY <3>1, <3>2
  <2>4. CASE AwaitSample
    <3> SUFFICES ASSUME ~ AwaitSample'
                 PROVE  relay_forward' > 0 \/ alarm_waiting'
      BY DEF ToForward
    <3>1. ~ Due(Sensor, 2 * SlotMs)
      BY <2>2 DEF AwaitSample, Due
    <3>2. PICK g \in to_relay : SentIn(g, 2 * SlotMs)
      BY <2>4, <3>1 DEF AwaitSample, OnAir
    <3>3. g = f
      BY <2>1, <2>2, <3>2 DEF AwaitSample, OnAir, SentIn
    <3>4. f.left \in Nat
      BY <1>1 DEF TypeOK, Air
    <3>5. ~ Sends(f, 4 * SlotMs) /\ ~ Sends(f, 6 * SlotMs)
      BY <1>1, <3>2, <3>3, <3>4, Figures DEF Sends, SentIn
    <3> QED
      BY <1>1, <2>3, <3>5 DEF ToRelayAir
  <2>5. CASE ~ AwaitSample
    <3> SUFFICES ASSUME Due(Relay, 3 * SlotMs)'
                 PROVE  \/ relay_forward' > 0 \/ alarm_waiting'
                        \/ losses'.since <= clock' - 2 * SlotMs - First
      BY DEF ToForward
    <3>1. Due(Relay, 3 * SlotMs)
      BY <2>2 DEF Due
    <3>2. \/ relay_forward > 0 \/ alarm_waiting
          \/ losses.since <= clock - 2 * SlotMs - First
      BY <2>5, <3>1 DEF ToForward
    <3> QED
      BY <2>2, <2>3, <3>2
  <2> QED
    BY <2>4, <2>5
<1>10. CASE GatewayPoll \/ GatewayRxData \/ GatewayRxAlarm \/ GatewayRxHeartbeat
  <2>1. /\ to_relay' = to_relay /\ relay_forward' = relay_forward
        /\ alarm_waiting' = alarm_waiting
    BY <1>10 DEF GatewayPoll, GatewayRxData, GatewayRxAlarm, GatewayRxHeartbeat,
                 relayVars, frameVars
  <2>2. /\ clock' = clock /\ (Sensor \in served' <=> Sensor \in served)
        /\ (Relay \in served' <=> Relay \in served)
    BY <1>10, WorkOf, Roles DEF Serve
  <2>3. /\ AwaitSample' <=> AwaitSample
        /\ Due(Relay, 3 * SlotMs)' <=> Due(Relay, 3 * SlotMs)
    BY <2>1, <2>2 DEF AwaitSample, Due, OnAir, SentIn
  <2>4. losses'.since = losses.since \/ losses'.since = 0
    <3>1. ~ Advance
      BY <1>1, <2>2, TickTime, Figures
    <3> QED
      BY <1>1, <1>10, <3>1, OneLoss DEF Next
  <2> QED
    BY <1>3, <2>1, <2>2, <2>3, <2>4 DEF ToForward
<1>11. CASE UNCHANGED vars
  BY <1>11 DEF vars, ToForward, AwaitSample, Due, OnAir, SentIn
<1> QED
  BY <1>4, <1>6, <1>7, <1>8, <1>9, <1>10, <1>11 DEF Next

\* Of two chances to tell the gateway who is there one is not lost.
LEMMA NodesTimelyStep ==
    ASSUME AirInv, LossesRare, NodesTimely, ToForward, HeartbeatsTell, [Next]_vars
    PROVE  NodesTimely'
<1> DEFINE x == 3 * SlotMs
           y == 5 * SlotMs
<1>1. /\ TypeOK /\ TypeOK' /\ IInv /\ ToGatewayAir
      /\ clock \in 0 .. 8 * SlotMs - 1
  BY PresenceTypeStep, SlotSum DEF AirInv, IInv, TypeOK
<1>2. losses.gap \in Nat /\ losses.gap >= 7 * SlotMs
  BY <1>1, RareFacts
<1>3. \A f \in to_gateway \cup to_gateway' : f.left \in Nat
  BY <1>1 DEF TypeOK, Air
<1>4. /\ AwaitForward => clock < x + SlotMs + First
      /\ AwaitBeat => clock < y + SlotMs + First
  BY <1>1, <1>3, Figures DEF AwaitForward, AwaitBeat, Due, OnAir, SentIn
<1>5. /\ AwaitForward \in BOOLEAN /\ AwaitBeat \in BOOLEAN
      /\ AwaitForward' \in BOOLEAN /\ AwaitBeat' \in BOOLEAN
  BY DEF AwaitForward, AwaitBeat
<1>6. /\ x \in {2 * SlotMs, 3 * SlotMs} /\ y \in {5 * SlotMs, 6 * SlotMs}
      /\ y - x >= 2 * SlotMs
  BY Figures
<1>7. /\ losses.since \in Nat /\ losses'.since \in Nat /\ losses.since <= losses.gap
      /\ 0 # None
      /\ \A n \in Tracked : last_seen[n] # None => last_seen[n] \in Nat
  <2>1. losses'.since \in Nat
    BY <1>1 DEF TypeOK
  <2> QED
    BY <1>1, <2>1, AgeFacts
<1>8. x \in Slots /\ y \in Slots
  BY SlotSum
<1> HIDE DEF x, y
<1>9. CASE Advance
  <2> SUFFICES ASSUME NEW n \in Tracked, last_seen'[n] # None
               PROVE  Timely(last_seen'[n], clock', losses'.since, x, y,
                             AwaitForward', AwaitBeat')
    BY DEF NodesTimely, x, y
  <2>1. /\ last_seen'[n] = Older(last_seen[n], HeartbeatTimeout)
        /\ losses'.since = IF losses.since + 1 < losses.gap THEN losses.since + 1
                           ELSE losses.gap
    BY <1>1, <1>9 DEF Advance, Min, TypeOK
  <2>2. /\ last_seen[n] # None /\ last_seen[n] \in Nat
        /\ last_seen'[n] \in Nat /\ last_seen'[n] <= last_seen[n] + 1
    BY <1>7, <2>1, StartFacts DEF Older
  <2>3. /\ clock + 1 < 8 * SlotMs => /\ AwaitForward' = AwaitForward
                                     /\ AwaitBeat' = AwaitBeat
        /\ clock + 1 = 8 * SlotMs => /\ ~ AwaitForward /\ ~ AwaitBeat
                                     /\ AwaitForward' = TRUE /\ AwaitBeat' = TRUE
    <3>1. /\ clock + 1 < 8 * SlotMs => /\ AwaitForward' <=> AwaitForward
                                       /\ AwaitBeat' <=> AwaitBeat
          /\ clock + 1 = 8 * SlotMs => /\ ~ AwaitForward /\ ~ AwaitBeat
                                       /\ AwaitForward' /\ AwaitBeat'
      BY <1>1, <1>9, DueTicks, OnAirTick, SlotSum DEF AwaitForward, AwaitBeat
    <3> QED
      BY <1>5, <3>1
  <2>4. \/ clock + 1 < 8 * SlotMs /\ clock' = clock + 1
        \/ clock + 1 = 8 * SlotMs /\ clock' = 0
    BY <1>1, <1>9, TickTime
  <2>5. Timely(last_seen[n], clock, losses.since, x, y, AwaitForward, AwaitBeat)
    BY <2>2 DEF NodesTimely, x, y
  <2>6. Tick(last_seen[n], last_seen'[n], losses.since, losses'.since)
    BY <1>2, <1>7, <2>1, <2>2, Figures DEF Tick
  <2>7. CASE clock + 1 < 8 * SlotMs /\ clock' = clock + 1
    <3>1. /\ BeforeBoth(last_seen[n], clock, losses.since, x, y)
             /\ clock < x + SlotMs + First
                => BeforeBoth(last_seen'[n], clock + 1, losses'.since, x, y)
          /\ Between(last_seen[n], clock, losses.since, x, y)
             /\ clock < y + SlotMs + First
                => Between(last_seen'[n], clock + 1, losses'.since, x, y)
          /\ AfterBoth(last_seen[n], clock, losses.since, x, y)
                => AfterBoth(last_seen'[n], clock + 1, losses'.since, x, y)
      <4>1. last_seen[n] \in Nat /\ losses.since \in Nat
        BY <1>7, <2>2
      <4> QED
        BY <1>1, <1>6, <2>6, <4>1, TimelyTick
    <3> QED
      BY <1>4, <2>3, <2>5, <2>7, <3>1 DEF Timely
  <2>8. CASE clock + 1 = 8 * SlotMs /\ clock' = 0
    <3>1. AfterBoth(last_seen[n], 8 * SlotMs - 1, losses.since, x, y)
      <4>1. clock = 8 * SlotMs - 1
        BY <1>1, <2>8, Figures
      <4> QED
        BY <2>3, <2>5, <2>8, <4>1 DEF Timely
    <3>2. BeforeBoth(last_seen'[n], 0, losses'.since, x, y)
      BY <1>6, <1>7, <2>2, <2>6, <3>1, TimelyWrap
    <3> QED
      BY <2>3, <2>8, <3>2 DEF Timely
  <2> QED
    BY <2>4, <2>7, <2>8
<1>10. ASSUME Next, ~ Advance, last_seen' = last_seen,
              AwaitForward' = AwaitForward, AwaitBeat' = AwaitBeat
       PROVE  NodesTimely'
  <2> SUFFICES ASSUME NEW n \in Tracked, last_seen[n] # None
               PROVE  Timely(last_seen[n], clock', losses'.since, x, y,
                             AwaitForward', AwaitBeat')
    BY <1>10 DEF NodesTimely, x, y
  <2>1. Timely(last_seen[n], clock, losses.since, x, y, AwaitForward, AwaitBeat)
    BY DEF NodesTimely, x, y
  <2>2. clock' = clock
    BY <1>1, <1>10, OneLoss
  <2>3. CASE losses'.since = losses.since
    BY <1>10, <2>1, <2>2, <2>3
  <2>4. CASE losses.since = losses.gap /\ losses'.since = 0
    <3>1. Timely(last_seen[n], clock, 0, x, y, AwaitForward, AwaitBeat)
      BY <1>1, <1>2, <1>4, <1>5, <1>6, <1>7, <2>1, <2>4, TimelyLoss
    <3> QED
      BY <1>10, <2>2, <2>4, <3>1
  <2> QED
    BY <1>1, <1>10, <2>3, <2>4, OneLoss
<1>11. ASSUME NEW nodes, RecordSeen(nodes), NEW f \in to_gateway, f.left = 0,
              clock' = clock, served' = served,
              \A n \in Tracked : n \in nodes \/ last_seen[n] = None
       PROVE  NodesTimely'
  <2>1. PICK s \in {3 * SlotMs, 4 * SlotMs, 5 * SlotMs} : Sends(f, s)
    BY <1>1 DEF ToGatewayAir, GatewayFrame
  <2>2. s + First + Quick <= clock /\ clock < s + SlotMs + First
    BY <1>1, <1>11, <2>1, Figures DEF Sends, SentIn
  <2>3. ~ AwaitBeat' => y + First <= clock
    BY <1>1, <1>8, <1>11, DoneInWindow DEF AwaitBeat, Due, y
  <2>4. x + First + Quick <= clock /\ (AwaitBeat' \/ y + First + Quick <= clock)
    BY <1>1, <2>1, <2>2, <2>3, Figures DEF x, y
  <2>5. Timely(0, clock, losses'.since, x, y, AwaitForward', AwaitBeat')
    BY <1>1, <1>5, <1>6, <1>7, <2>4, TimelyNow
  <2>6. \A n \in Tracked : last_seen'[n] = 0 \/ last_seen'[n] = None
    BY <1>1, <1>11, SeenNow
  <2> QED
    BY <1>11, <2>5, <2>6 DEF NodesTimely, x, y
<1>12. ASSUME NEW n, Serve(n)
       PROVE  clock' = clock /\ ~ Advance
  BY <1>1, <1>12, TickTime, Figures DEF Serve
<1>13. CASE RelaySlot
  <2>1. Serve(Relay) /\ x <= clock /\ clock < x + SlotMs
    BY <1>1, <1>13, WorkOf, SlotOfWork DEF x
  <2>2. /\ x + First <= clock /\ clock' = clock
        /\ Due(Relay, x) /\ ~ Due(Relay, x)' /\ to_gateway = {}
    BY <1>1, <1>8, <2>1, ServesIn, GatewayAirClear DEF x
  <2>3. AwaitForward /\ AwaitBeat /\ AwaitBeat' /\ last_seen' = last_seen
    BY <1>1, <1>13, <2>1, <2>2, Figures
       DEF AwaitForward, AwaitBeat, Due, x, RelaySlot, gatewayVars
  <2>4. PICK alarm \in {{}} \cup Sent(Alarm, Delays, {}),
             data \in {{}} \cup Sent(Data, DataDelays, {}) :
           /\ to_gateway' = to_gateway \cup alarm \cup data
           /\ IF \/ alarm = {} /\ alarm_waiting
                 \/ data = {} /\ Min(relay_forward, MaxForwardPerSlot) > 0
              THEN Lost ELSE Kept
    BY <1>13 DEF RelaySlot
  <2>5. CASE alarm # {} \/ data # {}
    <3>1. PICK f \in to_gateway' : \E d \in Delays \cup DataDelays : f.left = d
      BY <2>4, <2>5, SentOne
    <3>2. SentIn(f, x)
      BY <1>1, <1>8, <2>1, <3>1, SendsNow DEF Sends
    <3>3. AwaitForward'
      BY <2>2, <3>1, <3>2 DEF AwaitForward, OnAir, SentIn, x
    <3> QED
      BY <1>5, <1>10, <1>12, <1>13, <2>1, <2>3, <3>3 DEF Next
  <2>6. CASE alarm = {} /\ data = {}
    <3>1. ~ AwaitForward'
      BY <2>2, <2>4, <2>6 DEF AwaitForward, OnAir, x
    <3>2. \/ losses.since >= 7 * SlotMs /\ losses'.since = 0
          \/ losses'.since = losses.since /\ losses.since <= clock - 2 * SlotMs - First
      <4>1. CASE Lost
        BY <1>1, <1>2, <4>1 DEF Lost, TypeOK
      <4>2. CASE ~ Lost
        <5>1. Kept /\ ~ alarm_waiting /\ ~ (Min(relay_forward, MaxForwardPerSlot) > 0)
          BY <2>4, <2>6, <4>2
        <5>2. relay_forward \in Nat
          BY <1>1, PresenceAssumption DEF TypeOK
        <5>3. ~ (relay_forward > 0)
          BY <5>1, <5>2, PresenceAssumption DEF Min
        <5>4. ~ AwaitSample
          <6>1. ~ Due(Sensor, 2 * SlotMs)
            BY <1>1, <2>1, Figures DEF Due, x
          <6>2. \A f \in to_relay : ~ SentIn(f, 2 * SlotMs)
            BY <1>1, <1>8, <2>2, EarlierHandled, SlotSum, Figures DEF x
          <6> QED
            BY <6>1, <6>2 DEF AwaitSample, OnAir
        <5> QED
          BY <2>2, <5>1, <5>3, <5>4 DEF ToForward, Kept, x
      <4> QED
        BY <4>1, <4>2
    <3>3. ASSUME NEW n \in Tracked, last_seen[n] # None
          PROVE  Between(last_seen[n], clock, losses'.since, x, y)
      <4>1. BeforeBoth(last_seen[n], clock, losses.since, x, y)
        BY <2>3, <3>3 DEF NodesTimely, Timely, x, y
      <4>2. last_seen[n] \in Nat
        BY <1>7, <3>3
      <4>3. /\ losses.since >= 7 * SlotMs => Between(last_seen[n], clock, 0, x, y)
            /\ losses.since <= clock - 2 * SlotMs - First
                  => Between(last_seen[n], clock, losses.since, x, y)
        BY <1>1, <1>6, <1>7, <2>1, <2>2, <4>1, <4>2, TimelyFirst
      <4> QED
        BY <3>2, <4>3
    <3> QED
      BY <2>2, <2>3, <3>1, <3>3 DEF NodesTimely, Timely, x, y
  <2> QED
    BY <2>5, <2>6
<1>14. CASE RelayHeartbeatSlot
  <2>1. Serve(Relay) /\ y <= clock /\ clock < y + SlotMs
    BY <1>1, <1>14, WorkOf, SlotOfWork DEF y
  <2>2. /\ y + First <= clock /\ clock' = clock
        /\ Due(Relay, y) /\ ~ Due(Relay, y)' /\ to_gateway = {}
    BY <1>1, <1>8, <2>1, ServesIn, GatewayAirClear DEF y
  <2>3. \A f \in to_gateway \cup to_gateway' : ~ SentIn(f, x)
    BY <1>1, <1>3, <2>2, Figures DEF SentIn, x, y
  <2>4. /\ AwaitForward' = FALSE /\ AwaitForward = FALSE /\ AwaitBeat = TRUE
        /\ last_seen' = last_seen
    <3>1. ~ AwaitForward' /\ ~ AwaitForward
      BY <1>1, <2>2, <2>3, Figures DEF AwaitForward, Due, OnAir, SentIn, x, y
    <3>2. AwaitBeat /\ last_seen' = last_seen
      BY <1>14, <2>2 DEF AwaitBeat, RelayHeartbeatSlot, gatewayVars, y
    <3> QED
      BY <1>5, <3>1, <3>2
  <2>5. CASE \E fs \in Sent(Heartbeat, Delays, PresenceMask) :
                to_gateway' = to_gateway \cup fs
    <3>1. PICK fs \in Sent(Heartbeat, Delays, PresenceMask) :
             to_gateway' = to_gateway \cup fs
      BY <2>5
    <3>2. PICK f \in fs : \E d \in Delays \cup DataDelays : f.left = d
      BY SentOne
    <3>3. f \in to_gateway' /\ SentIn(f, y)
      BY <1>1, <1>8, <2>1, <3>1, <3>2, SendsNow DEF Sends
    <3>4. AwaitBeat'
      BY <2>2, <3>3 DEF AwaitBeat, OnAir, SentIn, y
    <3> QED
      BY <1>5, <1>10, <1>12, <1>14, <2>1, <2>4, <3>4 DEF Next
  <2>6. CASE Lost /\ to_gateway' = to_gateway
    <3>1. ~ AwaitBeat'
      BY <2>2, <2>6 DEF AwaitBeat, OnAir, y
    <3>2. losses.since >= 7 * SlotMs /\ losses'.since = 0
      BY <1>1, <1>2, <2>6 DEF Lost, TypeOK
    <3>3. ASSUME NEW n \in Tracked, last_seen[n] # None
          PROVE  AfterBoth(last_seen[n], clock, 0, x, y)
      <4>1. Between(last_seen[n], clock, losses.since, x, y)
        BY <2>4, <3>3 DEF NodesTimely, Timely, x, y
      <4>2. last_seen[n] \in Nat
        BY <1>7, <3>3
      <4> QED
        BY <1>1, <1>6, <1>7, <2>1, <2>2, <3>2, <4>1, <4>2, TimelySecond
    <3> QED
      BY <2>2, <2>4, <3>1, <3>2, <3>3 DEF NodesTimely, Timely, x, y
  <2> QED
    BY <1>14, <2>5, <2>6 DEF RelayHeartbeatSlot
<1>15. CASE RelayRetrySlot
  <2>1. Serve(Relay) /\ 4 * SlotMs <= clock /\ clock < 4 * SlotMs + SlotMs
    BY <1>1, <1>15, WorkOf, SlotOfWork
  <2>2. 4 * SlotMs + First <= clock /\ clock' = clock
    BY <1>1, <2>1, ServesIn, SlotSum
  <2>3. \A f \in to_gateway \cup to_gateway' : ~ SentIn(f, x)
    BY <1>1, <1>3, <2>2, Figures DEF SentIn, x
  <2>4. ~ AwaitForward /\ ~ AwaitForward'
    BY <1>1, <2>2, <2>3, Figures DEF AwaitForward, Due, OnAir, SentIn, x
  <2>5. AwaitBeat /\ AwaitBeat'
    BY <1>1, <2>1, <2>2, Figures DEF AwaitBeat, Due
  <2>6. last_seen' = last_seen
    BY <1>15 DEF RelayRetrySlot, gatewayVars
  <2> QED
    BY <1>5, <1>10, <1>12, <1>15, <2>1, <2>4, <2>5, <2>6 DEF Next
<1>16. CASE SensorSlot \/ SensorRetrySlot \/ SensorHeartbeatSlot \/ RelayRx \/ GatewayPoll
  <2>1. to_gateway' = to_gateway /\ last_seen' = last_seen
    BY <1>16 DEF SensorSlot, SensorRetrySlot, SensorHeartbeatSlot, RelayRx, GatewayPoll,
                 frameVars, gatewayVars
  <2>2. clock' = clock /\ (Relay \in served' <=> Relay \in served)
    BY <1>16, WorkOf, Roles DEF Serve
  <2>3. AwaitForward' = AwaitForward /\ AwaitBeat' = AwaitBeat
    BY <1>5, <2>1, <2>2 DEF AwaitForward, AwaitBeat, Due, OnAir, SentIn
  <2>4. ~ Advance
    BY <1>1, <2>2, TickTime, Figures
  <2> QED
    BY <1>10, <1>16, <2>1, <2>3, <2>4 DEF Next
<1>17. CASE GatewayRxData \/ GatewayRxHeartbeat
  <2>1. PICK f \in to_gateway :
           /\ f.left = 0
           /\ \/ RecordSeen(Tracked)
              \/ f.frame_type = Heartbeat /\ RecordSeen(f.presence)
    BY <1>17 DEF GatewayRxData, GatewayRxHeartbeat, Arrives
  <2>2. clock' = clock /\ served' = served
    BY <1>17, WorkOf
  <2>3. CASE RecordSeen(Tracked)
    BY <1>11, <2>1, <2>2, <2>3
  <2>4. CASE f.frame_type = Heartbeat /\ RecordSeen(f.presence)
    <3>1. Relay \in f.presence
      BY <1>1, <2>4, Roles DEF ToGatewayAir, GatewayFrame
    <3>2. Sensor \in f.presence \/ last_seen[Sensor] = None
      BY <2>4 DEF HeartbeatsTell
    <3>3. \A n \in Tracked : n \in f.presence \/ last_seen[n] = None
      BY <3>1, <3>2 DEF Tracked
    <3> QED
      BY <1>11, <2>1, <2>2, <2>4, <3>3
  <2> QED
    BY <2>1, <2>3, <2>4
<1>18. CASE GatewayRxAlarm
  <2>1. PICK f \in to_gateway :
           /\ f.left = 0 /\ f.frame_type = Alarm /\ to_gateway' = to_gateway \ {f}
           /\ \/ RecordSeen(Tracked)
              \/ pending_ack.applied /\ UNCHANGED gatewayVars
    BY <1>18 DEF GatewayRxAlarm, Arrives
  <2>2. clock' = clock /\ served' = served
    BY <1>18, WorkOf
  <2>3. CASE RecordSeen(Tracked)
    BY <1>11, <2>1, <2>2, <2>3
  <2>4. CASE pending_ack.applied /\ UNCHANGED gatewayVars
    <3>1. SentIn(f, 4 * SlotMs)
      BY <1>1, <2>1, <2>4, Roles DEF ToGatewayAir, GatewayFrame, Sends
    <3>2. ~ SentIn(f, x) /\ ~ SentIn(f, y)
      BY <1>1, <1>3, <3>1, Figures DEF SentIn, x, y
    <3>3. /\ OnAir(to_gateway, x)' <=> OnAir(to_gateway, x)
          /\ OnAir(to_gateway, y)' <=> OnAir(to_gateway, y)
      BY <2>1, <2>2, <3>2 DEF OnAir, SentIn, x, y
    <3>4. AwaitForward' = AwaitForward /\ AwaitBeat' = AwaitBeat
      BY <1>5, <2>2, <3>3 DEF AwaitForward, AwaitBeat, Due, x, y
    <3>5. ~ Advance
      BY <1>1, <2>2, TickTime, Figures
    <3> QED
      BY <1>10, <1>18, <2>4, <3>4, <3>5 DEF Next, gatewayVars
  <2> QED
    BY <2>1, <2>3, <2>4
<1>19. CASE UNCHANGED vars
  BY <1>19 DEF vars, NodesTimely, AwaitForward, AwaitBeat, Due, OnAir, SentIn
<1> QED
  BY <1>9, <1>13, <1>14, <1>15, <1>16, <1>17, <1>18, <1>19 DEF Next

LEMMA LossInit == Init => AirInv /\ LossInv
<1> SUFFICES ASSUME Init PROVE AirInv /\ LossInv
  OBVIOUS
<1>1. ToRelayAir /\ ToGatewayAir /\ HeartbeatsTell
  BY DEF Init, ToRelayAir, ToGatewayAir, HeartbeatsTell
<1>2. Known /\ SensorTimely /\ NodesTimely
  BY Roles DEF Init, Known, SensorTimely, NodesTimely, Online, Offline
<1>3. AwaitSample
  BY Figures DEF Init, AwaitSample, Due
<1> QED
  BY <1>1, <1>2, <1>3, NewsInit DEF AirInv, LossInv, ToForward

LEMMA LossStep == AirInv /\ LossInv /\ [Next]_vars => (AirInv /\ LossInv)'
<1> SUFFICES ASSUME AirInv, LossInv, [Next]_vars PROVE AirInv' /\ LossInv'
  OBVIOUS
<1>1. AirInv'
  BY IInvStep, ToRelayStep, ToGatewayStep, KnownStep DEF AirInv
<1>2. LossesRare' <=> LossesRare
  BY SameLosses DEF AirInv, IInv
<1>3. CASE LossesRare
  BY <1>1, <1>3, SensorTimelyStep, NodesTimelyStep, ToForwardStep, HeartbeatsTellStep
     DEF LossInv
<1>4. CASE ~ LossesRare
  BY <1>1, <1>2, <1>4 DEF LossInv
<1> QED
  BY <1>3, <1>4

\* What the gateway awaits it has not been awaiting for long: its sender works
\* in the window, and what is sent is handled in time.
LEMMA AwaitTime ==
    ASSUME AirInv, NEW start \in {3 * SlotMs, 5 * SlotMs},
           Due(Relay, start) \/ OnAir(to_gateway, start)
    PROVE  clock <= start + Last + Top
<1>1. /\ clock \in 0 .. SuperframeMs - 1 /\ clock \in Nat
      /\ \A f \in to_gateway : f.left \in Nat
  BY Now DEF AirInv, IInv, TypeOK, Air
<1>2. start \in Slots /\ start \in Nat
  BY SlotSum
<1>3. CASE Due(Relay, start)
  <2>1. CASE clock < start
    BY <1>1, <1>2, <2>1, Figures
  <2>2. CASE start <= clock /\ clock < start + SlotMs /\ Relay \notin served
    <3>1. SlotElapsed(clock) = clock - start
      BY <1>1, <1>2, <2>2, SlotBounds
    <3>2. slot = 3 \/ slot = 5
      BY <1>1, <2>2, SlotBounds, Figures
    <3>3. ~ (SlotElapsed(clock) > Last)
      BY <2>2, <3>2, Roles DEF AirInv, IInv, ServedInWindow
    <3> QED
      BY <1>1, <1>2, <3>1, <3>3, Figures
  <2> QED
    BY <1>1, <1>2, <1>3, <2>1, <2>2 DEF Due
<1>4. CASE OnAir(to_gateway, start)
  <2>1. PICK f \in to_gateway : SentIn(f, start)
    BY <1>4 DEF OnAir
  <2>2. PICK s \in Slots : Sends(f, s)
    BY AirSlots DEF AirInv
  <2>3. s = start
    BY <1>1, <1>2, <2>1, <2>2, SlotSum, Figures DEF Sends, SentIn
  <2> QED
    BY <1>1, <1>2, <2>2, <2>3, Figures DEF Sends
<1> QED
  BY <1>3, <1>4

\* When the jitter is covered, whomever the gateway knows it has seen in time,
\* at every moment.
LEMMA SeenRecently ==
    ASSUME AirInv, NodesTimely, JitterCovered, NEW n \in Tracked, last_seen[n] # None
    PROVE  Recent(last_seen[n])
<1>1. TypeOK /\ clock \in 0 .. 8 * SlotMs - 1
  BY SlotSum DEF AirInv, IInv, TypeOK
<1>2. last_seen[n] \in Nat
  BY <1>1, AgeFacts
<1>3. /\ AwaitForward => clock <= 3 * SlotMs + Last + Top
      /\ AwaitBeat => clock <= 5 * SlotMs + Last + Top
  BY AwaitTime DEF AwaitForward, AwaitBeat
<1>4. Last - First + Top - Quick <= ActiveMs
  BY DEF JitterCovered, First, Last, Quick, Top
<1>5. CASE AwaitForward
  <2>1. BeforeBoth(last_seen[n], clock, losses.since, 3 * SlotMs, 5 * SlotMs)
    BY <1>5 DEF NodesTimely, Timely
  <2> QED
    BY <1>1, <1>2, <1>3, <1>4, <1>5, <2>1, StartFacts, Figures DEF BeforeBoth, Recent
<1>6. CASE ~ AwaitForward /\ AwaitBeat
  <2>1. Between(last_seen[n], clock, losses.since, 3 * SlotMs, 5 * SlotMs)
    BY <1>6 DEF NodesTimely, Timely
  <2> QED
    BY <1>1, <1>2, <1>3, <1>4, <1>6, <2>1, StartFacts, Figures DEF Between, Recent
<1>7. CASE ~ AwaitForward /\ ~ AwaitBeat
  <2>1. AfterBoth(last_seen[n], clock, losses.since, 3 * SlotMs, 5 * SlotMs)
    BY <1>7 DEF NodesTimely, Timely
  <2> QED
    BY <1>1, <1>2, <2>1, StartFacts, Figures DEF AfterBoth, Recent
<1> QED
  BY <1>5, <1>6, <1>7

\* One lost frame in a superframe makes the gateway report nobody missing, at
\* whatever moments it polls: the timeout of GatewayHeartbeatState, for every
\* schedule and every jitter that the width of the window covers.
THEOREM OneLossCorrect == Spec => OneLossTolerated
<1> DEFINE Reported ==
              LossesRare /\ JitterCovered => \A n \in Tracked :
                  last_reported[n] = Online => last_reported'[n] = Online
<1>1. AirInv /\ LossInv /\ [Next]_vars => [Reported]_vars
  <2> SUFFICES ASSUME AirInv, LossInv, Next, LossesRare, JitterCovered,
                      NEW n \in Tracked, last_reported[n] = Online
               PROVE  last_reported'[n] = Online
    OBVIOUS
  <2>1. /\ TypeOK /\ IInv /\ ToGatewayAir /\ Known /\ NodesTimely /\ HeartbeatsTell
        /\ HeartbeatTimeout \in Nat
    BY StartFacts DEF AirInv, IInv, LossInv
  <2>2. last_seen[n] # None /\ last_seen[Relay] # None
    BY <2>1, Roles DEF Known, Tracked
  <2>3. ASSUME NEW seen, Recent(seen[Relay]), Recent(seen[n])
        PROVE  Status(seen)[n] = Online
    BY <2>3 DEF Status
  <2>4. CASE GatewayPoll
    <3>1. last_reported' = Status(last_seen)
      BY <2>4 DEF GatewayPoll
    <3>2. Recent(last_seen[Relay]) /\ Recent(last_seen[n])
      BY <2>1, <2>2, SeenRecently, Roles
    <3> QED
      BY <2>3, <3>1, <3>2
  <2>5. ASSUME NEW nodes, RecordSeen(nodes), Relay \in nodes, n \in nodes
        PROVE  last_reported'[n] = Online
    <3>1. last_seen'[Relay] = 0 /\ last_seen'[n] = 0
      BY <2>1, <2>5, SeenNow, Roles
    <3>2. Recent(0)
      BY <2>1, AgeFacts DEF Recent
    <3> QED
      BY <2>3, <2>5, <3>1, <3>2 DEF RecordSeen
  <2>6. CASE GatewayRxData
    BY <2>5, <2>6, Roles DEF GatewayRxData
  <2>7. CASE GatewayRxAlarm
    BY <2>5, <2>7, Roles DEF GatewayRxAlarm, gatewayVars
  <2>8. CASE GatewayRxHeartbeat
    <3>1. PICK f \in to_gateway : f.frame_type = Heartbeat /\ RecordSeen(f.presence)
      BY <2>8 DEF GatewayRxHeartbeat, Arrives
    <3>2. Relay \in f.presence
      BY <2>1, <3>1, Roles DEF ToGatewayAir, GatewayFrame
    <3>3. Sensor \in f.presence \/ last_seen[Sensor] = None
      BY <2>1, <3>1 DEF HeartbeatsTell
    <3>4. n \in f.presence
      BY <2>2, <3>2, <3>3 DEF Tracked
    <3> QED
      BY <2>5, <3>1, <3>2, <3>4
  <2>9. CASE last_reported' = last_reported
    BY <2>9
  <2>10. Advance \/ SensorSlot \/ SensorRetrySlot \/ SensorHeartbeatSlot \/ RelaySlot
           \/ RelayRetrySlot \/ RelayHeartbeatSlot \/ RelayRx
           => last_reported' = last_reported
    BY DEF Advance, SensorSlot, SensorRetrySlot, SensorHeartbeatSlot, RelaySlot,
           RelayRetrySlot, RelayHeartbeatSlot, RelayRx, gatewayVars
  <2> QED
    BY <2>4, <2>6, <2>7, <2>8, <2>9, <2>10 DEF Next
<1> QED
  BY <1>1, LossInit, LossStep, PTL DEF Spec, OneLossTolerated
=============================================================================
