------------------------------ MODULE Presence ------------------------------
(***************************************************************************)
(* Who is there: the relay remembers when it last heard the sensor, and    *)
(* says so in its heartbeat; the gateway remembers when it last heard of   *)
(* either, and reports every change (RelayHeartbeatState,                  *)
(* GatewayHeartbeatState).  News of the sensor are heartbeats, and DATA    *)
(* and ALARM as forwarded, however late.                                   *)
(*                                                                         *)
(* All nodes are joined and synced, their clocks are right and they        *)
(* service every slot.  The unit of time is free (TdmaSchedule); points in *)
(* time are kept as the time since.  Of the data path (AlarmPath) only     *)
(* that is kept which decides when the gateway hears something: what waits *)
(* at the relay, what is retransmitted, and what the gateway would drop as *)
(* a duplicate.                                                            *)
(***************************************************************************)
EXTENDS TdmaSchedule

CONSTANTS
    None,
    MaxAttempts,          \* transmissions of an ALARM
    MaxForwardPerSlot,    \* DATA frames the relay forwards in one slot
    RelayForwardCapacity, \* capacity of the relay's DATA buffer
    Starts,               \* how far into a slot a node may begin its work
    Delays,               \* from there until a frame sent once is handled
    DataDelays,           \* the same for DATA, by its first or second copy
    LossGaps              \* least times between two losses (0: any frame is lost)

\* An ALARM the relay heard in slot 4 waits for slot 3, and its last
\* retransmission is in slot 4, MaxAttempts superframes after it was heard.
LongestHold == MaxAttempts * SuperframeMs

Largest(S) == CHOOSE x \in S : \A y \in S : y <= x
Least(S)   == CHOOSE x \in S : \A y \in S : x <= y
Jitter     == Largest(Starts) - Least(Starts) + Largest(Delays) - Least(Delays)

\* From hearing the sensor until the gateway no longer reports it ONLINE: as
\* news it may come as late as that, and the next poll is in the next slot.
StaleLimit == LongestHold + Jitter + HeartbeatTimeout + SlotMs + Largest(Starts)

\* An ALARM is sent more than once; a frame sent in one slot is handled before
\* anybody works in the next one.
ASSUME PresenceAssumption ==
    /\ None \notin Int
    /\ MaxAttempts \in Nat \ {0, 1}
    /\ MaxForwardPerSlot \in Nat \ {0} /\ RelayForwardCapacity \in Nat \ {0}
    /\ Starts # {} /\ Starts \subseteq GuardBeforeMs .. ActiveEnd - 1
    /\ Delays # {} /\ Delays \subseteq Nat \ {0}
    /\ DataDelays # {} /\ DataDelays \subseteq Nat
    /\ \A d \in Delays, e \in DataDelays : d < e
    /\ \A e \in DataDelays : Largest(Starts) + e < SlotMs + Least(Starts)
    /\ LossGaps # {} /\ LossGaps \subseteq Nat

VARIABLES
    clock,          \* the gateway's time, modulo a superframe
    served,         \* nodes that have done their work of this slot
    to_relay,       \* frames on their way from the sensor
    to_gateway,     \* frames on their way from the relay
    sensor_retry,   \* sensor: an ALARM the relay has not heard is pending
    relay_forward,  \* relay: how many DATA frames are buffered
    alarm_waiting,  \* relay: whether an ALARM waits for the relay slot
    pending_ack,    \* relay: PendingAck
    sensor_seen,    \* relay: sensor_last_seen_ms
    last_seen,      \* gateway: relay_last_seen_ms and sensor_last_seen_ms
    last_reported,  \* gateway: last_reported
    losses          \* least time between two losses, and time since the last

frameVars   == <<to_relay, to_gateway, losses>>
relayVars   == <<relay_forward, alarm_waiting, pending_ack, sensor_seen>>
gatewayVars == <<last_seen, last_reported>>
vars == <<clock, served, to_relay, to_gateway, sensor_retry, relay_forward,
          alarm_waiting, pending_ack, sensor_seen, last_seen, last_reported,
          losses>>

Tracked == {Relay, Sensor}

Online  == "online"
Offline == "offline"
Unknown == "unknown"

Ages(limit)     == 0 .. limit + 1 \cup {None}
Older(a, limit) == IF a = None \/ a > limit THEN a ELSE a + 1

\* left is the time until the frame is handled, presence the mask of the relay's
\* heartbeat.
Air == [frame_type : {Data, Alarm, Heartbeat}, presence : SUBSET Tracked,
        left : 0 .. Largest(DataDelays)]

NoPending == [attempts |-> 0, age |-> 0, applied |-> FALSE]

TypeOK ==
    /\ clock \in 0 .. SuperframeMs - 1
    /\ served \subseteq Node
    /\ to_relay \subseteq Air /\ to_gateway \subseteq Air
    /\ sensor_retry \in BOOLEAN
    /\ relay_forward \in 0 .. RelayForwardCapacity
    /\ alarm_waiting \in BOOLEAN
    /\ pending_ack \in [attempts : 0 .. MaxAttempts, age : 0 .. RetryDelayMs,
                        applied : BOOLEAN]
    /\ sensor_seen \in Ages(StaleLimit)
    /\ last_seen \in [Tracked -> Ages(HeartbeatTimeout)]
    /\ last_reported \in [Tracked -> {Online, Offline, Unknown}]
    /\ losses \in [gap : LossGaps, since : Nat] /\ losses.since <= losses.gap

Init ==
    /\ clock = 0
    /\ served = {}
    /\ to_relay = {} /\ to_gateway = {}
    /\ sensor_retry = FALSE
    /\ relay_forward = 0
    /\ alarm_waiting = FALSE
    /\ pending_ack = NoPending
    /\ sensor_seen = None
    /\ last_seen = [n \in Tracked |-> None]
    /\ last_reported = [n \in Tracked |-> Offline]
    /\ losses \in {[gap |-> g, since |-> g] : g \in LossGaps}
-----------------------------------------------------------------------------
slot == SlotAt(clock)

\* A node works once in a slot, at one of the moments in its window.
Works(n) ==
    CASE n = Gateway -> TRUE
      [] n = Relay   -> slot \in {RelaySlotNo, AlarmRetrySlotNo, RelayHeartbeatSlotNo}
      [] n = Sensor  -> slot \in {SensorSlotNo, SensorHeartbeatSlotNo}

Serve(n) ==
    /\ n \notin served
    /\ SlotElapsed(clock) \in Starts
    /\ served' = served \cup {n}
    /\ UNCHANGED clock

Min(a, b) == IF a < b THEN a ELSE b

\* One frame is sent: what of it is on its way then, if it is not lost.
Sent(frame_type, delays, presence) ==
    {{[frame_type |-> frame_type, presence |-> presence, left |-> d]} : d \in delays}

Kept == UNCHANGED losses
Lost == losses.since = losses.gap /\ losses' = [losses EXCEPT !.since = 0]

\* Time passes, unless there is something to be done first.
Advance ==
    /\ \A f \in to_relay \cup to_gateway : f.left > 0
    /\ SlotElapsed(clock) = Largest(Starts) => \A n \in Node : Works(n) => n \in served
    /\ clock' = (clock + 1) % SuperframeMs
    /\ served' = IF SlotElapsed(clock') = 0 THEN {} ELSE served
    /\ to_relay' = {[f EXCEPT !.left = @ - 1] : f \in to_relay}
    /\ to_gateway' = {[f EXCEPT !.left = @ - 1] : f \in to_gateway}
    /\ pending_ack' =
          IF pending_ack.attempts = 0 THEN pending_ack
          ELSE [pending_ack EXCEPT !.age = Min(@ + 1, RetryDelayMs)]
    /\ sensor_seen' = Older(sensor_seen, StaleLimit)
    /\ last_seen' = [n \in Tracked |-> Older(last_seen[n], HeartbeatTimeout)]
    /\ losses' = [losses EXCEPT !.since = Min(@ + 1, losses.gap)]
    /\ UNCHANGED <<sensor_retry, relay_forward, alarm_waiting, last_reported>>
-----------------------------------------------------------------------------
\* Slot 2, sensor: DATA, or ALARM, which replaces or cancels an older one.
SensorSlot ==
    /\ slot = SensorSlotNo
    /\ Serve(Sensor)
    /\ \/ /\ Kept
          /\ \E fs \in Sent(Data, DataDelays, {}) \cup Sent(Alarm, Delays, {}) :
                to_relay' = to_relay \cup fs
          /\ sensor_retry' = FALSE
       \/ /\ Lost
          /\ sensor_retry' \in BOOLEAN
          /\ UNCHANGED to_relay
    /\ UNCHANGED <<to_gateway, relayVars, gatewayVars>>

\* Slot 4, sensor: the ALARM again, when two slots have passed and the alarm
\* has not cleared.  One the relay has heard it ignores.
SensorRetrySlot ==
    /\ slot = AlarmRetrySlotNo
    /\ sensor_retry
    /\ Serve(Sensor)
    /\ \/ /\ Kept
          /\ \E fs \in Sent(Alarm, Delays, {}) : to_relay' = to_relay \cup fs
          /\ sensor_retry' = FALSE
       \/ /\ Lost
          /\ UNCHANGED <<to_relay, sensor_retry>>
    /\ UNCHANGED <<to_gateway, relayVars, gatewayVars>>

\* Slot 6, sensor.
SensorHeartbeatSlot ==
    /\ slot = SensorHeartbeatSlotNo
    /\ Serve(Sensor)
    /\ \/ /\ Kept
          /\ \E fs \in Sent(Heartbeat, Delays, {Sensor}) : to_relay' = to_relay \cup fs
       \/ /\ Lost
          /\ UNCHANGED to_relay
    /\ UNCHANGED <<to_gateway, sensor_retry, relayVars, gatewayVars>>

\* Slot 3, relay: the ALARM, then buffered DATA.
RelaySlot ==
    LET count == Min(relay_forward, MaxForwardPerSlot)
    IN  /\ slot = RelaySlotNo
        /\ Serve(Relay)
        /\ \E alarm \in {{}} \cup Sent(Alarm, Delays, {}),
              data \in {{}} \cup Sent(Data, DataDelays, {}) :
              /\ alarm # {} => alarm_waiting
              /\ data # {} => count > 0
              /\ to_gateway' = to_gateway \cup alarm \cup data
              /\ IF (alarm = {} /\ alarm_waiting) \/ (data = {} /\ count > 0)
                 THEN Lost ELSE Kept
        /\ relay_forward' = relay_forward - count
        /\ alarm_waiting' = FALSE
        /\ pending_ack' = IF alarm_waiting THEN [NoPending EXCEPT !.attempts = 1]
                          ELSE pending_ack
        /\ UNCHANGED <<to_relay, sensor_seen, sensor_retry, gatewayVars>>

\* Mutant of MayRetry: one transmission too many.
MayRetryOnceMore(due) == pending_ack.attempts \in 1 .. MaxAttempts /\ due

\* PendingAck.next_retry.
MayRetry(due) == pending_ack.attempts \in 1 .. MaxAttempts - 1 /\ due

\* Slot 4, relay: retransmit, or give up after MaxAttempts.
RelayRetrySlot ==
    LET due == pending_ack.age >= RetryDelayMs
    IN  /\ slot = AlarmRetrySlotNo
        /\ Serve(Relay)
        /\ IF MayRetry(due)
           THEN /\ pending_ack' = [pending_ack EXCEPT !.attempts = @ + 1, !.age = 0]
                /\ \/ /\ Kept
                      /\ \E fs \in Sent(Alarm, Delays, {}) :
                            to_gateway' = to_gateway \cup fs
                   \/ /\ Lost
                      /\ UNCHANGED to_gateway
           ELSE /\ pending_ack' = IF pending_ack.attempts = MaxAttempts /\ due
                                  THEN NoPending ELSE pending_ack
                /\ Kept /\ UNCHANGED to_gateway
        /\ UNCHANGED <<to_relay, relay_forward, alarm_waiting, sensor_seen>>
        /\ UNCHANGED <<sensor_retry, gatewayVars>>

Recent(age) == age # None /\ age <= HeartbeatTimeout

\* Mutant of PresenceMask: what was heard once counts for ever.
PresenceMaskEver == {Relay} \cup IF sensor_seen # None THEN {Sensor} ELSE {}

\* RelayHeartbeatState.presence_mask.
PresenceMask == {Relay} \cup IF Recent(sensor_seen) THEN {Sensor} ELSE {}

\* Slot 5, relay.
RelayHeartbeatSlot ==
    /\ slot = RelayHeartbeatSlotNo
    /\ Serve(Relay)
    /\ \/ /\ Kept
          /\ \E fs \in Sent(Heartbeat, Delays, PresenceMask) :
                to_gateway' = to_gateway \cup fs
       \/ /\ Lost
          /\ UNCHANGED to_gateway
    /\ UNCHANGED <<to_relay, sensor_retry, relayVars, gatewayVars>>
-----------------------------------------------------------------------------
Arrives(link, frame_types) == {f \in link : f.left = 0 /\ f.frame_type \in frame_types}

\* Relay: a frame of the sensor, whatever its type, is a sign of life.
RelayRx ==
    \E f \in Arrives(to_relay, {Data, Alarm, Heartbeat}) :
        /\ to_relay' = to_relay \ {f}
        /\ sensor_seen' = 0
        /\ alarm_waiting' = (alarm_waiting \/ f.frame_type = Alarm)
        /\ relay_forward' =
              IF f.frame_type = Data THEN Min(relay_forward + 1, RelayForwardCapacity)
              ELSE relay_forward
        /\ UNCHANGED <<clock, served, to_gateway, losses, pending_ack>>
        /\ UNCHANGED <<sensor_retry, gatewayVars>>

\* GatewayHeartbeatState.status.
Status(seen) ==
    [n \in Tracked |->
        IF Recent(seen[Relay]) /\ Recent(seen[n]) THEN Online
        ELSE IF n = Sensor /\ ~Recent(seen[Relay]) /\ seen[n] # None THEN Unknown
        ELSE Offline]

\* Mutant of RecordSeen: only who was seen before is seen again.
RecordSeenAgain(nodes) ==
    /\ last_seen' = [n \in Tracked |->
          IF n \in nodes /\ last_seen[n] # None THEN 0 ELSE last_seen[n]]
    /\ last_reported' = Status(last_seen')

\* record_relay_heartbeat, record_relayed_sensor_frame: news of some nodes, and
\* the report of what changes with them.
RecordSeen(nodes) ==
    /\ last_seen' = [n \in Tracked |-> IF n \in nodes THEN 0 ELSE last_seen[n]]
    /\ last_reported' = Status(last_seen')

\* Gateway, DATA: its number becomes the last one applied.
GatewayRxData ==
    \E f \in Arrives(to_gateway, {Data}) :
        /\ to_gateway' = to_gateway \ {f}
        /\ RecordSeen(Tracked)
        /\ pending_ack' = [pending_ack EXCEPT !.applied = FALSE]
        /\ UNCHANGED <<clock, served, to_relay, losses, sensor_retry>>
        /\ UNCHANGED <<relay_forward, alarm_waiting, sensor_seen>>

\* Gateway, ALARM: dropped if it is the last frame applied, else acknowledged;
\* the ACK ends the relay's retry or is lost.
GatewayRxAlarm ==
    \E f \in Arrives(to_gateway, {Alarm}) :
        /\ to_gateway' = to_gateway \ {f}
        /\ \/ /\ pending_ack.applied
              /\ Kept /\ UNCHANGED <<pending_ack, gatewayVars>>
           \/ /\ ~pending_ack.applied
              /\ RecordSeen(Tracked)
              /\ \/ Kept /\ pending_ack' = NoPending
                 \/ Lost /\ pending_ack' = [pending_ack EXCEPT !.applied = TRUE]
        /\ UNCHANGED <<clock, served, to_relay, sensor_retry>>
        /\ UNCHANGED <<relay_forward, alarm_waiting, sensor_seen>>

\* Gateway, HEARTBEAT of the relay.
GatewayRxHeartbeat ==
    \E f \in Arrives(to_gateway, {Heartbeat}) :
        /\ to_gateway' = to_gateway \ {f}
        /\ RecordSeen(f.presence)
        /\ UNCHANGED <<clock, served, to_relay, losses, sensor_retry, relayVars>>

\* Gateway, top of the loop: poll_status_change.  The loop passes there in the
\* window of each slot, and besides whenever it wakes or has handled a frame.
GatewayPoll ==
    /\ Serve(Gateway) \/ UNCHANGED <<clock, served>>
    /\ last_reported' = Status(last_seen)
    /\ UNCHANGED <<last_seen, frameVars, sensor_retry, relayVars>>

Next ==
    \/ Advance
    \/ SensorSlot \/ SensorRetrySlot \/ SensorHeartbeatSlot
    \/ RelaySlot \/ RelayRetrySlot \/ RelayHeartbeatSlot
    \/ RelayRx \/ GatewayRxData \/ GatewayRxAlarm \/ GatewayRxHeartbeat \/ GatewayPoll

Spec == Init /\ [][Next]_vars

\* Time passes, and the executor polls every core_task in time.
FairSpec == Spec /\ WF_vars(Next)
-----------------------------------------------------------------------------
\* ONLINE means heard: the gateway never reports the sensor ONLINE when the
\* relay has not heard it for StaleLimit, whatever was lost, held back or
\* retransmitted in between (record_relayed_sensor_frame, presence_mask).
OnlineMeansHeard ==
    last_reported[Sensor] = Online => sensor_seen # None /\ sensor_seen <= StaleLimit

\* One loss at a time: not two within the superframe that the timeout covers.
LossesRare == losses.gap >= SuperframeMs - SlotMs

\* From slot to slot the handling of a frame shifts by at most what the timeout
\* allows beyond a superframe: nodes begin early enough in their windows, and
\* frames are handled soon enough.
JitterCovered ==
    Largest(Starts) - Least(Starts) + Largest(DataDelays) - Least(Delays) <= ActiveMs

\* A node that is there is not reported missing for one lost frame: as long as
\* losses are rare and the jitter is covered, who was once reported ONLINE stays
\* so, whenever the gateway polls (heartbeat_timeout_ms is a superframe and the
\* width of the window).
OneLossTolerated ==
    [][LossesRare /\ JitterCovered => \A n \in Tracked :
          last_reported[n] = Online => last_reported'[n] = Online]_vars

\* As long as losses are rare and the jitter is covered, both nodes are reported
\* ONLINE in the end and from then on: what is reported does not flap.
BothReported ==
    LossesRare /\ JitterCovered => <>[](\A n \in Tracked : last_reported[n] = Online)
=============================================================================
