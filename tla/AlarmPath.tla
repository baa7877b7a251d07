------------------------------ MODULE AlarmPath ------------------------------
(***************************************************************************)
(* The road of a sensor sample to the gateway's buzzer: the core_task of   *)
(* the three nodes (main.rs), the tasks it shares state with, and the      *)
(* radio between them, once every node is joined and synced.               *)
(*                                                                         *)
(* Each core_task is sequential: it either services the TDMA slot, once    *)
(* per slot, or handles one received frame.  Slot work and handlers of     *)
(* different nodes interleave freely, a frame may wait in rx while slots   *)
(* pass, every transmission may be lost, and a best-effort one arrives up  *)
(* to twice.  The relay's burst in its own slot is one step per frame,     *)
(* because each send is an await.                                          *)
(***************************************************************************)
EXTENDS PendingAck, Sequences

CONSTANTS
    SensorMaxSeq,         \* bound: highest sequence number the sensor hands out
    RelayMaxSeq,          \* bound: highest sequence number the relay hands out
    SeqModulus,           \* values of the u16 frame sequence number
    OriginSeqModulus,     \* values of the u16 sample sequence number
    CounterMax,           \* largest value of the saturating u32 counters
    RxDepth,              \* capacity of the RX_FRAMES channel
    AlarmDepth,           \* capacity of the ALARM_EVENTS channel
    RelayForwardCapacity, \* capacity of the relay's DATA buffer
    MaxForwardPerSlot,    \* DATA frames the relay forwards in one slot
    BestEffortTxRepeats,  \* transmissions of one DATA frame
    SyncQueued,           \* whether a SYNC may be, or not be, waiting in slot 1
    SampleSlots,          \* slots in which sensor_task may take a sample
    MissingSlots,         \* nodes that may let a slot pass unserviced
    Lagging               \* tasks that may fall behind by whole slots

\* core_task of each node, and buzzer_task.
Task == Node \cup {"buzzer_task"}

ASSUME NoneAssumption == None \notin Nat \cup {"on", "off"}
ASSUME MaxAttemptsAssumption == MaxAttempts \in Nat \ {0}
ASSUME SeqAssumption ==
    /\ SensorMaxSeq \in Nat /\ RelayMaxSeq \in Nat
    /\ SeqModulus \in Nat /\ SeqModulus > 2
    /\ OriginSeqModulus \in Nat \ {0} /\ CounterMax \in Nat
ASSUME DepthAssumption ==
    /\ RxDepth \in Nat /\ AlarmDepth \in Nat
    /\ RelayForwardCapacity \in Nat \ {0}
    /\ MaxForwardPerSlot \in Nat \ {0} /\ BestEffortTxRepeats \in Nat \ {0}
ASSUME PaceAssumption ==
    /\ SyncQueued \subseteq BOOLEAN /\ SampleSlots \subseteq Slot
    /\ MissingSlots \subseteq Node /\ Lagging \subseteq Task

VARIABLES
    slot,                  \* TDMA slot of the common gateway time
    last_tx_slot,          \* per node: the slot it serviced last
    rx,                    \* per node: RX_FRAMES
    seq,                   \* relay, sensor: DemoNode.seq
    data_seq,              \* sensor: DemoNode.data_seq
    last_data_seq,         \* gateway, relay: key of the last DATA/ALARM applied
    pending_ack,           \* relay, sensor: PendingAck
    alarm_latch,           \* sensor_task: AlarmLatch.active
    alarm_events,          \* ALARM_EVENTS, and the transition a blocked send holds
    sensor_alarm_active,   \* sensor core_task: alarm_active
    pending_alarm_forward, \* relay: the ALARM waiting for the relay slot
    relay_forward,         \* relay: DATA waiting for the relay slot
    forwarded_count,       \* relay: progress of the burst in its slot
    gateway_alarm_active,  \* gateway core_task
    buzzer_sig,            \* BUZZER_SIG
    buzzer,                \* the buzzer pin: TRUE when it sounds
    stats,                 \* gateway: GatewayStats
    slot_violations        \* per node: GatewayStats.slot_violations

clockVars   == <<slot, last_tx_slot>>
sampleVars  == <<alarm_latch, alarm_events>>
sensorVars  == <<data_seq, sensor_alarm_active>>
relayVars   == <<pending_alarm_forward, relay_forward, forwarded_count>>
gatewayVars == <<gateway_alarm_active, buzzer_sig, stats>>
vars == <<slot, last_tx_slot, rx, seq, data_seq, last_data_seq, pending_ack,
          alarm_latch, alarm_events, sensor_alarm_active, pending_alarm_forward,
          relay_forward, forwarded_count, gateway_alarm_active, buzzer_sig,
          buzzer, stats, slot_violations>>

Forwarder == {Relay, Sensor}   \* nodes that send upstream
Receiver  == {Gateway, Relay}  \* nodes that receive from below
Idle      == None              \* forwarded_count outside the relay's burst
Raised    == "raised"
Cleared   == "cleared"
On        == "on"
Off       == "off"

Seqs       == 0 .. SeqModulus - 1
OriginSeqs == 0 .. OriginSeqModulus - 1
Counter    == 0 .. CounterMax

(***************************************************************************)
(* Frames.  claimed is the slot of the frame's gateway_time_ms; origin_seq *)
(* is the sample's number, which forwarding preserves.  An ACK's own       *)
(* sequence number is never read by its receiver and is left out.  A frame *)
(* is only ever queued at the node it is addressed to: the others ignore   *)
(* it (apply_frame).                                                       *)
(***************************************************************************)
Upstream(n) ==    \* DATA and ALARM of n to its parent
    [src : {n}, dst : {Parent(n)}, frame_type : {Data, Alarm},
     seq : Seqs, claimed : Slot, origin_seq : OriginSeqs]
AckTo(n) ==
    [src : {Parent(n)}, dst : {n}, frame_type : {Ack},
     acked_seq : Seqs, acked_type : {Data, Alarm}]
Inbox(n) ==
    IF n = Gateway THEN Upstream(Relay)
    ELSE IF n = Relay THEN Upstream(Sensor) \cup AckTo(Relay)
    ELSE AckTo(Sensor)
Frame == Inbox(Gateway) \cup Inbox(Relay) \cup Inbox(Sensor)

Key(f)  == <<f.src, f.seq>>
Keys(n) == {n} \X Seqs

ASSUME NoneIsFresh == None \notin Frame \cup Keys(Relay) \cup Keys(Sensor)

Stats == [rx_data : Counter, rx_alarm : Counter, tx_ack : Counter,
          last_origin_seq : OriginSeqs \cup {None},
          origin_seq_gap_total : Counter]

ClockTypeOK ==
    /\ slot \in Slot
    /\ last_tx_slot \in [Node -> Slot \cup {None}]
RadioTypeOK ==
    /\ rx \in [Node -> Seq(Frame)]
    /\ \A n \in Node : rx[n] \in Seq(Inbox(n)) /\ Len(rx[n]) <= RxDepth
NumberTypeOK ==
    /\ seq \in [Forwarder -> Seqs]
    /\ data_seq \in OriginSeqs
    /\ last_data_seq \in [Receiver -> Keys(Relay) \cup Keys(Sensor) \cup {None}]
    /\ last_data_seq[Gateway] \in Keys(Relay) \cup {None}
    /\ last_data_seq[Relay] \in Keys(Sensor) \cup {None}
PendingTypeOK ==
    /\ pending_ack \in [Forwarder -> PendingAcks(Upstream(Relay) \cup Upstream(Sensor))]
    /\ \A n \in Forwarder : pending_ack[n] \in PendingAcks(Upstream(n))
SensorTypeOK ==
    /\ alarm_latch \in BOOLEAN
    /\ alarm_events \in Seq({Raised, Cleared})
    /\ Len(alarm_events) <= AlarmDepth + 1
    /\ sensor_alarm_active \in BOOLEAN
RelayTypeOK ==
    /\ pending_alarm_forward \in Upstream(Sensor) \cup {None}
    /\ relay_forward \in Seq(Upstream(Sensor))
    /\ Len(relay_forward) <= RelayForwardCapacity
    /\ forwarded_count \in {Idle} \cup 0 .. MaxForwardPerSlot - 1
    /\ forwarded_count # Idle => relay_forward # <<>>
GatewayTypeOK ==
    /\ gateway_alarm_active \in BOOLEAN
    /\ buzzer_sig \in {None, On, Off}
    /\ buzzer \in BOOLEAN
    /\ stats \in Stats
    /\ slot_violations \in [Node -> Counter]

TypeOK ==
    /\ ClockTypeOK /\ RadioTypeOK /\ NumberTypeOK /\ PendingTypeOK
    /\ SensorTypeOK /\ RelayTypeOK /\ GatewayTypeOK
-----------------------------------------------------------------------------
(***************************************************************************)
(* The state right after the shortest bootstrap: the sensor has sent its   *)
(* HELLO, the relay its HELLO and the sensor's JOIN_ACK, and the first     *)
(* superframe begins.                                                      *)
(***************************************************************************)
GatewayStatsNew ==
    [rx_data |-> 0, rx_alarm |-> 0, tx_ack |-> 0,
     last_origin_seq |-> None, origin_seq_gap_total |-> 0]

Init ==
    /\ slot = SyncSlotNo
    /\ last_tx_slot = [n \in Node |-> None]
    /\ rx = [n \in Node |-> <<>>]
    /\ seq = [n \in Forwarder |-> IF n = Relay THEN 2 ELSE 1]
    /\ data_seq = 0
    /\ last_data_seq = [n \in Receiver |-> None]
    /\ pending_ack = [n \in Forwarder |-> NoPending]
    /\ alarm_latch = FALSE
    /\ alarm_events = <<>>
    /\ sensor_alarm_active = FALSE
    /\ pending_alarm_forward = None
    /\ relay_forward = <<>>
    /\ forwarded_count = Idle
    /\ gateway_alarm_active = FALSE
    /\ buzzer_sig = None
    /\ buzzer = FALSE
    /\ stats = GatewayStatsNew
    /\ slot_violations = [n \in Node |-> 0]
-----------------------------------------------------------------------------
(***************************************************************************)
(* The radio.  A frame sent up to n times reaches its destination's queue  *)
(* that often or less; it is lost when the queue is full.                  *)
(***************************************************************************)
Copies(queue, n) ==
    IF Len(queue) + n <= RxDepth THEN 0 .. n ELSE 0 .. RxDepth - Len(queue)

Received(queue, f, n) == {queue \o [i \in 1 .. k |-> f] : k \in Copies(queue, n)}

\* DemoNode::next_seq; the guard is the bound on what the model hands out.
CanSend(n) == seq[n] < IF n = Relay THEN RelayMaxSeq ELSE SensorMaxSeq
NextSeq(n) == (seq[n] + 1) % SeqModulus
Bump(n)    == seq' = [seq EXCEPT ![n] = NextSeq(n)]

\* make_data, make_alarm, make_forwarded and make_ack.
MakeSample(frame_type, origin) ==
    [src |-> Sensor, dst |-> Parent(Sensor), frame_type |-> frame_type,
     seq |-> NextSeq(Sensor), claimed |-> slot, origin_seq |-> origin]

\* Mutant of MakeForwarded: the time stamp of the received frame is kept.
MakeForwardedAsStamped(f) ==
    [src |-> Relay, dst |-> Gateway, frame_type |-> f.frame_type,
     seq |-> NextSeq(Relay), claimed |-> f.claimed, origin_seq |-> f.origin_seq]

MakeForwarded(f) ==
    [src |-> Relay, dst |-> Gateway, frame_type |-> f.frame_type,
     seq |-> NextSeq(Relay), claimed |-> slot, origin_seq |-> f.origin_seq]

\* Mutant of MakeAck: it names the number expected next.
MakeAckNextExpected(n, f) ==
    [src |-> n, dst |-> f.src, frame_type |-> Ack,
     acked_seq |-> (f.seq + 1) % SeqModulus, acked_type |-> f.frame_type]

MakeAck(n, f) ==
    [src |-> n, dst |-> f.src, frame_type |-> Ack,
     acked_seq |-> f.seq, acked_type |-> f.frame_type]
-----------------------------------------------------------------------------
(***************************************************************************)
(* TDMA slots.  A node that follows the schedule services a slot once,     *)
(* when the active window is open and it has not done so (last_tx_slot).   *)
(* The sensor does so only with its ALARM_EVENTS drained, the relay only   *)
(* outside its burst.                                                      *)
(***************************************************************************)
Serve(n) ==
    /\ last_tx_slot[n] # slot
    /\ n = Sensor => alarm_events = <<>>
    /\ n = Relay => forwarded_count = Idle
    /\ last_tx_slot' = [last_tx_slot EXCEPT ![n] = slot]
    /\ UNCHANGED slot

\* The slots in which this module has work for a node.  In the others, its
\* heartbeat slot, the quiet slot and slots another node owns, the node sends
\* nothing modelled here.
WorkSlots(n) ==
    CASE n = Gateway -> {SyncSlotNo}
      [] n = Relay   -> {RelayControlSlotNo, RelaySlotNo, AlarmRetrySlotNo}
      [] n = Sensor  -> {SensorSlotNo, AlarmRetrySlotNo}

\* Nothing waits for the task: no frame or transition for the core_task of the
\* node t, no buzzer action for buzzer_task.
Settled(t) ==
    /\ t \in Node        => rx[t] = <<>>
    /\ t = Sensor        => alarm_events = <<>>
    /\ t = "buzzer_task" => buzzer_sig = None

(***************************************************************************)
(* The next slot begins.  Every node that never misses has done its work   *)
(* in this one, every task that never lags has run to its end.             *)
(* A slot without work is marked as serviced here, when it ends: nothing   *)
(* else happens in it, so no other order can be told apart.                *)
(***************************************************************************)
Tick ==
    /\ \A n \in Node \ MissingSlots :
          slot \in WorkSlots(n) => last_tx_slot[n] = slot
    /\ \A t \in Task \ Lagging : Settled(t)
    /\ forwarded_count = Idle
    /\ slot' = NextSlot(slot)
    /\ \E missed \in SUBSET MissingSlots :
          last_tx_slot' = [n \in Node |->
             IF n \in missed \/ slot \in WorkSlots(n) THEN last_tx_slot[n] ELSE slot]
    /\ pending_ack' = [n \in Forwarder |-> Aged(pending_ack[n])]
    /\ UNCHANGED <<rx, seq, last_data_seq, buzzer, slot_violations>>
    /\ UNCHANGED <<sampleVars, sensorVars, relayVars, gatewayVars>>

\* Mutant of GatewaySyncSlot: the buzzer is silenced also during an alarm.
GatewaySyncSlotAlwaysOff ==
    /\ slot = SyncSlotNo
    /\ Serve(Gateway)
    /\ buzzer_sig' = Off
    /\ UNCHANGED <<rx, seq, last_data_seq, pending_ack, buzzer, slot_violations>>
    /\ UNCHANGED <<sampleVars, sensorVars, relayVars, gateway_alarm_active, stats>>

(***************************************************************************)
(* Slot 0, gateway: after the SYNC broadcast, silence the buzzer again     *)
(* when no alarm is active.                                                *)
(***************************************************************************)
GatewaySyncSlot ==
    /\ slot = SyncSlotNo
    /\ Serve(Gateway)
    /\ buzzer_sig' = IF gateway_alarm_active THEN buzzer_sig ELSE Off
    /\ UNCHANGED <<rx, seq, last_data_seq, pending_ack, buzzer, slot_violations>>
    /\ UNCHANGED <<sampleVars, sensorVars, relayVars, gateway_alarm_active, stats>>

(***************************************************************************)
(* Slot 1, relay: a SYNC received since the last one, if any, is forwarded *)
(* and takes a sequence number.                                            *)
(***************************************************************************)
RelayControlSlot ==
    /\ slot = RelayControlSlotNo
    /\ Serve(Relay)
    /\ \E queued \in SyncQueued :
          IF queued THEN CanSend(Relay) /\ Bump(Relay) ELSE UNCHANGED seq
    /\ UNCHANGED <<rx, last_data_seq, pending_ack, buzzer, slot_violations>>
    /\ UNCHANGED <<sampleVars, sensorVars, relayVars, gatewayVars>>

(***************************************************************************)
(* Slot 2, sensor: ALARM (sent once, remembered until acknowledged) while  *)
(* the alarm is active, else DATA (best effort).                           *)
(***************************************************************************)
SensorSlot ==
    LET origin     == (data_seq + 1) % OriginSeqModulus
        frame_type == IF sensor_alarm_active THEN Alarm ELSE Data
        copies     == IF sensor_alarm_active THEN 1 ELSE BestEffortTxRepeats
        f          == MakeSample(frame_type, origin)
    IN  /\ slot = SensorSlotNo
        /\ Serve(Sensor)
        /\ CanSend(Sensor) /\ Bump(Sensor)
        /\ data_seq' = origin
        /\ pending_ack' = [pending_ack EXCEPT ![Sensor] = Remember(@, f)]
        /\ \E q \in Received(rx[Relay], f, copies) : rx' = [rx EXCEPT ![Relay] = q]
        /\ UNCHANGED <<last_data_seq, buzzer, slot_violations, sensor_alarm_active>>
        /\ UNCHANGED <<sampleVars, relayVars, gatewayVars>>

\* Mutants of BurstAfter: an empty buffer is not noticed; the first frame is
\* skipped, so nothing is ever forwarded.
BurstAfterUnchecked(count, buffer) ==
    IF count < MaxForwardPerSlot THEN count ELSE Idle
BurstAfterFirst(count, buffer) ==
    IF 0 < count /\ count < MaxForwardPerSlot /\ buffer # <<>> THEN count ELSE Idle

(***************************************************************************)
(* Slot 3, relay: first the ALARM waiting here, then at most               *)
(* MaxForwardPerSlot buffered DATA frames, one RelayForwardNext each.      *)
(***************************************************************************)
BurstAfter(count, buffer) ==
    IF count < MaxForwardPerSlot /\ buffer # <<>> THEN count ELSE Idle

RelaySlot ==
    /\ slot = RelaySlotNo
    /\ Serve(Relay)
    /\ IF pending_alarm_forward = None
       THEN UNCHANGED <<rx, seq, pending_ack>>
       ELSE LET f == MakeForwarded(pending_alarm_forward)
            IN  /\ CanSend(Relay) /\ Bump(Relay)
                /\ pending_ack' = [pending_ack EXCEPT ![Relay] = Remember(@, f)]
                /\ \E q \in Received(rx[Gateway], f, 1) :
                      rx' = [rx EXCEPT ![Gateway] = q]
    /\ pending_alarm_forward' = None
    /\ forwarded_count' = BurstAfter(0, relay_forward)
    /\ UNCHANGED <<relay_forward, last_data_seq, buzzer, slot_violations>>
    /\ UNCHANGED <<sampleVars, sensorVars, gatewayVars>>

RelayForwardNext ==
    LET f == MakeForwarded(Head(relay_forward))
    IN  /\ forwarded_count # Idle
        /\ CanSend(Relay) /\ Bump(Relay)
        /\ relay_forward' = Tail(relay_forward)
        /\ pending_ack' = [pending_ack EXCEPT ![Relay] = Remember(@, f)]
        /\ \E q \in Received(rx[Gateway], f, BestEffortTxRepeats) :
              rx' = [rx EXCEPT ![Gateway] = q]
        /\ forwarded_count' = BurstAfter(forwarded_count + 1, relay_forward')
        /\ UNCHANGED <<pending_alarm_forward, last_data_seq, buzzer, slot_violations>>
        /\ UNCHANGED <<clockVars, sampleVars, sensorVars, gatewayVars>>

(***************************************************************************)
(* Slot 4, relay and sensor: retransmit the pending frame as it was built, *)
(* or drop it after MaxAttempts transmissions.                             *)
(***************************************************************************)
Retry(n) ==
    \E due \in DueOutcomes(pending_ack[n]) :
        \/ /\ MayRetry(pending_ack[n], due)
           /\ pending_ack' = [pending_ack EXCEPT ![n] = Retried(@)]
           /\ LET f == pending_ack[n].frame
              IN  \E q \in Received(rx[f.dst], f, 1) :
                     rx' = [rx EXCEPT ![f.dst] = q]
        \/ /\ IsExhausted(pending_ack[n], due)
           /\ pending_ack' = [pending_ack EXCEPT ![n] = NoPending]
           /\ UNCHANGED rx
        \/ /\ ~MayRetry(pending_ack[n], due)
           /\ ~IsExhausted(pending_ack[n], due)
           /\ UNCHANGED <<pending_ack, rx>>

AlarmRetrySlot(n) ==
    /\ slot = AlarmRetrySlotNo
    /\ Serve(n)
    /\ Retry(n)
    /\ UNCHANGED <<seq, last_data_seq, buzzer, slot_violations>>
    /\ UNCHANGED <<sampleVars, sensorVars, relayVars, gatewayVars>>
-----------------------------------------------------------------------------
(***************************************************************************)
(* Received frames.  A node's core_task handles the head of its queue,     *)
(* between slots or after it woke in one; the relay not inside its burst.  *)
(***************************************************************************)
Receives(n, frame_types) ==
    /\ rx[n] # <<>>
    /\ Head(rx[n]).frame_type \in frame_types
    /\ n = Relay => forwarded_count = Idle

AcceptsFrameSlot(f) == SlotOwnerOk(f.src, f.frame_type, f.claimed)

\* Mutant of Applies: frames with the key of the last one applied pass too.
AppliesRepeated(n, f) == AcceptsFrameSlot(f)

\* What DemoNode.apply_frame turns into FrameAction::Data.
Applies(n, f) == AcceptsFrameSlot(f) /\ last_data_seq[n] # Key(f)

Dequeue(n) == [rx EXCEPT ![n] = Tail(@)]

\* A DATA or ALARM frame claiming a slot its sender does not own, or one with
\* the key of the last one applied.
RxIgnored(n) ==
    LET f == Head(rx[n])
    IN  /\ Receives(n, {Data, Alarm})
        /\ ~Applies(n, f)
        /\ rx' = Dequeue(n)
        /\ slot_violations' =
              IF AcceptsFrameSlot(f) THEN slot_violations
              ELSE [slot_violations EXCEPT ![n] = SaturatingAdd(@, 1, CounterMax)]
        /\ UNCHANGED <<seq, last_data_seq, pending_ack, buzzer>>
        /\ UNCHANGED <<clockVars, sampleVars, sensorVars, relayVars, gatewayVars>>

\* Relay, ALARM: acknowledge this hop, keep the frame for the relay slot.
RelayRxAlarm ==
    LET f == Head(rx[Relay])
    IN  /\ Receives(Relay, {Alarm})
        /\ Applies(Relay, f)
        /\ last_data_seq' = [last_data_seq EXCEPT ![Relay] = Key(f)]
        /\ CanSend(Relay) /\ Bump(Relay)
        /\ \E q \in Received(rx[f.src], MakeAck(Relay, f), 1) :
              rx' = [Dequeue(Relay) EXCEPT ![f.src] = q]
        /\ pending_alarm_forward' = f
        /\ UNCHANGED <<pending_ack, relay_forward, forwarded_count, buzzer, slot_violations>>
        /\ UNCHANGED <<clockVars, sampleVars, sensorVars, gatewayVars>>

\* Mutant of Buffered: a full buffer gives up its newest frame's place.
BufferedInFront(buffer, f) ==
    <<f>> \o IF Len(buffer) = RelayForwardCapacity THEN Tail(buffer) ELSE buffer

\* RelayForwardBuffer.remember: when full, the oldest frame makes room.
Buffered(buffer, f) ==
    Append(IF Len(buffer) = RelayForwardCapacity THEN Tail(buffer) ELSE buffer, f)

RelayRxData ==
    LET f == Head(rx[Relay])
    IN  /\ Receives(Relay, {Data})
        /\ Applies(Relay, f)
        /\ last_data_seq' = [last_data_seq EXCEPT ![Relay] = Key(f)]
        /\ relay_forward' = Buffered(relay_forward, f)
        /\ rx' = Dequeue(Relay)
        /\ UNCHANGED <<seq, pending_ack, pending_alarm_forward, forwarded_count>>
        /\ UNCHANGED <<buzzer, slot_violations>>
        /\ UNCHANGED <<clockVars, sampleVars, sensorVars, gatewayVars>>

\* Relay and sensor, ACK.
RxAck(n) ==
    LET f == Head(rx[n])
    IN  /\ Receives(n, {Ack})
        /\ pending_ack' =
              [pending_ack EXCEPT ![n] = ClearIfMatches(@, f.acked_seq, f.acked_type)]
        /\ rx' = Dequeue(n)
        /\ UNCHANGED <<seq, last_data_seq, buzzer, slot_violations>>
        /\ UNCHANGED <<clockVars, sampleVars, sensorVars, relayVars, gatewayVars>>

(***************************************************************************)
(* GatewayStats.record_rx_data: a distance above one between consecutive   *)
(* sample numbers counts as that many lost, less one.                      *)
(***************************************************************************)
OriginGap(last, origin) ==
    LET delta == WrappingSub(origin, last, OriginSeqModulus)
    IN  IF last # None /\ delta > 1 THEN delta - 1 ELSE 0

RecordRxData(f) ==
    LET one(kind) == IF f.frame_type = kind THEN 1 ELSE 0
        gap       == OriginGap(stats.last_origin_seq, f.origin_seq)
    IN  [rx_data  |-> SaturatingAdd(stats.rx_data, one(Data), CounterMax),
         rx_alarm |-> SaturatingAdd(stats.rx_alarm, one(Alarm), CounterMax),
         tx_ack   |-> SaturatingAdd(stats.tx_ack, one(Alarm), CounterMax),
         last_origin_seq |-> f.origin_seq,
         origin_seq_gap_total |->
            SaturatingAdd(stats.origin_seq_gap_total, gap, CounterMax)]

\* Gateway, ALARM: acknowledge it and sound the buzzer.
GatewayRxAlarm ==
    LET f == Head(rx[Gateway])
    IN  /\ Receives(Gateway, {Alarm})
        /\ Applies(Gateway, f)
        /\ last_data_seq' = [last_data_seq EXCEPT ![Gateway] = Key(f)]
        /\ \E q \in Received(rx[f.src], MakeAck(Gateway, f), 1) :
              rx' = [Dequeue(Gateway) EXCEPT ![f.src] = q]
        /\ gateway_alarm_active' = TRUE
        /\ buzzer_sig' = On
        /\ stats' = RecordRxData(f)
        /\ UNCHANGED <<seq, pending_ack, buzzer, slot_violations>>
        /\ UNCHANGED <<clockVars, sampleVars, sensorVars, relayVars>>

\* Gateway, DATA: an ordinary sample ends an active alarm.
GatewayRxData ==
    LET f == Head(rx[Gateway])
    IN  /\ Receives(Gateway, {Data})
        /\ Applies(Gateway, f)
        /\ last_data_seq' = [last_data_seq EXCEPT ![Gateway] = Key(f)]
        /\ rx' = Dequeue(Gateway)
        /\ gateway_alarm_active' = FALSE
        /\ buzzer_sig' = IF gateway_alarm_active THEN Off ELSE buzzer_sig
        /\ stats' = RecordRxData(f)
        /\ UNCHANGED <<seq, pending_ack, buzzer, slot_violations>>
        /\ UNCHANGED <<clockVars, sampleVars, sensorVars, relayVars>>
-----------------------------------------------------------------------------
(***************************************************************************)
(* The other tasks.  sensor_task reads the sensor and updates its latch;   *)
(* when the latch changes it sends the transition, and while that send is  *)
(* blocked on a full channel it does not sample.  The sample interval is   *)
(* one superframe, so the phase within it is almost constant: SampleSlots  *)
(* may restrict it.  core_task applies the transitions in order.           *)
(* buzzer_task drives the pin from the last signalled action.              *)
(*                                                                         *)
(* A reading is below the clearing thresholds, between these and the       *)
(* alarm thresholds, or above; or it fails, and the sample of an ordinary  *)
(* day stands in for it.                                                   *)
(***************************************************************************)
Reading == {"low", "between", "high", "failed"}

ReadSample(reading) == IF reading = "failed" THEN "low" ELSE reading

\* AlarmLatch.update: raised by a high sample, kept until a low one.
LatchUpdated(active, sample) == sample = "high" \/ (active /\ sample = "between")

\* Mutant of SensorSample: a transition is dropped when the channel is full.
SensorSampleDropping ==
    /\ slot \in SampleSlots
    /\ \E reading \in Reading :
          alarm_latch' = LatchUpdated(alarm_latch, ReadSample(reading))
    /\ alarm_events' =
          IF (alarm_latch' <=> alarm_latch) \/ Len(alarm_events) > AlarmDepth
          THEN alarm_events
          ELSE Append(alarm_events, IF alarm_latch THEN Cleared ELSE Raised)
    /\ UNCHANGED <<rx, seq, last_data_seq, pending_ack, buzzer, slot_violations>>
    /\ UNCHANGED <<clockVars, sensorVars, relayVars, gatewayVars>>

SensorSample ==
    /\ slot \in SampleSlots
    /\ Len(alarm_events) <= AlarmDepth
    /\ \E reading \in Reading :
          alarm_latch' = LatchUpdated(alarm_latch, ReadSample(reading))
    /\ alarm_events' =
          IF alarm_latch' <=> alarm_latch
          THEN alarm_events
          ELSE Append(alarm_events, IF alarm_latch THEN Cleared ELSE Raised)
    /\ UNCHANGED <<rx, seq, last_data_seq, pending_ack, buzzer, slot_violations>>
    /\ UNCHANGED <<clockVars, sensorVars, relayVars, gatewayVars>>

SensorAlarmTransition ==
    LET raised == Head(alarm_events) = Raised
    IN  /\ alarm_events # <<>>
        /\ alarm_events' = Tail(alarm_events)
        /\ sensor_alarm_active' = raised
        /\ pending_ack' =
              IF raised THEN pending_ack
              ELSE [pending_ack EXCEPT ![Sensor] = CancelIfMatches(@, Alarm)]
        /\ UNCHANGED <<rx, seq, last_data_seq, buzzer, slot_violations>>
        /\ UNCHANGED <<alarm_latch, data_seq>>
        /\ UNCHANGED <<clockVars, relayVars, gatewayVars>>

BuzzerTask ==
    /\ buzzer_sig # None
    /\ buzzer' = (buzzer_sig = On)
    /\ buzzer_sig' = None
    /\ UNCHANGED <<rx, seq, last_data_seq, pending_ack, slot_violations>>
    /\ UNCHANGED <<gateway_alarm_active, stats>>
    /\ UNCHANGED <<clockVars, sampleVars, sensorVars, relayVars>>
-----------------------------------------------------------------------------
SlotWork ==
    \/ GatewaySyncSlot
    \/ RelayControlSlot
    \/ SensorSlot
    \/ RelaySlot
    \/ RelayForwardNext
    \/ \E n \in Forwarder : AlarmRetrySlot(n)

Handle ==
    \/ \E n \in Receiver : RxIgnored(n)
    \/ \E n \in Forwarder : RxAck(n)
    \/ RelayRxAlarm
    \/ RelayRxData
    \/ GatewayRxAlarm
    \/ GatewayRxData

Tasks ==
    \/ SensorSample
    \/ SensorAlarmTransition
    \/ BuzzerTask

Next ==
    \/ Tick
    \/ SlotWork
    \/ Handle
    \/ Tasks

Spec == Init /\ [][Next]_vars
-----------------------------------------------------------------------------
(***************************************************************************)
(* Safety.                                                                 *)
(***************************************************************************)
\* The sensor only ever retransmits its newest frame, an ALARM, and only while
\* it holds the alarm active: clearing cancels the retry before any newer DATA
\* is sent, so a retry cannot overtake a newer sample on the first hop
\* (core_task drains ALARM_EVENTS before each slot).
SensorRetryIsCurrent ==
    LET p == pending_ack[Sensor]
    IN  HasPending(p) => /\ sensor_alarm_active
                         /\ p.frame.frame_type = Alarm
                         /\ p.frame.seq = seq[Sensor]
                         /\ p.frame.origin_seq = data_seq

\* The last sequence number of the sensor the relay applied, 0 before any.
LastApplied == IF last_data_seq[Relay] = None THEN 0 ELSE last_data_seq[Relay][2]

OrderedBetween(q, lo, hi) ==
    \A i \in 1 .. Len(q) : q[i].frame_type # Ack =>
        /\ lo <= q[i].seq /\ q[i].seq <= hi
        /\ \A j \in i + 1 .. Len(q) : q[j].frame_type # Ack => q[i].seq <= q[j].seq

\* The sensor's frames wait at the relay in the order of their numbers, none
\* older than the last one applied, although retransmissions (SensorSlot,
\* AlarmRetrySlot) and repeats put several copies on the air.
FirstHopQueue ==
    /\ LastApplied <= seq[Sensor]
    /\ OrderedBetween(rx[Relay], LastApplied, seq[Sensor])

\* Hence the relay applies the sensor's frames in the order they were sent,
\* each at most once, although it remembers only the last key it applied.
FirstHopStep ==
    last_data_seq'[Relay] # last_data_seq[Relay]
        => \/ last_data_seq[Relay] = None
           \/ last_data_seq[Relay][2] < last_data_seq'[Relay][2]
FirstHopInOrder == [][FirstHopStep]_vars

\* An ACK on its way to the sensor names no frame newer than the last one the
\* relay applied (make_ack copies the received frame's seq).  What it can clear
\* is the sensor's newest frame, so an ALARM it clears has been applied.
AckImpliesApplied ==
    \A i \in 1 .. Len(rx[Sensor]) : rx[Sensor][i].acked_seq <= LastApplied

\* The relay drops custody of an ALARM it acknowledged only by forwarding it
\* under its own retry, or for a newer ALARM; and it ends that retry only
\* on the gateway's ACK, for a newer ALARM, or after MaxAttempts sends.
AlarmCustodyStep ==
    LET p  == pending_ack[Relay]
        p2 == pending_ack'[Relay]
    IN  /\ (/\ pending_alarm_forward # None
            /\ pending_alarm_forward' # pending_alarm_forward)
           => IF pending_alarm_forward' # None
              THEN pending_alarm_forward.seq < pending_alarm_forward'.seq
              ELSE /\ HasPending(p2)
                   /\ p2.frame.origin_seq = pending_alarm_forward.origin_seq
        /\ (HasPending(p) /\ p2.frame # p.frame)
           => \/ p2.frame # None /\ p.frame.seq < p2.frame.seq
              \/ p2.frame = None /\ p.attempts = MaxAttempts
              \/ /\ p2.frame = None /\ rx[Relay] # <<>>
                 /\ \E f \in {Head(rx[Relay])} :
                       f.frame_type = Ack /\ f.acked_seq = p.frame.seq
AlarmCustody == [][AlarmCustodyStep]_vars

\* The pin, or the action buzzer_task is about to take from BUZZER_SIG, agrees
\* with the gateway's alarm flag although the two tasks share only the signal.
BuzzerConsistent ==
    /\ buzzer_sig = None => (buzzer <=> gateway_alarm_active)
    /\ buzzer_sig = On   => gateway_alarm_active
    /\ buzzer_sig = Off  => ~gateway_alarm_active

\* Replaying the queued transitions, in order, on core_task's flag gives
\* sensor_task's latch: no transition is lost when the channel is full.
AlarmEventsReplayLatch ==
    /\ alarm_events = <<>> => (alarm_latch <=> sensor_alarm_active)
    /\ alarm_events # <<>>
          => /\ alarm_latch <=> (alarm_events[Len(alarm_events)] = Raised)
             /\ sensor_alarm_active <=> (alarm_events[1] = Cleared)
    /\ \A i \in 1 .. Len(alarm_events) - 1 : alarm_events[i] # alarm_events[i + 1]

\* The relay's buffer is in the order the sensor sent the samples and holds
\* none newer than the last one applied, also when a full buffer has dropped its
\* oldest (remember) and while a burst is taking from it (RelayForwardNext).
RelayBufferOrdered ==
    \A i \in 1 .. Len(relay_forward) :
        /\ relay_forward[i].seq <= LastApplied
        /\ \A j \in i + 1 .. Len(relay_forward) :
              relay_forward[i].seq < relay_forward[j].seq

\* The numbers of the sensor's frames the relay has taken and not yet sent on.
Held ==
    {relay_forward[i].seq : i \in 1 .. Len(relay_forward)}
        \cup (IF pending_alarm_forward = None THEN {} ELSE {pending_alarm_forward.seq})

\* The relay's handlers, its buffer and its ALARM place implement Handover: no
\* sample is taken twice or out of order, none it acknowledged or buffered is
\* dropped but for a newer one, none it has sent on is taken up again.
Relaying == INSTANCE Handover WITH sent <- seq[Sensor], taken <- LastApplied, held <- Held
HandsOver == Relaying!Spec

\* No frame of a node that follows the schedule is refused by the slot gate:
\* retransmissions and forwarded frames included, however long they queue.
NoSlotViolations == \A n \in Node : slot_violations[n] = 0

\* A sensor that services every slot comes to its retry slot with an ALARM it
\* has sent only once: slot 2 of each superframe replaces or cancels what is
\* pending, so it never gives an ALARM up as exhausted.
SensorRetriesOnce ==
    (slot = AlarmRetrySlotNo /\ last_tx_slot[Sensor] # slot)
       => pending_ack[Sensor].attempts <= 1
-----------------------------------------------------------------------------
(***************************************************************************)
(* What the comments and documents say and the code does not do.           *)
(***************************************************************************)
\* "Any larger delta means that many periodic frames were lost in between"
\* (record_rx_data): no more samples are reported lost than were ever sent.
GapsAreLosses == stats.origin_seq_gap_total <= data_seq

\* The relay answers an ALARM of the sensor with an ACK "so it stops retrying
\* this hop" (handle_received_frame): also one retransmitted because the
\* first ACK was lost.  Making an ACK takes a sequence number.
AlarmAnsweredStep ==
    (/\ rx[Relay] # <<>> /\ Head(rx[Relay]).frame_type = Alarm
     /\ rx'[Relay] = Tail(rx[Relay]))
       => seq'[Relay] # seq[Relay]
EveryAlarmAnswered == [][AlarmAnsweredStep]_vars

\* The buzzer goes off when DATA reaches the gateway after the alarm cleared
\* (GOAL.md): the DATA that ends an alarm is newer than the ALARM it ends.
AlarmEndStep ==
    (gateway_alarm_active /\ ~gateway_alarm_active')
       => stats.last_origin_seq < stats'.last_origin_seq
AlarmEndsAfterClear == [][AlarmEndStep]_vars
-----------------------------------------------------------------------------
(***************************************************************************)
(* Liveness.  The executor is cooperative and every task of a node awaits  *)
(* in its loop, so each task that can run does (weak fairness), and the    *)
(* timer brings the next slot.  The radio loses frames but does not        *)
(* discriminate forever against fresh ones: a transmission that keeps      *)
(* being made with a key its receiver would apply arrives now and then     *)
(* (strong fairness).                                                      *)
(***************************************************************************)
CoreTask(n) ==
    CASE n = Gateway -> \/ GatewaySyncSlot \/ RxIgnored(Gateway)
                        \/ GatewayRxAlarm \/ GatewayRxData
      [] n = Relay   -> \/ RelayControlSlot \/ RelaySlot \/ RelayForwardNext
                        \/ AlarmRetrySlot(Relay) \/ RxIgnored(Relay) \/ RxAck(Relay)
                        \/ RelayRxAlarm \/ RelayRxData
      [] n = Sensor  -> \/ SensorSlot \/ AlarmRetrySlot(Sensor) \/ RxAck(Sensor)
                        \/ SensorAlarmTransition

ArrivesFresh(src) ==
    /\ Len(rx'[Parent(src)]) > Len(rx[Parent(src)])
    /\ last_data_seq[Parent(src)] # <<src, NextSeq(src)>>

Fairness ==
    /\ WF_vars(Tick)
    /\ \A n \in Node : WF_vars(CoreTask(n))
    /\ WF_vars(BuzzerTask)
    /\ SF_vars(SensorSlot /\ ArrivesFresh(Sensor))
    /\ SF_vars(RelaySlot /\ ArrivesFresh(Relay))
    /\ SF_vars(RelayForwardNext /\ ArrivesFresh(Relay))

FairSpec == Spec /\ Fairness

\* An alarm the sensor holds from some time on ends with the buzzer sounding
\* for good, whatever frames and ACKs were lost and whatever older DATA was
\* still on its way (sensor slot, relay slot, gateway handler).
PersistentAlarmRings == (<>[]alarm_latch) => <>[]buzzer

\* An alarm that stays cleared ends with the buzzer silent for good: the
\* relay's pending ALARM and its retries die out and DATA gets through.
ClearedAlarmSilences == (<>[]~alarm_latch) => <>[]~buzzer
=============================================================================
