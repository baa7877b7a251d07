--------------------------- MODULE AlarmPathProofs ---------------------------
(***************************************************************************)
(* Theorems about AlarmPath for every value of its constants that need no  *)
(* bound on the sequence numbers: type correctness; what the tasks of one  *)
(* node share (the sensor's latch and its channel of transitions, the      *)
(* sensor's retry, the gateway's buzzer signal), each inductive together   *)
(* with the type invariant; and the slot gate of both receivers.           *)
(***************************************************************************)
EXTENDS AlarmPath, SequenceTheorems, TLAPS

-----------------------------------------------------------------------------
(***************************************************************************)
(* Lemmas about the queues.                                                *)
(***************************************************************************)
\* Some copies of a frame appended to a queue give a queue of frames that
\* respects the channel's depth: the old entries, then the copies.
LEMMA ReceivedFacts ==
    ASSUME NEW S, NEW q \in Seq(S), NEW f \in S, NEW n \in Nat, RxDepth \in Nat,
           Len(q) <= RxDepth, NEW r \in Received(q, f, n)
    PROVE  /\ r \in Seq(S)
           /\ Len(r) <= RxDepth
           /\ Len(q) <= Len(r)
           /\ \A i \in 1 .. Len(q) : r[i] = q[i]
           /\ \A i \in Len(q) + 1 .. Len(r) : r[i] = f
<1>1. PICK k \in Copies(q, n) : r = q \o [i \in 1 .. k |-> f]
  BY DEF Received
<1>2. Len(q) \in Nat
  BY LenProperties
<1>3. k \in Nat /\ Len(q) + k <= RxDepth
  BY <1>1, <1>2 DEF Copies
<1> DEFINE c == [i \in 1 .. k |-> f]
<1>4. c \in Seq(S) /\ Len(c) = k
  BY <1>3
<1> QED
  BY <1>1, <1>2, <1>3, <1>4, ConcatProperties

\* The queue without its head.
LEMMA TailFacts ==
    ASSUME NEW S, NEW q \in Seq(S), q # <<>>
    PROVE  /\ Head(q) \in S /\ Head(q) = q[1]
           /\ Tail(q) \in Seq(S)
           /\ Len(Tail(q)) = Len(q) - 1 /\ Len(q) \in Nat \ {0}
           /\ \A i \in 1 .. Len(Tail(q)) : Tail(q)[i] = q[i + 1]
BY HeadTailProperties, LenProperties, EmptySeq
-----------------------------------------------------------------------------
(***************************************************************************)
(* Type correctness.                                                       *)
(***************************************************************************)
\* Frames a node makes are well typed.
LEMMA NextSeqType ==
    ASSUME NumberTypeOK, NEW n \in Forwarder
    PROVE  NextSeq(n) \in Seqs
BY SeqAssumption DEF NumberTypeOK, NextSeq, Seqs

LEMMA MakeSampleType ==
    ASSUME ClockTypeOK, NumberTypeOK, NEW o \in OriginSeqs, NEW t \in {Data, Alarm}
    PROVE  MakeSample(t, o) \in Upstream(Sensor)
BY NextSeqType DEF MakeSample, Upstream, Parent, Forwarder, ClockTypeOK,
   Sensor, Relay, Gateway

LEMMA MakeForwardedType ==
    ASSUME ClockTypeOK, NumberTypeOK, NEW f \in Upstream(Sensor)
    PROVE  MakeForwarded(f) \in Upstream(Relay)
BY NextSeqType DEF MakeForwarded, Upstream, Parent, Forwarder, ClockTypeOK,
   Sensor, Relay, Gateway

LEMMA MakeAckType ==
    ASSUME NEW n \in Forwarder, NEW f \in Upstream(n)
    PROVE  MakeAck(Parent(n), f) \in AckTo(n)
BY DEF MakeAck, AckTo, Upstream

\* What the PendingAck operators return stays a PendingAck.
LEMMA PendingAckType ==
    ASSUME NEW F, NEW p \in PendingAcks(F)
    PROVE  /\ Aged(p) \in PendingAcks(F)
           /\ NoPending \in PendingAcks(F)
           /\ \A f \in F : Remember(p, f) \in PendingAcks(F)
           /\ \A d \in BOOLEAN : MayRetry(p, d)
                 => Retried(p) \in PendingAcks(F) /\ p.frame \in F
           /\ \A q, t : ClearIfMatches(p, q, t) \in PendingAcks(F)
           /\ \A t : CancelIfMatches(p, t) \in PendingAcks(F)
<1>1. NoPending \in PendingAcks(F)
  BY MaxAttemptsAssumption DEF NoPending, PendingAcks, Ages, OldAge
<1>2. Aged(p) \in PendingAcks(F)
  BY DEF Aged, PendingAcks, Ages, OldAge
<1>3. \A f \in F : Remember(p, f) \in PendingAcks(F)
  BY MaxAttemptsAssumption DEF Remember, PendingAcks, Ages, OldAge
<1>4. \A d \in BOOLEAN : MayRetry(p, d)
         => Retried(p) \in PendingAcks(F) /\ p.frame \in F
  BY MaxAttemptsAssumption
  DEF MayRetry, HasPending, Retried, PendingAcks, Ages, OldAge
<1>5. \A q, t : ClearIfMatches(p, q, t) \in PendingAcks(F)
  BY <1>1 DEF ClearIfMatches
<1>6. \A t : CancelIfMatches(p, t) \in PendingAcks(F)
  BY <1>1 DEF CancelIfMatches
<1> QED
  BY <1>1, <1>2, <1>3, <1>4, <1>5, <1>6

\* Replacing one node's pending frame, or its queue, keeps the others typed.
LEMMA PendingUpdate ==
    ASSUME PendingTypeOK, NEW n \in Forwarder, NEW p \in PendingAcks(Upstream(n)),
           pending_ack' = [pending_ack EXCEPT ![n] = p]
    PROVE  PendingTypeOK'
BY DEF PendingTypeOK, PendingAcks, Forwarder, Relay, Sensor

LEMMA InboxUpdate ==
    ASSUME RadioTypeOK, NEW n \in Node, NEW q \in Seq(Inbox(n)), Len(q) <= RxDepth
    PROVE  /\ [rx EXCEPT ![n] = q] \in [Node -> Seq(Frame)]
           /\ \A m \in Node : /\ [rx EXCEPT ![n] = q][m] \in Seq(Inbox(m))
                              /\ Len([rx EXCEPT ![n] = q][m]) <= RxDepth
<1>1. Inbox(n) \subseteq Frame
  BY DEF Node, Inbox, Frame, Gateway, Relay, Sensor
<1>2. q \in Seq(Frame)
  BY <1>1
<1> QED
  BY <1>2 DEF RadioTypeOK

LEMMA InboxElements ==
    /\ Inbox(Gateway) = Upstream(Relay)
    /\ Inbox(Relay) = Upstream(Sensor) \cup AckTo(Relay)
    /\ Inbox(Sensor) = AckTo(Sensor)
    /\ Parent(Relay) = Gateway /\ Parent(Sensor) = Relay
    /\ Gateway \in Node /\ Relay \in Node /\ Sensor \in Node
    /\ Relay \in Forwarder /\ Sensor \in Forwarder
    /\ Gateway \in Receiver /\ Relay \in Receiver
    /\ Node = {Gateway, Relay, Sensor}
BY DEF Inbox, Parent, Node, Forwarder, Receiver, Gateway, Relay, Sensor

\* An RX handler reads a frame addressed to its node.
LEMMA HeadType ==
    ASSUME RadioTypeOK, NEW n \in Node, rx[n] # <<>>
    PROVE  /\ Head(rx[n]) \in Inbox(n)
           /\ Tail(rx[n]) \in Seq(Inbox(n))
           /\ Len(Tail(rx[n])) <= RxDepth
           /\ Len(Tail(rx[n])) = Len(rx[n]) - 1
           /\ Dequeue(n) \in [Node -> Seq(Frame)]
           /\ \A m \in Node : /\ Dequeue(n)[m] \in Seq(Inbox(m))
                              /\ Len(Dequeue(n)[m]) <= RxDepth
<1>1. rx[n] \in Seq(Inbox(n)) /\ Len(rx[n]) <= RxDepth /\ RxDepth \in Nat
  BY DepthAssumption DEF RadioTypeOK
<1>2. /\ Head(rx[n]) \in Inbox(n)
      /\ Tail(rx[n]) \in Seq(Inbox(n))
      /\ Len(Tail(rx[n])) = Len(rx[n]) - 1 /\ Len(rx[n]) \in Nat
  BY <1>1, TailFacts
<1>3. Len(Tail(rx[n])) <= RxDepth
  BY <1>1, <1>2
<1>4. Dequeue(n) = [rx EXCEPT ![n] = Tail(rx[n])]
  BY DEF Dequeue
<1> DEFINE r == [rx EXCEPT ![n] = Tail(rx[n])]
<1>5. /\ r \in [Node -> Seq(Frame)]
      /\ \A m \in Node : r[m] \in Seq(Inbox(m)) /\ Len(r[m]) <= RxDepth
  BY <1>2, <1>3, InboxUpdate
<1> QED
  BY <1>2, <1>3, <1>4, <1>5

\* A transmission of a typed frame keeps the queues typed.
LEMMA SendType ==
    ASSUME RadioTypeOK, NEW n \in Node, NEW f \in Inbox(n), NEW k \in Nat,
           NEW q \in Received(rx[n], f, k), rx' = [rx EXCEPT ![n] = q]
    PROVE  RadioTypeOK'
<1>1. q \in Seq(Inbox(n)) /\ Len(q) <= RxDepth
  BY ReceivedFacts, DepthAssumption DEF RadioTypeOK
<1> QED
  BY <1>1, InboxUpdate DEF RadioTypeOK

THEOREM TypeInit == Init => TypeOK
<1> SUFFICES ASSUME Init PROVE TypeOK
  OBVIOUS
<1> USE DEF Init
<1>1. ClockTypeOK
  BY DEF ClockTypeOK, Slot, SlotCount, SyncSlotNo
<1>2. RadioTypeOK
  <2>1. \A S : <<>> \in Seq(S) /\ Len(<<>>) = 0
    BY EmptySeq
  <2> QED
    BY <2>1, DepthAssumption DEF RadioTypeOK
<1>3. NumberTypeOK
  BY SeqAssumption, InboxElements DEF NumberTypeOK, Seqs, OriginSeqs, Receiver
<1>4. PendingTypeOK
  BY MaxAttemptsAssumption DEF PendingTypeOK, PendingAcks, NoPending, Ages, OldAge
<1>5. SensorTypeOK
  <2>1. alarm_events \in Seq({Raised, Cleared}) /\ Len(alarm_events) = 0
    BY EmptySeq
  <2>2. Len(alarm_events) <= AlarmDepth + 1
    BY <2>1, DepthAssumption
  <2>3. alarm_latch \in BOOLEAN /\ sensor_alarm_active \in BOOLEAN
    BY Zenon
  <2> QED
    BY <2>1, <2>2, <2>3, Zenon DEF SensorTypeOK
<1>6. RelayTypeOK
  BY EmptySeq, DepthAssumption DEF RelayTypeOK
<1>7. GatewayTypeOK
  <2>1. 0 \in Counter
    BY SeqAssumption DEF Counter
  <2>2. stats \in Stats
    BY <2>1 DEF Stats, GatewayStatsNew
  <2> QED
    BY <2>1, <2>2 DEF GatewayTypeOK
<1> QED
  BY <1>1, <1>2, <1>3, <1>4, <1>5, <1>6, <1>7 DEF TypeOK

\* The parts of the invariant that read only variables a step leaves alone.
LEMMA TypeFrame ==
    ASSUME TypeOK
    PROVE  /\ UNCHANGED clockVars => ClockTypeOK'
           /\ UNCHANGED rx => RadioTypeOK'
           /\ UNCHANGED <<seq, data_seq, last_data_seq>> => NumberTypeOK'
           /\ UNCHANGED pending_ack => PendingTypeOK'
           /\ UNCHANGED <<sampleVars, sensor_alarm_active>> => SensorTypeOK'
           /\ UNCHANGED relayVars => RelayTypeOK'
           /\ UNCHANGED <<gatewayVars, buzzer, slot_violations>> => GatewayTypeOK'
<1> USE DEF TypeOK
<1>1. UNCHANGED clockVars => ClockTypeOK'
  BY DEF ClockTypeOK, clockVars
<1>2. UNCHANGED rx => RadioTypeOK'
  BY DEF RadioTypeOK
<1>3. UNCHANGED <<seq, data_seq, last_data_seq>> => NumberTypeOK'
  BY DEF NumberTypeOK
<1>4. UNCHANGED pending_ack => PendingTypeOK'
  BY DEF PendingTypeOK
<1>5. UNCHANGED <<sampleVars, sensor_alarm_active>> => SensorTypeOK'
  BY DEF SensorTypeOK, sampleVars
<1>6. UNCHANGED relayVars => RelayTypeOK'
  BY DEF RelayTypeOK, relayVars
<1>7. UNCHANGED <<gatewayVars, buzzer, slot_violations>> => GatewayTypeOK'
  BY DEF GatewayTypeOK, gatewayVars
<1> QED
  BY <1>1, <1>2, <1>3, <1>4, <1>5, <1>6, <1>7

\* Servicing a slot keeps the clock typed; taking a number keeps it typed.
LEMMA ServeType ==
    ASSUME ClockTypeOK, NEW n \in Node, Serve(n)
    PROVE  ClockTypeOK'
BY DEF Serve, ClockTypeOK

LEMMA BumpType ==
    ASSUME NumberTypeOK, NEW n \in Forwarder, Bump(n), last_data_seq' = last_data_seq,
           data_seq' \in OriginSeqs
    PROVE  NumberTypeOK'
<1>1. NextSeq(n) \in Seqs
  BY NextSeqType
<1> QED
  BY <1>1 DEF NumberTypeOK, Bump

\* Applying a DATA or ALARM frame keeps its key as the last one.
LEMMA KeyType ==
    ASSUME NumberTypeOK, seq' \in [Forwarder -> Seqs], data_seq' = data_seq,
           NEW n \in Receiver, NEW m \in Forwarder, n = Parent(m), NEW f \in Upstream(m),
           last_data_seq' = [last_data_seq EXCEPT ![n] = Key(f)]
    PROVE  NumberTypeOK'
<1>1. Key(f) \in Keys(m)
  BY DEF Key, Keys, Upstream
<1> QED
  BY <1>1 DEF NumberTypeOK, Receiver, Forwarder, Parent, Gateway, Relay, Sensor

\* Statistics stay within the saturating counters.
LEMMA StatsType ==
    ASSUME stats \in Stats, NEW m \in Forwarder, NEW f \in Upstream(m)
    PROVE  RecordRxData(f) \in Stats
<1> DEFINE delta == WrappingSub(f.origin_seq, stats.last_origin_seq, OriginSeqModulus)
           gap   == OriginGap(stats.last_origin_seq, f.origin_seq)
<1>1. \A a \in Counter, b \in Nat : SaturatingAdd(a, b, CounterMax) \in Counter
  BY SeqAssumption DEF SaturatingAdd, Counter
<1>2. f.origin_seq \in OriginSeqs /\ f.origin_seq \in Nat
  BY SeqAssumption DEF Upstream, OriginSeqs
<1>3. gap \in Nat
  <2>1. CASE stats.last_origin_seq = None
    BY <2>1 DEF OriginGap
  <2>2. CASE stats.last_origin_seq # None
    <3>1. stats.last_origin_seq \in Nat
      BY <2>2, SeqAssumption DEF Stats, OriginSeqs
    <3>2. delta \in Nat
      BY <1>2, <3>1, SeqAssumption DEF WrappingSub
    <3> QED
      BY <3>2 DEF OriginGap
  <2> QED
    BY <2>1, <2>2
<1>4. /\ stats.rx_data \in Counter /\ stats.rx_alarm \in Counter
      /\ stats.tx_ack \in Counter /\ stats.origin_seq_gap_total \in Counter
  BY DEF Stats
<1>5. /\ (IF f.frame_type = Data THEN 1 ELSE 0) \in Nat
      /\ (IF f.frame_type = Alarm THEN 1 ELSE 0) \in Nat
  OBVIOUS
<1> HIDE DEF delta, gap
<1> QED
  BY <1>1, <1>2, <1>3, <1>4, <1>5 DEF RecordRxData, Stats, gap

LEMMA TypeTick == ASSUME TypeOK, Tick PROVE TypeOK'
<1> USE DEF TypeOK
<1>1. ClockTypeOK'
  BY DEF Tick, ClockTypeOK, NextSlot, Slot, SlotCount
<1>2. PendingTypeOK'
  BY PendingAckType DEF Tick, PendingTypeOK, Forwarder
<1> QED
  BY <1>1, <1>2, TypeFrame DEF Tick, sensorVars, sampleVars

LEMMA TypeGatewaySyncSlot == ASSUME TypeOK, GatewaySyncSlot PROVE TypeOK'
<1> USE DEF TypeOK
<1>1. ClockTypeOK'
  BY ServeType, InboxElements DEF GatewaySyncSlot
<1>2. GatewayTypeOK'
  BY DEF GatewaySyncSlot, GatewayTypeOK
<1> QED
  BY <1>1, <1>2, TypeFrame DEF GatewaySyncSlot, sensorVars, sampleVars

LEMMA TypeRelayControlSlot == ASSUME TypeOK, RelayControlSlot PROVE TypeOK'
<1> USE DEF TypeOK
<1>1. ClockTypeOK'
  BY ServeType, InboxElements DEF RelayControlSlot
<1>2. NumberTypeOK'
  <2>1. CASE UNCHANGED seq
    BY <2>1, TypeFrame DEF RelayControlSlot, sensorVars
  <2>2. CASE Bump(Relay)
    <3>1. data_seq' \in OriginSeqs /\ last_data_seq' = last_data_seq
      BY DEF RelayControlSlot, sensorVars, NumberTypeOK
    <3> QED
      BY <2>2, <3>1, BumpType, InboxElements
  <2> QED
    BY <2>1, <2>2 DEF RelayControlSlot
<1> QED
  BY <1>1, <1>2, TypeFrame DEF RelayControlSlot, sensorVars, sampleVars

LEMMA TypeSensorSlot == ASSUME TypeOK, SensorSlot PROVE TypeOK'
<1> USE DEF TypeOK
<1> DEFINE origin == (data_seq + 1) % OriginSeqModulus
           kind   == IF sensor_alarm_active THEN Alarm ELSE Data
           copies == IF sensor_alarm_active THEN 1 ELSE BestEffortTxRepeats
           f      == MakeSample(kind, origin)
<1>1. /\ Serve(Sensor) /\ Bump(Sensor) /\ data_seq' = origin
      /\ pending_ack' = [pending_ack EXCEPT ![Sensor] = Remember(@, f)]
      /\ \E q \in Received(rx[Relay], f, copies) : rx' = [rx EXCEPT ![Relay] = q]
      /\ last_data_seq' = last_data_seq
      /\ UNCHANGED <<buzzer, slot_violations, sensor_alarm_active>>
      /\ UNCHANGED <<sampleVars, relayVars, gatewayVars>>
  BY DEF SensorSlot
<1>2. origin \in OriginSeqs /\ copies \in Nat
  BY SeqAssumption, DepthAssumption DEF NumberTypeOK, OriginSeqs
<1>3. kind \in {Data, Alarm}
  OBVIOUS
<1> HIDE DEF origin, kind, copies
<1>4. f \in Upstream(Sensor)
  BY <1>2, <1>3, MakeSampleType
<1> HIDE DEF f
<1>5. ClockTypeOK'
  BY <1>1, ServeType, InboxElements
<1>6. RadioTypeOK'
  BY <1>1, <1>2, <1>4, SendType, InboxElements
<1>7. NumberTypeOK'
  BY <1>1, <1>2, BumpType, InboxElements
<1>8. PendingTypeOK'
  <2>1. Remember(pending_ack[Sensor], f) \in PendingAcks(Upstream(Sensor))
    BY <1>4, PendingAckType, InboxElements DEF PendingTypeOK
  <2> QED
    BY <1>1, <2>1, PendingUpdate, InboxElements
<1> QED
  BY <1>1, <1>5, <1>6, <1>7, <1>8, TypeFrame

LEMMA TypeRelaySlot == ASSUME TypeOK, RelaySlot PROVE TypeOK'
<1> USE DEF TypeOK
<1>1. ClockTypeOK'
  BY ServeType, InboxElements DEF RelaySlot
<1>2. RelayTypeOK'
  BY DepthAssumption DEF RelaySlot, RelayTypeOK, BurstAfter
<1>3. data_seq' = data_seq /\ data_seq \in OriginSeqs /\ last_data_seq' = last_data_seq
  BY DEF RelaySlot, sensorVars, NumberTypeOK
<1>4. RadioTypeOK' /\ NumberTypeOK' /\ PendingTypeOK'
  <2>1. CASE pending_alarm_forward = None
    <3>1. UNCHANGED <<rx, seq, pending_ack>>
      BY <2>1 DEF RelaySlot
    <3> QED
      BY <1>3, <3>1, TypeFrame
  <2>2. CASE pending_alarm_forward # None
    <3> DEFINE f == MakeForwarded(pending_alarm_forward)
    <3>1. /\ Bump(Relay)
          /\ pending_ack' = [pending_ack EXCEPT ![Relay] = Remember(@, f)]
          /\ \E q \in Received(rx[Gateway], f, 1) : rx' = [rx EXCEPT ![Gateway] = q]
      BY <2>2 DEF RelaySlot
    <3>2. f \in Upstream(Relay)
      BY <2>2, MakeForwardedType DEF RelayTypeOK
    <3> HIDE DEF f
    <3>3. RadioTypeOK'
      BY <3>1, <3>2, SendType, InboxElements
    <3>4. NumberTypeOK'
      BY <1>3, <3>1, BumpType, InboxElements
    <3>5. Remember(pending_ack[Relay], f) \in PendingAcks(Upstream(Relay))
      BY <3>2, PendingAckType, InboxElements DEF PendingTypeOK
    <3>6. PendingTypeOK'
      BY <3>1, <3>5, PendingUpdate, InboxElements
    <3> QED
      BY <3>3, <3>4, <3>6
  <2> QED
    BY <2>1, <2>2
<1> QED
  BY <1>1, <1>2, <1>4, TypeFrame DEF RelaySlot, sensorVars, sampleVars

LEMMA TypeRelayForwardNext == ASSUME TypeOK, RelayForwardNext PROVE TypeOK'
<1> USE DEF TypeOK
<1> DEFINE f == MakeForwarded(Head(relay_forward))
<1>1. /\ forwarded_count # Idle /\ Bump(Relay)
      /\ relay_forward' = Tail(relay_forward)
      /\ pending_ack' = [pending_ack EXCEPT ![Relay] = Remember(@, f)]
      /\ \E q \in Received(rx[Gateway], f, BestEffortTxRepeats) :
            rx' = [rx EXCEPT ![Gateway] = q]
      /\ forwarded_count' = BurstAfter(forwarded_count + 1, relay_forward')
      /\ UNCHANGED <<pending_alarm_forward, last_data_seq, buzzer, slot_violations>>
      /\ UNCHANGED <<clockVars, sampleVars, sensorVars, gatewayVars>>
  BY DEF RelayForwardNext
<1>2. relay_forward # <<>>
  BY <1>1 DEF RelayTypeOK
<1>3. /\ Head(relay_forward) \in Upstream(Sensor)
      /\ Tail(relay_forward) \in Seq(Upstream(Sensor))
      /\ Len(Tail(relay_forward)) = Len(relay_forward) - 1
      /\ Len(relay_forward) \in Nat
  BY <1>2, TailFacts DEF RelayTypeOK
<1>4. f \in Upstream(Relay)
  BY <1>3, MakeForwardedType
<1> HIDE DEF f
<1>5. RelayTypeOK'
  <2>1. Len(relay_forward') <= RelayForwardCapacity
    BY <1>1, <1>3, DepthAssumption DEF RelayTypeOK
  <2>2. forwarded_count + 1 \in Nat
    BY <1>1, DepthAssumption DEF RelayTypeOK
  <2>3. /\ forwarded_count' \in {Idle} \cup 0 .. MaxForwardPerSlot - 1
        /\ forwarded_count' # Idle => relay_forward' # <<>>
    BY <1>1, <2>2, DepthAssumption DEF BurstAfter
  <2> QED
    BY <1>1, <1>3, <2>1, <2>3 DEF RelayTypeOK
<1>6. RadioTypeOK'
  BY <1>1, <1>4, SendType, DepthAssumption, InboxElements
<1>7. NumberTypeOK'
  <2>1. data_seq' \in OriginSeqs /\ last_data_seq' = last_data_seq
    BY <1>1 DEF sensorVars, NumberTypeOK
  <2> QED
    BY <1>1, <2>1, BumpType, InboxElements
<1>8. PendingTypeOK'
  <2>1. Remember(pending_ack[Relay], f) \in PendingAcks(Upstream(Relay))
    BY <1>4, PendingAckType, InboxElements DEF PendingTypeOK
  <2> QED
    BY <1>1, <2>1, PendingUpdate, InboxElements
<1> QED
  BY <1>1, <1>5, <1>6, <1>7, <1>8, TypeFrame DEF sensorVars, sampleVars

\* A retransmission sends the pending frame as it is to its parent's queue.
LEMMA RetryType ==
    ASSUME TypeOK, NEW n \in Forwarder, Retry(n)
    PROVE  RadioTypeOK' /\ PendingTypeOK'
<1> USE DEF TypeOK
<1> DEFINE p == pending_ack[n]
<1>1. p \in PendingAcks(Upstream(n))
  BY DEF PendingTypeOK
<1>2. PICK due \in DueOutcomes(p) :
        \/ /\ MayRetry(p, due)
           /\ pending_ack' = [pending_ack EXCEPT ![n] = Retried(@)]
           /\ \E q \in Received(rx[p.frame.dst], p.frame, 1) :
                 rx' = [rx EXCEPT ![p.frame.dst] = q]
        \/ pending_ack' = [pending_ack EXCEPT ![n] = NoPending] /\ UNCHANGED rx
        \/ UNCHANGED <<pending_ack, rx>>
  BY DEF Retry
<1>3. due \in BOOLEAN
  BY Zenon DEF DueOutcomes
<1>4. CASE /\ MayRetry(p, due)
           /\ pending_ack' = [pending_ack EXCEPT ![n] = Retried(@)]
           /\ \E q \in Received(rx[p.frame.dst], p.frame, 1) :
                 rx' = [rx EXCEPT ![p.frame.dst] = q]
  <2>1. Retried(p) \in PendingAcks(Upstream(n)) /\ p.frame \in Upstream(n)
    BY <1>1, <1>3, <1>4, PendingAckType
  <2>2. p.frame.dst = Parent(n) /\ Parent(n) \in Node
    BY <2>1, InboxElements DEF Upstream, Forwarder
  <2>3. p.frame \in Inbox(Parent(n))
    BY <2>1, InboxElements DEF Forwarder
  <2>4. RadioTypeOK'
    BY <1>4, <2>2, <2>3, SendType
  <2>5. PendingTypeOK'
    BY <1>4, <2>1, PendingUpdate
  <2> QED
    BY <2>4, <2>5
<1>5. CASE pending_ack' = [pending_ack EXCEPT ![n] = NoPending] /\ UNCHANGED rx
  <2>1. NoPending \in PendingAcks(Upstream(n))
    BY <1>1, PendingAckType
  <2> QED
    BY <1>5, <2>1, PendingUpdate, TypeFrame
<1>6. CASE UNCHANGED <<pending_ack, rx>>
  BY <1>6, TypeFrame
<1> QED
  BY <1>2, <1>4, <1>5, <1>6

LEMMA TypeAlarmRetrySlot ==
    ASSUME TypeOK, NEW n \in Forwarder, AlarmRetrySlot(n) PROVE TypeOK'
<1> USE DEF TypeOK
<1>1. ClockTypeOK'
  BY ServeType DEF AlarmRetrySlot, Node, Forwarder
<1>2. RadioTypeOK' /\ PendingTypeOK'
  BY RetryType DEF AlarmRetrySlot
<1> QED
  BY <1>1, <1>2, TypeFrame DEF AlarmRetrySlot, sensorVars, sampleVars
-----------------------------------------------------------------------------
LEMMA TypeRxIgnored ==
    ASSUME TypeOK, NEW n \in Receiver, RxIgnored(n) PROVE TypeOK'
<1> USE DEF TypeOK
<1>1. rx[n] # <<>> /\ rx' = Dequeue(n) /\ n \in Node
  BY DEF RxIgnored, Receives, Receiver, Node
<1>2. RadioTypeOK'
  BY <1>1, HeadType DEF RadioTypeOK
<1>3. GatewayTypeOK'
  <2>1. \A a \in Counter : SaturatingAdd(a, 1, CounterMax) \in Counter
    BY SeqAssumption DEF SaturatingAdd, Counter
  <2>2. slot_violations' \in [Node -> Counter]
    BY <2>1 DEF RxIgnored, GatewayTypeOK
  <2> QED
    BY <2>2 DEF RxIgnored, GatewayTypeOK, gatewayVars
<1> QED
  BY <1>2, <1>3, TypeFrame DEF RxIgnored, sensorVars, sampleVars

LEMMA TypeRxAck ==
    ASSUME TypeOK, NEW n \in Forwarder, RxAck(n) PROVE TypeOK'
<1> USE DEF TypeOK
<1>1. rx[n] # <<>> /\ rx' = Dequeue(n) /\ n \in Node
  BY DEF RxAck, Receives, Forwarder, Node
<1>2. RadioTypeOK'
  BY <1>1, HeadType DEF RadioTypeOK
<1>3. PendingTypeOK'
  BY PendingAckType, PendingUpdate DEF RxAck, PendingTypeOK
<1> QED
  BY <1>2, <1>3, TypeFrame DEF RxAck, sensorVars, sampleVars

\* Handling a frame and answering its sender keeps the queues typed.
LEMMA ReplyType ==
    ASSUME RadioTypeOK, NEW n \in Node, NEW m \in Node, n # m, rx[n] # <<>>,
           NEW f \in Inbox(m), NEW q \in Received(rx[m], f, 1),
           rx' = [Dequeue(n) EXCEPT ![m] = q]
    PROVE  RadioTypeOK'
<1>1. q \in Seq(Inbox(m)) /\ Len(q) <= RxDepth
  BY ReceivedFacts, DepthAssumption DEF RadioTypeOK
<1>2. /\ Dequeue(n) \in [Node -> Seq(Frame)]
      /\ \A k \in Node : /\ Dequeue(n)[k] \in Seq(Inbox(k))
                         /\ Len(Dequeue(n)[k]) <= RxDepth
  BY HeadType
<1>3. q \in Seq(Frame)
  BY <1>1, InboxUpdate
<1> QED
  BY <1>1, <1>2, <1>3 DEF RadioTypeOK

LEMMA TypeRelayRxAlarm == ASSUME TypeOK, RelayRxAlarm PROVE TypeOK'
<1> USE DEF TypeOK
<1> DEFINE f == Head(rx[Relay])
<1>1. rx[Relay] # <<>> /\ f.frame_type = Alarm
  BY DEF RelayRxAlarm, Receives
<1>2. f \in Upstream(Sensor) /\ f.src = Sensor
  <2>1. f \in Upstream(Sensor)
    BY <1>1, HeadType, InboxElements DEF AckTo, Upstream, Alarm, Ack
  <2> QED
    BY <2>1 DEF Upstream
<1>3. MakeAck(Relay, f) \in Inbox(Sensor)
  BY <1>2, MakeAckType, InboxElements
<1>4. RadioTypeOK'
  BY <1>1, <1>2, <1>3, ReplyType, InboxElements DEF RelayRxAlarm, Relay, Sensor
<1>5. NumberTypeOK'
  <2>1. seq' \in [Forwarder -> Seqs] /\ data_seq' = data_seq
    BY NextSeqType, InboxElements DEF RelayRxAlarm, NumberTypeOK, Bump, sensorVars
  <2> QED
    BY <1>2, <2>1, KeyType, InboxElements DEF RelayRxAlarm
<1>6. RelayTypeOK'
  BY <1>2 DEF RelayRxAlarm, RelayTypeOK
<1> QED
  BY <1>4, <1>5, <1>6, TypeFrame DEF RelayRxAlarm, sensorVars, sampleVars

\* A full buffer gives up its oldest frame for the new one.
LEMMA BufferedType ==
    ASSUME NEW S, NEW b \in Seq(S), Len(b) <= RelayForwardCapacity, NEW f \in S
    PROVE  /\ Buffered(b, f) \in Seq(S) /\ Len(Buffered(b, f)) <= RelayForwardCapacity
           /\ Buffered(b, f) # <<>>
<1> DEFINE kept == IF Len(b) = RelayForwardCapacity THEN Tail(b) ELSE b
<1>1. Len(b) \in Nat
  BY LenProperties
<1>2. kept \in Seq(S) /\ Len(kept) \in Nat /\ Len(kept) + 1 <= RelayForwardCapacity
  <2>1. CASE Len(b) = RelayForwardCapacity
    <3>1. b # <<>>
      BY <2>1, EmptySeq, DepthAssumption
    <3> QED
      BY <1>1, <2>1, <3>1, TailFacts, DepthAssumption
  <2>2. CASE Len(b) # RelayForwardCapacity
    BY <1>1, <2>2, DepthAssumption
  <2> QED
    BY <2>1, <2>2
<1> HIDE DEF kept
<1>3. /\ Append(kept, f) \in Seq(S) /\ Len(Append(kept, f)) = Len(kept) + 1
  BY <1>2, AppendProperties
<1>4. Append(kept, f) # <<>>
  BY <1>2, <1>3, EmptySeq
<1> QED
  BY <1>2, <1>3, <1>4 DEF Buffered, kept

LEMMA TypeRelayRxData == ASSUME TypeOK, RelayRxData PROVE TypeOK'
<1> USE DEF TypeOK
<1> DEFINE f == Head(rx[Relay])
<1>1. rx[Relay] # <<>> /\ f.frame_type = Data /\ rx' = Dequeue(Relay)
  BY DEF RelayRxData, Receives
<1>2. f \in Upstream(Sensor)
  BY <1>1, HeadType, InboxElements DEF AckTo, Upstream, Data, Ack
<1>3. RadioTypeOK'
  BY <1>1, HeadType, InboxElements DEF RadioTypeOK
<1>4. NumberTypeOK'
  <2>1. seq' \in [Forwarder -> Seqs] /\ data_seq' = data_seq
    BY DEF RelayRxData, NumberTypeOK, sensorVars
  <2> QED
    BY <1>2, <2>1, KeyType, InboxElements DEF RelayRxData
<1>5. RelayTypeOK'
  BY <1>2, BufferedType DEF RelayRxData, RelayTypeOK
<1> QED
  BY <1>3, <1>4, <1>5, TypeFrame DEF RelayRxData, sensorVars, sampleVars

LEMMA TypeGatewayRxAlarm == ASSUME TypeOK, GatewayRxAlarm PROVE TypeOK'
<1> USE DEF TypeOK
<1> DEFINE f == Head(rx[Gateway])
<1>1. rx[Gateway] # <<>>
  BY DEF GatewayRxAlarm, Receives
<1>2. f \in Upstream(Relay) /\ f.src = Relay
  <2>1. f \in Upstream(Relay)
    BY <1>1, HeadType, InboxElements
  <2> QED
    BY <2>1 DEF Upstream
<1>3. MakeAck(Gateway, f) \in Inbox(Relay)
  BY <1>2, MakeAckType, InboxElements
<1>4. RadioTypeOK'
  BY <1>1, <1>2, <1>3, ReplyType, InboxElements DEF GatewayRxAlarm, Relay, Gateway
<1>5. NumberTypeOK'
  <2>1. seq' \in [Forwarder -> Seqs] /\ data_seq' = data_seq
    BY DEF GatewayRxAlarm, NumberTypeOK, sensorVars
  <2> QED
    BY <1>2, <2>1, KeyType, InboxElements DEF GatewayRxAlarm
<1>6. GatewayTypeOK'
  <2>1. RecordRxData(f) \in Stats
    BY <1>2, StatsType, InboxElements DEF GatewayTypeOK
  <2> QED
    BY <2>1 DEF GatewayRxAlarm, GatewayTypeOK
<1> QED
  BY <1>4, <1>5, <1>6, TypeFrame DEF GatewayRxAlarm, sensorVars, sampleVars

LEMMA TypeGatewayRxData == ASSUME TypeOK, GatewayRxData PROVE TypeOK'
<1> USE DEF TypeOK
<1> DEFINE f == Head(rx[Gateway])
<1>1. rx[Gateway] # <<>> /\ rx' = Dequeue(Gateway)
  BY DEF GatewayRxData, Receives
<1>2. f \in Upstream(Relay)
  BY <1>1, HeadType, InboxElements
<1>3. RadioTypeOK'
  BY <1>1, HeadType, InboxElements DEF RadioTypeOK
<1>4. NumberTypeOK'
  <2>1. seq' \in [Forwarder -> Seqs] /\ data_seq' = data_seq
    BY DEF GatewayRxData, NumberTypeOK, sensorVars
  <2> QED
    BY <1>2, <2>1, KeyType, InboxElements DEF GatewayRxData
<1>5. GatewayTypeOK'
  <2>1. RecordRxData(f) \in Stats
    BY <1>2, StatsType, InboxElements DEF GatewayTypeOK
  <2> QED
    BY <2>1 DEF GatewayRxData, GatewayTypeOK
<1> QED
  BY <1>3, <1>4, <1>5, TypeFrame DEF GatewayRxData, sensorVars, sampleVars
-----------------------------------------------------------------------------
\* A sample leaves the latch as it is, or turns it and sends the transition.
LEMMA SampleCases ==
    ASSUME TypeOK, SensorSample
    PROVE  \/ UNCHANGED <<alarm_latch, alarm_events>>
           \/ /\ Len(alarm_events) <= AlarmDepth
              /\ alarm_latch' = ~alarm_latch
              /\ alarm_events' =
                    Append(alarm_events, IF alarm_latch THEN Cleared ELSE Raised)
<1>1. alarm_latch \in BOOLEAN
  BY DEF TypeOK, SensorTypeOK
<1>2. alarm_latch' \in BOOLEAN
  BY <1>1 DEF SensorSample, LatchUpdated
<1>3. CASE alarm_latch' <=> alarm_latch
  <2>1. alarm_events' = alarm_events
    BY <1>3 DEF SensorSample
  <2>2. alarm_latch' = alarm_latch
    BY <1>1, <1>2, <1>3
  <2> QED
    BY <2>1, <2>2
<1>4. CASE ~ (alarm_latch' <=> alarm_latch)
  <2>1. /\ Len(alarm_events) <= AlarmDepth
        /\ alarm_events' =
              Append(alarm_events, IF alarm_latch THEN Cleared ELSE Raised)
    BY <1>4 DEF SensorSample
  <2>2. alarm_latch' = ~alarm_latch
    BY <1>1, <1>2, <1>4
  <2> QED
    BY <2>1, <2>2
<1> QED
  BY <1>3, <1>4

LEMMA TypeSensorSample == ASSUME TypeOK, SensorSample PROVE TypeOK'
<1> USE DEF TypeOK
<1> DEFINE e == IF alarm_latch THEN Cleared ELSE Raised
<1>1. CASE UNCHANGED <<alarm_latch, alarm_events>>
  BY <1>1, TypeFrame DEF SensorSample, SensorTypeOK, sensorVars, sampleVars
<1>2. CASE /\ Len(alarm_events) <= AlarmDepth
           /\ alarm_latch' = ~alarm_latch
           /\ alarm_events' = Append(alarm_events, e)
  <2>1. e \in {Raised, Cleared}
    OBVIOUS
  <2> HIDE DEF e
  <2>2. /\ alarm_events' \in Seq({Raised, Cleared})
        /\ Len(alarm_events') = Len(alarm_events) + 1
    BY <1>2, <2>1, AppendProperties DEF SensorTypeOK
  <2>3. Len(alarm_events') <= AlarmDepth + 1
    <3>1. Len(alarm_events) \in Nat
      BY LenProperties DEF SensorTypeOK
    <3> QED
      BY <1>2, <2>2, <3>1, DepthAssumption
  <2>4. alarm_latch' \in BOOLEAN
    BY <1>2 DEF SensorTypeOK
  <2>5. SensorTypeOK'
    BY <2>2, <2>3, <2>4 DEF SensorSample, SensorTypeOK, sensorVars
  <2> QED
    BY <2>5, TypeFrame DEF SensorSample, sensorVars, sampleVars
<1> QED
  BY <1>1, <1>2, SampleCases

LEMMA TypeSensorAlarmTransition ==
    ASSUME TypeOK, SensorAlarmTransition PROVE TypeOK'
<1> USE DEF TypeOK
<1>1. /\ alarm_events # <<>> /\ alarm_events' = Tail(alarm_events)
      /\ sensor_alarm_active' = (Head(alarm_events) = Raised)
      /\ alarm_latch' = alarm_latch
      /\ \/ pending_ack' = pending_ack
         \/ pending_ack' = [pending_ack EXCEPT ![Sensor] = CancelIfMatches(@, Alarm)]
  BY DEF SensorAlarmTransition
<1>2. SensorTypeOK'
  <2>1. /\ alarm_events' \in Seq({Raised, Cleared})
        /\ Len(alarm_events') = Len(alarm_events) - 1 /\ Len(alarm_events) \in Nat
    BY <1>1, TailFacts DEF SensorTypeOK
  <2>2. Len(alarm_events') <= AlarmDepth + 1
    BY <2>1, DepthAssumption DEF SensorTypeOK
  <2>3. sensor_alarm_active' \in BOOLEAN /\ alarm_latch' \in BOOLEAN
    BY <1>1, Zenon DEF SensorTypeOK
  <2> QED
    BY <2>1, <2>2, <2>3 DEF SensorTypeOK
<1>3. PendingTypeOK'
  BY <1>1, PendingAckType, PendingUpdate, TypeFrame, InboxElements DEF PendingTypeOK
<1> QED
  BY <1>2, <1>3, TypeFrame DEF SensorAlarmTransition

LEMMA TypeBuzzerTask == ASSUME TypeOK, BuzzerTask PROVE TypeOK'
<1> USE DEF TypeOK
<1>1. buzzer' \in BOOLEAN /\ buzzer_sig' = None
  BY Zenon DEF BuzzerTask
<1>2. GatewayTypeOK'
  BY <1>1 DEF BuzzerTask, GatewayTypeOK
<1> QED
  BY <1>2, TypeFrame DEF BuzzerTask, sensorVars, sampleVars

THEOREM TypeStep == TypeOK /\ [Next]_vars => TypeOK'
<1> SUFFICES ASSUME TypeOK, [Next]_vars PROVE TypeOK'
  OBVIOUS
<1>1. CASE UNCHANGED vars
  BY <1>1, TypeFrame DEF TypeOK, vars, clockVars, sampleVars, relayVars, gatewayVars
<1>2. CASE Tick
  BY <1>2, TypeTick
<1>3. CASE SlotWork
  BY <1>3, TypeGatewaySyncSlot, TypeRelayControlSlot, TypeSensorSlot, TypeRelaySlot,
     TypeRelayForwardNext, TypeAlarmRetrySlot DEF SlotWork
<1>4. CASE Handle
  BY <1>4, TypeRxIgnored, TypeRxAck, TypeRelayRxAlarm, TypeRelayRxData,
     TypeGatewayRxAlarm, TypeGatewayRxData DEF Handle
<1>5. CASE Tasks
  BY <1>5, TypeSensorSample, TypeSensorAlarmTransition, TypeBuzzerTask DEF Tasks
<1> QED
  BY <1>1, <1>2, <1>3, <1>4, <1>5 DEF Next

\* Every reachable state is well typed: queues, channels and buffers respect
\* their capacities, numbers their widths, and a frame only ever waits at the
\* node it is addressed to.
THEOREM TypeCorrect == Spec => []TypeOK
  BY TypeInit, TypeStep, PTL DEF Spec
-----------------------------------------------------------------------------
(***************************************************************************)
(* The buzzer: gateway_alarm_active, BUZZER_SIG and the pin.               *)
(***************************************************************************)
\* GatewaySyncSlot, the two gateway handlers and BuzzerTask are the only
\* steps that touch the three variables.
LEMMA BuzzerStep ==
    TypeOK /\ BuzzerConsistent /\ [Next]_vars => BuzzerConsistent'
<1> SUFFICES ASSUME TypeOK, BuzzerConsistent, [Next]_vars PROVE BuzzerConsistent'
  OBVIOUS
<1>1. None # On /\ None # Off /\ On # Off
  BY NoneAssumption DEF On, Off
<1>2. /\ gateway_alarm_active \in BOOLEAN /\ buzzer \in BOOLEAN
      /\ buzzer_sig \in {None, On, Off}
  BY DEF TypeOK, GatewayTypeOK
<1>3. CASE UNCHANGED <<gateway_alarm_active, buzzer_sig, buzzer>>
  BY <1>3, Zenon DEF BuzzerConsistent
<1>4. CASE GatewaySyncSlot
  <2>1. /\ buzzer' = buzzer /\ gateway_alarm_active' = gateway_alarm_active
        /\ buzzer_sig' = IF gateway_alarm_active THEN buzzer_sig ELSE Off
    BY <1>4 DEF GatewaySyncSlot
  <2> QED
    BY <1>1, <1>2, <2>1 DEF BuzzerConsistent
<1>5. CASE GatewayRxAlarm
  <2>1. gateway_alarm_active' = TRUE /\ buzzer_sig' = On
    BY <1>5 DEF GatewayRxAlarm
  <2> QED
    BY <1>1, <2>1, Zenon DEF BuzzerConsistent
<1>6. CASE GatewayRxData
  <2>1. /\ buzzer' = buzzer /\ gateway_alarm_active' = FALSE
        /\ buzzer_sig' = IF gateway_alarm_active THEN Off ELSE buzzer_sig
    BY <1>6 DEF GatewayRxData
  <2> QED
    BY <1>1, <1>2, <2>1 DEF BuzzerConsistent
<1>7. CASE BuzzerTask
  <2>1. /\ gateway_alarm_active' = gateway_alarm_active
        /\ buzzer_sig # None /\ buzzer_sig' = None /\ buzzer' = (buzzer_sig = On)
    BY <1>7 DEF BuzzerTask
  <2>2. CASE buzzer_sig = On
    BY <1>1, <2>1, <2>2, Zenon DEF BuzzerConsistent
  <2>3. CASE buzzer_sig = Off
    BY <1>1, <2>1, <2>3, Zenon DEF BuzzerConsistent
  <2> QED
    BY <1>2, <2>1, <2>2, <2>3
<1>8. ASSUME Next, ~GatewaySyncSlot, ~GatewayRxAlarm, ~GatewayRxData, ~BuzzerTask
      PROVE  UNCHANGED <<gateway_alarm_active, buzzer_sig, buzzer>>
  BY <1>8 DEF Next, SlotWork, Handle, Tasks, Tick, RelayControlSlot, SensorSlot,
     RelaySlot, RelayForwardNext, AlarmRetrySlot, RxIgnored, RxAck, RelayRxAlarm,
     RelayRxData, SensorSample, SensorAlarmTransition, gatewayVars
<1> QED
  BY <1>3, <1>4, <1>5, <1>6, <1>7, <1>8 DEF vars

LEMMA BuzzerInit == Init => BuzzerConsistent
  BY NoneAssumption DEF Init, BuzzerConsistent, On, Off

\* The pin, or the action about to be taken, agrees with the gateway's flag.
THEOREM BuzzerCorrect == Spec => []BuzzerConsistent
  BY BuzzerInit, BuzzerStep, TypeCorrect, PTL DEF Spec
-----------------------------------------------------------------------------
(***************************************************************************)
(* ALARM_EVENTS: the latch, the queued transitions and core_task's flag.   *)
(***************************************************************************)
LEMMA EventsStep ==
    TypeOK /\ AlarmEventsReplayLatch /\ [Next]_vars => AlarmEventsReplayLatch'
<1> SUFFICES ASSUME TypeOK, AlarmEventsReplayLatch, [Next]_vars
             PROVE  AlarmEventsReplayLatch'
  OBVIOUS
<1> DEFINE e == alarm_events
<1>1. /\ alarm_latch \in BOOLEAN /\ sensor_alarm_active \in BOOLEAN
      /\ e \in Seq({Raised, Cleared})
  BY DEF TypeOK, SensorTypeOK
<1>2. Raised # Cleared
  BY DEF Raised, Cleared
<1>3. CASE UNCHANGED <<alarm_latch, alarm_events, sensor_alarm_active>>
  BY <1>3, Zenon DEF AlarmEventsReplayLatch
<1>4. CASE SensorSample /\ ~ UNCHANGED <<alarm_latch, alarm_events>>
  <2> DEFINE n == IF alarm_latch THEN Cleared ELSE Raised
  <2>1. /\ alarm_latch' = ~alarm_latch /\ alarm_events' = Append(e, n)
        /\ sensor_alarm_active' = sensor_alarm_active
    BY <1>4, SampleCases DEF SensorSample, sensorVars
  <2>2. n \in {Raised, Cleared} /\ Len(e) \in Nat
    BY <1>1, LenProperties
  <2>3. alarm_latch' <=> (n = Raised)
    BY <1>1, <1>2, <2>1
  <2>4. e # <<>> => e[Len(e)] # n
    BY <1>1, <1>2 DEF AlarmEventsReplayLatch
  <2>5. e = <<>> => (sensor_alarm_active <=> (n = Cleared))
    BY <1>1, <1>2 DEF AlarmEventsReplayLatch
  <2>6. e = <<>> <=> Len(e) = 0
    BY <1>1, EmptySeq
  <2> HIDE DEF n
  <2>7. /\ Len(Append(e, n)) = Len(e) + 1 /\ Append(e, n) # <<>>
        /\ Append(e, n)[Len(e) + 1] = n
        /\ \A i \in 1 .. Len(e) : Append(e, n)[i] = e[i]
    BY <1>1, <2>2, AppendProperties
  <2>8. sensor_alarm_active <=> (Append(e, n)[1] = Cleared)
    BY <2>2, <2>5, <2>6, <2>7 DEF AlarmEventsReplayLatch
  <2>9. \A i \in 1 .. Len(e) : Append(e, n)[i] # Append(e, n)[i + 1]
    BY <2>2, <2>4, <2>6, <2>7 DEF AlarmEventsReplayLatch
  <2>10. alarm_latch' <=> (Append(e, n)[Len(Append(e, n))] = Raised)
    BY <2>3, <2>7
  <2>11. Len(Append(e, n)) - 1 = Len(e)
    BY <2>2, <2>7
  <2> HIDE DEF e
  <2> QED
    BY <2>1, <2>7, <2>8, <2>9, <2>10, <2>11, Zenon DEF AlarmEventsReplayLatch
<1>5. CASE SensorAlarmTransition
  <2>1. /\ e # <<>> /\ alarm_events' = Tail(e) /\ alarm_latch' = alarm_latch
        /\ sensor_alarm_active' = (Head(e) = Raised)
    BY <1>5 DEF SensorAlarmTransition
  <2>2. /\ Head(e) = e[1] /\ Head(e) \in {Raised, Cleared}
        /\ Len(Tail(e)) = Len(e) - 1 /\ Len(e) \in Nat \ {0}
        /\ \A i \in 1 .. Len(Tail(e)) : Tail(e)[i] = e[i + 1]
        /\ Tail(e) \in Seq({Raised, Cleared})
    BY <1>1, <2>1, TailFacts
  <2>3. Tail(e) = <<>> <=> Len(e) = 1
    BY <2>2, EmptySeq
  <2>4. \A i \in 1 .. Len(Tail(e)) - 1 : Tail(e)[i] # Tail(e)[i + 1]
    BY <2>2 DEF AlarmEventsReplayLatch
  <2>5. Tail(e) = <<>> => (alarm_latch <=> (Head(e) = Raised))
    BY <2>1, <2>2, <2>3 DEF AlarmEventsReplayLatch
  <2>6. Tail(e) # <<>> => (alarm_latch <=> (Tail(e)[Len(Tail(e))] = Raised))
    BY <2>1, <2>2, <2>3 DEF AlarmEventsReplayLatch
  <2>7. Tail(e) # <<>> => ((Head(e) = Raised) <=> (Tail(e)[1] = Cleared))
    <3> SUFFICES ASSUME Tail(e) # <<>>
                 PROVE  (Head(e) = Raised) <=> (Tail(e)[1] = Cleared)
      OBVIOUS
    <3>1. e[1] # e[2] /\ Tail(e)[1] = e[2] /\ Tail(e)[1] \in {Raised, Cleared}
      BY <2>1, <2>2, <2>3 DEF AlarmEventsReplayLatch
    <3> QED
      BY <1>2, <2>2, <3>1
  <2> HIDE DEF e
  <2> QED
    BY <2>1, <2>4, <2>5, <2>6, <2>7, Zenon DEF AlarmEventsReplayLatch
<1>6. ASSUME Next, ~SensorSample, ~SensorAlarmTransition
      PROVE  UNCHANGED <<alarm_latch, alarm_events, sensor_alarm_active>>
  BY <1>6 DEF Next, SlotWork, Handle, Tasks, Tick, GatewaySyncSlot, RelayControlSlot,
     SensorSlot, RelaySlot, RelayForwardNext, AlarmRetrySlot, RxIgnored, RxAck,
     RelayRxAlarm, RelayRxData, GatewayRxAlarm, GatewayRxData, BuzzerTask,
     sampleVars, sensorVars
<1>7. CASE SensorSample /\ UNCHANGED <<alarm_latch, alarm_events>>
  BY <1>3, <1>7 DEF SensorSample, sensorVars
<1> QED
  BY <1>3, <1>4, <1>5, <1>6, <1>7 DEF vars

LEMMA EventsInit == Init => AlarmEventsReplayLatch
<1> SUFFICES ASSUME Init PROVE AlarmEventsReplayLatch
  OBVIOUS
<1>1. alarm_events = <<>> /\ alarm_latch = FALSE /\ sensor_alarm_active = FALSE
  BY DEF Init
<1>2. Len(alarm_events) = 0
  BY <1>1, EmptySeq
<1>3. 1 .. Len(alarm_events) - 1 = {}
  BY <1>2
<1> QED
  BY <1>1, <1>3, Zenon DEF AlarmEventsReplayLatch

\* No transition of the latch is lost or reordered on the way to core_task.
THEOREM EventsCorrect == Spec => []AlarmEventsReplayLatch
  BY EventsInit, EventsStep, TypeCorrect, PTL DEF Spec
-----------------------------------------------------------------------------
(***************************************************************************)
(* The sensor's retry.                                                     *)
(***************************************************************************)
\* Dropping, keeping or ageing the pending frame keeps it current.
LEMMA RetryStays ==
    ASSUME SensorRetryIsCurrent,
           UNCHANGED <<seq, data_seq>>, sensor_alarm_active => sensor_alarm_active',
           \/ ~HasPending(pending_ack'[Sensor])
           \/ pending_ack'[Sensor].frame = pending_ack[Sensor].frame
    PROVE  SensorRetryIsCurrent'
BY DEF SensorRetryIsCurrent, HasPending

LEMMA SensorRetryStep ==
    TypeOK /\ SensorRetryIsCurrent /\ [Next]_vars => SensorRetryIsCurrent'
<1> SUFFICES ASSUME TypeOK, SensorRetryIsCurrent, [Next]_vars
             PROVE  SensorRetryIsCurrent'
  OBVIOUS
<1> DEFINE p == pending_ack[Sensor]
<1>1. /\ p \in PendingAcks(Upstream(Sensor))
      /\ pending_ack \in [Forwarder -> PendingAcks(Upstream(Relay) \cup Upstream(Sensor))]
      /\ seq \in [Forwarder -> Seqs] /\ sensor_alarm_active \in BOOLEAN
      /\ Sensor \in Forwarder /\ Relay \in Forwarder /\ Sensor # Relay
  BY InboxElements DEF TypeOK, PendingTypeOK, NumberTypeOK, SensorTypeOK, Sensor, Relay
<1>2. CASE /\ seq'[Sensor] = seq[Sensor] /\ data_seq' = data_seq
           /\ sensor_alarm_active' = sensor_alarm_active
           /\ pending_ack'[Sensor] = pending_ack[Sensor]
  BY <1>2 DEF SensorRetryIsCurrent
<1>3. CASE Tick
  <2>1. pending_ack'[Sensor] = Aged(p)
    BY <1>1, <1>3 DEF Tick
  <2>2. Aged(p).frame = p.frame
    BY <1>1 DEF Aged, PendingAcks
  <2> QED
    BY <1>3, <2>1, <2>2, RetryStays DEF Tick, sensorVars
<1>4. CASE SensorSlot
  <2> DEFINE origin == (data_seq + 1) % OriginSeqModulus
             kind   == IF sensor_alarm_active THEN Alarm ELSE Data
             f      == MakeSample(kind, origin)
  <2>1. /\ Bump(Sensor) /\ data_seq' = origin
        /\ sensor_alarm_active' = sensor_alarm_active
        /\ pending_ack' = [pending_ack EXCEPT ![Sensor] = Remember(@, f)]
    BY <1>4 DEF SensorSlot
  <2>2. seq'[Sensor] = NextSeq(Sensor) /\ pending_ack'[Sensor] = Remember(p, f)
    BY <1>1, <2>1 DEF Bump
  <2>3. /\ f.frame_type = kind /\ f.seq = NextSeq(Sensor) /\ f.origin_seq = origin
    BY DEF MakeSample
  <2>4. CASE sensor_alarm_active
    <3>1. Remember(p, f).frame = f
      BY <2>3, <2>4 DEF Remember, IsAckRequired
    <3> QED
      BY <2>1, <2>2, <2>3, <2>4, <3>1 DEF SensorRetryIsCurrent
  <2>5. CASE ~sensor_alarm_active
    <3>1. Remember(p, f) = p /\ ~HasPending(p)
      BY <2>3, <2>5 DEF Remember, IsAckRequired, SensorRetryIsCurrent, Data, Alarm
    <3> QED
      BY <2>2, <3>1 DEF SensorRetryIsCurrent
  <2> QED
    BY <2>4, <2>5
<1>5. CASE AlarmRetrySlot(Sensor)
  <2>1. \/ pending_ack' = [pending_ack EXCEPT ![Sensor] = Retried(@)]
        \/ pending_ack' = [pending_ack EXCEPT ![Sensor] = NoPending]
        \/ pending_ack' = pending_ack
    BY <1>5 DEF AlarmRetrySlot, Retry
  <2>2. Retried(p).frame = p.frame /\ ~HasPending(NoPending)
    BY DEF Retried, HasPending, NoPending
  <2>3. \/ ~HasPending(pending_ack'[Sensor])
        \/ pending_ack'[Sensor].frame = p.frame
    BY <1>1, <2>1, <2>2
  <2> QED
    BY <1>5, <2>3, RetryStays DEF AlarmRetrySlot, sensorVars
<1>6. CASE RxAck(Sensor)
  <2>1. PICK a, t : pending_ack' = [pending_ack EXCEPT ![Sensor] = ClearIfMatches(@, a, t)]
    BY <1>6 DEF RxAck
  <2>2. pending_ack'[Sensor] = p \/ ~HasPending(pending_ack'[Sensor])
    BY <1>1, <2>1 DEF ClearIfMatches, HasPending, NoPending
  <2> QED
    BY <1>6, <2>2, RetryStays DEF RxAck, sensorVars
<1>7. CASE SensorAlarmTransition
  <2> DEFINE raised == Head(alarm_events) = Raised
  <2>1. /\ sensor_alarm_active' = raised /\ UNCHANGED <<seq, data_seq>>
        /\ pending_ack' =
              IF raised THEN pending_ack
              ELSE [pending_ack EXCEPT ![Sensor] = CancelIfMatches(@, Alarm)]
    BY <1>7 DEF SensorAlarmTransition
  <2>2. CASE raised
    BY <2>1, <2>2, RetryStays
  <2>3. CASE ~raised
    <3>1. pending_ack'[Sensor] = CancelIfMatches(p, Alarm)
      BY <1>1, <2>1, <2>3
    <3>2. ~HasPending(CancelIfMatches(p, Alarm))
      BY DEF CancelIfMatches, HasPending, NoPending, SensorRetryIsCurrent
    <3> QED
      BY <3>1, <3>2 DEF SensorRetryIsCurrent
  <2> QED
    BY <2>2, <2>3
<1>8. CASE RelayControlSlot
  BY <1>1, <1>2, <1>8 DEF RelayControlSlot, Bump, sensorVars
<1>9. CASE RelaySlot
  BY <1>1, <1>2, <1>9 DEF RelaySlot, Bump, sensorVars
<1>10. CASE RelayForwardNext
  BY <1>1, <1>2, <1>10 DEF RelayForwardNext, Bump, sensorVars
<1>11. CASE AlarmRetrySlot(Relay)
  BY <1>1, <1>2, <1>11 DEF AlarmRetrySlot, Retry, sensorVars
<1>12. CASE RxAck(Relay)
  BY <1>1, <1>2, <1>12 DEF RxAck, sensorVars
<1>13. CASE RelayRxAlarm
  BY <1>1, <1>2, <1>13 DEF RelayRxAlarm, Bump, sensorVars
<1>14. ASSUME Next, ~Tick, ~SensorSlot, \A n \in Forwarder : ~AlarmRetrySlot(n),
              \A n \in Forwarder : ~RxAck(n), ~SensorAlarmTransition,
              ~RelayControlSlot, ~RelaySlot, ~RelayForwardNext, ~RelayRxAlarm
       PROVE  UNCHANGED <<seq, data_seq, sensor_alarm_active, pending_ack>>
  BY <1>14 DEF Next, SlotWork, Handle, Tasks, GatewaySyncSlot, RxIgnored,
     RelayRxData, GatewayRxAlarm, GatewayRxData, SensorSample, BuzzerTask, sensorVars
<1>15. CASE UNCHANGED <<seq, data_seq, sensor_alarm_active, pending_ack>>
  BY <1>15, <1>2
<1>16. CASE UNCHANGED vars
  BY <1>15, <1>16 DEF vars
<1> QED
  BY <1>3, <1>4, <1>5, <1>6, <1>7, <1>8, <1>9, <1>10, <1>11, <1>12, <1>13, <1>14,
     <1>15, <1>16 DEF Forwarder

LEMMA SensorRetryInit == Init => SensorRetryIsCurrent
  BY InboxElements DEF Init, SensorRetryIsCurrent, HasPending, NoPending

\* The sensor only ever retransmits its newest frame, an ALARM, and only while
\* it holds the alarm active; sequence numbers may wrap.
THEOREM SensorRetryCorrect == Spec => []SensorRetryIsCurrent
  BY SensorRetryInit, SensorRetryStep, TypeCorrect, PTL DEF Spec
-----------------------------------------------------------------------------
(***************************************************************************)
(* The slot gate: frames claim a slot of their sender's.                   *)
(***************************************************************************)
\* What may wait at node n without being refused.
Rightful(n) == {f \in Inbox(n) : f.frame_type # Ack => AcceptsFrameSlot(f)}

\* Every frame queued or held for a retry claims a slot its sender owns, since
\* a sender stamps it in its own slot; the relay's burst stays in the relay's.
ClaimsOwned ==
    /\ \A n \in Node : rx[n] \in Seq(Rightful(n))
    /\ \A n \in Forwarder :
          HasPending(pending_ack[n]) => AcceptsFrameSlot(pending_ack[n].frame)
    /\ forwarded_count # Idle => slot = RelaySlotNo

LEMMA StampedInOwnSlot ==
    /\ \A o \in OriginSeqs : \A t \in {Data, Alarm} :
          slot = SensorSlotNo => AcceptsFrameSlot(MakeSample(t, o))
    /\ \A f \in Upstream(Sensor) :
          slot = RelaySlotNo => AcceptsFrameSlot(MakeForwarded(f))
<1>1. ASSUME slot = SensorSlotNo, NEW o \in OriginSeqs, NEW t \in {Data, Alarm}
      PROVE  AcceptsFrameSlot(MakeSample(t, o))
  <2>1. OwnedSlots(Sensor, t) = {SensorSlotNo, AlarmRetrySlotNo}
    BY DEF OwnedSlots, Sensor, Relay, Data, Alarm, Heartbeat
  <2> QED
    BY <1>1, <2>1 DEF AcceptsFrameSlot, SlotOwnerOk, MakeSample
<1>2. ASSUME slot = RelaySlotNo, NEW f \in Upstream(Sensor)
      PROVE  AcceptsFrameSlot(MakeForwarded(f))
  <2>1. f.frame_type \in {Data, Alarm}
    BY DEF Upstream
  <2>2. OwnedSlots(Relay, f.frame_type) = {RelaySlotNo, AlarmRetrySlotNo}
    BY <2>1 DEF OwnedSlots, Sensor, Relay, Data, Alarm, Heartbeat
  <2> QED
    BY <1>2, <2>2 DEF AcceptsFrameSlot, SlotOwnerOk, MakeForwarded
<1> QED
  BY <1>1, <1>2

LEMMA UpstreamRightful ==
    ASSUME NEW n \in Forwarder, NEW f \in Upstream(n), AcceptsFrameSlot(f)
    PROVE  f \in Rightful(Parent(n))
BY InboxElements DEF Rightful, Forwarder

LEMMA AckRightful ==
    ASSUME NEW n \in Forwarder, NEW f \in AckTo(n) PROVE f \in Rightful(n)
BY InboxElements DEF Rightful, Forwarder, AckTo

\* Sending a rightful frame and taking a head keep every queue rightful.
LEMMA RightfulSend ==
    ASSUME RadioTypeOK, \A n \in Node : rx[n] \in Seq(Rightful(n)),
           NEW m \in Node, NEW f \in Rightful(m), NEW k \in Nat,
           NEW q \in Received(rx[m], f, k), rx' = [rx EXCEPT ![m] = q]
    PROVE  \A n \in Node : rx'[n] \in Seq(Rightful(n))
<1>1. q \in Seq(Rightful(m))
  BY ReceivedFacts, DepthAssumption DEF RadioTypeOK
<1> QED
  BY <1>1 DEF RadioTypeOK

LEMMA RightfulTail ==
    ASSUME RadioTypeOK, \A n \in Node : rx[n] \in Seq(Rightful(n)),
           NEW m \in Node, rx[m] # <<>>
    PROVE  /\ Dequeue(m) \in [Node -> Seq(Frame)]
           /\ \A n \in Node : Dequeue(m)[n] \in Seq(Rightful(n))
           /\ \A n \in Node \ {m} : Dequeue(m)[n] = rx[n]
           /\ Head(rx[m]) \in Rightful(m)
<1>1. Tail(rx[m]) \in Seq(Rightful(m)) /\ Head(rx[m]) \in Rightful(m)
  BY TailFacts
<1>2. Dequeue(m) \in [Node -> Seq(Frame)]
  BY HeadType
<1> QED
  BY <1>1, <1>2 DEF RadioTypeOK, Dequeue

LEMMA RightfulReply ==
    ASSUME RadioTypeOK, \A n \in Node : rx[n] \in Seq(Rightful(n)),
           NEW m \in Node, rx[m] # <<>>, NEW c \in Node, c # m,
           NEW f \in Rightful(c), NEW q \in Received(rx[c], f, 1),
           rx' = [Dequeue(m) EXCEPT ![c] = q]
    PROVE  \A n \in Node : rx'[n] \in Seq(Rightful(n))
<1>1. q \in Seq(Rightful(c))
  BY ReceivedFacts, DepthAssumption DEF RadioTypeOK
<1> QED
  BY <1>1, RightfulTail

\* Remembering a frame, retrying it or ending its retry keeps the claims.
LEMMA ClaimsKept ==
    ASSUME PendingTypeOK, NEW n \in Forwarder, NEW p,
           pending_ack' = [pending_ack EXCEPT ![n] = p],
           HasPending(p) => AcceptsFrameSlot(p.frame),
           \A m \in Forwarder :
              HasPending(pending_ack[m]) => AcceptsFrameSlot(pending_ack[m].frame)
    PROVE  \A m \in Forwarder :
              HasPending(pending_ack'[m]) => AcceptsFrameSlot(pending_ack'[m].frame)
BY DEF PendingTypeOK

LEMMA AgedClaims == ASSUME TypeOK, ClaimsOwned, Tick PROVE ClaimsOwned'
<1>1. \A n \in Forwarder :
         HasPending(pending_ack'[n]) => AcceptsFrameSlot(pending_ack'[n].frame)
  <2> SUFFICES ASSUME NEW n \in Forwarder, HasPending(pending_ack'[n])
               PROVE  AcceptsFrameSlot(pending_ack'[n].frame)
    OBVIOUS
  <2>1. pending_ack'[n] = Aged(pending_ack[n])
    BY DEF Tick
  <2>2. Aged(pending_ack[n]).frame = pending_ack[n].frame
    BY DEF Aged, TypeOK, PendingTypeOK, PendingAcks
  <2> QED
    BY <2>1, <2>2 DEF HasPending, ClaimsOwned
<1>2. rx' = rx /\ forwarded_count' = Idle
  BY DEF Tick, relayVars
<1> QED
  BY <1>1, <1>2 DEF ClaimsOwned

LEMMA SampleClaims == ASSUME TypeOK, ClaimsOwned, SensorSlot PROVE ClaimsOwned'
<1> DEFINE origin == (data_seq + 1) % OriginSeqModulus
           kind   == IF sensor_alarm_active THEN Alarm ELSE Data
           copies == IF sensor_alarm_active THEN 1 ELSE BestEffortTxRepeats
           f      == MakeSample(kind, origin)
<1>1. /\ slot = SensorSlotNo /\ slot' = slot /\ forwarded_count' = forwarded_count
      /\ pending_ack' = [pending_ack EXCEPT ![Sensor] = Remember(@, f)]
      /\ \E q \in Received(rx[Relay], f, copies) : rx' = [rx EXCEPT ![Relay] = q]
  BY DEF SensorSlot, Serve, relayVars
<1>2. /\ origin \in OriginSeqs /\ copies \in Nat /\ kind \in {Data, Alarm}
  BY SeqAssumption, DepthAssumption DEF TypeOK, NumberTypeOK, OriginSeqs
<1> HIDE DEF origin, kind, copies
<1>3. f \in Upstream(Sensor) /\ AcceptsFrameSlot(f)
  BY <1>1, <1>2, MakeSampleType, StampedInOwnSlot DEF TypeOK
<1> HIDE DEF f
<1>4. \A n \in Node : rx'[n] \in Seq(Rightful(n))
  BY <1>1, <1>2, <1>3, UpstreamRightful, RightfulSend, InboxElements DEF TypeOK, ClaimsOwned
<1>5. HasPending(Remember(pending_ack[Sensor], f))
         => AcceptsFrameSlot(Remember(pending_ack[Sensor], f).frame)
  BY <1>3, InboxElements DEF Remember, HasPending, ClaimsOwned
<1> QED
  BY <1>1, <1>4, <1>5, ClaimsKept, InboxElements DEF TypeOK, ClaimsOwned

\* The relay's slot and its burst.
LEMMA ForwardClaims ==
    ASSUME TypeOK, ClaimsOwned, slot = RelaySlotNo, slot' = slot,
           NEW g \in Upstream(Sensor), NEW k \in Nat,
           pending_ack' = [pending_ack EXCEPT ![Relay] = Remember(@, MakeForwarded(g))],
           \E q \in Received(rx[Gateway], MakeForwarded(g), k) :
              rx' = [rx EXCEPT ![Gateway] = q]
    PROVE  ClaimsOwned'
<1> DEFINE f == MakeForwarded(g)
<1>1. f \in Upstream(Relay) /\ AcceptsFrameSlot(f)
  BY MakeForwardedType, StampedInOwnSlot DEF TypeOK
<1> HIDE DEF f
<1>2. \A n \in Node : rx'[n] \in Seq(Rightful(n))
  BY <1>1, UpstreamRightful, RightfulSend, InboxElements DEF TypeOK, ClaimsOwned, f
<1>3. HasPending(Remember(pending_ack[Relay], f))
         => AcceptsFrameSlot(Remember(pending_ack[Relay], f).frame)
  BY <1>1, InboxElements DEF Remember, HasPending, ClaimsOwned
<1> QED
  BY <1>2, <1>3, ClaimsKept, InboxElements DEF TypeOK, ClaimsOwned, f

LEMMA RelaySlotClaims == ASSUME TypeOK, ClaimsOwned, RelaySlot PROVE ClaimsOwned'
<1>1. slot = RelaySlotNo /\ slot' = slot
  BY DEF RelaySlot, Serve
<1>2. CASE pending_alarm_forward = None
  BY <1>1, <1>2 DEF RelaySlot, ClaimsOwned
<1>3. CASE pending_alarm_forward # None
  <2>1. pending_alarm_forward \in Upstream(Sensor)
    BY <1>3 DEF TypeOK, RelayTypeOK
  <2> QED
    BY <1>1, <1>3, <2>1, ForwardClaims DEF RelaySlot
<1> QED
  BY <1>2, <1>3

LEMMA BurstClaims == ASSUME TypeOK, ClaimsOwned, RelayForwardNext PROVE ClaimsOwned'
<1>1. slot = RelaySlotNo /\ slot' = slot /\ relay_forward # <<>>
  BY DEF RelayForwardNext, ClaimsOwned, clockVars, TypeOK, RelayTypeOK
<1>2. Head(relay_forward) \in Upstream(Sensor)
  BY <1>1, TailFacts DEF TypeOK, RelayTypeOK
<1> QED
  BY <1>1, <1>2, ForwardClaims, DepthAssumption DEF RelayForwardNext

LEMMA RetryClaims ==
    ASSUME TypeOK, ClaimsOwned, NEW n \in Forwarder, AlarmRetrySlot(n) PROVE ClaimsOwned'
<1> DEFINE p == pending_ack[n]
<1>1. slot' = slot /\ forwarded_count' = forwarded_count
  BY DEF AlarmRetrySlot, Serve, relayVars
<1>2. p.frame \in Upstream(n) \cup {None}
  BY DEF TypeOK, PendingTypeOK, PendingAcks
<1>3. \/ /\ HasPending(p) /\ pending_ack' = [pending_ack EXCEPT ![n] = Retried(@)]
         /\ \E q \in Received(rx[p.frame.dst], p.frame, 1) :
               rx' = [rx EXCEPT ![p.frame.dst] = q]
      \/ pending_ack' = [pending_ack EXCEPT ![n] = NoPending] /\ rx' = rx
      \/ UNCHANGED <<pending_ack, rx>>
  BY DEF AlarmRetrySlot, Retry, MayRetry
<1>4. CASE /\ HasPending(p) /\ pending_ack' = [pending_ack EXCEPT ![n] = Retried(@)]
           /\ \E q \in Received(rx[p.frame.dst], p.frame, 1) :
                 rx' = [rx EXCEPT ![p.frame.dst] = q]
  <2>1. /\ p.frame \in Upstream(n) /\ AcceptsFrameSlot(p.frame)
        /\ p.frame.dst = Parent(n) /\ Parent(n) \in Node
    BY <1>2, <1>4, InboxElements DEF HasPending, ClaimsOwned, Upstream, Forwarder
  <2>2. \A m \in Node : rx'[m] \in Seq(Rightful(m))
    BY <1>4, <2>1, UpstreamRightful, RightfulSend DEF TypeOK, ClaimsOwned
  <2>3. AcceptsFrameSlot(Retried(p).frame)
    BY <2>1 DEF Retried
  <2> QED
    BY <1>1, <1>4, <2>2, <2>3, ClaimsKept DEF TypeOK, ClaimsOwned
<1>5. CASE pending_ack' = [pending_ack EXCEPT ![n] = NoPending] /\ rx' = rx
  <2>1. ~HasPending(NoPending)
    BY DEF HasPending, NoPending
  <2> QED
    BY <1>1, <1>5, <2>1, ClaimsKept DEF TypeOK, ClaimsOwned
<1>6. CASE UNCHANGED <<pending_ack, rx>>
  BY <1>1, <1>6 DEF ClaimsOwned
<1> QED
  BY <1>3, <1>4, <1>5, <1>6

LEMMA AckClaims ==
    ASSUME TypeOK, ClaimsOwned, NEW n \in Forwarder, RxAck(n) PROVE ClaimsOwned'
<1>1. /\ rx[n] # <<>> /\ n \in Node /\ rx' = Dequeue(n)
      /\ slot' = slot /\ forwarded_count' = forwarded_count
  BY DEF RxAck, Receives, Forwarder, Node, clockVars, relayVars
<1>2. \A m \in Node : rx'[m] \in Seq(Rightful(m))
  BY <1>1, RightfulTail DEF TypeOK, ClaimsOwned
<1>3. PICK a, t : pending_ack' = [pending_ack EXCEPT ![n] = ClearIfMatches(@, a, t)]
  BY DEF RxAck
<1>4. HasPending(ClearIfMatches(pending_ack[n], a, t))
         => AcceptsFrameSlot(ClearIfMatches(pending_ack[n], a, t).frame)
  BY DEF ClearIfMatches, HasPending, NoPending, ClaimsOwned
<1> QED
  BY <1>1, <1>2, <1>3, <1>4, ClaimsKept DEF TypeOK, ClaimsOwned

LEMMA ClearingClaims ==
    ASSUME TypeOK, ClaimsOwned, SensorAlarmTransition PROVE ClaimsOwned'
<1>1. rx' = rx /\ slot' = slot /\ forwarded_count' = forwarded_count
  BY DEF SensorAlarmTransition, clockVars, relayVars
<1>2. \/ pending_ack' = pending_ack
      \/ pending_ack' = [pending_ack EXCEPT ![Sensor] = CancelIfMatches(@, Alarm)]
  BY DEF SensorAlarmTransition
<1>3. HasPending(CancelIfMatches(pending_ack[Sensor], Alarm))
         => AcceptsFrameSlot(CancelIfMatches(pending_ack[Sensor], Alarm).frame)
  BY InboxElements DEF CancelIfMatches, HasPending, NoPending, ClaimsOwned
<1> QED
  BY <1>1, <1>2, <1>3, ClaimsKept, InboxElements DEF TypeOK, ClaimsOwned

\* The handlers of DATA and ALARM queue at most an ACK.
LEMMA HandlerClaims ==
    ASSUME TypeOK, ClaimsOwned,
           \/ \E n \in Receiver : RxIgnored(n)
           \/ RelayRxAlarm \/ RelayRxData \/ GatewayRxAlarm \/ GatewayRxData
    PROVE  ClaimsOwned'
<1>1. UNCHANGED <<slot, forwarded_count, pending_ack>>
  BY DEF RxIgnored, RelayRxAlarm, RelayRxData, GatewayRxAlarm, GatewayRxData,
     clockVars, relayVars
<1>2. \A n \in Node : rx'[n] \in Seq(Rightful(n))
  <2>1. ASSUME NEW n \in Node, rx[n] # <<>>, rx' = Dequeue(n)
        PROVE  \A m \in Node : rx'[m] \in Seq(Rightful(m))
    BY <2>1, RightfulTail DEF TypeOK, ClaimsOwned
  <2>2. ASSUME NEW n \in Forwarder, NEW m \in Receiver, m = Parent(n),
               rx[m] # <<>>, Head(rx[m]) \in Upstream(n),
               \E q \in Received(rx[Head(rx[m]).src], MakeAck(m, Head(rx[m])), 1) :
                  rx' = [Dequeue(m) EXCEPT ![Head(rx[m]).src] = q]
        PROVE  \A i \in Node : rx'[i] \in Seq(Rightful(i))
    <3> DEFINE f == Head(rx[m])
               a == MakeAck(m, f)
    <3>1. f.src = n /\ m \in Node /\ n \in Node /\ n # m
      BY <2>2 DEF Upstream, Receiver, Forwarder, Node, Parent, Gateway, Relay, Sensor
    <3>2. a \in Rightful(n)
      BY <2>2, MakeAckType, AckRightful
    <3>3. PICK q \in Received(rx[n], a, 1) : rx' = [Dequeue(m) EXCEPT ![n] = q]
      BY <2>2, <3>1
    <3> HIDE DEF a
    <3> QED
      BY <2>2, <3>1, <3>2, <3>3, RightfulReply DEF TypeOK, ClaimsOwned
  <2>3. CASE \E n \in Receiver : RxIgnored(n)
    BY <2>1, <2>3 DEF RxIgnored, Receives, Receiver, Node
  <2>4. CASE RelayRxData \/ GatewayRxData
    BY <2>1, <2>4, InboxElements DEF RelayRxData, GatewayRxData, Receives
  <2>5. CASE RelayRxAlarm
    <3>1. rx[Relay] # <<>> /\ Head(rx[Relay]).frame_type = Alarm
      BY <2>5 DEF RelayRxAlarm, Receives
    <3>2. Head(rx[Relay]) \in Upstream(Sensor)
      BY <3>1, HeadType, InboxElements DEF TypeOK, AckTo, Alarm, Ack
    <3> QED
      BY <2>2, <2>5, <3>1, <3>2, InboxElements DEF RelayRxAlarm
  <2>6. CASE GatewayRxAlarm
    <3>1. rx[Gateway] # <<>>
      BY <2>6 DEF GatewayRxAlarm, Receives
    <3>2. Head(rx[Gateway]) \in Upstream(Relay)
      BY <3>1, HeadType, InboxElements DEF TypeOK
    <3> QED
      BY <2>2, <2>6, <3>1, <3>2, InboxElements DEF GatewayRxAlarm
  <2> QED
    BY <2>3, <2>4, <2>5, <2>6
<1> QED
  BY <1>1, <1>2 DEF ClaimsOwned

LEMMA ClaimsStep == TypeOK /\ ClaimsOwned /\ [Next]_vars => ClaimsOwned'
<1> SUFFICES ASSUME TypeOK, ClaimsOwned, [Next]_vars PROVE ClaimsOwned'
  OBVIOUS
<1>1. CASE UNCHANGED <<slot, rx, pending_ack, forwarded_count>>
  BY <1>1 DEF ClaimsOwned
<1>2. CASE GatewaySyncSlot \/ RelayControlSlot \/ SensorSample \/ BuzzerTask \/ UNCHANGED vars
  BY <1>1, <1>2 DEF GatewaySyncSlot, RelayControlSlot, Serve, SensorSample, BuzzerTask,
     clockVars, relayVars, vars
<1> QED
  BY <1>2, AgedClaims, SampleClaims, RelaySlotClaims, BurstClaims, RetryClaims, AckClaims,
     ClearingClaims, HandlerClaims DEF Next, SlotWork, Handle, Tasks

\* The gate counts only heads it does not accept.
LEMMA ViolationStep ==
    TypeOK /\ ClaimsOwned /\ NoSlotViolations /\ [Next]_vars => NoSlotViolations'
<1> SUFFICES ASSUME TypeOK, ClaimsOwned, NoSlotViolations, [Next]_vars
             PROVE  NoSlotViolations'
  OBVIOUS
<1>1. ASSUME NEW n \in Receiver, RxIgnored(n) PROVE slot_violations' = slot_violations
  <2>1. rx[n] # <<>> /\ n \in Node /\ Head(rx[n]).frame_type # Ack
    BY <1>1 DEF RxIgnored, Receives, Receiver, Node, Data, Alarm, Ack
  <2>2. Head(rx[n]) \in Rightful(n)
    BY <2>1, RightfulTail DEF TypeOK, ClaimsOwned
  <2> QED
    BY <1>1, <2>1, <2>2 DEF RxIgnored, Rightful
<1>2. ASSUME \A n \in Receiver : ~RxIgnored(n) PROVE slot_violations' = slot_violations
  BY <1>2 DEF Next, SlotWork, Handle, Tasks, Tick, GatewaySyncSlot, RelayControlSlot,
     SensorSlot, RelaySlot, RelayForwardNext, AlarmRetrySlot, RxAck, RelayRxAlarm,
     RelayRxData, GatewayRxAlarm, GatewayRxData, SensorSample, SensorAlarmTransition,
     BuzzerTask, vars
<1> QED
  BY <1>1, <1>2 DEF NoSlotViolations

\* No frame of a node that follows the schedule is refused by the slot gate,
\* however long it queues and however often it is retransmitted.
THEOREM NoSlotViolationsCorrect == Spec => []NoSlotViolations
<1>1. Init => ClaimsOwned /\ NoSlotViolations
  <2> SUFFICES ASSUME Init PROVE ClaimsOwned /\ NoSlotViolations
    OBVIOUS
  <2>1. \A n \in Node : rx[n] \in Seq(Rightful(n))
    BY EmptySeq DEF Init
  <2>2. \A n \in Forwarder : ~HasPending(pending_ack[n])
    BY DEF Init, HasPending, NoPending
  <2>3. forwarded_count = Idle /\ NoSlotViolations
    BY DEF Init, NoSlotViolations
  <2> QED
    BY <2>1, <2>2, <2>3 DEF ClaimsOwned
<1> QED
  BY <1>1, ClaimsStep, ViolationStep, TypeCorrect, PTL DEF Spec
=============================================================================
