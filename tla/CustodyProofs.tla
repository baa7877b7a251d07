---------------------------- MODULE CustodyProofs ----------------------------
(***************************************************************************)
(* Theorems about the hop from the sensor to the relay and about what the  *)
(* relay holds.  While the sensor's u16 sequence number does not wrap, the *)
(* relay applies the sensor's frames in order and once, acknowledges only  *)
(* what it applied, buffers DATA in the order it was sampled, and all of   *)
(* it together implements the abstract Handover.  While the relay's number *)
(* does not wrap either, an ALARM it acknowledged stays in its custody.    *)
(***************************************************************************)
EXTENDS AlarmPathProofs

SensorNoWrap == SensorMaxSeq < SeqModulus
RelayNoWrap  == RelayMaxSeq < SeqModulus

-----------------------------------------------------------------------------
(***************************************************************************)
(* Lemmas about ordered queues.                                            *)
(***************************************************************************)
\* The frames whose order is at stake carry numbers.
Numbered(S) == \A f \in S : f.frame_type # Ack => f.seq \in Nat

\* Taking the head off keeps the order; a head that is not an ACK bounds the
\* rest from below.
LEMMA OrderedTail ==
    ASSUME NEW S, Numbered(S), NEW q \in Seq(S), q # <<>>,
           NEW lo \in Nat, NEW hi \in Nat, OrderedBetween(q, lo, hi)
    PROVE  /\ OrderedBetween(Tail(q), lo, hi)
           /\ Head(q).frame_type # Ack =>
                 /\ lo <= Head(q).seq /\ Head(q).seq <= hi
                 /\ OrderedBetween(Tail(q), Head(q).seq, hi)
<1>1. /\ Head(q) = q[1]
      /\ Len(Tail(q)) = Len(q) - 1 /\ Len(q) \in Nat \ {0}
      /\ \A i \in 1 .. Len(Tail(q)) : Tail(q)[i] = q[i + 1]
  BY TailFacts
<1>2. \A i \in 1 .. Len(q) : q[i].frame_type # Ack =>
         /\ lo <= q[i].seq /\ q[i].seq <= hi
         /\ \A j \in i + 1 .. Len(q) : q[j].frame_type # Ack => q[i].seq <= q[j].seq
  BY DEF OrderedBetween
<1>3. \A i \in 1 .. Len(Tail(q)) : Tail(q)[i].frame_type # Ack =>
         /\ lo <= Tail(q)[i].seq /\ Tail(q)[i].seq <= hi
         /\ \A j \in i + 1 .. Len(Tail(q)) :
               Tail(q)[j].frame_type # Ack => Tail(q)[i].seq <= Tail(q)[j].seq
  <2> SUFFICES ASSUME NEW i \in 1 .. Len(Tail(q)), Tail(q)[i].frame_type # Ack
               PROVE  /\ lo <= Tail(q)[i].seq /\ Tail(q)[i].seq <= hi
                      /\ \A j \in i + 1 .. Len(Tail(q)) :
                            Tail(q)[j].frame_type # Ack
                               => Tail(q)[i].seq <= Tail(q)[j].seq
    OBVIOUS
  <2>1. i + 1 \in 1 .. Len(q) /\ Tail(q)[i] = q[i + 1]
    BY <1>1
  <2>2. ASSUME NEW j \in i + 1 .. Len(Tail(q)), Tail(q)[j].frame_type # Ack
        PROVE  Tail(q)[i].seq <= Tail(q)[j].seq
    <3>1. j + 1 \in i + 1 + 1 .. Len(q) /\ Tail(q)[j] = q[j + 1]
      BY <1>1, <2>2
    <3> QED
      BY <1>2, <2>1, <2>2, <3>1
  <2> QED
    BY <1>2, <2>1, <2>2
<1>4. ASSUME Head(q).frame_type # Ack
      PROVE  /\ lo <= Head(q).seq /\ Head(q).seq <= hi
             /\ \A i \in 1 .. Len(Tail(q)) :
                   Tail(q)[i].frame_type # Ack => Head(q).seq <= Tail(q)[i].seq
  BY <1>1, <1>2, <1>4
<1> QED
  BY <1>3, <1>4 DEF OrderedBetween

\* Copies of a frame with the highest number, or of an ACK, go to the end.
LEMMA OrderedSend ==
    ASSUME NEW S, Numbered(S), NEW q \in Seq(S), Len(q) <= RxDepth, RxDepth \in Nat,
           NEW lo \in Nat, NEW hi \in Nat, NEW top \in Nat, lo <= hi, hi <= top,
           OrderedBetween(q, lo, hi),
           NEW f \in S, f.frame_type # Ack => f.seq = top,
           NEW n \in Nat, NEW r \in Received(q, f, n)
    PROVE  OrderedBetween(r, lo, top)
<1>1. /\ r \in Seq(S) /\ Len(q) <= Len(r)
      /\ \A i \in 1 .. Len(q) : r[i] = q[i]
      /\ \A i \in Len(q) + 1 .. Len(r) : r[i] = f
  BY ReceivedFacts
<1>2. Len(q) \in Nat /\ Len(r) \in Nat
  BY <1>1, LenProperties
<1>3. \A i \in 1 .. Len(r) : r[i] \in S
  BY <1>1, ElementOfSeq
<1>4. \A i \in 1 .. Len(q) : q[i].frame_type # Ack =>
         /\ lo <= q[i].seq /\ q[i].seq <= hi
         /\ \A j \in i + 1 .. Len(q) : q[j].frame_type # Ack => q[i].seq <= q[j].seq
  BY DEF OrderedBetween
<1>5. \A i \in 1 .. Len(r) : r[i].frame_type # Ack =>
         /\ lo <= r[i].seq /\ r[i].seq <= top /\ r[i].seq \in Nat
         /\ i > Len(q) => r[i].seq = top
  <2> SUFFICES ASSUME NEW i \in 1 .. Len(r), r[i].frame_type # Ack
               PROVE  /\ lo <= r[i].seq /\ r[i].seq <= top /\ r[i].seq \in Nat
                      /\ i > Len(q) => r[i].seq = top
    OBVIOUS
  <2>1. r[i].seq \in Nat
    BY <1>3 DEF Numbered
  <2>2. CASE i \in 1 .. Len(q)
    BY <1>1, <1>2, <1>4, <2>1, <2>2
  <2>3. CASE i \in Len(q) + 1 .. Len(r)
    BY <1>1, <1>2, <2>1, <2>3
  <2> QED
    BY <1>2, <2>2, <2>3
<1>6. ASSUME NEW i \in 1 .. Len(r), r[i].frame_type # Ack,
             NEW j \in i + 1 .. Len(r), r[j].frame_type # Ack
      PROVE  r[i].seq <= r[j].seq
  <2>1. j \in 1 .. Len(r)
    BY <1>2
  <2>2. CASE j \in 1 .. Len(q)
    <3>1. i \in 1 .. Len(q) /\ j \in i + 1 .. Len(q)
      BY <1>2, <2>2
    <3> QED
      BY <1>1, <1>4, <1>6, <2>2, <3>1
  <2>3. CASE j > Len(q)
    <3>1. r[j].seq = top /\ r[i].seq <= top
      BY <1>5, <1>6, <2>1, <2>3
    <3> QED
      BY <3>1
  <2> QED
    BY <1>2, <2>1, <2>2, <2>3
<1> QED
  BY <1>5, <1>6 DEF OrderedBetween
-----------------------------------------------------------------------------
(***************************************************************************)
(* The steps of the system as they look at the relay's queue.              *)
(***************************************************************************)
\* A transmission to the relay: the sensor's frame with its newest number, or
\* an ACK of the gateway.
Arrival(f) ==
    /\ f \in Inbox(Relay) /\ \E k \in Nat : rx'[Relay] \in Received(rx[Relay], f, k)
    /\ seq[Sensor] <= seq'[Sensor]
    /\ f.frame_type # Ack => f.seq = seq'[Sensor]
    /\ last_data_seq'[Relay] = last_data_seq[Relay]

\* The relay takes its head off the queue, without or with applying it.
Drop ==
    /\ rx[Relay] # <<>> /\ rx'[Relay] = Tail(rx[Relay])
    /\ seq'[Sensor] = seq[Sensor] /\ last_data_seq'[Relay] = last_data_seq[Relay]

Application(f) ==
    /\ rx[Relay] # <<>> /\ rx'[Relay] = Tail(rx[Relay])
    /\ f = Head(rx[Relay]) /\ f \in Upstream(Sensor) /\ last_data_seq[Relay] # Key(f)
    /\ seq'[Sensor] = seq[Sensor] /\ last_data_seq'[Relay] = Key(f)

Elsewhere == UNCHANGED <<rx[Relay], seq[Sensor], last_data_seq[Relay]>>

\* What a frame of the sensor is, and what reading one gives.
LEMMA SensorFrame ==
    /\ \A f \in Upstream(Sensor) : /\ f.src = Sensor /\ f.dst = Relay
                                   /\ f.frame_type # Ack /\ f.seq \in Seqs
    /\ \A f \in AckTo(Relay) : f.frame_type = Ack
    /\ Seqs \subseteq Nat
    /\ Numbered(Inbox(Relay))
<1>1. \A f \in Upstream(Sensor) : /\ f.src = Sensor /\ f.dst = Relay
                                  /\ f.frame_type # Ack /\ f.seq \in Seqs
  BY InboxElements DEF Upstream, Data, Alarm, Ack
<1>2. \A f \in AckTo(Relay) : f.frame_type = Ack
  BY DEF AckTo
<1>3. Seqs \subseteq Nat
  BY SeqAssumption DEF Seqs
<1> QED
  BY <1>1, <1>2, <1>3, InboxElements DEF Numbered

LEMMA Variables ==
    ASSUME TypeOK
    PROVE  /\ rx \in [Node -> Seq(Frame)] /\ seq \in [Forwarder -> Seqs]
           /\ DOMAIN last_data_seq = Receiver /\ last_data_seq \in [Receiver ->
                 Keys(Relay) \cup Keys(Sensor) \cup {None}]
           /\ \A n \in Node : rx[n] \in Seq(Inbox(n)) /\ Len(rx[n]) <= RxDepth
           /\ RxDepth \in Nat /\ seq[Sensor] \in Nat /\ seq[Relay] \in Nat
           /\ Sensor # Relay /\ Sensor # Gateway /\ Relay # Gateway
BY SensorFrame, InboxElements, DepthAssumption
DEF TypeOK, RadioTypeOK, NumberTypeOK, Sensor, Relay, Gateway

\* Below the bound, taking a number makes it larger by one.
LEMMA NoWrapBump ==
    ASSUME TypeOK, SensorNoWrap, CanSend(Sensor)
    PROVE  NextSeq(Sensor) = seq[Sensor] + 1
<1>1. seq[Sensor] < SensorMaxSeq
  BY Variables DEF CanSend
<1>2. seq[Sensor] + 1 \in 0 .. SeqModulus - 1
  BY <1>1, Variables, SeqAssumption DEF SensorNoWrap
<1>3. \A m \in Nat : \A a \in 0 .. m - 1 : a % m = a
  OBVIOUS
<1> QED
  BY <1>2, <1>3, SeqAssumption DEF NextSeq

LEMMA SensorSlotStep ==
    ASSUME TypeOK, SensorNoWrap, SensorSlot PROVE \E f : Arrival(f)
<1> DEFINE origin == (data_seq + 1) % OriginSeqModulus
           kind   == IF sensor_alarm_active THEN Alarm ELSE Data
           copies == IF sensor_alarm_active THEN 1 ELSE BestEffortTxRepeats
           f      == MakeSample(kind, origin)
<1>1. /\ Bump(Sensor) /\ CanSend(Sensor) /\ last_data_seq' = last_data_seq
      /\ \E q \in Received(rx[Relay], f, copies) : rx' = [rx EXCEPT ![Relay] = q]
  BY DEF SensorSlot
<1>2. origin \in OriginSeqs /\ copies \in Nat
  BY SeqAssumption, DepthAssumption DEF TypeOK, NumberTypeOK, OriginSeqs
<1>3. kind \in {Data, Alarm}
  OBVIOUS
<1>4. f.seq = NextSeq(Sensor)
  BY DEF MakeSample
<1> HIDE DEF origin, kind, copies
<1>5. f \in Upstream(Sensor)
  BY <1>2, <1>3, MakeSampleType DEF TypeOK
<1> HIDE DEF f
<1>6. seq'[Sensor] = NextSeq(Sensor) /\ NextSeq(Sensor) = seq[Sensor] + 1
  BY <1>1, Variables, NoWrapBump, InboxElements DEF Bump
<1>7. rx'[Relay] \in Received(rx[Relay], f, copies)
  BY <1>1, Variables, InboxElements
<1>8. Arrival(f)
  BY <1>1, <1>2, <1>4, <1>5, <1>6, <1>7, Variables, InboxElements DEF Arrival
<1> QED
  BY <1>8

LEMMA SensorRetrySlotStep ==
    ASSUME TypeOK, SensorRetryIsCurrent, AlarmRetrySlot(Sensor)
    PROVE  Elsewhere \/ \E f : Arrival(f)
<1> DEFINE p == pending_ack[Sensor]
<1>1. /\ seq' = seq /\ last_data_seq' = last_data_seq
      /\ \/ UNCHANGED rx
         \/ /\ HasPending(p)
            /\ \E q \in Received(rx[p.frame.dst], p.frame, 1) :
                  rx' = [rx EXCEPT ![p.frame.dst] = q]
  BY DEF AlarmRetrySlot, Retry, MayRetry
<1>2. CASE UNCHANGED rx
  BY <1>1, <1>2 DEF Elsewhere
<1>3. CASE /\ HasPending(p)
           /\ \E q \in Received(rx[p.frame.dst], p.frame, 1) :
                 rx' = [rx EXCEPT ![p.frame.dst] = q]
  <2>1. p.frame \in Upstream(Sensor)
    BY <1>3, InboxElements DEF TypeOK, PendingTypeOK, PendingAcks, HasPending
  <2>2. p.frame.dst = Relay /\ p.frame.seq = seq[Sensor]
    BY <1>3, <2>1, SensorFrame DEF SensorRetryIsCurrent
  <2>3. rx'[Relay] \in Received(rx[Relay], p.frame, 1)
    BY <1>3, <2>2, Variables, InboxElements
  <2>4. Arrival(p.frame)
    BY <1>1, <2>1, <2>2, <2>3, Variables, InboxElements DEF Arrival
  <2> QED
    BY <2>4
<1> QED
  BY <1>1, <1>2, <1>3

LEMMA GatewayAnswerStep ==
    ASSUME TypeOK, GatewayRxAlarm PROVE \E f : Arrival(f)
<1> DEFINE f == Head(rx[Gateway])
<1>1. rx[Gateway] # <<>> /\ seq' = seq
  BY DEF GatewayRxAlarm, Receives
<1>2. f \in Upstream(Relay) /\ f.src = Relay
  <2>1. f \in Upstream(Relay)
    BY <1>1, HeadType, InboxElements DEF TypeOK
  <2> QED
    BY <2>1 DEF Upstream
<1>3. MakeAck(Gateway, f) \in AckTo(Relay)
  BY <1>2, MakeAckType, InboxElements
<1>4. rx'[Relay] \in Received(rx[Relay], MakeAck(Gateway, f), 1)
  BY <1>2, Variables, InboxElements DEF GatewayRxAlarm, Dequeue
<1>5. last_data_seq'[Relay] = last_data_seq[Relay]
  BY Variables, InboxElements DEF GatewayRxAlarm
<1>6. Arrival(MakeAck(Gateway, f))
  BY <1>1, <1>3, <1>4, <1>5, SensorFrame, Variables, InboxElements DEF Arrival
<1> QED
  BY <1>6

LEMMA ApplicationStep ==
    ASSUME TypeOK, RelayRxAlarm \/ RelayRxData PROVE Application(Head(rx[Relay]))
<1> DEFINE f == Head(rx[Relay])
<1>1. /\ rx[Relay] # <<>> /\ f.frame_type \in {Data, Alarm}
      /\ last_data_seq[Relay] # Key(f)
      /\ last_data_seq' = [last_data_seq EXCEPT ![Relay] = Key(f)]
  BY DEF RelayRxAlarm, RelayRxData, Receives, Applies
<1>2. f \in Upstream(Sensor)
  BY <1>1, HeadType, InboxElements DEF TypeOK, AckTo, Data, Alarm, Ack
<1>3. f.src = Sensor
  BY <1>2, SensorFrame
<1>4. rx'[Relay] = Tail(rx[Relay])
  BY <1>3, Variables, InboxElements DEF RelayRxAlarm, RelayRxData, Dequeue
<1>5. seq'[Sensor] = seq[Sensor]
  BY Variables, InboxElements DEF RelayRxAlarm, RelayRxData, Bump
<1>6. last_data_seq'[Relay] = Key(f)
  BY <1>1, Variables, InboxElements
<1> QED
  BY <1>1, <1>2, <1>4, <1>5, <1>6 DEF Application

LEMMA DropStep ==
    ASSUME TypeOK, NEW n \in Node,
           (n \in Receiver /\ RxIgnored(n)) \/ (n \in Forwarder /\ RxAck(n))
    PROVE  IF n = Relay THEN Drop ELSE Elsewhere
<1>1. rx[n] # <<>> /\ rx' = Dequeue(n) /\ UNCHANGED <<seq, last_data_seq>>
  BY DEF RxIgnored, RxAck, Receives
<1> QED
  BY <1>1, Variables, InboxElements DEF Dequeue, Drop, Elsewhere

\* Every other step sends to other nodes only, or not at all.
LEMMA ElsewhereStep ==
    ASSUME TypeOK,
           \/ Tick \/ GatewaySyncSlot \/ RelayControlSlot \/ RelaySlot \/ RelayForwardNext
           \/ GatewayRxData \/ SensorSample \/ SensorAlarmTransition \/ BuzzerTask
           \/ UNCHANGED vars
    PROVE  Elsewhere
<1>1. CASE Tick \/ GatewaySyncSlot \/ SensorSample \/ SensorAlarmTransition \/ BuzzerTask
  BY <1>1 DEF Tick, GatewaySyncSlot, SensorSample, SensorAlarmTransition, BuzzerTask,
     Elsewhere
<1>2. CASE UNCHANGED vars
  BY <1>2 DEF vars, Elsewhere
<1>3. CASE RelayControlSlot
  BY <1>3, Variables, InboxElements DEF RelayControlSlot, Bump, Elsewhere
<1>4. CASE RelaySlot
  BY <1>4, Variables, InboxElements DEF RelaySlot, Bump, Elsewhere
<1>5. CASE RelayForwardNext
  BY <1>5, Variables, InboxElements DEF RelayForwardNext, Bump, Elsewhere
<1>6. CASE GatewayRxData
  BY <1>6, Variables, InboxElements DEF GatewayRxData, Dequeue, Elsewhere
<1> QED
  BY <1>1, <1>2, <1>3, <1>4, <1>5, <1>6

LEMMA RelayRetrySlotStep ==
    ASSUME TypeOK, AlarmRetrySlot(Relay) PROVE Elsewhere
<1> DEFINE p == pending_ack[Relay]
<1>1. /\ seq' = seq /\ last_data_seq' = last_data_seq
      /\ \/ UNCHANGED rx
         \/ /\ HasPending(p)
            /\ \E q : rx' = [rx EXCEPT ![p.frame.dst] = q]
  BY DEF AlarmRetrySlot, Retry, MayRetry
<1>2. CASE HasPending(p)
  <2>1. p.frame \in Upstream(Relay)
    BY <1>2, InboxElements DEF TypeOK, PendingTypeOK, PendingAcks, HasPending
  <2>2. p.frame.dst = Gateway
    BY <2>1, InboxElements DEF Upstream
  <2> QED
    BY <1>1, <2>2, Variables, InboxElements DEF Elsewhere
<1> QED
  BY <1>1, <1>2 DEF Elsewhere

LEMMA RelayQueueSteps ==
    ASSUME TypeOK, SensorRetryIsCurrent, SensorNoWrap, [Next]_vars
    PROVE  \/ Elsewhere \/ Drop
           \/ \E f : Arrival(f)
           \/ RelayRxAlarm /\ Application(Head(rx[Relay]))
           \/ RelayRxData /\ Application(Head(rx[Relay]))
<1>1. CASE Tick \/ Tasks \/ UNCHANGED vars
  BY <1>1, ElsewhereStep DEF Tasks
<1>2. CASE SlotWork
  BY <1>2, ElsewhereStep, SensorSlotStep, SensorRetrySlotStep, RelayRetrySlotStep
  DEF SlotWork, Forwarder
<1>3. CASE Handle
  <2>1. ASSUME NEW n \in Node,
               (n \in Receiver /\ RxIgnored(n)) \/ (n \in Forwarder /\ RxAck(n))
        PROVE  Elsewhere \/ Drop
    BY <2>1, DropStep
  <2> QED
    BY <1>3, <2>1, ElsewhereStep, GatewayAnswerStep, ApplicationStep
    DEF Handle, Receiver, Forwarder, Node
<1> QED
  BY <1>1, <1>2, <1>3 DEF Next
-----------------------------------------------------------------------------
(***************************************************************************)
(* Order on the first hop.                                                 *)
(***************************************************************************)
LEMMA LastAppliedFacts ==
    ASSUME TypeOK
    PROVE  /\ LastApplied \in Nat
           /\ last_data_seq[Relay] # None =>
                 /\ last_data_seq[Relay] = <<Sensor, LastApplied>>
                 /\ last_data_seq[Relay] \in Keys(Sensor)
           /\ \A f \in Upstream(Sensor) : Key(f) = <<Sensor, f.seq>> /\ Key(f) # None
<1>1. last_data_seq[Relay] \in Keys(Sensor) \cup {None}
  BY DEF TypeOK, NumberTypeOK
<1>2. ASSUME NEW k \in Keys(Sensor) PROVE k = <<Sensor, k[2]>> /\ k[2] \in Nat
  <2>1. PICK s \in Seqs : k = <<Sensor, s>>
    BY DEF Keys
  <2> QED
    BY <2>1, SensorFrame
<1>3. \A f \in Upstream(Sensor) : Key(f) = <<Sensor, f.seq>> /\ Key(f) # None
  BY NoneIsFresh, SensorFrame DEF Key, Keys
<1> QED
  BY <1>1, <1>2, <1>3 DEF LastApplied

\* Applying a frame makes its number the last one applied, and the key check
\* makes it a new one.
LEMMA ApplicationFacts ==
    ASSUME TypeOK, FirstHopQueue, NEW f, Application(f)
    PROVE  /\ f.seq \in Nat /\ LastApplied' = f.seq /\ last_data_seq'[Relay] # None
           /\ LastApplied <= f.seq /\ f.seq <= seq[Sensor]
           /\ last_data_seq[Relay] # None => LastApplied < f.seq
           /\ last_data_seq[Relay] # None
                 => last_data_seq[Relay][2] < last_data_seq'[Relay][2]
           /\ OrderedBetween(rx'[Relay], f.seq, seq[Sensor])
<1>1. /\ f \in Upstream(Sensor) /\ f.seq \in Nat /\ f.frame_type # Ack
      /\ f = Head(rx[Relay]) /\ rx[Relay] # <<>> /\ rx'[Relay] = Tail(rx[Relay])
      /\ last_data_seq[Relay] # Key(f) /\ last_data_seq'[Relay] = Key(f)
  BY SensorFrame DEF Application
<1>2. Key(f) = <<Sensor, f.seq>> /\ Key(f) # None
  BY <1>1, LastAppliedFacts
<1>3. LastApplied' = f.seq
  BY <1>1, <1>2 DEF LastApplied
<1>4. /\ LastApplied <= f.seq /\ f.seq <= seq[Sensor]
      /\ OrderedBetween(rx'[Relay], f.seq, seq[Sensor])
  <2>1. /\ Numbered(Inbox(Relay)) /\ rx[Relay] \in Seq(Inbox(Relay))
        /\ LastApplied \in Nat /\ seq[Sensor] \in Nat
        /\ OrderedBetween(rx[Relay], LastApplied, seq[Sensor])
    BY SensorFrame, Variables, InboxElements, LastAppliedFacts DEF FirstHopQueue
  <2> HIDE DEF LastApplied
  <2> QED
    BY <1>1, <2>1, OrderedTail
<1>5. last_data_seq[Relay] # None => LastApplied < f.seq
  <2> SUFFICES ASSUME last_data_seq[Relay] # None PROVE LastApplied < f.seq
    OBVIOUS
  <2>1. LastApplied # f.seq
    BY <1>1, <1>2, LastAppliedFacts
  <2> QED
    BY <1>1, <1>4, <2>1, LastAppliedFacts
<1>6. last_data_seq'[Relay][2] = f.seq
  BY <1>1, <1>2
<1>7. last_data_seq[Relay] # None => last_data_seq[Relay][2] = LastApplied
  BY DEF LastApplied
<1> QED
  BY <1>1, <1>2, <1>3, <1>4, <1>5, <1>6, <1>7

\* Together with the type and the sensor's retry, the queue's order is
\* inductive: copies of the newest frame arrive at its end, the head leaves.
LEMMA FirstHopQueueStep ==
    ASSUME SensorNoWrap, TypeOK, SensorRetryIsCurrent, FirstHopQueue, [Next]_vars
    PROVE  FirstHopQueue'
<1> DEFINE q == rx[Relay]
           lo == LastApplied
           hi == seq[Sensor]
<1>1. /\ Numbered(Inbox(Relay)) /\ q \in Seq(Inbox(Relay)) /\ Len(q) <= RxDepth
      /\ RxDepth \in Nat /\ lo \in Nat /\ hi \in Nat /\ lo <= hi
      /\ OrderedBetween(q, lo, hi)
  BY SensorFrame, Variables, InboxElements, LastAppliedFacts DEF FirstHopQueue
<1>2. CASE Elsewhere
  BY <1>2 DEF Elsewhere, FirstHopQueue, LastApplied
<1>3. CASE Drop
  <2>1. q # <<>> /\ rx'[Relay] = Tail(q) /\ seq'[Sensor] = hi /\ LastApplied' = lo
    BY <1>3 DEF Drop, LastApplied
  <2> HIDE DEF q, lo, hi
  <2>2. OrderedBetween(Tail(q), lo, hi)
    BY <1>1, <2>1, OrderedTail
  <2> QED
    BY <1>1, <2>1, <2>2 DEF FirstHopQueue
<1>4. ASSUME NEW f, Arrival(f) PROVE FirstHopQueue'
  <2>1. PICK k \in Nat : rx'[Relay] \in Received(q, f, k)
    BY <1>4 DEF Arrival
  <2>2. /\ f \in Inbox(Relay) /\ hi <= seq'[Sensor]
        /\ f.frame_type # Ack => f.seq = seq'[Sensor]
    BY <1>4 DEF Arrival
  <2>3. LastApplied' = lo
    BY <1>4 DEF Arrival, LastApplied
  <2>4. seq'[Sensor] \in Nat
    BY TypeStep, SensorFrame, InboxElements DEF TypeOK, NumberTypeOK
  <2> HIDE DEF q, lo, hi
  <2>5. OrderedBetween(rx'[Relay], lo, seq'[Sensor])
    BY <1>1, <2>1, <2>2, <2>4, OrderedSend
  <2> QED
    BY <1>1, <2>2, <2>3, <2>4, <2>5 DEF FirstHopQueue
<1>5. ASSUME Application(Head(rx[Relay])) PROVE FirstHopQueue'
  BY <1>5, ApplicationFacts DEF Application, FirstHopQueue
<1> QED
  BY <1>2, <1>3, <1>4, <1>5, RelayQueueSteps

\* The sensor's frames wait at the relay in the order of their numbers.
THEOREM FirstHopQueueCorrect ==
    ASSUME SensorNoWrap PROVE Spec => []FirstHopQueue
<1>1. Init => FirstHopQueue
  <2> SUFFICES ASSUME Init PROVE FirstHopQueue
    OBVIOUS
  <2>1. /\ rx[Relay] = <<>> /\ Len(rx[Relay]) = 0
        /\ last_data_seq[Relay] = None /\ seq[Sensor] = 1
    BY EmptySeq, InboxElements DEF Init, Sensor, Relay
  <2> QED
    BY <2>1 DEF FirstHopQueue, LastApplied, OrderedBetween
<1>2. TypeOK /\ SensorRetryIsCurrent /\ FirstHopQueue /\ [Next]_vars => FirstHopQueue'
  BY FirstHopQueueStep
<1> QED
  BY <1>1, <1>2, TypeCorrect, SensorRetryCorrect, PTL DEF Spec

\* The relay applies the sensor's frames in order and each at most once.
THEOREM FirstHopOrderCorrect ==
    ASSUME SensorNoWrap PROVE Spec => FirstHopInOrder
<1>1. ASSUME TypeOK, SensorRetryIsCurrent, FirstHopQueue, [Next]_vars
      PROVE  FirstHopStep
  <2>1. CASE Elsewhere \/ Drop \/ \E f : Arrival(f)
    BY <2>1 DEF Elsewhere, Drop, Arrival, FirstHopStep
  <2>2. ASSUME NEW f, Application(f) PROVE FirstHopStep
    BY <1>1, <2>2, ApplicationFacts DEF FirstHopStep
  <2> QED
    BY <1>1, <2>1, <2>2, RelayQueueSteps
<1>2. TypeOK /\ SensorRetryIsCurrent /\ FirstHopQueue /\ [Next]_vars => [FirstHopStep]_vars
  BY <1>1
<1> QED
  BY <1>2, TypeCorrect, SensorRetryCorrect, FirstHopQueueCorrect, PTL
  DEF Spec, FirstHopInOrder
-----------------------------------------------------------------------------
\* The number of the last frame applied never goes down.
LEMMA LastAppliedGrows ==
    ASSUME SensorNoWrap, TypeOK, SensorRetryIsCurrent, FirstHopQueue, [Next]_vars
    PROVE  /\ LastApplied <= LastApplied' /\ LastApplied' \in Nat
           /\ last_data_seq[Relay] # None => last_data_seq'[Relay] # None
<1>1. LastApplied \in Nat
  BY LastAppliedFacts
<1>2. CASE Elsewhere \/ Drop \/ \E f : Arrival(f)
  <2>1. last_data_seq'[Relay] = last_data_seq[Relay]
    BY <1>2 DEF Elsewhere, Drop, Arrival
  <2>2. LastApplied' = LastApplied
    BY <2>1 DEF LastApplied
  <2> QED
    BY <1>1, <2>1, <2>2
<1>3. ASSUME NEW f, Application(f)
      PROVE  /\ LastApplied <= LastApplied' /\ LastApplied' \in Nat
             /\ last_data_seq'[Relay] # None
  BY <1>3, ApplicationFacts
<1> QED
  BY <1>2, <1>3, RelayQueueSteps

(***************************************************************************)
(* ACKs on their way to the sensor.                                        *)
(***************************************************************************)
\* RelayRxAlarm adds one, RxAck removes one, nobody else touches the queue.
LEMMA SensorInboxSteps ==
    ASSUME TypeOK, [Next]_vars
    PROVE  \/ rx'[Sensor] = rx[Sensor]
           \/ rx[Sensor] # <<>> /\ rx'[Sensor] = Tail(rx[Sensor])
           \/ /\ RelayRxAlarm /\ MakeAck(Relay, Head(rx[Relay])) \in AckTo(Sensor)
              /\ rx'[Sensor] \in
                    Received(rx[Sensor], MakeAck(Relay, Head(rx[Relay])), 1)
<1>1. CASE RelayRxAlarm
  <2> DEFINE f == Head(rx[Relay])
  <2>1. f \in Upstream(Sensor)
    BY <1>1, ApplicationStep DEF Application
  <2>2. f.src = Sensor /\ MakeAck(Relay, f) \in AckTo(Sensor)
    BY <2>1, SensorFrame, MakeAckType, InboxElements
  <2>3. rx'[Sensor] \in Received(rx[Sensor], MakeAck(Relay, f), 1)
    BY <1>1, <2>2, Variables, InboxElements DEF RelayRxAlarm, Dequeue
  <2> QED
    BY <1>1, <2>2, <2>3
<1>2. CASE RxAck(Sensor)
  BY <1>2, Variables, InboxElements DEF RxAck, Receives, Dequeue
<1>3. CASE \/ RxIgnored(Gateway) \/ RxIgnored(Relay) \/ RxAck(Relay) \/ RelayRxData
           \/ GatewayRxData
  BY <1>3, Variables, InboxElements
  DEF RxIgnored, RxAck, RelayRxData, GatewayRxData, Dequeue
<1>4. CASE GatewayRxAlarm
  <2>1. rx[Gateway] # <<>>
    BY <1>4 DEF GatewayRxAlarm, Receives
  <2>2. Head(rx[Gateway]) \in Upstream(Relay)
    BY <2>1, HeadType, InboxElements DEF TypeOK
  <2>3. Head(rx[Gateway]).src = Relay
    BY <2>2 DEF Upstream
  <2> QED
    BY <1>4, <2>3, Variables, InboxElements DEF GatewayRxAlarm, Dequeue
<1>5. CASE SensorSlot \/ RelaySlot \/ RelayForwardNext
  BY <1>5, Variables, InboxElements DEF SensorSlot, RelaySlot, RelayForwardNext
<1>6. ASSUME NEW n \in Forwarder, AlarmRetrySlot(n) PROVE rx'[Sensor] = rx[Sensor]
  <2> DEFINE p == pending_ack[n]
  <2>1. \/ UNCHANGED rx
        \/ HasPending(p) /\ \E q : rx' = [rx EXCEPT ![p.frame.dst] = q]
    BY <1>6 DEF AlarmRetrySlot, Retry, MayRetry
  <2>2. HasPending(p) => p.frame \in Upstream(n)
    BY DEF TypeOK, PendingTypeOK, PendingAcks, HasPending
  <2>3. HasPending(p) => p.frame.dst = Parent(n) /\ Parent(n) # Sensor
    BY <2>2 DEF Upstream, Parent, Forwarder, Sensor, Relay, Gateway
  <2> QED
    BY <2>1, <2>3, Variables, InboxElements
<1>7. CASE \/ Tick \/ Tasks \/ GatewaySyncSlot \/ RelayControlSlot \/ UNCHANGED vars
  BY <1>7 DEF Tick, Tasks, GatewaySyncSlot, RelayControlSlot, SensorSample,
     SensorAlarmTransition, BuzzerTask, vars
<1> QED
  BY <1>1, <1>2, <1>3, <1>4, <1>5, <1>6, <1>7
  DEF Next, SlotWork, Handle, Forwarder, Receiver

LEMMA AckStep ==
    ASSUME SensorNoWrap, TypeOK, SensorRetryIsCurrent, FirstHopQueue,
           AckImpliesApplied, [Next]_vars
    PROVE  AckImpliesApplied'
<1> DEFINE q == rx[Sensor]
           a == MakeAck(Relay, Head(rx[Relay]))
<1>1. /\ q \in Seq(AckTo(Sensor)) /\ Len(q) <= RxDepth /\ RxDepth \in Nat
      /\ rx'[Sensor] \in Seq(AckTo(Sensor)) /\ Len(q) \in Nat
  BY Variables, InboxElements, TypeStep, LenProperties DEF TypeOK, RadioTypeOK
<1>2. \A x \in AckTo(Sensor) : x.acked_seq \in Nat
  BY SensorFrame DEF AckTo
<1>3. /\ LastApplied <= LastApplied' /\ LastApplied' \in Nat /\ LastApplied \in Nat
  BY LastAppliedGrows, LastAppliedFacts
<1>4. \A i \in 1 .. Len(q) : q[i].acked_seq <= LastApplied /\ q[i].acked_seq \in Nat
  BY <1>1, <1>2, ElementOfSeq DEF AckImpliesApplied
<1>5. \A i \in 1 .. Len(q) : q[i].acked_seq <= LastApplied'
  BY <1>3, <1>4
<1>6. CASE rx'[Sensor] = q
  BY <1>5, <1>6 DEF AckImpliesApplied
<1>7. CASE q # <<>> /\ rx'[Sensor] = Tail(q)
  <2>1. /\ Len(Tail(q)) = Len(q) - 1
        /\ \A i \in 1 .. Len(Tail(q)) : Tail(q)[i] = q[i + 1]
    BY <1>1, <1>7, TailFacts
  <2>2. \A i \in 1 .. Len(Tail(q)) : Tail(q)[i].acked_seq <= LastApplied'
    BY <1>1, <1>5, <2>1
  <2> QED
    BY <1>7, <2>2 DEF AckImpliesApplied
<1>8. CASE RelayRxAlarm /\ a \in AckTo(Sensor) /\ rx'[Sensor] \in Received(q, a, 1)
  <2>1. a.acked_seq = LastApplied'
    <3>1. Head(rx[Relay]).seq = LastApplied'
      BY <1>8, ApplicationStep, ApplicationFacts
    <3> QED
      BY <3>1 DEF MakeAck
  <2> HIDE DEF q, a
  <2>2. /\ \A i \in 1 .. Len(q) : rx'[Sensor][i] = q[i]
        /\ \A i \in Len(q) + 1 .. Len(rx'[Sensor]) : rx'[Sensor][i] = a
    BY <1>1, <1>8, ReceivedFacts
  <2>3. Len(rx'[Sensor]) \in Nat
    BY <1>1, LenProperties
  <2>4. \A i \in 1 .. Len(rx'[Sensor]) :
           i \in 1 .. Len(q) \/ i \in Len(q) + 1 .. Len(rx'[Sensor])
    BY <1>1, <2>3
  <2>5. \A i \in 1 .. Len(rx'[Sensor]) : rx'[Sensor][i].acked_seq <= LastApplied'
    BY <1>3, <1>5, <2>1, <2>2, <2>4
  <2> QED
    BY <2>5 DEF AckImpliesApplied
<1> QED
  BY <1>6, <1>7, <1>8, SensorInboxSteps

\* An ACK on its way to the sensor is for a frame the relay has applied.
THEOREM AckCorrect == ASSUME SensorNoWrap PROVE Spec => []AckImpliesApplied
<1>1. Init => AckImpliesApplied
  <2> SUFFICES ASSUME Init PROVE AckImpliesApplied
    OBVIOUS
  <2>1. Len(rx[Sensor]) = 0
    BY EmptySeq, InboxElements DEF Init
  <2> QED
    BY <2>1 DEF AckImpliesApplied
<1>2. /\ TypeOK /\ SensorRetryIsCurrent /\ FirstHopQueue
      /\ AckImpliesApplied /\ [Next]_vars
      => AckImpliesApplied'
  BY AckStep
<1> QED
  BY <1>1, <1>2, TypeCorrect, SensorRetryCorrect, FirstHopQueueCorrect, PTL DEF Spec
-----------------------------------------------------------------------------
(***************************************************************************)
(* What the relay keeps for its own slot.                                  *)
(***************************************************************************)
\* The inductive form of RelayBufferOrdered: the buffer holds DATA only, the
\* ALARM slot an ALARM, and neither holds anything before the first frame is
\* applied.
RelayKeeps ==
    /\ RelayBufferOrdered
    /\ \A i \in 1 .. Len(relay_forward) : relay_forward[i].frame_type = Data
    /\ pending_alarm_forward # None => /\ pending_alarm_forward.frame_type = Alarm
                                       /\ pending_alarm_forward.seq <= LastApplied
    /\ last_data_seq[Relay] = None => /\ relay_forward = <<>>
                                      /\ pending_alarm_forward = None

\* A buffer of DATA in order, none newer than top.
OrderedBuffer(b, top) ==
    \A i \in 1 .. Len(b) :
        /\ b[i].seq <= top /\ b[i].frame_type = Data
        /\ \A j \in i + 1 .. Len(b) : b[i].seq < b[j].seq

LEMMA OrderedBufferTail ==
    ASSUME NEW b \in Seq(Upstream(Sensor)), b # <<>>, NEW top, OrderedBuffer(b, top)
    PROVE  OrderedBuffer(Tail(b), top)
<1>1. /\ Len(Tail(b)) = Len(b) - 1 /\ Len(b) \in Nat \ {0}
      /\ \A i \in 1 .. Len(Tail(b)) : Tail(b)[i] = b[i + 1]
  BY TailFacts
<1>2. ASSUME NEW i \in 1 .. Len(Tail(b))
      PROVE  /\ Tail(b)[i].seq <= top /\ Tail(b)[i].frame_type = Data
             /\ \A j \in i + 1 .. Len(Tail(b)) : Tail(b)[i].seq < Tail(b)[j].seq
  <2>1. i + 1 \in 1 .. Len(b) /\ Tail(b)[i] = b[i + 1]
    BY <1>1
  <2>2. ASSUME NEW j \in i + 1 .. Len(Tail(b)) PROVE Tail(b)[i].seq < Tail(b)[j].seq
    <3>1. j + 1 \in i + 1 + 1 .. Len(b) /\ Tail(b)[j] = b[j + 1]
      BY <1>1
    <3> QED
      BY <2>1, <3>1 DEF OrderedBuffer
  <2> QED
    BY <2>1, <2>2 DEF OrderedBuffer
<1> QED
  BY <1>2 DEF OrderedBuffer

LEMMA OrderedBufferAppend ==
    ASSUME NEW b \in Seq(Upstream(Sensor)), NEW top \in Nat, OrderedBuffer(b, top),
           NEW f \in Upstream(Sensor), f.frame_type = Data, top < f.seq
    PROVE  OrderedBuffer(Append(b, f), f.seq)
<1> DEFINE a == Append(b, f)
<1>1. /\ Len(a) = Len(b) + 1 /\ Len(b) \in Nat /\ a[Len(b) + 1] = f
      /\ \A i \in 1 .. Len(b) : a[i] = b[i]
  BY AppendProperties, LenProperties
<1>2. f.seq \in Nat /\ \A i \in 1 .. Len(b) : b[i].seq \in Nat
  BY SensorFrame, ElementOfSeq
<1> HIDE DEF a
<1>3. ASSUME NEW i \in 1 .. Len(a)
      PROVE  /\ a[i].seq <= f.seq /\ a[i].frame_type = Data
             /\ \A j \in i + 1 .. Len(a) : a[i].seq < a[j].seq
  <2>1. CASE i = Len(b) + 1
    BY <1>1, <1>2, <2>1
  <2>2. CASE i \in 1 .. Len(b)
    <3>1. a[i] = b[i] /\ b[i].seq <= top /\ b[i].seq \in Nat /\ b[i].frame_type = Data
      BY <1>1, <1>2, <2>2 DEF OrderedBuffer
    <3>2. ASSUME NEW j \in i + 1 .. Len(a) PROVE a[i].seq < a[j].seq
      <4>1. CASE j = Len(b) + 1
        BY <1>1, <1>2, <3>1, <4>1
      <4>2. CASE j \in i + 1 .. Len(b)
        BY <1>1, <2>2, <3>1, <4>2 DEF OrderedBuffer
      <4> QED
        BY <1>1, <4>1, <4>2
    <3> QED
      BY <1>2, <3>1, <3>2
  <2> QED
    BY <1>1, <2>1, <2>2
<1> QED
  BY <1>3 DEF OrderedBuffer, a

LEMMA KeepsBuffer ==
    RelayKeeps <=>
        /\ OrderedBuffer(relay_forward, LastApplied)
        /\ pending_alarm_forward # None => /\ pending_alarm_forward.frame_type = Alarm
                                           /\ pending_alarm_forward.seq <= LastApplied
        /\ last_data_seq[Relay] = None => /\ relay_forward = <<>>
                                          /\ pending_alarm_forward = None
BY Zenon DEF RelayKeeps, RelayBufferOrdered, OrderedBuffer

LEMMA RelayKeepsStep ==
    ASSUME SensorNoWrap, TypeOK, SensorRetryIsCurrent, FirstHopQueue, RelayKeeps,
           [Next]_vars
    PROVE  RelayKeeps'
<1> DEFINE b == relay_forward
           top == LastApplied
<1>1. /\ b \in Seq(Upstream(Sensor)) /\ Len(b) <= RelayForwardCapacity
      /\ top \in Nat /\ LastApplied' \in Nat /\ top <= LastApplied'
      /\ last_data_seq[Relay] # None => last_data_seq'[Relay] # None
      /\ pending_alarm_forward \in Upstream(Sensor) \cup {None}
      /\ OrderedBuffer(b, top)
  BY LastAppliedGrows, LastAppliedFacts, KeepsBuffer DEF TypeOK, RelayTypeOK
<1>2. \A x \in Upstream(Sensor) : x.seq \in Nat
  BY SensorFrame
<1>3. \A i \in 1 .. Len(b) : b[i].seq \in Nat
  BY <1>1, <1>2, ElementOfSeq
<1>4. OrderedBuffer(b, LastApplied')
  BY <1>1, <1>3 DEF OrderedBuffer
<1>5. CASE RelayRxAlarm
  <2> DEFINE f == Head(rx[Relay])
  <2>1. /\ relay_forward' = b /\ pending_alarm_forward' = f /\ f.frame_type = Alarm
    BY <1>5 DEF RelayRxAlarm, Receives
  <2>2. f.seq = LastApplied' /\ last_data_seq'[Relay] # None
    BY <1>5, ApplicationStep, ApplicationFacts
  <2> HIDE DEF f
  <2> QED
    BY <1>1, <1>4, <2>1, <2>2, KeepsBuffer DEF RelayKeeps, RelayBufferOrdered, OrderedBuffer
<1>6. CASE RelayRxData
  <2> DEFINE f == Head(rx[Relay])
  <2>1. /\ relay_forward' = Buffered(b, f) /\ f.frame_type = Data
        /\ pending_alarm_forward' = pending_alarm_forward
    BY <1>6 DEF RelayRxData, Receives
  <2>2. /\ f.seq = LastApplied' /\ last_data_seq'[Relay] # None /\ f \in Upstream(Sensor)
        /\ last_data_seq[Relay] # None => top < f.seq
    BY <1>6, ApplicationStep, ApplicationFacts DEF Application
  <2> DEFINE kept == IF Len(b) = RelayForwardCapacity THEN Tail(b) ELSE b
  <2>3. kept \in Seq(Upstream(Sensor)) /\ OrderedBuffer(kept, top)
    <3>1. CASE Len(b) = RelayForwardCapacity
      <4>1. b # <<>>
        BY <3>1, EmptySeq, DepthAssumption
      <4> QED
        BY <1>1, <3>1, <4>1, TailFacts, OrderedBufferTail
    <3>2. CASE Len(b) # RelayForwardCapacity
      BY <1>1, <3>2
    <3> QED
      BY <3>1, <3>2
  <2>4. OrderedBuffer(Append(kept, f), f.seq)
    <3>1. CASE last_data_seq[Relay] # None
      BY <1>1, <2>1, <2>2, <2>3, <3>1, OrderedBufferAppend
    <3>2. CASE last_data_seq[Relay] = None
      <4>1. b = <<>> /\ Len(b) = 0
        BY <3>2, EmptySeq DEF RelayKeeps
      <4>2. Len(b) # RelayForwardCapacity
        BY <4>1, DepthAssumption
      <4>3. kept = <<>> /\ Append(kept, f) = <<f>>
        BY <4>1, <4>2
      <4>4. Len(<<f>>) = 1 /\ <<f>>[1] = f
        OBVIOUS
      <4>5. f.seq \in Nat
        BY <1>2, <2>2
      <4> HIDE DEF kept, f
      <4> QED
        BY <2>1, <4>3, <4>4, <4>5 DEF OrderedBuffer
    <3> QED
      BY <3>1, <3>2
  <2>5. Buffered(b, f) = Append(kept, f)
    BY DEF Buffered
  <2>6. pending_alarm_forward # None => /\ pending_alarm_forward.frame_type = Alarm
                                        /\ pending_alarm_forward.seq <= LastApplied'
    BY <1>1, <1>2 DEF RelayKeeps
  <2> HIDE DEF f, kept
  <2> QED
    BY <2>1, <2>2, <2>4, <2>5, <2>6, KeepsBuffer
    DEF RelayKeeps, RelayBufferOrdered, OrderedBuffer
<1>7. ASSUME last_data_seq'[Relay] = last_data_seq[Relay],
             relay_forward' = b \/ (b # <<>> /\ relay_forward' = Tail(b)),
             pending_alarm_forward' \in {pending_alarm_forward, None}
      PROVE  RelayKeeps'
  <2>1. LastApplied' = top
    BY <1>7 DEF LastApplied
  <2>2. OrderedBuffer(relay_forward', top)
    BY <1>1, <1>7, OrderedBufferTail
  <2>3. last_data_seq'[Relay] = None => /\ relay_forward' = <<>>
                                        /\ pending_alarm_forward' = None
    BY <1>7 DEF RelayKeeps
  <2>4. pending_alarm_forward' # None =>
           /\ pending_alarm_forward'.frame_type = Alarm
           /\ pending_alarm_forward'.seq <= LastApplied'
    BY <1>7, <2>1 DEF RelayKeeps
  <2> HIDE DEF b, top
  <2> QED
    BY <2>1, <2>2, <2>3, <2>4 DEF RelayKeeps, RelayBufferOrdered, OrderedBuffer
<1>8. CASE RelayForwardNext
  <2>1. /\ relay_forward' = Tail(b) /\ last_data_seq' = last_data_seq
        /\ pending_alarm_forward' = pending_alarm_forward /\ forwarded_count # Idle
    BY <1>8 DEF RelayForwardNext
  <2>2. b # <<>>
    BY <2>1 DEF TypeOK, RelayTypeOK
  <2> QED
    BY <1>7, <2>1, <2>2
<1>9. CASE RelaySlot
  BY <1>7, <1>9 DEF RelaySlot
<1>10. ASSUME ~RelayRxAlarm, ~RelayRxData, ~RelayForwardNext, ~RelaySlot
       PROVE  UNCHANGED <<relay_forward, pending_alarm_forward, last_data_seq[Relay]>>
  <2>1. UNCHANGED <<relay_forward, pending_alarm_forward>>
    BY <1>10 DEF Next, SlotWork, Handle, Tasks, Tick, GatewaySyncSlot, RelayControlSlot,
       SensorSlot, AlarmRetrySlot, RxIgnored, RxAck, GatewayRxAlarm, GatewayRxData,
       SensorSample, SensorAlarmTransition, BuzzerTask, vars, relayVars
  <2>2. last_data_seq'[Relay] = last_data_seq[Relay]
    BY <1>10, RelayQueueSteps DEF Elsewhere, Drop, Arrival
  <2> QED
    BY <2>1, <2>2
<1> QED
  BY <1>5, <1>6, <1>7, <1>8, <1>9, <1>10

LEMMA RelayKeepsInvariant == ASSUME SensorNoWrap PROVE Spec => []RelayKeeps
<1>1. Init => RelayKeeps
  <2> SUFFICES ASSUME Init PROVE RelayKeeps
    OBVIOUS
  <2>1. relay_forward = <<>> /\ Len(relay_forward) = 0 /\ pending_alarm_forward = None
    BY EmptySeq DEF Init
  <2> QED
    BY <2>1 DEF RelayKeeps, RelayBufferOrdered
<1>2. /\ TypeOK /\ SensorRetryIsCurrent /\ FirstHopQueue /\ RelayKeeps /\ [Next]_vars
      => RelayKeeps'
  BY RelayKeepsStep
<1> QED
  BY <1>1, <1>2, TypeCorrect, SensorRetryCorrect, FirstHopQueueCorrect, PTL DEF Spec

\* The relay's buffer is in the order the sensor sent the samples, through
\* overflow and bursts, for every capacity.
THEOREM RelayBufferCorrect == ASSUME SensorNoWrap PROVE Spec => []RelayBufferOrdered
<1>1. RelayKeeps => RelayBufferOrdered
  BY DEF RelayKeeps
<1> QED
  BY <1>1, RelayKeepsInvariant, PTL
-----------------------------------------------------------------------------
(***************************************************************************)
(* Custody of an ALARM.                                                    *)
(***************************************************************************)
\* The frame the relay retries has a number it handed out.
RelayRetryKnown ==
    HasPending(pending_ack[Relay]) => pending_ack[Relay].frame.seq <= seq[Relay]

\* How a step may change the frame the relay retries.
NewAlarm ==
    /\ seq[Relay] < seq'[Relay] /\ pending_ack'[Relay].frame.seq = seq'[Relay]
    /\ HasPending(pending_ack'[Relay])
GivenUp ==
    /\ ~HasPending(pending_ack'[Relay]) /\ pending_ack[Relay].attempts = MaxAttempts
Acknowledged ==
    /\ ~HasPending(pending_ack'[Relay])
    /\ rx[Relay] # <<>>
    /\ Head(rx[Relay]).frame_type = Ack
    /\ Head(rx[Relay]).acked_seq = pending_ack[Relay].frame.seq

LEMMA RelayBump ==
    ASSUME TypeOK, RelayNoWrap, CanSend(Relay), Bump(Relay)
    PROVE  seq[Relay] < seq'[Relay] /\ seq'[Relay] = NextSeq(Relay)
<1>1. seq[Relay] < RelayMaxSeq
  BY DEF CanSend
<1>2. seq[Relay] + 1 \in 0 .. SeqModulus - 1
  BY <1>1, Variables, SeqAssumption DEF RelayNoWrap
<1>3. \A m \in Nat : \A a \in 0 .. m - 1 : a % m = a
  OBVIOUS
<1>4. NextSeq(Relay) = seq[Relay] + 1
  BY <1>2, <1>3, SeqAssumption DEF NextSeq
<1> QED
  BY <1>4, Variables, InboxElements DEF Bump

LEMMA RelayPending ==
    ASSUME TypeOK
    PROVE  /\ pending_ack[Relay] \in PendingAcks(Upstream(Relay))
           /\ DOMAIN pending_ack = Forwarder
           /\ pending_ack \in [Forwarder -> PendingAcks(Upstream(Relay) \cup Upstream(Sensor))]
           /\ \A f \in Upstream(Relay) : f # None
BY InboxElements, NoneIsFresh DEF TypeOK, PendingTypeOK, Frame

\* Forwarding the waiting ALARM puts it under the relay's own retry.
LEMMA RelaySlotCustody ==
    ASSUME TypeOK, RelayNoWrap, RelayKeeps, RelaySlot, pending_alarm_forward # None
    PROVE  /\ NewAlarm
           /\ pending_ack'[Relay].frame.origin_seq = pending_alarm_forward.origin_seq
<1> DEFINE f == MakeForwarded(pending_alarm_forward)
           p == pending_ack[Relay]
<1>1. /\ CanSend(Relay) /\ Bump(Relay)
      /\ pending_ack' = [pending_ack EXCEPT ![Relay] = Remember(@, f)]
  BY DEF RelaySlot
<1>2. f \in Upstream(Relay)
  BY MakeForwardedType DEF TypeOK, RelayTypeOK
<1>3. /\ f.frame_type = Alarm /\ f.seq = NextSeq(Relay)
      /\ f.origin_seq = pending_alarm_forward.origin_seq
  BY DEF MakeForwarded, RelayKeeps
<1> HIDE DEF f
<1>4. pending_ack'[Relay] = Remember(p, f)
  BY <1>1, RelayPending, InboxElements
<1>5. Remember(p, f).frame = f
  BY <1>3 DEF Remember, IsAckRequired
<1> QED
  BY <1>1, <1>2, <1>3, <1>4, <1>5, RelayBump, RelayPending DEF NewAlarm, HasPending

\* DATA of the burst is not remembered.
LEMMA RelayForwardCustody ==
    ASSUME TypeOK, RelayKeeps, RelayForwardNext
    PROVE  pending_ack'[Relay] = pending_ack[Relay]
<1> DEFINE f == MakeForwarded(Head(relay_forward))
<1>1. relay_forward # <<>> /\ relay_forward \in Seq(Upstream(Sensor))
  BY DEF RelayForwardNext, TypeOK, RelayTypeOK
<1>2. Head(relay_forward) = relay_forward[1] /\ Len(relay_forward) \in Nat \ {0}
  BY <1>1, TailFacts
<1>3. Head(relay_forward).frame_type = Data
  BY <1>2 DEF RelayKeeps
<1>4. Remember(pending_ack[Relay], f) = pending_ack[Relay]
  BY <1>3 DEF Remember, IsAckRequired, MakeForwarded, Data, Alarm
<1> QED
  BY <1>4, RelayPending, InboxElements DEF RelayForwardNext

LEMMA RelayRetryCustody ==
    ASSUME TypeOK, HasPending(pending_ack[Relay]), AlarmRetrySlot(Relay)
    PROVE  pending_ack'[Relay].frame = pending_ack[Relay].frame \/ GivenUp
<1> DEFINE p == pending_ack[Relay]
<1>1. \/ pending_ack' = [pending_ack EXCEPT ![Relay] = Retried(@)]
      \/ /\ pending_ack' = [pending_ack EXCEPT ![Relay] = NoPending]
         /\ p.attempts >= MaxAttempts
      \/ pending_ack' = pending_ack
  BY DEF AlarmRetrySlot, Retry, IsExhausted
<1>2. p.attempts \in 0 .. MaxAttempts
  BY RelayPending DEF PendingAcks
<1>3. Retried(p).frame = p.frame /\ ~HasPending(NoPending)
  BY DEF Retried, HasPending, NoPending
<1> HIDE DEF p
<1>4. CASE pending_ack' = [pending_ack EXCEPT ![Relay] = NoPending] /\ p.attempts >= MaxAttempts
  <2>1. p.attempts = MaxAttempts
    BY <1>2, <1>4, MaxAttemptsAssumption
  <2>2. pending_ack'[Relay] = NoPending
    BY <1>4, RelayPending, InboxElements
  <2> QED
    BY <1>3, <2>1, <2>2 DEF GivenUp, p
<1>5. CASE pending_ack' = [pending_ack EXCEPT ![Relay] = Retried(@)]
  BY <1>3, <1>5, RelayPending, InboxElements DEF p
<1> QED
  BY <1>1, <1>4, <1>5

LEMMA RelayAckCustody ==
    ASSUME TypeOK, RxAck(Relay)
    PROVE  pending_ack'[Relay].frame = pending_ack[Relay].frame \/ Acknowledged
<1> DEFINE f == Head(rx[Relay])
           p == pending_ack[Relay]
<1>1. /\ rx[Relay] # <<>> /\ f.frame_type = Ack
      /\ pending_ack'[Relay] = ClearIfMatches(p, f.acked_seq, f.acked_type)
  BY RelayPending, InboxElements DEF RxAck, Receives
<1>2. \/ ClearIfMatches(p, f.acked_seq, f.acked_type) = p
      \/ /\ ClearIfMatches(p, f.acked_seq, f.acked_type) = NoPending
         /\ p.frame.seq = f.acked_seq
  BY DEF ClearIfMatches
<1> QED
  BY <1>1, <1>2 DEF Acknowledged, HasPending, NoPending

LEMMA CustodySteps ==
    ASSUME TypeOK, RelayNoWrap, RelayKeeps, HasPending(pending_ack[Relay]), [Next]_vars
    PROVE  \/ pending_ack'[Relay].frame = pending_ack[Relay].frame
           \/ NewAlarm \/ GivenUp \/ Acknowledged
<1> DEFINE p == pending_ack[Relay]
<1>1. CASE Tick
  <2>1. pending_ack'[Relay] = Aged(p)
    BY <1>1, InboxElements DEF Tick
  <2>2. Aged(p).frame = p.frame
    BY RelayPending DEF Aged, PendingAcks
  <2> QED
    BY <2>1, <2>2
<1>2. CASE RelaySlot
  BY <1>2, RelaySlotCustody DEF RelaySlot
<1>3. CASE RelayForwardNext
  BY <1>3, RelayForwardCustody
<1>4. CASE AlarmRetrySlot(Relay)
  BY <1>4, RelayRetryCustody
<1>5. CASE RxAck(Relay)
  BY <1>5, RelayAckCustody
<1>6. CASE SensorSlot \/ AlarmRetrySlot(Sensor) \/ RxAck(Sensor) \/ SensorAlarmTransition
  BY <1>6, RelayPending, InboxElements, Variables
  DEF SensorSlot, AlarmRetrySlot, Retry, RxAck, SensorAlarmTransition
<1>7. ASSUME ~Tick, ~RelaySlot, ~RelayForwardNext, \A n \in Forwarder : ~AlarmRetrySlot(n),
             \A n \in Forwarder : ~RxAck(n), ~SensorSlot, ~SensorAlarmTransition
      PROVE  pending_ack' = pending_ack
  BY <1>7 DEF Next, SlotWork, Handle, Tasks, GatewaySyncSlot, RelayControlSlot, RxIgnored,
     RelayRxAlarm, RelayRxData, GatewayRxAlarm, GatewayRxData, SensorSample, BuzzerTask,
     vars
<1> QED
  BY <1>1, <1>2, <1>3, <1>4, <1>5, <1>6, <1>7 DEF Forwarder

\* The relay's number never goes down, and a frame is remembered when sent.
LEMMA RelayRetryKnownStep ==
    ASSUME TypeOK, RelayNoWrap, RelayKeeps, RelayRetryKnown, [Next]_vars
    PROVE  RelayRetryKnown'
<1> DEFINE p == pending_ack[Relay]
<1>1. seq[Relay] <= seq'[Relay] /\ seq'[Relay] \in Nat /\ seq[Relay] \in Nat
  <2>1. CASE seq'[Relay] = seq[Relay]
    BY <2>1, Variables
  <2>2. CASE CanSend(Relay) /\ Bump(Relay)
    <3>1. seq'[Relay] \in Nat
      BY TypeStep, SensorFrame, InboxElements DEF TypeOK, NumberTypeOK
    <3> QED
      BY <2>2, <3>1, RelayBump, Variables
  <2>3. CASE SensorSlot
    BY <2>1, <2>3, Variables, InboxElements DEF SensorSlot, Bump
  <2>4. CASE RelayControlSlot \/ RelaySlot \/ RelayForwardNext \/ RelayRxAlarm
    BY <2>1, <2>2, <2>4 DEF RelayControlSlot, RelaySlot, RelayForwardNext, RelayRxAlarm
  <2>5. ASSUME ~SensorSlot, ~RelayControlSlot, ~RelaySlot, ~RelayForwardNext, ~RelayRxAlarm
        PROVE  seq' = seq
    BY <2>5 DEF Next, SlotWork, Handle, Tasks, Tick, GatewaySyncSlot, AlarmRetrySlot,
       RxIgnored, RxAck, RelayRxData, GatewayRxAlarm, GatewayRxData, SensorSample,
       SensorAlarmTransition, BuzzerTask, vars
  <2> QED
    BY <2>1, <2>3, <2>4, <2>5
<1>2. CASE HasPending(p)
  <2>1. p.frame.seq \in Nat /\ p.frame.seq <= seq[Relay]
    <3>1. p.frame \in Upstream(Relay)
      BY <1>2, RelayPending DEF PendingAcks, HasPending
    <3> QED
      BY <1>2, <3>1, SensorFrame DEF Upstream, RelayRetryKnown
  <2>2. CASE pending_ack'[Relay].frame = p.frame
    BY <1>1, <2>1, <2>2 DEF RelayRetryKnown
  <2>3. CASE NewAlarm
    BY <1>1, <2>3 DEF RelayRetryKnown, NewAlarm
  <2>4. CASE GivenUp \/ Acknowledged
    BY <2>4 DEF RelayRetryKnown, GivenUp, Acknowledged
  <2> QED
    BY <1>2, <2>2, <2>3, <2>4, CustodySteps
<1>3. CASE ~HasPending(p)
  <2>1. CASE RelaySlot /\ pending_alarm_forward # None
    BY <1>1, <2>1, RelaySlotCustody DEF RelayRetryKnown, NewAlarm
  <2>2. ASSUME ~(RelaySlot /\ pending_alarm_forward # None)
        PROVE  ~HasPending(pending_ack'[Relay])
    <3>1. CASE RelayForwardNext
      BY <1>3, <3>1, RelayForwardCustody
    <3>2. CASE AlarmRetrySlot(Relay)
      BY <1>3, <3>2, RelayPending, InboxElements
      DEF AlarmRetrySlot, Retry, MayRetry, HasPending, NoPending
    <3>3. CASE RxAck(Relay)
      BY <1>3, <3>3, RelayPending, InboxElements
      DEF RxAck, ClearIfMatches, HasPending, NoPending
    <3>4. CASE SensorSlot \/ AlarmRetrySlot(Sensor) \/ RxAck(Sensor) \/ SensorAlarmTransition
      BY <1>3, <3>4, RelayPending, InboxElements, Variables
      DEF SensorSlot, AlarmRetrySlot, Retry, RxAck, SensorAlarmTransition
    <3>5. CASE Tick
      BY <1>3, <3>5, InboxElements DEF Tick, Aged
    <3>6. CASE RelaySlot
      BY <1>3, <2>2, <3>6 DEF RelaySlot
    <3>7. ASSUME ~Tick, ~RelaySlot, ~RelayForwardNext,
                 \A n \in Forwarder : ~AlarmRetrySlot(n), \A n \in Forwarder : ~RxAck(n),
                 ~SensorSlot, ~SensorAlarmTransition
          PROVE  pending_ack' = pending_ack
      BY <3>7 DEF Next, SlotWork, Handle, Tasks, GatewaySyncSlot, RelayControlSlot,
         RxIgnored, RelayRxAlarm, RelayRxData, GatewayRxAlarm, GatewayRxData,
         SensorSample, BuzzerTask, vars
    <3> QED
      BY <1>3, <3>1, <3>2, <3>3, <3>4, <3>5, <3>6, <3>7 DEF Forwarder
  <2> QED
    BY <2>1, <2>2 DEF RelayRetryKnown
<1> QED
  BY <1>2, <1>3

LEMMA RelayRetryKnownInvariant ==
    ASSUME SensorNoWrap, RelayNoWrap PROVE Spec => []RelayRetryKnown
<1>1. Init => RelayRetryKnown
  BY InboxElements DEF Init, RelayRetryKnown, HasPending, NoPending
<1>2. TypeOK /\ RelayKeeps /\ RelayRetryKnown /\ [Next]_vars => RelayRetryKnown'
  BY RelayRetryKnownStep
<1> QED
  BY <1>1, <1>2, TypeCorrect, RelayKeepsInvariant, PTL DEF Spec

\* The waiting ALARM leaves only under the relay's retry, or for a newer one.
LEMMA WaitingAlarmSteps ==
    ASSUME SensorNoWrap, RelayNoWrap, TypeOK, SensorRetryIsCurrent, FirstHopQueue,
           RelayKeeps, [Next]_vars,
           pending_alarm_forward # None, pending_alarm_forward' # pending_alarm_forward
    PROVE  IF pending_alarm_forward' # None
           THEN pending_alarm_forward.seq < pending_alarm_forward'.seq
           ELSE /\ HasPending(pending_ack'[Relay])
                /\ pending_ack'[Relay].frame.origin_seq = pending_alarm_forward.origin_seq
<1>1. CASE RelaySlot
  BY <1>1, RelaySlotCustody DEF RelaySlot, NewAlarm
<1>2. CASE RelayRxAlarm
  <2> DEFINE f == Head(rx[Relay])
  <2>1. pending_alarm_forward' = f
    BY <1>2 DEF RelayRxAlarm
  <2>2. /\ f \in Upstream(Sensor) /\ f.seq \in Nat
        /\ last_data_seq[Relay] # None => LastApplied < f.seq
    BY <1>2, ApplicationStep, ApplicationFacts DEF Application
  <2>3. f # None
    BY <2>2, LastAppliedFacts, NoneIsFresh, InboxElements DEF Frame
  <2>4. last_data_seq[Relay] # None /\ pending_alarm_forward.seq <= LastApplied
    BY DEF RelayKeeps
  <2>5. pending_alarm_forward.seq \in Nat /\ LastApplied \in Nat
    BY SensorFrame, LastAppliedFacts DEF TypeOK, RelayTypeOK
  <2> HIDE DEF f
  <2> QED
    BY <2>1, <2>2, <2>3, <2>4, <2>5
<1>3. ASSUME ~RelaySlot, ~RelayRxAlarm PROVE UNCHANGED pending_alarm_forward
  BY <1>3 DEF Next, SlotWork, Handle, Tasks, Tick, GatewaySyncSlot, RelayControlSlot,
     SensorSlot, RelayForwardNext, AlarmRetrySlot, RxIgnored, RxAck, RelayRxData,
     GatewayRxAlarm, GatewayRxData, SensorSample, SensorAlarmTransition, BuzzerTask,
     vars, relayVars
<1> QED
  BY <1>1, <1>2, <1>3

\* An ALARM the relay acknowledged stays in its custody until the gateway
\* acknowledged it, a newer ALARM took its place, or MaxAttempts sends failed.
THEOREM AlarmCustodyCorrect ==
    ASSUME SensorNoWrap, RelayNoWrap PROVE Spec => AlarmCustody
<1>1. ASSUME TypeOK, SensorRetryIsCurrent, FirstHopQueue, RelayKeeps, RelayRetryKnown,
             [Next]_vars
      PROVE  AlarmCustodyStep
  <2> DEFINE p  == pending_ack[Relay]
             p2 == pending_ack'[Relay]
  <2>1. ASSUME HasPending(p), p2.frame # p.frame
        PROVE  \/ p2.frame # None /\ p.frame.seq < p2.frame.seq
               \/ p2.frame = None /\ p.attempts = MaxAttempts
               \/ /\ p2.frame = None /\ rx[Relay] # <<>>
                  /\ \E f \in {Head(rx[Relay])} :
                        f.frame_type = Ack /\ f.acked_seq = p.frame.seq
    <3>1. CASE NewAlarm
      <4>1. p.frame.seq \in Nat /\ p.frame.seq <= seq[Relay]
        <5>1. p.frame \in Upstream(Relay)
          BY <1>1, <2>1, RelayPending DEF PendingAcks, HasPending
        <5> QED
          BY <1>1, <2>1, <5>1, SensorFrame DEF Upstream, RelayRetryKnown
      <4>2. seq[Relay] \in Nat /\ seq'[Relay] \in Nat
        BY <1>1, TypeStep, SensorFrame, InboxElements DEF TypeOK, NumberTypeOK
      <4> QED
        BY <3>1, <4>1, <4>2 DEF NewAlarm, HasPending
    <3>2. CASE GivenUp
      BY <3>2 DEF GivenUp, HasPending
    <3>3. CASE Acknowledged
      BY <3>3 DEF Acknowledged, HasPending
    <3> QED
      BY <1>1, <2>1, <3>1, <3>2, <3>3, CustodySteps
  <2> QED
    BY <1>1, <2>1, WaitingAlarmSteps DEF AlarmCustodyStep
<1>2. /\ TypeOK /\ SensorRetryIsCurrent /\ FirstHopQueue /\ RelayKeeps
      /\ RelayRetryKnown /\ [Next]_vars
      => [AlarmCustodyStep]_vars
  BY <1>1
<1> QED
  BY <1>2, TypeCorrect, SensorRetryCorrect, FirstHopQueueCorrect, RelayKeepsInvariant,
     RelayRetryKnownInvariant, PTL DEF Spec, AlarmCustody
-----------------------------------------------------------------------------
(***************************************************************************)
(* The relay implements Handover, for every capacity: each step of the     *)
(* system is a step of Handover on what HandsOver maps it to, or a stutter.*)
(***************************************************************************)
\* The numbers of the frames in a buffer.
Numbers(b) == {b[i].seq : i \in 1 .. Len(b)}

LEMMA HeldNumbers ==
    Held = Numbers(relay_forward)
              \cup (IF pending_alarm_forward = None THEN {}
                    ELSE {pending_alarm_forward.seq})
BY DEF Held, Numbers

LEMMA NumbersAppend ==
    ASSUME NEW S, NEW b \in Seq(S), NEW f \in S
    PROVE  Numbers(Append(b, f)) = Numbers(b) \cup {f.seq}
<1> DEFINE a == Append(b, f)
<1>1. /\ Len(a) = Len(b) + 1 /\ Len(b) \in Nat /\ a[Len(b) + 1] = f
      /\ \A i \in 1 .. Len(b) : a[i] = b[i]
  BY AppendProperties, LenProperties
<1> HIDE DEF a
<1>2. 1 .. Len(a) = (1 .. Len(b)) \cup {Len(b) + 1}
  BY <1>1
<1>3. ASSUME NEW n PROVE n \in Numbers(a) <=> n \in Numbers(b) \cup {f.seq}
  BY <1>1, <1>2 DEF Numbers
<1> QED
  BY <1>3 DEF a

LEMMA NumbersTail ==
    ASSUME NEW b \in Seq(Upstream(Sensor)), b # <<>>, NEW top, OrderedBuffer(b, top)
    PROVE  /\ b[1].seq \in Numbers(b)
           /\ Numbers(Tail(b)) = Numbers(b) \ {b[1].seq}
<1>1. /\ Len(Tail(b)) = Len(b) - 1 /\ Len(b) \in Nat \ {0}
      /\ \A i \in 1 .. Len(Tail(b)) : Tail(b)[i] = b[i + 1]
  BY TailFacts
<1>2. \A i \in 1 .. Len(b) : b[i].seq \in Nat
  BY SensorFrame, ElementOfSeq
<1>3. 1 \in 1 .. Len(b)
  BY <1>1
<1>4. \A j \in 2 .. Len(b) : b[1].seq < b[j].seq
  BY <1>3 DEF OrderedBuffer
<1>5. ASSUME NEW n \in Numbers(Tail(b)) PROVE n \in Numbers(b) \ {b[1].seq}
  <2>1. PICK i \in 1 .. Len(Tail(b)) : n = Tail(b)[i].seq
    BY <1>5 DEF Numbers
  <2>2. i + 1 \in 2 .. Len(b) /\ n = b[i + 1].seq
    BY <1>1, <2>1
  <2>3. b[1].seq < n /\ b[1].seq \in Nat
    BY <1>2, <1>3, <1>4, <2>2
  <2> QED
    BY <2>2, <2>3 DEF Numbers
<1>6. ASSUME NEW n \in Numbers(b) \ {b[1].seq} PROVE n \in Numbers(Tail(b))
  <2>1. PICK i \in 1 .. Len(b) : n = b[i].seq
    BY <1>6 DEF Numbers
  <2>2. i # 1
    BY <1>6, <2>1
  <2>3. i - 1 \in 1 .. Len(Tail(b)) /\ Tail(b)[i - 1] = b[i]
    BY <1>1, <2>1, <2>2
  <2> QED
    BY <2>1, <2>3 DEF Numbers
<1>7. b[1].seq \in Numbers(b)
  BY <1>3 DEF Numbers
<1> QED
  BY <1>5, <1>6, <1>7
-----------------------------------------------------------------------------
(***************************************************************************)
(* The inductive invariant: the sensor numbers its frames from one, so the *)
(* zero of LastApplied stands for none of them; and the ALARM the relay    *)
(* holds is not also in its buffer.                                        *)
(***************************************************************************)
NumberedFromOne ==
    1 <= seq[Sensor] /\ OrderedBetween(rx[Relay], 1, seq[Sensor])

HeldApart ==
    pending_alarm_forward # None
        => pending_alarm_forward.seq \notin Numbers(relay_forward)

LEMMA NumberedStep ==
    ASSUME SensorNoWrap, TypeOK, SensorRetryIsCurrent, NumberedFromOne, [Next]_vars
    PROVE  NumberedFromOne'
<1> DEFINE q  == rx[Relay]
           hi == seq[Sensor]
<1>1. /\ Numbered(Inbox(Relay)) /\ q \in Seq(Inbox(Relay)) /\ Len(q) <= RxDepth
      /\ RxDepth \in Nat /\ hi \in Nat /\ 1 <= hi /\ OrderedBetween(q, 1, hi)
  BY SensorFrame, Variables, InboxElements DEF NumberedFromOne
<1>2. CASE Elsewhere
  BY <1>2 DEF Elsewhere, NumberedFromOne
<1>3. CASE q # <<>> /\ rx'[Relay] = Tail(q) /\ seq'[Sensor] = hi
  <2> HIDE DEF q, hi
  <2>1. OrderedBetween(Tail(q), 1, hi)
    BY <1>1, <1>3, OrderedTail
  <2> QED
    BY <1>1, <1>3, <2>1 DEF NumberedFromOne
<1>4. ASSUME NEW f, Arrival(f) PROVE NumberedFromOne'
  <2>1. PICK k \in Nat : rx'[Relay] \in Received(q, f, k)
    BY <1>4 DEF Arrival
  <2>2. /\ f \in Inbox(Relay) /\ hi <= seq'[Sensor]
        /\ f.frame_type # Ack => f.seq = seq'[Sensor]
    BY <1>4 DEF Arrival
  <2>3. seq'[Sensor] \in Nat
    BY TypeStep, SensorFrame, InboxElements DEF TypeOK, NumberTypeOK
  <2> HIDE DEF q, hi
  <2>4. OrderedBetween(rx'[Relay], 1, seq'[Sensor])
    BY <1>1, <2>1, <2>2, <2>3, OrderedSend
  <2> QED
    BY <1>1, <2>2, <2>3, <2>4 DEF NumberedFromOne
<1> QED
  BY <1>2, <1>3, <1>4, RelayQueueSteps DEF Drop, Application

\* A frame the relay applies is newer than all it took before.
LEMMA TakesNewer ==
    ASSUME TypeOK, FirstHopQueue, NumberedFromOne, NEW f, Application(f)
    PROVE  /\ f \in Upstream(Sensor) /\ f # None /\ f.seq \in Nat
           /\ LastApplied' = f.seq /\ LastApplied \in Nat
           /\ LastApplied < f.seq /\ f.seq <= seq[Sensor]
           /\ seq'[Sensor] = seq[Sensor] /\ seq[Sensor] \in Nat
<1>1. /\ f \in Upstream(Sensor) /\ f.frame_type # Ack /\ f = Head(rx[Relay])
      /\ rx[Relay] # <<>> /\ seq'[Sensor] = seq[Sensor]
  BY SensorFrame DEF Application
<1>2. 1 <= f.seq
  <2>1. /\ Numbered(Inbox(Relay)) /\ rx[Relay] \in Seq(Inbox(Relay))
        /\ seq[Sensor] \in Nat /\ OrderedBetween(rx[Relay], 1, seq[Sensor])
    BY SensorFrame, Variables, InboxElements DEF NumberedFromOne
  <2> QED
    BY <1>1, <2>1, OrderedTail
<1>3. last_data_seq[Relay] = None => LastApplied = 0
  BY DEF LastApplied
<1>4. f # None
  BY <1>1, NoneIsFresh, InboxElements DEF Frame
<1>5. /\ f.seq \in Nat /\ LastApplied' = f.seq /\ f.seq <= seq[Sensor]
      /\ last_data_seq[Relay] # None => LastApplied < f.seq
      /\ LastApplied \in Nat /\ seq[Sensor] \in Nat
  BY ApplicationFacts, LastAppliedFacts, Variables
<1> QED
  BY <1>1, <1>2, <1>3, <1>4, <1>5
-----------------------------------------------------------------------------
(***************************************************************************)
(* The steps that change what the relay holds.                             *)
(***************************************************************************)
RelayInv ==
    /\ TypeOK /\ SensorRetryIsCurrent /\ FirstHopQueue /\ RelayKeeps
    /\ NumberedFromOne /\ HeldApart

LEMMA HeldFacts ==
    ASSUME RelayInv
    PROVE  /\ relay_forward \in Seq(Upstream(Sensor))
           /\ Len(relay_forward) <= RelayForwardCapacity
           /\ OrderedBuffer(relay_forward, LastApplied) /\ LastApplied \in Nat
           /\ \A n \in Numbers(relay_forward) : n \in Nat /\ n <= LastApplied
           /\ pending_alarm_forward # None => /\ pending_alarm_forward.seq \in Nat
                                              /\ pending_alarm_forward.seq <= LastApplied
<1>1. /\ relay_forward \in Seq(Upstream(Sensor))
      /\ Len(relay_forward) <= RelayForwardCapacity
      /\ OrderedBuffer(relay_forward, LastApplied) /\ LastApplied \in Nat
      /\ pending_alarm_forward \in Upstream(Sensor) \cup {None}
      /\ pending_alarm_forward # None => pending_alarm_forward.seq <= LastApplied
  BY KeepsBuffer, LastAppliedFacts DEF RelayInv, TypeOK, RelayTypeOK
<1>2. \A i \in 1 .. Len(relay_forward) :
         relay_forward[i].seq \in Nat /\ relay_forward[i].seq <= LastApplied
  BY <1>1, SensorFrame, ElementOfSeq DEF OrderedBuffer
<1> QED
  BY <1>1, <1>2, SensorFrame DEF Numbers

LEMMA AlarmTaken ==
    ASSUME RelayInv, RelayRxAlarm
    PROVE  HeldApart' /\ \E n \in LastApplied + 1 .. seq[Sensor] : Relaying!Take(n)
<1> DEFINE f == Head(rx[Relay])
           old == pending_alarm_forward.seq
<1>1. relay_forward' = relay_forward /\ pending_alarm_forward' = f
  BY DEF RelayRxAlarm
<1>2. /\ f # None /\ f.seq \in Nat /\ LastApplied' = f.seq /\ LastApplied \in Nat
      /\ LastApplied < f.seq /\ f.seq <= seq[Sensor]
      /\ seq'[Sensor] = seq[Sensor] /\ seq[Sensor] \in Nat
  BY ApplicationStep, TakesNewer DEF RelayInv
<1> HIDE DEF f
<1>3. Held' = Numbers(relay_forward) \cup {f.seq}
  BY <1>1, <1>2 DEF Held, Numbers
<1>4. HeldApart'
  <2>1. f.seq \notin Numbers(relay_forward)
    BY <1>2, HeldFacts
  <2> QED
    BY <1>1, <2>1 DEF HeldApart, Numbers
<1>5. \/ Held' = Held \cup {f.seq}
      \/ \E o \in Held : Held' = (Held \ {o}) \cup {f.seq}
  <2>1. CASE pending_alarm_forward = None
    BY <1>3, <2>1, HeldNumbers
  <2>2. CASE pending_alarm_forward # None
    <3>1. /\ Held = Numbers(relay_forward) \cup {old} /\ old \in Held
          /\ old \notin Numbers(relay_forward)
      BY <2>2, HeldNumbers DEF RelayInv, HeldApart
    <3>2. Held \ {old} = Numbers(relay_forward)
      BY <3>1
    <3> QED
      BY <1>3, <3>1, <3>2
  <2> QED
    BY <2>1, <2>2
<1>6. Relaying!Take(f.seq)
  BY <1>2, <1>5 DEF Relaying!Take
<1> QED
  BY <1>2, <1>4, <1>6

LEMMA DataTaken ==
    ASSUME RelayInv, RelayRxData
    PROVE  HeldApart' /\ \E n \in LastApplied + 1 .. seq[Sensor] : Relaying!Take(n)
<1> DEFINE f    == Head(rx[Relay])
           b    == relay_forward
           p    == pending_alarm_forward
           kept == IF Len(b) = RelayForwardCapacity THEN Tail(b) ELSE b
<1>1. b' = Append(kept, f) /\ p' = p
  BY DEF RelayRxData, Buffered
<1>2. /\ f \in Upstream(Sensor) /\ f.seq \in Nat
      /\ LastApplied' = f.seq /\ LastApplied \in Nat
      /\ LastApplied < f.seq /\ f.seq <= seq[Sensor]
      /\ seq'[Sensor] = seq[Sensor] /\ seq[Sensor] \in Nat
  BY ApplicationStep, TakesNewer DEF RelayInv
<1>3. /\ b \in Seq(Upstream(Sensor)) /\ OrderedBuffer(b, LastApplied)
      /\ \A n \in Numbers(b) : n \in Nat /\ n <= LastApplied
      /\ p # None => p.seq \in Nat /\ p.seq <= LastApplied /\ p.seq \notin Numbers(b)
  BY HeldFacts DEF RelayInv, HeldApart
<1>4. /\ kept \in Seq(Upstream(Sensor))
      /\ \/ Numbers(kept) = Numbers(b)
         \/ \E o \in Numbers(b) : Numbers(kept) = Numbers(b) \ {o}
  <2>1. CASE Len(b) = RelayForwardCapacity
    <3>1. b # <<>>
      BY <2>1, EmptySeq, DepthAssumption
    <3> QED
      BY <1>3, <2>1, <3>1, TailFacts, NumbersTail
  <2>2. CASE Len(b) # RelayForwardCapacity
    BY <1>3, <2>2
  <2> QED
    BY <2>1, <2>2
<1> HIDE DEF f, kept
<1>5. Numbers(b') = Numbers(kept) \cup {f.seq}
  <2>1. Numbers(Append(kept, f)) = Numbers(kept) \cup {f.seq}
    BY <1>2, <1>4, NumbersAppend
  <2> QED
    BY <1>1, <2>1
<1>6. Held' = Numbers(b') \cup (IF p = None THEN {} ELSE {p.seq})
  BY <1>1 DEF Held, Numbers
<1>7. Held = Numbers(b) \cup (IF p = None THEN {} ELSE {p.seq})
  BY HeldNumbers
<1>8. HeldApart'
  <2>1. p # None => p.seq \notin Numbers(b')
    BY <1>2, <1>3, <1>4, <1>5
  <2> QED
    BY <1>1, <2>1 DEF HeldApart, Numbers
<1>9. \/ Held' = Held \cup {f.seq}
      \/ \E o \in Held : Held' = (Held \ {o}) \cup {f.seq}
  <2>1. CASE Numbers(kept) = Numbers(b)
    BY <1>5, <1>6, <1>7, <2>1
  <2>2. ASSUME NEW o \in Numbers(b), Numbers(kept) = Numbers(b) \ {o}
        PROVE  o \in Held /\ Held' = (Held \ {o}) \cup {f.seq}
    BY <1>3, <1>5, <1>6, <1>7, <2>2
  <2> QED
    BY <1>4, <2>1, <2>2
<1>10. Relaying!Take(f.seq)
  BY <1>2, <1>9 DEF Relaying!Take
<1> QED
  BY <1>2, <1>8, <1>10

LEMMA AlarmSentOn ==
    ASSUME RelayInv, RelaySlot
    PROVE  /\ HeldApart'
           /\ \/ UNCHANGED Relaying!vars
              \/ \E n \in Held : Relaying!SendOn(n)
<1>1. /\ relay_forward' = relay_forward /\ pending_alarm_forward' = None
      /\ last_data_seq' = last_data_seq
      /\ seq' = seq \/ Bump(Relay)
  BY DEF RelaySlot
<1>2. seq'[Sensor] = seq[Sensor] /\ LastApplied' = LastApplied
  BY <1>1, Variables, InboxElements DEF RelayInv, Bump, LastApplied
<1>3. Held' = Numbers(relay_forward)
  BY <1>1 DEF Held, Numbers
<1>4. ASSUME pending_alarm_forward = None PROVE UNCHANGED Relaying!vars
  BY <1>2, <1>3, <1>4, HeldNumbers DEF Relaying!vars
<1>5. ASSUME pending_alarm_forward # None PROVE \E n \in Held : Relaying!SendOn(n)
  <2> DEFINE n == pending_alarm_forward.seq
  <2>1. n \in Held /\ Held = Numbers(relay_forward) \cup {n} /\ n \notin Numbers(relay_forward)
    BY <1>5, HeldNumbers DEF RelayInv, HeldApart
  <2>2. Held' = Held \ {n}
    BY <1>3, <2>1
  <2> QED
    BY <1>2, <2>1, <2>2 DEF Relaying!SendOn
<1> QED
  BY <1>1, <1>4, <1>5 DEF HeldApart

LEMMA DataSentOn ==
    ASSUME RelayInv, RelayForwardNext
    PROVE  HeldApart' /\ \E n \in Held : Relaying!SendOn(n)
<1> DEFINE b == relay_forward
           p == pending_alarm_forward
           n == b[1].seq
<1>1. /\ b' = Tail(b) /\ p' = p /\ last_data_seq' = last_data_seq /\ Bump(Relay)
      /\ forwarded_count # Idle
  BY DEF RelayForwardNext
<1>2. seq'[Sensor] = seq[Sensor] /\ LastApplied' = LastApplied
  BY <1>1, Variables, InboxElements DEF RelayInv, Bump, LastApplied
<1>3. b # <<>>
  BY <1>1 DEF RelayInv, TypeOK, RelayTypeOK
<1>4. n \in Numbers(b) /\ Numbers(Tail(b)) = Numbers(b) \ {n}
  BY <1>3, HeldFacts, NumbersTail
<1>5. p # None => p.seq \notin Numbers(b)
  BY DEF RelayInv, HeldApart
<1>6. Held' = Numbers(Tail(b)) \cup (IF p = None THEN {} ELSE {p.seq})
  BY <1>1 DEF Held, Numbers
<1>7. Held = Numbers(b) \cup (IF p = None THEN {} ELSE {p.seq})
  BY HeldNumbers
<1> HIDE DEF n
<1>8. n \in Held /\ Held' = Held \ {n}
  BY <1>4, <1>5, <1>6, <1>7
<1>9. HeldApart'
  <2>1. p # None => p.seq \notin Numbers(Tail(b))
    BY <1>4, <1>5
  <2> QED
    BY <1>1, <2>1 DEF HeldApart, Numbers
<1> QED
  BY <1>2, <1>8, <1>9 DEF Relaying!SendOn

\* The sensor's own slot, and every step that is none of these.
LEMMA SampleSent ==
    ASSUME SensorNoWrap, RelayInv, SensorSlot PROVE HeldApart' /\ Relaying!Send
<1>1. /\ CanSend(Sensor) /\ Bump(Sensor) /\ last_data_seq' = last_data_seq
      /\ UNCHANGED <<relay_forward, pending_alarm_forward>>
  BY DEF SensorSlot, relayVars
<1>2. seq'[Sensor] = seq[Sensor] + 1
  BY <1>1, NoWrapBump, Variables, InboxElements DEF RelayInv, Bump
<1>3. Held' = Held /\ LastApplied' = LastApplied /\ HeldApart'
  BY <1>1 DEF RelayInv, Held, LastApplied, HeldApart, Numbers
<1> QED
  BY <1>2, <1>3 DEF Relaying!Send

LEMMA OtherSteps ==
    ASSUME RelayInv, [Next]_vars, ~SensorSlot, ~RelaySlot, ~RelayForwardNext,
           ~RelayRxAlarm, ~RelayRxData
    PROVE  HeldApart' /\ UNCHANGED Relaying!vars
<1>1. UNCHANGED <<relay_forward, pending_alarm_forward>>
  BY DEF Next, SlotWork, Handle, Tasks, Tick, GatewaySyncSlot, RelayControlSlot,
     AlarmRetrySlot, RxIgnored, RxAck, GatewayRxAlarm, GatewayRxData,
     SensorSample, SensorAlarmTransition, BuzzerTask, vars, relayVars
<1>2. seq'[Sensor] = seq[Sensor] /\ last_data_seq'[Relay] = last_data_seq[Relay]
  <2>1. CASE RelayControlSlot \/ GatewayRxAlarm \/ GatewayRxData
    BY <2>1, Variables, InboxElements
    DEF RelayInv, RelayControlSlot, GatewayRxAlarm, GatewayRxData, Bump
  <2>2. ASSUME ~RelayControlSlot, ~GatewayRxAlarm, ~GatewayRxData
        PROVE  UNCHANGED <<seq, last_data_seq>>
    BY <2>2 DEF Next, SlotWork, Handle, Tasks, Tick, GatewaySyncSlot,
       AlarmRetrySlot, RxIgnored, RxAck, SensorSample, SensorAlarmTransition,
       BuzzerTask, vars
  <2> QED
    BY <2>1, <2>2
<1> QED
  BY <1>1, <1>2 DEF RelayInv, Held, LastApplied, HeldApart, Numbers, Relaying!vars
-----------------------------------------------------------------------------
LEMMA HandoverStep ==
    ASSUME SensorNoWrap, RelayInv, [Next]_vars
    PROVE  HeldApart' /\ [Relaying!Next]_Relaying!vars
BY AlarmTaken, DataTaken, AlarmSentOn, DataSentOn, SampleSent, OtherSteps
DEF Relaying!Next

LEMMA RelayInvInvariant == ASSUME SensorNoWrap PROVE Spec => []RelayInv
<1>1. Init => NumberedFromOne /\ HeldApart
  <2> SUFFICES ASSUME Init PROVE NumberedFromOne /\ HeldApart
    OBVIOUS
  <2>1. /\ Len(rx[Relay]) = 0 /\ pending_alarm_forward = None
        /\ seq[Sensor] = 1
    BY EmptySeq, InboxElements DEF Init, Sensor, Relay
  <2> QED
    BY <2>1 DEF NumberedFromOne, HeldApart, OrderedBetween
<1>2. /\ TypeOK /\ SensorRetryIsCurrent /\ FirstHopQueue /\ RelayKeeps
      /\ NumberedFromOne /\ HeldApart /\ [Next]_vars
      => NumberedFromOne' /\ HeldApart'
  BY NumberedStep, HandoverStep DEF RelayInv
<1>3. TypeOK /\ SensorRetryIsCurrent /\ FirstHopQueue /\ RelayKeeps
      /\ NumberedFromOne /\ HeldApart => RelayInv
  BY DEF RelayInv
<1> QED
  BY <1>1, <1>2, <1>3, TypeCorrect, SensorRetryCorrect, FirstHopQueueCorrect,
     RelayKeepsInvariant, PTL DEF Spec

\* The relay takes the sensor's samples in order and once, drops one only for a
\* newer one, and never takes up again what it has sent on: core_task's
\* handlers, buffer and ALARM place implement Handover.
THEOREM HandsOverCorrect == ASSUME SensorNoWrap PROVE Spec => HandsOver
<1>1. Init => Relaying!Init
  <2> SUFFICES ASSUME Init PROVE Relaying!Init
    OBVIOUS
  <2>1. /\ relay_forward = <<>> /\ Len(relay_forward) = 0
        /\ pending_alarm_forward = None /\ last_data_seq[Relay] = None
        /\ seq[Sensor] = 1
    BY EmptySeq, InboxElements DEF Init, Sensor, Relay
  <2> QED
    BY <2>1 DEF Relaying!Init, Held, LastApplied
<1>2. RelayInv /\ [Next]_vars => [Relaying!Next]_Relaying!vars
  BY HandoverStep
<1> QED
  BY <1>1, <1>2, RelayInvInvariant, PTL DEF Spec, HandsOver, Relaying!Spec
=============================================================================
