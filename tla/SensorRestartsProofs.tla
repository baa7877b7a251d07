------------------------- MODULE SensorRestartsProofs -------------------------
(***************************************************************************)
(* Theorems about the sensor's retry, and about what of AlarmPath a sensor *)
(* that loses power at any moment leaves true.  A step of SensorRestarts   *)
(* is a step of AlarmPath, or one of Restart, SlotPasses and Rejoin.       *)
(***************************************************************************)
EXTENDS SensorRestarts, AlarmPathProofs

allVars == <<vars, powerVars>>

\* Power off and on, a slot let pass, and the return to the schedule.
PowerStep == Restart \/ SlotPasses \/ Rejoin

LEMMA StepKinds ==
    ASSUME [RestartNext]_allVars
    PROVE  \/ [Next]_vars /\ UNCHANGED restarts /\ UNCHANGED searching
           \/ PowerStep
  BY DEF RestartNext, PowerStep, Powered, Next, allVars, powerVars
-----------------------------------------------------------------------------
(***************************************************************************)
(* Types.                                                                  *)
(***************************************************************************)
LEMMA TypeRestart == ASSUME TypeOK, Restart PROVE TypeOK'
<1> USE DEF TypeOK
<1>0. \A S : <<>> \in Seq(S) /\ Len(<<>>) = 0
  BY EmptySeq
<1>1. ClockTypeOK'
  BY DEF Restart, ClockTypeOK
<1>2. RadioTypeOK'
  <2>1. <<>> \in Seq(Inbox(Sensor)) /\ Len(<<>>) <= RxDepth
    BY <1>0, DepthAssumption
  <2>2. rx' = [rx EXCEPT ![Sensor] = <<>>]
    BY DEF Restart
  <2> QED
    BY <2>1, <2>2, InboxUpdate, InboxElements DEF RadioTypeOK
<1>3. NumberTypeOK'
  <2>1. PICK h \in Hellos : seq' = [seq EXCEPT ![Sensor] = h]
    BY DEF Restart
  <2>2. h \in Seqs
    BY RestartAssumption
  <2>3. 0 \in OriginSeqs
    BY SeqAssumption DEF OriginSeqs
  <2> QED
    BY <2>1, <2>2, <2>3 DEF Restart, NumberTypeOK
<1>4. PendingTypeOK'
  <2>1. NoPending \in PendingAcks(Upstream(Sensor))
    BY MaxAttemptsAssumption DEF NoPending, PendingAcks, Ages, OldAge
  <2> QED
    BY <2>1, PendingUpdate, InboxElements DEF Restart
<1>5. SensorTypeOK'
  <2>1. alarm_events' \in Seq({Raised, Cleared}) /\ Len(alarm_events') <= AlarmDepth + 1
    BY <1>0, DepthAssumption DEF Restart
  <2>2. alarm_latch' \in BOOLEAN /\ sensor_alarm_active' \in BOOLEAN
    BY Zenon DEF Restart
  <2> QED
    BY <2>1, <2>2, Zenon DEF SensorTypeOK
<1>6. RelayTypeOK'
  BY TypeFrame DEF Restart
<1>7. GatewayTypeOK'
  <2>1. 0 \in Counter
    BY SeqAssumption DEF Counter
  <2> QED
    BY <2>1 DEF Restart, GatewayTypeOK, gatewayVars
<1> QED
  BY <1>1, <1>2, <1>3, <1>4, <1>5, <1>6, <1>7

LEMMA TypeSlotPasses == ASSUME TypeOK, SlotPasses PROVE TypeOK'
<1> USE DEF TypeOK
<1>1. ClockTypeOK'
  BY ServeType, InboxElements DEF SlotPasses
<1> QED
  BY <1>1, TypeFrame DEF SlotPasses, sensorVars, sampleVars

LEMMA TypeRejoin == ASSUME TypeOK, Rejoin PROVE TypeOK'
<1> USE DEF TypeOK
<1>1. ClockTypeOK'
  BY DEF Rejoin, ClockTypeOK
<1>2. NumberTypeOK'
  <2>1. data_seq' \in OriginSeqs /\ last_data_seq' = last_data_seq
    BY DEF Rejoin, sensorVars, NumberTypeOK
  <2> QED
    BY <2>1, BumpType, InboxElements DEF Rejoin
<1> QED
  BY <1>1, <1>2, TypeFrame DEF Rejoin, sensorVars, sampleVars

LEMMA RestartTypeStep == RestartTypeOK /\ [RestartNext]_allVars => RestartTypeOK'
<1> SUFFICES ASSUME RestartTypeOK, [RestartNext]_allVars PROVE RestartTypeOK'
  OBVIOUS
<1>1. TypeOK'
  BY StepKinds, TypeStep, TypeRestart, TypeSlotPasses, TypeRejoin
     DEF RestartTypeOK, PowerStep
<1>2. searching' \in BOOLEAN
  <2>1. searching' = searching \/ searching' = TRUE \/ searching' = FALSE
    BY StepKinds DEF PowerStep, Restart, SlotPasses, Rejoin, powerVars
  <2> QED
    BY <2>1, Zenon DEF RestartTypeOK
<1>3. restarts' \in 0 .. MaxRestarts
  <2>1. \/ restarts' = restarts
        \/ restarts < MaxRestarts /\ restarts' = restarts + 1
    BY StepKinds DEF PowerStep, Restart, SlotPasses, Rejoin, powerVars
  <2> QED
    BY <2>1, RestartAssumption DEF RestartTypeOK
<1> QED
  BY <1>1, <1>2, <1>3 DEF RestartTypeOK

\* The types of AlarmPath survive a restart of the sensor in any slot.
THEOREM RestartTypeCorrect == RestartSpec => []RestartTypeOK
<1>1. RestartInit => RestartTypeOK
  <2>1. 0 \in 0 .. MaxRestarts
    BY RestartAssumption
  <2> QED
    BY <2>1, TypeInit, Zenon DEF RestartInit, RestartTypeOK
<1> QED
  BY <1>1, RestartTypeStep, PTL DEF RestartSpec, allVars
-----------------------------------------------------------------------------
(***************************************************************************)
(* The retry of a sensor that services every slot.                         *)
(***************************************************************************)
\* From its own slot until it has serviced the retry slot.
BetweenSends ==
    \/ slot = SensorSlotNo /\ last_tx_slot[Sensor] = slot
    \/ slot = RelaySlotNo
    \/ slot = AlarmRetrySlotNo /\ last_tx_slot[Sensor] # slot

\* What is pending is an ALARM of an alarm the sensor still holds, and between
\* slot 2 and slot 4 it has been sent once at most: a sensor that holds the
\* alarm has just replaced it, one that does not has cancelled it.
SentOnce ==
    LET p == pending_ack[Sensor]
    IN  /\ ~HasPending(p) => p.attempts = 0
        /\ HasPending(p) => sensor_alarm_active /\ p.frame.frame_type = Alarm
        /\ BetweenSends => p.attempts <= 1

LEMMA SentOnceInit == Init => SentOnce
  BY InboxElements DEF Init, SentOnce, BetweenSends, NoPending, HasPending,
     SyncSlotNo, SensorSlotNo, RelaySlotNo, AlarmRetrySlotNo

\* Steps that leave the sensor's clock alone and its pending frame, or drop it.
LEMMA SentOnceKept ==
    ASSUME TypeOK, SentOnce, BetweenSends' => BetweenSends,
           sensor_alarm_active => sensor_alarm_active',
           \/ pending_ack'[Sensor] = NoPending
           \/ pending_ack'[Sensor] = pending_ack[Sensor]
    PROVE  SentOnce'
<1>1. CASE pending_ack'[Sensor] = NoPending
  BY <1>1 DEF SentOnce, NoPending, HasPending
<1>2. CASE pending_ack'[Sensor] = pending_ack[Sensor]
  BY <1>2 DEF SentOnce, HasPending
<1> QED
  BY <1>1, <1>2

LEMMA SentOnceTick ==
    ASSUME Sensor \notin MissingSlots, TypeOK, SentOnce, Tick PROVE SentOnce'
<1> DEFINE p == pending_ack[Sensor]
<1>1. /\ slot \in Slot /\ slot' = NextSlot(slot)
      /\ slot \in WorkSlots(Sensor) => last_tx_slot[Sensor] = slot
      /\ last_tx_slot'[Sensor] = slot
  BY InboxElements DEF Tick, TypeOK, ClockTypeOK
<1>2. /\ pending_ack'[Sensor] = Aged(p) /\ sensor_alarm_active' = sensor_alarm_active
      /\ p \in PendingAcks(Upstream(Sensor))
  BY InboxElements DEF Tick, sensorVars, TypeOK, PendingTypeOK
<1>3. /\ Aged(p).frame = p.frame /\ Aged(p).attempts = p.attempts
  BY <1>2 DEF Aged, PendingAcks
<1>4. BetweenSends' => BetweenSends
  BY <1>1 DEF BetweenSends, WorkSlots, NextSlot, Slot, SlotCount, SensorSlotNo,
     RelaySlotNo, AlarmRetrySlotNo, Gateway, Relay, Sensor
<1> QED
  BY <1>2, <1>3, <1>4 DEF SentOnce, HasPending

\* Slot 2: the pending frame is replaced by one sent once, or there is none.
LEMMA SentOnceSensorSlot == ASSUME TypeOK, SentOnce, SensorSlot PROVE SentOnce'
<1> DEFINE kind == IF sensor_alarm_active THEN Alarm ELSE Data
           f    == MakeSample(kind, (data_seq + 1) % OriginSeqModulus)
<1>1. /\ pending_ack' = [pending_ack EXCEPT ![Sensor] = Remember(@, f)]
      /\ sensor_alarm_active' = sensor_alarm_active
  BY DEF SensorSlot
<1>2. pending_ack'[Sensor] = Remember(pending_ack[Sensor], f)
  BY <1>1, InboxElements DEF TypeOK, PendingTypeOK
<1>3. f.frame_type = kind /\ f # None
  <2>1. f.frame_type = kind
    BY DEF MakeSample
  <2>2. (data_seq + 1) % OriginSeqModulus \in OriginSeqs
    BY SeqAssumption DEF TypeOK, NumberTypeOK, OriginSeqs
  <2>3. f \in Upstream(Sensor)
    BY <2>2, MakeSampleType DEF TypeOK
  <2> QED
    BY <2>1, <2>3, NoneIsFresh, InboxElements DEF Frame
<1> HIDE DEF f
<1>4. CASE sensor_alarm_active
  BY <1>1, <1>2, <1>3, <1>4 DEF SentOnce, Remember, IsAckRequired, HasPending
<1>5. CASE ~sensor_alarm_active
  <2>1. pending_ack'[Sensor] = pending_ack[Sensor]
    BY <1>2, <1>3, <1>5 DEF Remember, IsAckRequired, Alarm, Data
  <2> QED
    BY <1>1, <1>5, <2>1 DEF SentOnce, HasPending
<1> QED
  BY <1>4, <1>5

\* Slot 4: the frame is sent again, after which its number of sends may be two.
LEMMA SentOnceRetry ==
    ASSUME TypeOK, SentOnce, AlarmRetrySlot(Sensor) PROVE SentOnce'
<1> DEFINE p == pending_ack[Sensor]
<1>1. /\ slot = AlarmRetrySlotNo /\ slot' = slot /\ last_tx_slot'[Sensor] = slot
      /\ sensor_alarm_active' = sensor_alarm_active
  BY InboxElements DEF AlarmRetrySlot, Serve, sensorVars, TypeOK, ClockTypeOK
<1>2. ~BetweenSends'
  BY <1>1 DEF BetweenSends, SensorSlotNo, RelaySlotNo, AlarmRetrySlotNo
<1>3. \/ pending_ack'[Sensor] \in {NoPending, p}
      \/ HasPending(p) /\ pending_ack'[Sensor] = Retried(p)
  BY InboxElements DEF AlarmRetrySlot, Retry, MayRetry, TypeOK, PendingTypeOK
<1>4. CASE pending_ack'[Sensor] \in {NoPending, p}
  BY <1>1, <1>2, <1>4 DEF SentOnce, NoPending, HasPending
<1>5. CASE HasPending(p) /\ pending_ack'[Sensor] = Retried(p)
  BY <1>1, <1>2, <1>5 DEF SentOnce, Retried, HasPending
<1> QED
  BY <1>3, <1>4, <1>5

\* The alarm clears: the pending ALARM is cancelled with it.
LEMMA SentOnceTransition ==
    ASSUME TypeOK, SentOnce, SensorAlarmTransition PROVE SentOnce'
<1> DEFINE p == pending_ack[Sensor]
<1>1. UNCHANGED <<slot, last_tx_slot>>
  BY DEF SensorAlarmTransition, clockVars
<1>2. BetweenSends' => BetweenSends
  BY <1>1 DEF BetweenSends
<1>3. CASE Head(alarm_events) = Raised
  <2>1. pending_ack' = pending_ack /\ sensor_alarm_active'
    BY <1>3 DEF SensorAlarmTransition
  <2> QED
    BY <1>2, <2>1, SentOnceKept
<1>4. CASE Head(alarm_events) # Raised
  <2>1. pending_ack' = [pending_ack EXCEPT ![Sensor] = CancelIfMatches(@, Alarm)]
    BY <1>4 DEF SensorAlarmTransition
  <2>2. pending_ack'[Sensor] = CancelIfMatches(p, Alarm)
    BY <2>1, InboxElements DEF TypeOK, PendingTypeOK
  <2>3. ~HasPending(pending_ack'[Sensor]) /\ pending_ack'[Sensor].attempts = 0
    BY <2>2 DEF SentOnce, CancelIfMatches, HasPending, NoPending
  <2> QED
    BY <2>3 DEF SentOnce
<1> QED
  BY <1>3, <1>4

LEMMA SentOnceStep ==
    ASSUME Sensor \notin MissingSlots
    PROVE  TypeOK /\ SentOnce /\ [Next]_vars => SentOnce'
<1> SUFFICES ASSUME TypeOK, SentOnce, [Next]_vars PROVE SentOnce'
  OBVIOUS
<1>1. Sensor # Relay /\ Sensor # Gateway
  BY DEF Sensor, Relay, Gateway
<1>2. CASE Tick
  BY <1>2, SentOnceTick
<1>3. CASE SensorSlot
  BY <1>3, SentOnceSensorSlot
<1>4. CASE AlarmRetrySlot(Sensor)
  BY <1>4, SentOnceRetry
<1>5. CASE SensorAlarmTransition
  BY <1>5, SentOnceTransition
<1>6. CASE RxAck(Sensor)
  <2>1. pending_ack'[Sensor] \in {NoPending, pending_ack[Sensor]}
    BY <1>6, InboxElements DEF RxAck, ClearIfMatches, TypeOK, PendingTypeOK
  <2>2. UNCHANGED <<slot, last_tx_slot, sensor_alarm_active>>
    BY <1>6 DEF RxAck, clockVars, sensorVars
  <2> QED
    BY <2>1, <2>2, SentOnceKept DEF BetweenSends
<1>7. ASSUME [Next]_vars, ~Tick, ~SensorSlot, ~AlarmRetrySlot(Sensor),
             ~SensorAlarmTransition, ~RxAck(Sensor)
      PROVE  /\ UNCHANGED <<slot, sensor_alarm_active>>
             /\ last_tx_slot'[Sensor] = last_tx_slot[Sensor]
             /\ pending_ack'[Sensor] = pending_ack[Sensor]
  <2>1. CASE UNCHANGED vars
    BY <2>1 DEF vars
  <2>2. CASE GatewaySyncSlot \/ RelayControlSlot
    BY <2>2, <1>1, InboxElements DEF GatewaySyncSlot, RelayControlSlot, Serve,
       sensorVars, TypeOK, ClockTypeOK
  <2>3. CASE RelaySlot
    BY <2>3, <1>1, InboxElements DEF RelaySlot, Serve, sensorVars, TypeOK,
       ClockTypeOK, PendingTypeOK
  <2>4. CASE RelayForwardNext
    BY <2>4, <1>1, InboxElements DEF RelayForwardNext, clockVars, sensorVars,
       TypeOK, PendingTypeOK
  <2>5. CASE AlarmRetrySlot(Relay)
    BY <2>5, <1>1, InboxElements DEF AlarmRetrySlot, Retry, Serve, sensorVars,
       TypeOK, ClockTypeOK, PendingTypeOK
  <2>6. CASE RxAck(Relay)
    BY <2>6, <1>1, InboxElements DEF RxAck, clockVars, sensorVars, TypeOK, PendingTypeOK
  <2>7. CASE \/ \E n \in Receiver : RxIgnored(n)
             \/ RelayRxAlarm \/ RelayRxData \/ GatewayRxAlarm \/ GatewayRxData
             \/ SensorSample \/ BuzzerTask
    BY <2>7 DEF RxIgnored, RelayRxAlarm, RelayRxData, GatewayRxAlarm, GatewayRxData,
       SensorSample, BuzzerTask, clockVars, sensorVars
  <2> QED
    BY <1>7, <2>1, <2>2, <2>3, <2>4, <2>5, <2>6, <2>7
       DEF Next, SlotWork, Handle, Tasks, Forwarder
<1>8. ASSUME UNCHANGED <<slot, sensor_alarm_active>>,
             last_tx_slot'[Sensor] = last_tx_slot[Sensor],
             pending_ack'[Sensor] = pending_ack[Sensor]
      PROVE  SentOnce'
  BY <1>8, SentOnceKept DEF BetweenSends
<1> QED
  BY <1>2, <1>3, <1>4, <1>5, <1>6, <1>7, <1>8

LEMMA SentOnceSuffices ==
    ASSUME TypeOK, SentOnce PROVE SensorRetriesOnce
  BY DEF SentOnce, BetweenSends, SensorRetriesOnce

\* A sensor that is never restarted and services every slot has sent a pending
\* ALARM once when the retry slot comes, however late its tasks run.
THEOREM RetriesOnceCorrect ==
    ASSUME Sensor \notin MissingSlots PROVE Spec => []SensorRetriesOnce
<1>1. Spec => []SentOnce
  BY SentOnceInit, SentOnceStep, TypeCorrect, PTL DEF Spec
<1> QED
  BY <1>1, TypeCorrect, SentOnceSuffices, PTL
-----------------------------------------------------------------------------
(***************************************************************************)
(* The same with restarts.                                                 *)
(***************************************************************************)
\* A sensor that is not back in the schedule has nothing to retransmit.
NothingPending == searching => ~HasPending(pending_ack[Sensor])

LEMMA NothingPendingStep ==
    TypeOK /\ NothingPending /\ [RestartNext]_allVars => NothingPending'
<1> SUFFICES ASSUME TypeOK, NothingPending, [RestartNext]_allVars, searching'
             PROVE  ~HasPending(pending_ack'[Sensor])
  BY DEF NothingPending
<1> DEFINE p == pending_ack[Sensor]
<1>1. /\ Sensor # Relay /\ Sensor \in Node /\ Sensor \in Forwarder /\ Relay \in Forwarder
      /\ pending_ack \in [Forwarder -> PendingAcks(Upstream(Relay) \cup Upstream(Sensor))]
      /\ last_tx_slot \in [Node -> Slot \cup {None}]
  BY InboxElements DEF Sensor, Relay, TypeOK, PendingTypeOK, ClockTypeOK
<1>2. CASE Restart
  BY <1>1, <1>2 DEF Restart, HasPending, NoPending
<1>3. CASE SlotPasses \/ Rejoin \/ UNCHANGED allVars
  BY <1>3 DEF SlotPasses, Rejoin, allVars, vars, powerVars, NothingPending
<1>4. CASE Tick /\ UNCHANGED powerVars
  <2>1. pending_ack'[Sensor] = Aged(p) /\ ~HasPending(p)
    BY <1>1, <1>4 DEF Tick, powerVars, NothingPending
  <2> QED
    BY <2>1 DEF Aged
<1>5. ASSUME Powered(SlotWork) \/ Powered(Handle) \/ Powered(Tasks)
      PROVE  ~HasPending(pending_ack'[Sensor])
  <2>1. /\ SlotWork \/ Handle \/ Tasks
        /\ searching /\ last_tx_slot'[Sensor] = last_tx_slot[Sensor]
    BY <1>5 DEF Powered, powerVars
  <2>2. ~HasPending(p)
    BY <2>1 DEF NothingPending
  <2>3. ~Serve(Sensor)
    BY <1>1, <2>1 DEF Serve
  <2>4. pending_ack'[Sensor] \in {p, NoPending}
    <3>1. CASE \/ GatewaySyncSlot \/ RelayControlSlot \/ RelaySlot \/ RelayForwardNext
               \/ AlarmRetrySlot(Relay)
      BY <1>1, <3>1 DEF GatewaySyncSlot, RelayControlSlot, RelaySlot, RelayForwardNext,
         AlarmRetrySlot, Retry
    <3>2. CASE Handle
      BY <1>1, <3>2 DEF Handle, RxIgnored, RxAck, RelayRxAlarm, RelayRxData,
         GatewayRxAlarm, GatewayRxData, ClearIfMatches, Forwarder
    <3>3. CASE Tasks
      BY <1>1, <3>3 DEF Tasks, SensorSample, SensorAlarmTransition, BuzzerTask,
         CancelIfMatches
    <3> QED
      BY <2>1, <2>3, <3>1, <3>2, <3>3 DEF SlotWork, SensorSlot, AlarmRetrySlot, Forwarder
  <2> QED
    BY <2>2, <2>4 DEF HasPending, NoPending
<1> QED
  BY <1>2, <1>3, <1>4, <1>5 DEF RestartNext

LEMMA SentOncePowerStep ==
    ASSUME TypeOK, SentOnce, NothingPending, PowerStep PROVE SentOnce'
<1> DEFINE p == pending_ack[Sensor]
<1>1. CASE Restart
  <2>1. pending_ack'[Sensor] = NoPending
    BY <1>1, InboxElements DEF Restart, TypeOK, PendingTypeOK
  <2> QED
    BY <2>1 DEF SentOnce, HasPending, NoPending
<1>2. CASE SlotPasses \/ Rejoin
  <2>1. pending_ack' = pending_ack /\ ~HasPending(p)
    BY <1>2 DEF SlotPasses, Rejoin, NothingPending
  <2> QED
    BY <2>1 DEF SentOnce
<1> QED
  BY <1>1, <1>2 DEF PowerStep

\* Nor does a restart in any slot, or the time it takes the sensor to return to
\* the schedule, make it send an ALARM more than once before the retry slot.
THEOREM RestartRetriesOnceCorrect ==
    ASSUME Sensor \notin MissingSlots PROVE RestartSpec => []SensorRetriesOnce
<1>1. RestartInit => SentOnce /\ NothingPending
  BY SentOnceInit DEF RestartInit, NothingPending
<1>2. RestartTypeOK /\ SentOnce /\ NothingPending /\ [RestartNext]_allVars
         => SentOnce' /\ NothingPending'
  <2> SUFFICES ASSUME RestartTypeOK, SentOnce, NothingPending, [RestartNext]_allVars
               PROVE  SentOnce' /\ NothingPending'
    OBVIOUS
  <2>1. TypeOK
    BY DEF RestartTypeOK
  <2> QED
    BY <2>1, StepKinds, SentOnceStep, SentOncePowerStep, NothingPendingStep
<1>3. RestartTypeOK /\ SentOnce => SensorRetriesOnce
  BY SentOnceSuffices DEF RestartTypeOK
<1> QED
  BY <1>1, <1>2, <1>3, RestartTypeCorrect, PTL DEF RestartSpec, allVars
-----------------------------------------------------------------------------
(***************************************************************************)
(* What the tasks of one node share survives too.                          *)
(***************************************************************************)
LEMMA TasksAgreeAfterPowerStep ==
    ASSUME TypeOK, BuzzerConsistent, AlarmEventsReplayLatch, SensorRetryIsCurrent, PowerStep
    PROVE  BuzzerConsistent' /\ AlarmEventsReplayLatch' /\ SensorRetryIsCurrent'
<1>1. BuzzerConsistent'
  BY DEF PowerStep, Restart, SlotPasses, Rejoin, gatewayVars, BuzzerConsistent
<1>2. CASE Restart
  <2>1. /\ alarm_events' = <<>> /\ alarm_latch' = FALSE /\ sensor_alarm_active' = FALSE
        /\ pending_ack'[Sensor] = NoPending
    BY <1>2, InboxElements DEF Restart, TypeOK, PendingTypeOK
  <2>2. 1 .. Len(alarm_events') - 1 = {}
    BY <2>1, EmptySeq
  <2>3. AlarmEventsReplayLatch'
    BY <2>1, <2>2, Zenon DEF AlarmEventsReplayLatch
  <2>4. SensorRetryIsCurrent'
    BY <2>1 DEF SensorRetryIsCurrent, HasPending, NoPending
  <2> QED
    BY <1>1, <2>3, <2>4
<1>3. CASE SlotPasses \/ Rejoin
  <2>1. /\ UNCHANGED <<alarm_events, alarm_latch, sensor_alarm_active, data_seq>>
        /\ pending_ack' = pending_ack /\ seq'[Sensor] = seq[Sensor]
    BY <1>3, InboxElements DEF SlotPasses, Rejoin, Bump, sampleVars, sensorVars,
       TypeOK, NumberTypeOK, Sensor, Relay
  <2>2. AlarmEventsReplayLatch'
    BY <2>1, Zenon DEF AlarmEventsReplayLatch
  <2>3. SensorRetryIsCurrent'
    BY <2>1 DEF SensorRetryIsCurrent
  <2> QED
    BY <1>1, <2>2, <2>3
<1> QED
  BY <1>2, <1>3 DEF PowerStep

\* A restart leaves no trace in what the sensor's tasks share: latch, queued
\* transitions and flag agree again, and no frame from before is retransmitted.
THEOREM TasksAgreeAfterRestart ==
    RestartSpec => [](BuzzerConsistent /\ AlarmEventsReplayLatch /\ SensorRetryIsCurrent)
<1> DEFINE I == BuzzerConsistent /\ AlarmEventsReplayLatch /\ SensorRetryIsCurrent
<1>1. RestartInit => I
  BY BuzzerInit, EventsInit, SensorRetryInit DEF RestartInit
<1>2. RestartTypeOK /\ I /\ [RestartNext]_allVars => I'
  <2> SUFFICES ASSUME RestartTypeOK, I, [RestartNext]_allVars PROVE I'
    OBVIOUS
  <2>1. TypeOK
    BY DEF RestartTypeOK
  <2> QED
    BY <2>1, StepKinds, BuzzerStep, EventsStep, SensorRetryStep, TasksAgreeAfterPowerStep
<1> QED
  BY <1>1, <1>2, RestartTypeCorrect, PTL DEF RestartSpec, allVars
=============================================================================
