# Verification of the three-node sensor network firmware

The firmware in `src/src/` runs on three ESP32-C3 boards with UART LoRa
modules: a **sensor** samples temperature and humidity, a **relay** forwards
what it sends, a **gateway** sounds a buzzer on an alarm, keeps statistics and
reports which nodes are present. Time is divided into superframes of eight
one-second slots (TDMA); the gateway's clock is the common one. This directory
holds TLA+ models of the protocol, TLC configurations that check them on small
instances, and TLAPS proofs about them.

Paths below are relative to the repository root (`src/main.rs` and so on).

## 1. Inventory

| Component | State it keeps | Operations | Talks to |
|---|---|---|---|
| `core_task`, slot work (`main.rs` 320-530) | `last_tx_slot`, `pending_ack`, `pending_sync_forward`, `pending_alarm_forward`, `relay_forward`, `gateway_alarm_active`, `sensor_alarm_active` | one piece of work per role and slot | radio, `BUZZER_SIG`, `SENSOR_LATEST` |
| `core_task`, frame handlers (`main.rs` 793-1093, `demo.rs` 390-499) | `DemoNode` (sequence numbers, phase, last keys), the above | HELLO, JOIN_ACK, SYNC, DATA, ALARM, ACK, HEARTBEAT per role | `RX_FRAMES`, radio |
| `core_task`, slot loop (`main.rs` 194-329, 670-687) | wait, `last_tx_slot` | wait for a frame, an alarm transition or the next window | timer, clock |
| `PendingAck` (`main.rs` 1095-1178) | one frame, attempts, time of the last send | remember, retry, give up, clear, cancel | slot 4, ACK handler |
| `RelayForwardBuffer` (`relay.rs`) | at most four DATA frames | remember (drop the oldest), take | relay slot |
| `TdmaSchedule`, `TimeSync` (`tdma.rs`) | offset to the gateway's clock, last SYNC number | slots and windows of a time; smoothing | slot loop, SYNC handler |
| Join and SYNC distribution (`demo.rs` 198-260, 399-445) | phase, `sync_seq`, `last_sync_seq` | HELLO until JOIN_ACK; SYNC per superframe, passed on by the relay | radio |
| Presence (`demo.rs` 590-771) | when relay and sensor were seen last, the last report | record, poll | heartbeats, DATA and ALARM |
| `sensor_task`, `AlarmLatch` (`main.rs` 84-106, `demo.rs` 538-588) | latch | sample, send a transition | `SENSOR_LATEST`, `ALARM_EVENTS` (4 places) |
| `buzzer_task` (`main.rs` 108-118) | the pin | wait for a signal | `BUZZER_SIG` |
| `lora_rx_task`, `FrameStreamDecoder` (`main.rs` 120-145, `protocol.rs` 219-313) | bytes received | resynchronise, decode, enqueue | `RX_FRAMES` (8 places) |
| `GatewayStats` (`demo_log.rs`) | counters, last sample number | record | handlers, console |
| Radio configuration (`transport.rs`, `hardware.rs`) | none | AT dialogue at start | module |

What is hard here. Tasks of a node are cooperative and share channels and
signals; a handler runs to its end, but time passes in its awaits, so that a
window may be open, or over, when the loop gets to it. Frames wait in queues
while slots pass. Every transmission may be lost; best-effort frames are sent
twice; an ALARM is retransmitted until acknowledged, each hop for itself, and a
receiver recognises duplicates only by the last key it applied. The relay
turns frames around with delays of its own, in an order of its own. Clocks are
corrected while waits that were computed from them go on. Sequence numbers
wrap. Nodes restart. `PROJECT.json` lists these hazards with the line where
each one bites and the properties that watch it.

What makes each component correct:

- *First hop:* the relay applies the sensor's frames in order, each once; an
  ACK tells the truth; a retry is never older than what was sent meanwhile.
- *Relay:* what it has acknowledged it forwards, or retries, or replaces by
  something newer; its buffer keeps the order of the samples; no sample it has
  sent on, or dropped, comes back.
- *Gateway:* the buzzer agrees with the alarm flag; an alarm that lasts is
  heard, one that is over is silenced; no honest frame is refused by its slot.
- *Sensor:* no alarm transition is lost between its two tasks.
- *Slot loop:* each slot is serviced once per superframe, in turn, within the
  slot by the gateway's clock; the loop never spins or sticks.
- *Clock:* the estimate stays within what SYNCs can measure, and comes back to
  that when the gateway restarts.
- *Receive path:* a frame whose bytes came in comes out, once and in order.
- *Join:* the network comes up and comes up again; SYNCs are passed on in order.
- *Presence:* a node that is heard is reported present, one that is not is
  reported absent after a bounded time; also while clocks are on their way back.

## 2. Modules

| Module | Models | Uses |
|---|---|---|
| `Protocol` | roles, frame types, the slot table, who owns which slot, saturating and wrapping arithmetic | |
| `PendingAck` | the ALARM retry window | `Protocol` |
| `AlarmPath` | slot work and handlers of DATA, ALARM and ACK on the three nodes, the sensor and buzzer tasks | `PendingAck` |
| `Handover` | abstract: what the relay promises for the samples of the sensor; refined by the relay of `AlarmPath` | |
| `SensorRestarts` | `AlarmPath` with a sensor that loses power and joins again | `AlarmPath` |
| `TdmaSchedule` | slots, windows, the wait of the loop, the smoothing of the offset, the heartbeat timeout, as functions of a time | `Protocol` |
| `SlotLoop` | the loop of `core_task` on a synced node, in milliseconds | `TdmaSchedule` |
| `ClockRecovery` | the relay's clock, and its judgement of the sensor's silence, when the gateway restarts | `TdmaSchedule` |
| `Bootstrap` | HELLO, JOIN_ACK, SYNC, restarts | `Protocol` |
| `Presence` | heartbeats, what relay and gateway remember of who was heard, what the gateway reports | `TdmaSchedule` |
| `FrameChannel` | abstract: what the receive path promises `core_task`; refined by `RxStream` | |
| `RxStream` | the UART's FIFO, the stream decoder, `lora_rx_task` and `RX_FRAMES`, byte by byte | `FrameChannel` |
| `MCAlarmPath`, `MCSensorRestarts`, `MCSlotLoop`, `MCBootstrap`, `MCRxStream` | sets and values the configurations choose from | |
| `AlarmPathProofs`, `CustodyProofs` | theorems about `AlarmPath`; the second extends the first | |
| `SensorRestartsProofs` | theorems about `SensorRestarts`; extends `AlarmPathProofs` | |
| `SlotLoopProofs` | theorems about `SlotLoop` and `TdmaSchedule` | |
| `PresenceProofs`, `ClockRecoveryProofs`, `BootstrapProofs`, `RxStreamProofs` | theorems about the module of that name | |

`AlarmPath`, `Bootstrap`, `Presence` and `SlotLoop` are views of the same
`core_task`, each with the frames and the clock its properties are about. What
they assume of one another is checked where it is modelled: that slots are
serviced in turn (`SlotLoop`), that a node joins and syncs in the end
(`Bootstrap`), and that received frames wait in a bounded queue, in order
(`RxStream`).

### AlarmPath

One action per slot work (`GatewaySyncSlot`, `RelayControlSlot`, `SensorSlot`,
`RelaySlot`, `RelayForwardNext`, `AlarmRetrySlot`), one per handler
(`RelayRxAlarm`, `RelayRxData`, `RxAck`, `GatewayRxAlarm`, `GatewayRxData`,
`RxIgnored` for what the slot gate or the duplicate check drops), one per step
of the other tasks (`SensorSample`, `SensorAlarmTransition`, `BuzzerTask`), and
`Tick` for the next slot. The variables are the variables of the code.

- A handler that awaits the transmission of an ACK is one action: the task does
  nothing else meanwhile, and a frame that arrives waits in the queue, where it
  is anyway. The relay's burst in its slot is one action per frame, since other
  nodes act between them.
- A frame is a record of what receivers read: source, destination, type,
  number, the slot of its time stamp, the sample's number.
- A reading of the sensor is one of four kinds: at or above an alarm limit,
  below both clear limits, in between, or failed. A failed one is replaced by
  `EnvironmentSample::normal` (`main.rs` 1193), which lies below the clear limits:
  it ends an alarm.
- `rx[n]` is `RX_FRAMES` and holds frames addressed to `n`; others pass the slot
  gate too but are then ignored. A frame that finds the queue full is lost (in
  the code the UART's FIFO overflows while `lora_rx_task` waits).
- `PendingAck` counts slots since the last send instead of milliseconds: after
  one slot a retry is not due, after two slots either, after three it is. Theorem
  `RetryDue` shows that this is what the millisecond comparison gives.
- `Tick` marks slots in which a node has no work as serviced when they end.
- `MissingSlots` are the nodes that may let a slot pass without servicing it (a
  handler that takes too long, a node that is out of sync); `Lagging` are the
  tasks (the `core_task` of a node, or `buzzer_task`) that may have frames, events or a
  buzzer action waiting when a slot ends.

`Handover` tells what the relay does for the sensor in terms of frame numbers
only: `sent`, `taken`, `held`. The refinement mapping (`HandsOver` in `AlarmPath`)
takes `sent` from the sensor's counter, `taken` from the key of the last frame
the relay applied, and `held` from the relay's buffer and the ALARM that waits
for its slot. Dropping the oldest DATA, or replacing an ALARM by a newer one, is
`Take` with an old frame making room; a duplicate, repeated or retransmitted, is a
stutter.

### SensorRestarts

`Restart` is a power cycle: everything the sensor knows is gone, its numbers
begin again (`Hellos` are the numbers it spent on HELLO), while the relay still
holds its frames and the key of the last one. Until `Rejoin` the sensor samples
and handles frames but works in no slot (`SlotPasses`); how it joins is the matter
of `Bootstrap`. `Rejoin` may come in any slot, which is more than `Bootstrap` allows.
`Powered` restricts the actions of `AlarmPath` accordingly.

### SlotLoop

`LoopTop` computes the wait, then `TimerFires`, or a frame is handled (`RxFrame`,
`RxSync`, which corrects the clock), and after the timer the clock is read again
and the slot is serviced (`Service`) or not (`WindowNotOpen`). Handling a frame
and working in a slot take time, chosen from sets. The state is the gateway's
time modulo a superframe, the offset, the last slot serviced, and where the loop
is. All nodes share the schedule, which is a constant of the firmware.

### ClockRecovery

A step is a superframe: at its end a SYNC arrives (`SyncApplied`) or not
(`SyncLost`). `GatewayRestarts` sets the gateway's time back by one of `Setbacks`:
its time up, and the time it was off. `SensorHeard` notes the time by the relay's
clock. Points in time are kept as ages, by the clock that noted them, and an age
may then be negative: the code's saturating subtraction takes such an age for
zero. An age that no correction still to come can make recent again is kept as
`None`. A reader should know one consequence, which the bound of `SilenceJudged`
states: a sensor that dies as the gateway restarts is reported ONLINE not for the
timeout but for the timeout and as long as the gateway had been up (the test
`demo.rs` 889 looks at the timeout alone).

### RxStream

A byte is a record of the frame it was sent in and its place there, or noise
with a value. The decoder looks at values only; that the CRC tells the bytes of
one frame from all others is assumed. `ByteArrives`, `ByteCorrupted`, `ByteLost` and
`NoiseArrives` are the air and the UART; `Read`, `ReadFails`, `Decode` and `Send` are
`lora_rx_task`, one action per call it makes; `CoreTakes` is `core_task`. `Front` is
where the loop of `next_frame` ends, after it has discarded what it does not
believe. The 5 ms `lora_rx_task` waits after a failed read are part of
`ReadFails`: the bytes that come meanwhile stay in the FIFO. `whole` is a history
variable: it tells whether the last frame on the line came in undamaged.

`FrameChannel` is what the rest of the system relies on. A frame is in its
`channel` from the moment its last byte is in the FIFO, so that a decoder which
holds back, loses, reorders or repeats a frame violates it. When the FIFO
overruns, the driver empties it: frames at the end of the channel may go, and
only then. `DeliversInOrder` is the specification of `FrameChannel`, `DeliversEveryFrame`
its fairness, both under the mapping `Channel` of `RxStream`.

### Bootstrap

`HelloRetry`, `RxHello`, `RxJoinAck`, `GatewaySyncSlot`, `RelayControlSlot`,
`RxSync` and `Restart`; the data path is left out and so are the slots it uses.
A restart is a power cycle of the relay or the sensor.

### Presence

One action per slot work (`SensorSlot`, `SensorRetrySlot`, `SensorHeartbeatSlot`,
`RelaySlot`, `RelayRetrySlot`, `RelayHeartbeatSlot`), one per handler at the
gateway (`GatewayRxData`, `GatewayRxAlarm`, `GatewayRxHeartbeat`), one for the
relay's (`RelayRx`: each of them notes that the sensor was heard), the gateway's
poll at the top of its loop (`GatewayPoll`), and `Advance` for time. The loop passes
its top in the window of each slot, and besides at every slot boundary and after each
frame (`main.rs` 206, 322): `GatewayPoll` may happen at any moment, and happens at
least once in each window. The unit of time is 100 ms, the guard band.
A time stamp of the code is kept as its age. The data path is reduced to what
decides when the gateway hears something: how many DATA frames are buffered,
whether an ALARM waits, the relay's pending ACK, and whether the gateway would
drop the pending ALARM as a duplicate. An ACK that is not lost is handled in the
same step in which it is sent.

## 3. What is checked

Every passing run is exhaustive for its constants.

| Run | Shows | Constants that matter |
|---|---|---|
| `alarm_safety` | the sensor's retry is its newest frame and an ALARM; the first hop is in order; ACKs are true; the relay keeps custody of what it acknowledged and the order of its buffer, and implements `Handover`; buzzer and flag agree; transitions survive a full channel; no honest frame violates its slot | queues of 2, two waiting events, buffer of 2, burst of 2, DATA sent twice, three sensor frames; samples in slots 2 and 4; the relay and the buzzer may lag; the sensor may skip slots, so that the relay's retry lives until it is given up |
| `sensor_restarts` | a lasting alarm rings, a cleared one is silenced; the sensor sends an ALARM at most twice between restarts; no deadlock | sequence numbers modulo 4, no bound on time, one restart of the sensor in slot 3 |
| `slot_loop` | the clock's error is bounded; slots are serviced in turn, within the slot, again and again | the firmware's schedule; SYNC delays of 100 and 200 ms, handlers of 670 ms, slot work of 330 ms; the node booted 5 s before the gateway |
| `bootstrap_safety` | SYNCs are passed on in order, each at most once | four SYNCs, one restart, queues of 2, a relay that may miss its control slot |
| `bootstrap_liveness` | the network is again and again in operation; SYNC number zero never crosses the relay; no deadlock | SYNC numbers modulo 3, one restart |
| `presence` | how long the gateway may report a sensor that is gone; with rare losses a living node is not reported missing, and is reported in the end; no deadlock | the firmware's slots in units of 100 ms; any frame may be lost, or losses are seven slots apart; work begins early or late in its window, and the jitter is exactly what the timeout allows for; the gateway polls whenever it likes |
| `rx_stream` | the receive path implements `FrameChannel`: frames are delivered in order, once (`DeliversInOrder`), and in the end (`DeliversEveryFrame`); a waiting decoder holds less than a frame | frames of 4 and 8 bytes, the longer one with bytes in it that look like a header; a FIFO of 2; a channel of 1; one disturbance among the bytes not yet decoded |
| `clock_recovery` | every SYNC takes the clock nearer to the gateway's and never past it; it is right in the end; how late the relay judges the sensor; no deadlock | the firmware's schedule; the node booted 30 s after the gateway; one restart that sets time back by 20 or 80 s; SYNC delays of 100 and 108 ms |

Four further runs state what a comment or a document says and end in a
counterexample (the findings of `PROJECT.json`):

- `gaps_are_losses`: an ALARM the relay retransmits after newer samples is
  counted as 65534 lost samples (`demo_log.rs` 105).
- `every_alarm_answered`: a retransmitted ALARM is dropped as a duplicate and not
  acknowledged again (`main.rs` 1011, `demo.rs` 449).
- `alarm_ends_after_clear`: older DATA, forwarded after the ALARM, switches the
  buzzer off (`GOAL.md` 135, `main.rs` 884).
- `stays_synced`: SYNC 65536 carries number zero and unsyncs the nodes that hear
  it (`demo.rs` 149, 216).

Bounds, and why they are enough:

- `SensorMaxSeq`, `RelayMaxSeq` (`alarm_safety`) stop the nodes from sending after
  that many numbers, the first of which went to HELLO, and the relay's second to the
  sensor's JOIN_ACK: three frames of the sensor, two of the relay, its ACK among
  them. Three samples are an ALARM, the frame before and the frame after it, with
  every retransmission; or three DATA frames for a relay that has not forwarded
  any, which overflow its buffer of two, and the burst of two that drains it. Two frames
  of the relay are the ACK of an ALARM and the ALARM forwarded, retried and given
  up, or the ACKs of two ALARMs, the second of which replaces the first. That a newer
  ALARM replaces one the relay is already retransmitting takes two more numbers: TLC
  passes that too, in a variant of the run in which the gateway lags and the sensor
  skips nothing (`RelayMaxSeq` 6, `MissingSlots` empty, `Lagging` the relay, the
  gateway and the buzzer); both at once are for the theorems `AlarmCustodyCorrect` and
  `HandsOverCorrect`. With the bound the model stops, hence no deadlock check.
- `SampleSlots`, `Lagging` and `SyncQueued` of that run leave out what adds many states
  and little else: taking a sample commutes with all that happens in slots in which the
  sensor sends nothing; an ACK handled late by the sensor is an ACK made late by the
  relay, which lags, and a transition handled late is a sample taken later; a gateway
  that lags makes its ACKs later, as a relay that lags handles them later; a SYNC in
  the control slot only takes one of the relay's numbers (the violation runs let it).
- `RxDepth`, `AlarmDepth`, `RelayForwardCapacity`, `MaxForwardPerSlot` are 8, 4, 4
  and 2 in the firmware. Smaller ones fill sooner; each is at its limit, and over
  it, in some run. The theorems hold for all values.
- `CounterMax` caps the statistics, which saturate in the code too.
- `SeqModulus` is 65536 where nothing wraps, 4 in `sensor_restarts`. A
  modulus this small lets a frame repeat the last key applied, which the code
  drops; that is why the run fixes `SyncQueued` to `{FALSE}`: a relay that
  could choose freely whether it spends a number on a SYNC could make every ALARM
  it forwards repeat that key, which takes 65536 frames in the code.
- `OriginSeqModulus` and `CounterMax` are 1 and 0 in `sensor_restarts`: the
  statistics influence nothing. `MaxAttempts` is 2 there (3 in the firmware and in
  `alarm_safety`), and the sensor takes its samples in slot 3.
- `RestartSlots` is slot 3: the sensor has just sent, or retried, and its frame may be
  lost, wait at the relay, be acknowledged or be about to be forwarded. `Hellos`
  is one, so that its first frame after the restart has a number the relay may have
  applied last, which is the case the code gets wrong if it does at all.
- `MaxBreaks` bounds the disturbances among the bytes not yet decoded, not those of
  a behaviour: the next one may come as soon as the last has been decoded. In
  `rx_stream` the lengths are scaled down (`HeaderLen` is 21 in the firmware, `CrcLen`
  2, `MaxPayloadLen` 32, the FIFO 128 bytes); `MaxPayloadLen` is large enough that a
  false header announces more bytes than the frame behind it has. The theorems
  hold for all lengths.
- `Setbacks` in `clock_recovery` are one shorter and one longer than `BootOffset`, so that
  the offset stays positive or changes sign: truncation rounds differently.
- `LastSyncSeq`, `MaxRestarts` bound the safety run of `Bootstrap`; in the liveness
  run only `MaxRestarts` remains.
- `Starts`, `Delays`, `DataDelays` (`Presence`) are the extremes of the window (100 to
  600 ms after the start of a slot) and of the time to send and handle a frame.
  Their spread is 700 ms, exactly the width of the window, which is what
  `heartbeat_timeout_ms` allows for beyond a superframe (`JitterCovered`). With 100 ms
  more TLC finds a node reported OFFLINE after one loss: an ALARM sent at the start of
  the window of slot 3 is handled at 3200 ms, the heartbeat of slot 5 is lost, DATA
  sent at the end of the window of the next slot 3 arrives just after the slot
  boundary, at 12050 ms, and the poll at that boundary sees an age of 8800 ms, more
  than 8700. The firmware promises no such bound, since a node may begin anywhere in
  its window and the second copy of DATA comes later; `OneLossTolerated` and
  `BothReported` say what the timeout is worth where the bound holds. No document
  promises more than that a periodic frame may be lost (`GOAL.md` 127). The other theorems
  and `OnlineMeansHeard` do not ask for it; all assume that a frame is handled before anybody
  works in the next slot (`PresenceAssumption`).
- `LossGaps` are the two radios considered: one that may lose any frame, and one
  that leaves seven slots between losses, so that no two fall into one superframe
  as the timeout sees it. With six slots TLC finds the relay reported OFFLINE after
  two losses (its heartbeat, then the DATA that follows): the timeout tolerates one.
- `StaleLimit` is the bound of `OnlineMeansHeard`, about 35 s with the firmware's
  numbers; TLC finds states that miss it by half a second. Most of it is an ALARM
  heard in slot 4, which waits for slot 3, is retransmitted twice and counts as
  seen when it arrives. Without ALARMs, the heartbeats of both nodes add up.

Fairness. The executor polls every task that is woken, and no task of a node
waits for another for ever: weak fairness for each `core_task`, for the buzzer
task and for the next slot. A transmission that is made again and again arrives
now and then (strong fairness on the arrival); without it nothing could be said
of a radio. In `AlarmPath` that is asked of transmissions the receiver would not
take for a repetition of the last key it applied, and in `Bootstrap` of SYNCs not
numbered zero: both exceptions concern one number in 65536. Sampling is not fair:
the alarm may change at any time or never. `Presence` needs only weak fairness of
its whole next step: time passes, and `Advance` waits for what must be done first.
`SensorRestarts` adds that a searching sensor joins and syncs in the end, which is
`Operational` of `Bootstrap`. `RxStream` asks that bytes keep coming (as long as none
comes, a decoder that was told of a longer frame waits), that both tasks run,
and strong fairness of `Read`: the FIFO is read before it overruns, now and then. In
`ClockRecovery` not every SYNC is lost for ever.

Mutants. Next to some definitions stands a mutant, a plausible mistake in the
same code (a forgotten reset, a dropped guard, a swapped order). Each property of a
passing run is violated by one of them.

## 4. What is proved

For every value of the constants that satisfies the assumptions stated with them:

| Theorem | Says | Assumes |
|---|---|---|
| `TypeCorrect` | types and queue bounds of `AlarmPath` | |
| `BuzzerCorrect` | `BuzzerConsistent` | |
| `EventsCorrect` | `AlarmEventsReplayLatch` | |
| `SensorRetryCorrect` | `SensorRetryIsCurrent` | |
| `FirstHopQueueCorrect`, `FirstHopOrderCorrect` | `FirstHopQueue`, `FirstHopInOrder` | `SensorNoWrap` |
| `AckCorrect` | `AckImpliesApplied` | `SensorNoWrap` |
| `RelayBufferCorrect` | `RelayBufferOrdered` | `SensorNoWrap` |
| `AlarmCustodyCorrect` | `AlarmCustody` | `SensorNoWrap`, `RelayNoWrap` |
| `NoSlotViolationsCorrect` | `NoSlotViolations` | |
| `HandsOverCorrect` | `AlarmPath` implements `Handover` (`HandsOver`) | `SensorNoWrap` |
| `RestartTypeCorrect`, `TasksAgreeAfterRestart` | types of `SensorRestarts`; `BuzzerConsistent`, `AlarmEventsReplayLatch` and `SensorRetryIsCurrent` through restarts of the sensor | |
| `RetriesOnceCorrect`, `RestartRetriesOnceCorrect` | `SensorRetriesOnce`, of `AlarmPath` and of `SensorRestarts` | the sensor is none of `MissingSlots` |
| `RetryDue` | the slot count of `PendingAck` agrees with the milliseconds of the code | clock corrections within the silent part of a slot |
| `ClockErrorBounded` | `ErrorBounded` | |
| `LoopTypeCorrect` | types of `SlotLoop` | |
| `ServedInTurn` | `InTurn` | `Paced` |
| `ServedInSlot` | `StartsInSlot` | the longest SYNC delay is at most the silent end of a slot |
| `BootstrapTypeCorrect` | types and queue bounds of `Bootstrap` | |
| `SyncPassedInOrderCorrect` | `SyncPassedInOrder` | `NoSyncWrap` |
| `ZeroStopsAtRelayCorrect` | `ZeroStopsAtRelay` | |
| `RecoveryTypeCorrect`, `SilenceJudgedRight` | types of `ClockRecovery`; `SilenceJudged` | |
| `EverySyncContracts` | `SyncContracts` | |
| `PresenceTypeCorrect`, `OnlineCorrect` | types of `Presence`; `OnlineMeansHeard` | |
| `OneLossCorrect` | `OneLossTolerated`, at whatever moments the gateway polls | (`LossesRare` and `JitterCovered` are in the property) |
| `RxTypeCorrect`, `BufferCorrect` | types and bounds of `RxStream`; `BufferBounded` | |
| `PushNeverOverflows` | a chunk from the UART always fits into the decoder's buffer: the error path of `push_bytes` is not taken | |
| `ReceivePathDelivers` | `RxStream` implements `FrameChannel` (`DeliversInOrder`) | |
| `DecoderSkipsNoFrame`, `FramesDisjoint` | `next_frame` discards nothing beyond the beginning of the first complete frame; complete frames do not overlap | |

`SensorNoWrap` and `RelayNoWrap` say that the node's numbers do not wrap within
the behaviour: order of numbers is then order of sending; `NoSyncWrap` says so of the
SYNC numbers. `Paced` says that a
handler and the correction that may follow it leave some of the active window,
and that slot work is over within the slot's length; the values of `slot_loop`
satisfy it with little to spare. `NoneIsFresh` and its like say that the model
value `None` is none of the values it is distinguished from.

Arguments.

- *Buzzer, events, sensor retry* are inductive together with the types.
- *First hop.* The order of the relay's queue is not inductive alone: a
  retransmission appends the pending frame. It is, together with
  `SensorRetryIsCurrent`: the pending frame carries the newest number, so that
  appending it, like appending a new frame, keeps the queue ordered. The queue's
  lower bound `LastApplied` then gives the order of application.
- *One retry of the sensor* is not counted but follows from the order of its work: what
  is pending between slot 2 and slot 4 has been sent once (`SentOnce`), because a
  sensor that holds the alarm has replaced it in slot 2 by a new ALARM, and one whose
  alarm is over has cancelled it. A restart forgets the ALARM, and while the sensor
  looks for the schedule again nothing is pending (`NothingPending`).
- *ACKs and buffer* follow from `FirstHopQueue`: `LastApplied` only grows.
- *Custody* needs that the frame the relay retries is never newer than the
  relay's numbers (`RelayRetryKnown`) and that the ALARM waiting to be forwarded
  is not newer than the last one applied.
- *Clock.* The smoothed offset lies between two offsets in the bounds, and the
  truncation rounds towards zero but never beyond an integer bound.
- *Slot loop.* The loop has a distance: the time since the beginning of the slot
  serviced last, by the node's estimate. The invariant `LoopInv` says that the
  distance, with the wait that is going on, stays below the end of the next
  window; then the next slot serviced is the next slot. Each action moves the
  distance by what it takes and by what the clock is corrected.

- *Hand-over.* Besides `FirstHopQueue` and `RelayBufferOrdered` the mapping needs that
  numbers begin at one (`NumberedFromOne`) and that the ALARM the relay holds is none
  of the DATA it buffers (`HeldApart`). A step of the sensor is then `Send`, a handler
  of the relay `Take`, a transmission in its slot `SendOn`, and all else a stutter.
- *Slot gate.* Every frame that is queued or waits for a retry claims a slot its sender
  owns (`ClaimsOwned`), and the relay's burst stays in the relay's slot; the gate
  then finds nothing to refuse.
- *SYNC order* (`Passage`): the SYNCs on their way, from the gateway to the relay, in its
  `pending_sync_forward` and on to the sensor, are numbered downwards along that way, and
  a relay that restarts forgets the one it held but nothing comes again.
- *Number zero* (`WaitsAsApplied`): the SYNC the relay holds for its control slot is
  the last one it applied; if that is zero the relay is not synced and has no slots.
- *Clock recovery.* The smoothed offset is an eighth nearer to what is measured, and the
  truncation adds less than one; the age of the last sign of the sensor differs from
  the true one by how far the clock has moved since, which is bounded by how far the
  gateway's time has fallen back.
- *Presence.* The invariant follows the news along its road: a sign of life noted by
  the relay, the ALARM that waits for slot 3, the pending ALARM after each
  transmission, the frame on its way, `last_seen` and `last_reported` of the
  gateway. At each place it bounds the age of the relay's `sensor_seen` by the position
  in the superframe and, for a pending ALARM, by the number of transmissions. That
  needs that everyone works in the window and before its end (`ServedInWindow`), that a
  retransmission is due in slot 4 but not for an ALARM first sent in slot 3, and that the
  buffer of DATA is emptied before the next sample (`OneSample`).
- *One loss.* The relay hears the sensor, and the gateway hears of both nodes, by what
  is sent in two slots of a superframe: 2 and 6, 3 and 5. The inductive invariant
  bounds an age by the position between these chances (`Timely`): the last one
  was heard, or it was lost, the one before was heard and the loss is that recent;
  losses seven slots apart leave no room for both to be lost. It needs to know in which
  slot a frame on its way was sent (`AirInv`), that slot 3 has something to forward
  unless the sample was lost (`ToForward`), and that a heartbeat does not deny a sensor
  the gateway has heard of (`HeartbeatsTell`). The age is largest just before the next
  chance is heard (`AwaitTime`), however the polls fall: a superframe and the jitter, and
  if that is within the window's width, within the timeout (`SeenRecently`).
- *Decoder.* A place where a frame begins stops the loop of `next_frame`, and the loop
  ends at the first place that does. While the decoder waits, either there is less
  than the shortest frame, or less than the announced one, which is believed only
  if it is no longer than the longest.
- *Receive path.* The frames among some bytes are listed by the ascending enumeration of
  the places where they begin (`FramesIn`); there is one such enumeration, built from
  that of a smaller set, so that what a step does to the list follows from what it does
  to the places: a byte that comes in adds the place of at most one frame, beyond all
  others; `next_frame` drops none but the first; an overrun drops the last ones. The
  inductive invariant (`StreamInv`) adds to types and bounds where the last frame on the
  line stands: as long as it came in undamaged, what has come of it is at the end of
  FIFO and buffer and the line holds the rest (`LineInv`); and an overrun happens to a
  full FIFO and damages the frame on the line (`OverrunInv`).

Only model-checked: all liveness (`PersistentAlarmRings`, `ClearedAlarmSilences`,
`EverySlotServed`, `Operational`, `BothReported`, `Recovers`, `DeliversEveryFrame`),
since the prover has no rules for fairness and cannot use the induction theorems of its
library. Every safety property of the passing runs is stated by a theorem.

## 5. What is not modelled, and the plan

| Next | Content |
|---|---|
| restart of the relay in mid-alarm | a power cycle between ACK and forwarding loses an ALARM the sensor believes delivered; the alarm rings again only with the sensor's next ALARM. Written as an extension of `AlarmPath` it has more than a million states before liveness is checked; it needs a smaller model |
| slot loop during recovery | while the clock is on its way back the relay follows a schedule that is not the gateway's; `ClockRecovery` has the clock, not the slots |

Not modelled: the AT dialogue (`transport.rs` 87-224). It runs once, before any task,
as a fixed sequence of writes and bounded waits, and keeps no state of its own: a
late or missing reply leads to a warning, and without `Entry AT` the dialogue is
skipped. What can go wrong is in the module (whether it is left in AT mode by a
reply that came too late, what it does with a command sent while it answers another),
and the repository says too little of it for a faithful model. The function's comment
promises an `Err` on a timeout (`transport.rs` 91); the code goes on and returns `Ok`.

Left out for good: the conversion of fields and the arithmetic of the CRC (pure
functions without state), I2C, console output, peripheral set-up.

Differences between documents and code that no run states: the statistics are
printed with every SYNC, not every 30 s (`README.md` 69, `GOAL.md` 133); HELLO is
retried every two seconds of local time, not in slot 2 (`README.md` 77, `GOAL.md`
93, `main.rs` 658); an ALARM is said to be retransmitted up to three times in slot 4
(`README.md` 65, `GOAL.md` 100 and 193, `docs/demo-runbook.md` 190 and 219), while
`MAX_ATTEMPTS` counts the first transmission too (`main.rs` 1103, 1128): the relay
retransmits at most twice (`AlarmCustody` lets it give up then, and not before), and
the sensor at most once, its next sample replacing or cancelling the frame first
(`SensorRetriesOnce`). As an upper bound the documents are not contradicted.

## 6. Running it

    tlc -workers 2 -config AlarmPathSafety.cfg MCAlarmPath
    tlapm CustodyProofs.tla

and likewise for the other configurations (the first column of section 3 is the
`name` in `PROJECT.json`, which gives module and configuration). The longest run
takes about two minutes, the longest proof a few minutes.
