------------------------------ MODULE Bootstrap ------------------------------
(***************************************************************************)
(* How the network comes up, and comes up again: a relay or a sensor looks *)
(* for its parent with HELLO until a JOIN_ACK answers, and waits for a     *)
(* SYNC; joined and synced it follows the schedule (core_task).  The       *)
(* gateway sends a SYNC per superframe; the relay passes on the last one   *)
(* it received in its control slot.                                        *)
(*                                                                         *)
(* Every transmission may be lost at every receiver, a node may restart at *)
(* any time, and a node that is not synced has no notion of slots.  Left   *)
(* out are frames the receiver does nothing with but log them: a HELLO of  *)
(* the sensor at the gateway, also as forwarded by the relay, and a SYNC   *)
(* of the relay at the gateway.                                            *)
(***************************************************************************)
EXTENDS Protocol, Sequences

CONSTANTS
    None,
    SyncModulus,   \* values of the u16 SYNC number
    FirstSyncSeq,  \* SYNCs the gateway has sent when relay and sensor start
    LastSyncSeq,   \* bound: the gateway stops at this number, None: never
    RxDepth,       \* capacity of the RX_FRAMES channel
    SensorHears,   \* whether the sensor hears the gateway itself
    Restarting,    \* nodes that may restart
    MaxRestarts,   \* bound: how often they do altogether
    Missing,       \* nodes that may let a slot pass unserviced
    Lagging        \* nodes that may have frames to handle when a slot ends

Forwarder == {Relay, Sensor}

ASSUME BootstrapAssumption ==
    /\ SyncModulus \in Nat /\ SyncModulus > 1 /\ FirstSyncSeq \in 0 .. SyncModulus - 1
    /\ None \notin 0 .. SyncModulus - 1
    /\ LastSyncSeq \in 0 .. SyncModulus - 1 \cup {None}
    /\ RxDepth \in Nat \ {0} /\ MaxRestarts \in Nat /\ SensorHears \in BOOLEAN
    /\ Restarting \subseteq Forwarder /\ Missing \subseteq Node /\ Lagging \subseteq Node

VARIABLES
    slot,                 \* slot of the gateway's clock
    serviced,             \* nodes whose last_tx_slot is slot
    rx,                   \* per node: RX_FRAMES
    sync_seq,             \* gateway: DemoNode.sync_seq
    phase,                \* relay, sensor: DemoNode.phase
    last_sync_seq,        \* relay, sensor: TimeSync.last_sync_seq
    pending_sync_forward, \* relay: the SYNC to pass on, by its number
    restarts

vars == <<slot, serviced, rx, sync_seq, phase, last_sync_seq,
          pending_sync_forward, restarts>>

Searching == "searching"
Joined    == "joined"
SyncSeqs  == 0 .. SyncModulus - 1

Hello(n)   == [frame_type |-> "hello", src |-> n]
JoinAck(n) == [frame_type |-> "join_ack", src |-> Parent(n)]
Sync(n, s) == [frame_type |-> "sync", src |-> n, sync_seq |-> s]

Inbox(n) ==
    CASE n = Gateway -> {Hello(Relay)}
      [] n = Relay   -> {Hello(Sensor), JoinAck(Relay)}
                        \cup {Sync(Gateway, s) : s \in SyncSeqs}
      [] n = Sensor  -> {JoinAck(Sensor)}
                        \cup {Sync(p, s) : p \in {Gateway, Relay}, s \in SyncSeqs}

FramesTo(nodes) == UNION {Inbox(n) : n \in nodes}

TypeOK ==
    /\ slot \in {SyncSlotNo, RelayControlSlotNo, QuietSlotNo}
    /\ serviced \subseteq {Gateway, Relay}
    /\ rx \in [Node -> Seq(FramesTo(Node))]
    /\ \A n \in Node : rx[n] \in Seq(Inbox(n)) /\ Len(rx[n]) <= RxDepth
    /\ sync_seq \in SyncSeqs
    /\ phase \in [Forwarder -> {Searching, Joined}]
    /\ last_sync_seq \in [Forwarder -> SyncSeqs]
    /\ pending_sync_forward \in SyncSeqs \cup {None}
    /\ restarts \in 0 .. MaxRestarts

\* DemoNode::is_synced of a node with a parent; the gateway always is.
IsSynced(n) == last_sync_seq[n] # 0

FollowsSchedule(n) == IsSynced(n) /\ phase[n] = Joined

\* f reaches n if there is room for it and it is not lost.
Reaches(q, f) == IF Len(q) < RxDepth THEN {q, Append(q, f)} ELSE {q}

Init ==
    /\ slot = QuietSlotNo
    /\ serviced = {}
    /\ rx = [n \in Node |-> <<>>]
    /\ sync_seq = FirstSyncSeq
    /\ phase = [n \in Forwarder |-> Searching]
    /\ last_sync_seq = [n \in Forwarder |-> 0]
    /\ pending_sync_forward = None
    /\ restarts = 0
-----------------------------------------------------------------------------
(***************************************************************************)
(* Slots.  Only the SYNC slot and the relay's control slot have work here; *)
(* the others are one, the quiet slot.  A node that starts to follow the   *)
(* schedule again may find the current slot in last_tx_slot and skip it:   *)
(* it is then one of Missing.                                              *)
(***************************************************************************)
NextWorkSlot(s) ==
    CASE s = SyncSlotNo         -> RelayControlSlotNo
      [] s = RelayControlSlotNo -> QuietSlotNo
      [] s = QuietSlotNo        -> SyncSlotNo

Tick ==
    /\ slot = SyncSlotNo /\ Gateway \notin Missing => Gateway \in serviced
    /\ slot = RelayControlSlotNo /\ FollowsSchedule(Relay) /\ Relay \notin Missing
          => Relay \in serviced
    /\ \A n \in Node \ Lagging : rx[n] = <<>>
    /\ slot' = NextWorkSlot(slot)
    /\ serviced' = {}
    /\ UNCHANGED <<rx, sync_seq, phase, last_sync_seq, pending_sync_forward, restarts>>

\* Mutants of NextSyncSeq: it is not incremented; it does not wrap.
NextSyncSeqStays    == sync_seq
NextSyncSeqUnending == sync_seq + 1

NextSyncSeq == (sync_seq + 1) % SyncModulus

\* Slot 0, gateway: make_sync, broadcast.
GatewaySyncSlot ==
    LET f == Sync(Gateway, NextSyncSeq)
    IN  /\ slot = SyncSlotNo
        /\ Gateway \notin serviced
        /\ sync_seq # LastSyncSeq
        /\ serviced' = serviced \cup {Gateway}
        /\ sync_seq' = NextSyncSeq
        /\ \E r \in Reaches(rx[Relay], f),
              s \in IF SensorHears THEN Reaches(rx[Sensor], f) ELSE {rx[Sensor]} :
              rx' = [rx EXCEPT ![Relay] = r, ![Sensor] = s]
        /\ UNCHANGED <<slot, phase, last_sync_seq, pending_sync_forward, restarts>>

\* Mutant of RelayControlSlot: the SYNC is copied, not taken.
RelayControlSlotKeeping ==
    /\ slot = RelayControlSlotNo
    /\ FollowsSchedule(Relay)
    /\ Relay \notin serviced
    /\ serviced' = serviced \cup {Relay}
    /\ IF pending_sync_forward = None THEN UNCHANGED rx
       ELSE \E q \in Reaches(rx[Sensor], Sync(Relay, pending_sync_forward)) :
               rx' = [rx EXCEPT ![Sensor] = q]
    /\ UNCHANGED <<slot, sync_seq, phase, last_sync_seq, pending_sync_forward, restarts>>

\* Slot 1, relay: pass on the SYNC waiting here, stamped with its own clock.
RelayControlSlot ==
    /\ slot = RelayControlSlotNo
    /\ FollowsSchedule(Relay)
    /\ Relay \notin serviced
    /\ serviced' = serviced \cup {Relay}
    /\ IF pending_sync_forward = None THEN UNCHANGED rx
       ELSE \E q \in Reaches(rx[Sensor], Sync(Relay, pending_sync_forward)) :
               rx' = [rx EXCEPT ![Sensor] = q]
    /\ pending_sync_forward' = None
    /\ UNCHANGED <<slot, sync_seq, phase, last_sync_seq, restarts>>

\* A searching node repeats its HELLO on a timer of its own.
HelloRetry(n) ==
    /\ phase[n] = Searching
    /\ \E q \in Reaches(rx[Parent(n)], Hello(n)) : rx' = [rx EXCEPT ![Parent(n)] = q]
    /\ UNCHANGED <<slot, serviced, sync_seq, phase, last_sync_seq,
                   pending_sync_forward, restarts>>

\* Power is cut and comes back: everything is as after flashing, and the node
\* starts with a HELLO.
Restart(n) ==
    /\ n \in Restarting
    /\ restarts < MaxRestarts
    /\ restarts' = restarts + 1
    /\ \E q \in Reaches(rx[Parent(n)], Hello(n)) :
          rx' = [rx EXCEPT ![Parent(n)] = q, ![n] = <<>>]
    /\ phase' = [phase EXCEPT ![n] = Searching]
    /\ last_sync_seq' = [last_sync_seq EXCEPT ![n] = 0]
    /\ serviced' = serviced \ {n}
    /\ pending_sync_forward' = IF n = Relay THEN None ELSE pending_sync_forward
    /\ UNCHANGED <<slot, sync_seq>>
-----------------------------------------------------------------------------
(***************************************************************************)
(* Received frames.                                                        *)
(***************************************************************************)
Receives(n, frame_type) == rx[n] # <<>> /\ Head(rx[n]).frame_type = frame_type

\* Gateway and relay, HELLO of the child: answer with a JOIN_ACK.  The relay
\* does so whether it has joined itself or not.
RxHello(n) ==
    LET child == Head(rx[n]).src
    IN  /\ Receives(n, "hello")
        /\ \E q \in Reaches(rx[child], JoinAck(child)) :
              rx' = [rx EXCEPT ![n] = Tail(@), ![child] = q]
        /\ UNCHANGED <<slot, serviced, sync_seq, phase, last_sync_seq,
                       pending_sync_forward, restarts>>

RxJoinAck(n) ==
    /\ Receives(n, "join_ack")
    /\ rx' = [rx EXCEPT ![n] = Tail(@)]
    /\ phase' = [phase EXCEPT ![n] = Joined]
    /\ UNCHANGED <<slot, serviced, sync_seq, last_sync_seq, pending_sync_forward, restarts>>

\* Mutant of RxSync: the relay keeps the first SYNC for its control slot.
RxSyncKeepingFirst(n) ==
    /\ Receives(n, "sync")
    /\ rx' = [rx EXCEPT ![n] = Tail(@)]
    /\ last_sync_seq' = [last_sync_seq EXCEPT ![n] = Head(rx[n]).sync_seq]
    /\ pending_sync_forward' =
          IF n = Relay /\ pending_sync_forward = None
          THEN Head(rx[n]).sync_seq ELSE pending_sync_forward
    /\ UNCHANGED <<slot, serviced, sync_seq, phase, restarts>>

\* Relay and sensor, SYNC: set the clock; the relay keeps the frame, in place
\* of an older one, for its control slot.
RxSync(n) ==
    /\ Receives(n, "sync")
    /\ rx' = [rx EXCEPT ![n] = Tail(@)]
    /\ last_sync_seq' = [last_sync_seq EXCEPT ![n] = Head(rx[n]).sync_seq]
    /\ pending_sync_forward' =
          IF n = Relay THEN Head(rx[n]).sync_seq ELSE pending_sync_forward
    /\ UNCHANGED <<slot, serviced, sync_seq, phase, restarts>>

CoreTask(n) ==
    \/ n = Gateway /\ GatewaySyncSlot
    \/ n = Relay /\ RelayControlSlot
    \/ n # Sensor /\ RxHello(n)
    \/ n # Gateway /\ (RxJoinAck(n) \/ RxSync(n))

Next ==
    \/ Tick
    \/ \E n \in Node : CoreTask(n)
    \/ \E n \in Forwarder : HelloRetry(n) \/ Restart(n)

Spec == Init /\ [][Next]_vars
-----------------------------------------------------------------------------
(***************************************************************************)
(* Safety.                                                                 *)
(***************************************************************************)
FromRelay(f) == f.frame_type = "sync" /\ f.src = Relay

\* The relay passes each SYNC on at most once and never an older one after a
\* newer one, through losses, missed control slots and restarts: what waits
\* (pending_sync_forward) is newer than all that is on its way to the sensor.
SyncPassedInOrder ==
    LET q == rx[Sensor]
    IN  \A i \in 1 .. Len(q) : FromRelay(q[i]) =>
           /\ pending_sync_forward # None => q[i].sync_seq < pending_sync_forward
           /\ \A j \in i + 1 .. Len(q) :
                 FromRelay(q[j]) => q[i].sync_seq < q[j].sync_seq

\* A relay the SYNC number zero has unsynced does not pass it on: it stops
\* following the schedule and forgets it for the next SYNC.
ZeroStopsAtRelay ==
    \A i \in 1 .. Len(rx[Sensor]) :
        FromRelay(rx[Sensor][i]) => rx[Sensor][i].sync_seq # 0

\* What the comment on is_synced says and the code does not do: a node is
\* synced "after the first SYNC it applies", so only a restart ends that.
StaysSyncedStep ==
    \A n \in Forwarder : IsSynced(n) /\ restarts' = restarts => IsSynced(n)'
StaysSynced == [][StaysSyncedStep]_vars
-----------------------------------------------------------------------------
(***************************************************************************)
(* Liveness.  Timers fire and the executor polls every core_task (weak     *)
(* fairness); what is sent again and again arrives now and then (strong    *)
(* fairness), and not only SYNCs whose number has wrapped to zero.         *)
(***************************************************************************)
Arrives(n) == Len(rx'[n]) > Len(rx[n])

Fairness ==
    /\ WF_vars(Tick)
    /\ \A n \in Node : WF_vars(CoreTask(n))
    /\ \A n \in Forwarder : SF_vars(HelloRetry(n) /\ Arrives(Parent(n)))
    /\ SF_vars(RxHello(Gateway) /\ Arrives(Relay))
    /\ SF_vars(RxHello(Relay) /\ Arrives(Sensor))
    /\ SF_vars(GatewaySyncSlot /\ Arrives(Relay) /\ sync_seq' # 0)
    /\ SF_vars(RelayControlSlot /\ Arrives(Sensor))

FairSpec == Spec /\ Fairness

\* However often relay and sensor restart and frames are lost, the network is
\* in operation again: both follow the schedule at the same time.
Operational == []<>(\A n \in Forwarder : FollowsSchedule(n))
=============================================================================
