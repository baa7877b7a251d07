------------------------------ MODULE Protocol ------------------------------
(***************************************************************************)
(* The vocabulary shared by every module: the three roles of the fixed     *)
(* sensor -> relay -> gateway topology (role.rs), the frame types of the   *)
(* wire protocol (protocol.rs) and the eight-slot TDMA superframe with its *)
(* owners (tdma.rs).  A node is named by its role: the firmware fixes one  *)
(* node id per role.                                                       *)
(***************************************************************************)
EXTENDS Integers

Gateway == "gateway"
Relay   == "relay"
Sensor  == "sensor"
Node    == {Gateway, Relay, Sensor}

\* Preferred upstream parent; the gateway has none.
Parent(n) == IF n = Sensor THEN Relay ELSE Gateway

Data      == "data"
Alarm     == "alarm"
Ack       == "ack"
Heartbeat == "heartbeat"

\* Only ALARM uses hop-by-hop ACK with retry.
IsAckRequired(frame_type) == frame_type = Alarm

(***************************************************************************)
(* The slots of a superframe, in order.                                    *)
(***************************************************************************)
SyncSlotNo            == 0
RelayControlSlotNo    == 1
SensorSlotNo          == 2
RelaySlotNo           == 3
AlarmRetrySlotNo      == 4
RelayHeartbeatSlotNo  == 5
SensorHeartbeatSlotNo == 6
QuietSlotNo           == 7
SlotCount             == 8
Slot                  == 0 .. SlotCount - 1

NextSlot(s) == (s + 1) % SlotCount

(***************************************************************************)
(* The slots a frame of this type from this role may claim to have been    *)
(* sent in.  Frames the schedule does not list are not slot-constrained.   *)
(***************************************************************************)
OwnedSlots(role, frame_type) ==
    CASE role = Sensor /\ frame_type \in {Data, Alarm} ->
            {SensorSlotNo, AlarmRetrySlotNo}
      [] role = Relay /\ frame_type \in {Data, Alarm} ->
            {RelaySlotNo, AlarmRetrySlotNo}
      [] role = Relay /\ frame_type = Heartbeat  -> {RelayHeartbeatSlotNo}
      [] role = Sensor /\ frame_type = Heartbeat -> {SensorHeartbeatSlotNo}
      [] OTHER -> Slot

SlotOwnerOk(role, frame_type, claimed) == claimed \in OwnedSlots(role, frame_type)

(***************************************************************************)
(* Saturating and wrapping arithmetic of the counters the firmware keeps.  *)
(***************************************************************************)
SaturatingAdd(a, b, max) == IF a + b > max THEN max ELSE a + b
WrappingSub(a, b, mod)   == (a - b) % mod
=============================================================================
