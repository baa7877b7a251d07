----------------------------- MODULE MCAlarmPath -----------------------------
(***************************************************************************)
(* Small instances of AlarmPath for TLC.  None is a model value; the       *)
(* bounds are chosen per run in the .cfg files.                            *)
(***************************************************************************)
EXTENDS AlarmPath

Nobody         == {}
RelayOnly      == {Relay}
RelayAndBuzzer == {Relay, "buzzer_task"}
SensorOnly     == {Sensor}
AnySlot        == Slot
=============================================================================
