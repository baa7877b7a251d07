----------------------------- MODULE MCSlotLoop -----------------------------
(***************************************************************************)
(* SlotLoop with the schedule of TdmaSchedule::DEMO.                       *)
(***************************************************************************)
EXTENDS SlotLoop

NodeBootedEarlier == -5000
=============================================================================
