-------------------------- MODULE MCSensorRestarts --------------------------
(***************************************************************************)
(* A small instance of SensorRestarts for TLC: the nodes keep pace.        *)
(***************************************************************************)
EXTENDS SensorRestarts

Nobody == {}
=============================================================================
