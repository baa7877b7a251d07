----------------------------- MODULE MCBootstrap -----------------------------
(***************************************************************************)
(* Small instances of Bootstrap for TLC.                                   *)
(***************************************************************************)
EXTENDS Bootstrap

Nobody    == {}
RelayOnly == {Relay}
Children  == Forwarder
Everybody == Node
=============================================================================
