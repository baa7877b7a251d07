--------------------------- MODULE SensorRestarts ---------------------------
(***************************************************************************)
(* AlarmPath with a sensor that loses power at any moment.  Everything a   *)
(* node knows is in RAM: after a restart core_task and sensor_task begin   *)
(* as in run, the numbers start again, and until the sensor has joined and *)
(* synced (Bootstrap) it works in no slot, while it already samples and    *)
(* handles what it receives.  The relay remembers it as it was: it still   *)
(* holds its ALARM and its samples, and the key of its last frame, which   *)
(* is what the receiver drops as a duplicate.                              *)
(***************************************************************************)
EXTENDS AlarmPath

CONSTANTS
    MaxRestarts,  \* bound: how often the sensor restarts
    RestartSlots, \* slots in which it may
    Hellos        \* HELLOs it may send until one is answered

ASSUME RestartAssumption ==
    /\ MaxRestarts \in Nat
    /\ RestartSlots \subseteq Slot /\ Hellos \subseteq Seqs

VARIABLES
    searching,    \* the sensor does not follow the schedule yet
    restarts

powerVars == <<searching, restarts>>

RestartTypeOK ==
    /\ TypeOK
    /\ searching \in BOOLEAN
    /\ restarts \in 0 .. MaxRestarts

RestartInit == Init /\ searching = FALSE /\ restarts = 0
-----------------------------------------------------------------------------
\* Power is cut and comes back; each HELLO sent meanwhile took a number.
Restart ==
    /\ restarts < MaxRestarts /\ slot \in RestartSlots
    /\ restarts' = restarts + 1
    /\ searching' = TRUE
    /\ last_tx_slot' = [last_tx_slot EXCEPT ![Sensor] = None]
    /\ rx' = [rx EXCEPT ![Sensor] = <<>>]
    /\ \E h \in Hellos : seq' = [seq EXCEPT ![Sensor] = h]
    /\ data_seq' = 0
    /\ pending_ack' = [pending_ack EXCEPT ![Sensor] = NoPending]
    /\ alarm_latch' = FALSE
    /\ alarm_events' = <<>>
    /\ sensor_alarm_active' = FALSE
    /\ slot_violations' = [slot_violations EXCEPT ![Sensor] = 0]
    /\ UNCHANGED <<slot, last_data_seq, relayVars, gatewayVars, buzzer>>

\* While it is searching it lets the slots pass.
SlotPasses ==
    /\ searching
    /\ Serve(Sensor)
    /\ UNCHANGED <<rx, seq, last_data_seq, pending_ack, buzzer, slot_violations>>
    /\ UNCHANGED <<sampleVars, sensorVars, relayVars, gatewayVars, powerVars>>

\* JOIN_ACK and SYNC have arrived; the relay's JOIN_ACK took one of its numbers.
Rejoin ==
    /\ searching
    /\ searching' = FALSE
    /\ last_tx_slot' = [last_tx_slot EXCEPT ![Sensor] = None]
    /\ CanSend(Relay) /\ Bump(Relay)
    /\ UNCHANGED <<slot, rx, last_data_seq, pending_ack, buzzer, slot_violations>>
    /\ UNCHANGED <<sampleVars, sensorVars, relayVars, gatewayVars, restarts>>

\* A step of AlarmPath in which a searching sensor works in no slot.
Powered(A) ==
    /\ A
    /\ searching => last_tx_slot'[Sensor] = last_tx_slot[Sensor]
    /\ UNCHANGED powerVars

RestartNext ==
    \/ Tick /\ UNCHANGED powerVars
    \/ Powered(SlotWork)
    \/ Powered(Handle)
    \/ Powered(Tasks)
    \/ Restart
    \/ SlotPasses
    \/ Rejoin

RestartSpec == RestartInit /\ [][RestartNext]_<<vars, powerVars>>
-----------------------------------------------------------------------------
(***************************************************************************)
(* Fairness as in AlarmPath; and a searching sensor joins and syncs in the *)
(* end (Operational of Bootstrap).                                         *)
(***************************************************************************)
RestartFairness ==
    /\ WF_vars(Tick /\ UNCHANGED powerVars)
    /\ \A n \in {Gateway, Relay} : WF_vars(Powered(CoreTask(n)))
    /\ WF_vars(Powered(CoreTask(Sensor)) \/ SlotPasses)
    /\ WF_powerVars(Rejoin)
    /\ WF_vars(Powered(BuzzerTask))
    /\ SF_vars(Powered(SensorSlot /\ ArrivesFresh(Sensor)))
    /\ SF_vars(Powered(RelaySlot /\ ArrivesFresh(Relay)))
    /\ SF_vars(Powered(RelayForwardNext /\ ArrivesFresh(Relay)))

FairRestartSpec == RestartSpec /\ RestartFairness
=============================================================================
