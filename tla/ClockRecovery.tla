---------------------------- MODULE ClockRecovery ----------------------------
(***************************************************************************)
(* The relay's clock when the gateway restarts.  The gateway's time begins *)
(* at zero again, far behind what the relay takes it for, and every SYNC   *)
(* corrects the relay's offset by an eighth of the difference (apply_sync, *)
(* Smoothed).  Meanwhile the relay judges with that clock whether it heard *)
(* the sensor lately (RelayHeartbeatState), although a point in time noted *)
(* before lies in the future after it.                                     *)
(*                                                                         *)
(* A step of time is a superframe, in milliseconds; at its end a SYNC      *)
(* arrives or does not.  Points in time are kept as the time since, by the *)
(* clock that noted them.                                                  *)
(***************************************************************************)
EXTENDS TdmaSchedule

CONSTANTS
    None,
    BootOffset,   \* gateway clock minus the relay's, before any restart
    Setbacks,     \* by how much the gateway's time falls back: its time up and off
    MaxRestarts,  \* bound: how often the gateway restarts
    SyncDelays    \* from the stamp of a SYNC to its handling at the relay

ASSUME RecoveryAssumption ==
    /\ None \notin Int /\ BootOffset \in Int
    /\ MaxRestarts \in Nat
    /\ \A S \in {Setbacks, SyncDelays} :
          S \subseteq Nat /\ \E x \in S : \A y \in S : y <= x

VARIABLES
    target,               \* gateway clock minus the relay's clock
    offset_ms,            \* relay: TimeSync.offset_ms
    sensor_last_seen_ms,  \* relay: since it heard the sensor, by its clock
    silent,               \* the true time since
    restarts              \* of the gateway

vars == <<target, offset_ms, sensor_last_seen_ms, silent, restarts>>

Largest(S)   == CHOOSE x \in S : \A y \in S : y <= x
MaxSyncDelay == Largest(SyncDelays)

\* How far the gateway's time has fallen back in all, and how far the relay's
\* estimate of it is off.
SetBack == BootOffset - target
Error   == offset_ms - target

TypeOK ==
    /\ target \in Int /\ target <= BootOffset
    /\ offset_ms \in Int /\ offset_ms <= BootOffset
    /\ sensor_last_seen_ms \in Int \cup {None}
    /\ silent \in Nat
    /\ restarts \in 0 .. MaxRestarts

\* The first SYNC has been applied.
Init ==
    /\ target = BootOffset
    /\ \E d \in SyncDelays : offset_ms = target - d
    /\ sensor_last_seen_ms = None
    /\ silent = 0
    /\ restarts = 0
-----------------------------------------------------------------------------
\* An age no correction that is still to come makes recent: it is not kept.
Forgotten == HeartbeatTimeout + MaxRestarts * Largest(Setbacks) + MaxSyncDelay

\* A superframe goes by, at the end of which the offset is the one given.
Superframe(offset) ==
    LET age == sensor_last_seen_ms + SuperframeMs + (offset - offset_ms)
    IN  /\ offset_ms' = offset
        /\ IF sensor_last_seen_ms = None \/ age > Forgotten
           THEN sensor_last_seen_ms' = None /\ silent' = 0
           ELSE sensor_last_seen_ms' = age /\ silent' = silent + SuperframeMs
        /\ UNCHANGED <<target, restarts>>

SyncApplied == \E d \in SyncDelays : Superframe(Smoothed(offset_ms, target - d))

SyncLost == Superframe(offset_ms)

\* A heartbeat, DATA or ALARM of the sensor: record_sensor_seen.
SensorHeard ==
    /\ sensor_last_seen_ms' = 0
    /\ silent' = 0
    /\ UNCHANGED <<target, offset_ms, restarts>>

GatewayRestarts ==
    /\ restarts < MaxRestarts
    /\ restarts' = restarts + 1
    /\ \E ms \in Setbacks : target' = target - ms
    /\ UNCHANGED <<offset_ms, sensor_last_seen_ms, silent>>

Next == SyncApplied \/ SyncLost \/ SensorHeard \/ GatewayRestarts

Spec == Init /\ [][Next]_vars

\* The gateway sends a SYNC per superframe, and the radio does not lose all.
FairSpec == Spec /\ WF_vars(SyncApplied)
-----------------------------------------------------------------------------
\* Mutant of SensorOnline: a point in time in the future counts as long ago.
SensorOnlineWrapping ==
    sensor_last_seen_ms # None /\ sensor_last_seen_ms \in 0 .. HeartbeatTimeout

\* RelayHeartbeatState.sensor_online; the saturating subtraction makes the age
\* of what lies in the future zero.
SensorOnline == sensor_last_seen_ms # None /\ sensor_last_seen_ms <= HeartbeatTimeout

\* The presence mask over a restart of the gateway: a sensor heard lately is
\* ONLINE, and one that is not heard any more is so for the timeout and as
\* long as the gateway's time has fallen back, but no longer.
SilenceJudged ==
    sensor_last_seen_ms # None =>
        /\ silent <= HeartbeatTimeout - MaxSyncDelay => SensorOnline
        /\ SensorOnline => silent <= HeartbeatTimeout + SetBack + MaxSyncDelay

\* A SYNC takes the relay's clock an eighth of the way back, rounding and the
\* delay of the SYNC included, and never past what SYNCs measure.
SyncContractsStep ==
    offset_ms' # offset_ms =>
        /\ Error > 0 => 8 * Error' <= 7 * Error + 7
        /\ Error <= 0 => Error' <= 0
        /\ -MaxSyncDelay <= Error'
SyncContracts == [][SyncContractsStep]_vars

\* The relay's clock is right again in the end: behind by the delay of a SYNC
\* at most and, by rounding, not ahead by eight milliseconds.
Recovers == <>[](-MaxSyncDelay <= Error /\ Error < 8)
=============================================================================
