---------------------------- MODULE TdmaSchedule ----------------------------
(***************************************************************************)
(* TdmaSchedule and TimeSync of tdma.rs, and tx_window_delay_ms of         *)
(* main.rs, as functions of time in milliseconds.                          *)
(***************************************************************************)
EXTENDS Protocol

CONSTANTS
    SlotMs,         \* length of a slot
    GuardBeforeMs,  \* silence at its start
    ActiveMs        \* transmit window after it; the rest is silent again

ASSUME ScheduleAssumption ==
    /\ SlotMs \in Nat \ {0} /\ GuardBeforeMs \in Nat /\ ActiveMs \in Nat \ {0}
    /\ GuardBeforeMs + ActiveMs <= SlotMs

SuperframeMs == SlotCount * SlotMs
ActiveEnd    == GuardBeforeMs + ActiveMs

\* PendingAck::RETRY_DELAY_MS, two slots of the schedule.
RetryDelayMs == 2 * SlotMs

\* Mutant of HeartbeatTimeout: it does not allow for the width of the window.
HeartbeatTimeoutTight == SuperframeMs

\* heartbeat_timeout_ms.
HeartbeatTimeout == SuperframeMs + ActiveMs

SlotAt(time)      == (time % SuperframeMs) \div SlotMs
SlotElapsed(time) == (time % SuperframeMs) % SlotMs

IsActiveWindow(time) ==
    GuardBeforeMs <= SlotElapsed(time) /\ SlotElapsed(time) < ActiveEnd

\* Mutants of NextSlotDelay: a whole slot; to the end of the superframe.
NextSlotDelayWhole(time)      == SlotMs
NextSlotDelaySuperframe(time) == SuperframeMs - (time % SuperframeMs)

NextSlotDelay(time) == SlotMs - SlotElapsed(time)

\* Mutant of TxWindowDelay: a serviced slot is not left.
TxWindowDelaySpinning(time, last) ==
    IF SlotElapsed(time) < GuardBeforeMs THEN GuardBeforeMs - SlotElapsed(time)
    ELSE IF IsActiveWindow(time) THEN 0
    ELSE NextSlotDelay(time)

(***************************************************************************)
(* How long the core task waits before it looks at the clock again; zero   *)
(* when it is to act now.  last is the slot it serviced last.              *)
(***************************************************************************)
TxWindowDelay(time, last) ==
    IF last = SlotAt(time) THEN NextSlotDelay(time)
    ELSE IF SlotElapsed(time) < GuardBeforeMs THEN GuardBeforeMs - SlotElapsed(time)
    ELSE IF IsActiveWindow(time) THEN 0
    ELSE NextSlotDelay(time)

\* Division of a signed integer, towards zero.
TruncatedDiv(a, b) == IF a < 0 THEN -((-a) \div b) ELSE a \div b

\* Mutants of Smoothed: the weight of the old average is left at one; each
\* part is divided, and rounded, by itself.
SmoothedAddsUp(offset, measured) == offset + TruncatedDiv(measured, 8)
SmoothedInParts(offset, measured) ==
    TruncatedDiv(7 * offset, 8) + TruncatedDiv(measured, 8)

\* TimeSync.apply_sync after the first sample: a moving average with weight
\* one eighth for the new one.
Smoothed(offset, measured) == TruncatedDiv(7 * offset + measured, 8)
=============================================================================
