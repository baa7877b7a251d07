------------------------------ MODULE SlotLoop ------------------------------
(***************************************************************************)
(* The time a node that follows the schedule spends in the loop of         *)
(* core_task: it waits for the window of the next slot or for a frame,     *)
(* handles frames, among them SYNCs that correct its clock, and services   *)
(* each slot in its window.  Everything is in milliseconds, modulo a       *)
(* superframe.                                                             *)
(*                                                                         *)
(* What handlers and slot work do is in AlarmPath; here they only take     *)
(* time, which is why AlarmPath may let a node service every slot once.    *)
(***************************************************************************)
EXTENDS TdmaSchedule

CONSTANTS
    None,
    TrueOffset,    \* gateway clock minus the node's own clock
    SyncDelays,    \* from the stamp of a SYNC to its handling at the node
    Arrivals,      \* how long into a wait a frame may arrive
    HandlerTimes,  \* time a received frame may keep the loop busy
    TxTimes        \* time the work of a slot may keep the loop busy

ASSUME LoopAssumption ==
    /\ None \notin Slot /\ TrueOffset \in Int
    /\ SyncDelays \subseteq Nat
    /\ \E d \in SyncDelays : \A e \in SyncDelays : e <= d
    /\ Arrivals \subseteq Nat /\ HandlerTimes \subseteq Nat /\ TxTimes \subseteq Nat

VARIABLES
    clock,         \* the gateway's time, modulo a superframe
    offset_ms,     \* TimeSync.offset_ms
    last_tx_slot,  \* the slot serviced last
    pc,            \* where the loop is
    wait_ms        \* the delay it waits for

vars == <<clock, offset_ms, last_tx_slot, pc, wait_ms>>

Later(ms) == (clock + ms) % SuperframeMs

\* The node's estimate of the gateway time, and how far it is off.
Error(offset) == offset - TrueOffset
Estimate      == (clock + Error(offset_ms)) % SuperframeMs

MaxSyncDelay == CHOOSE d \in SyncDelays : \A e \in SyncDelays : e <= d

TypeOK ==
    /\ clock \in 0 .. SuperframeMs - 1
    /\ offset_ms \in Int
    /\ last_tx_slot \in Slot \cup {None}
    /\ pc \in {"top", "waiting", "woken"}
    /\ wait_ms \in 0 .. SlotMs

\* The node has just applied its first SYNC, sent in the gateway's window.
Init ==
    /\ \E d \in SyncDelays :
          /\ clock = (GuardBeforeMs + d) % SuperframeMs
          /\ offset_ms = TrueOffset - d
    /\ last_tx_slot = None
    /\ pc = "top"
    /\ wait_ms = 0
-----------------------------------------------------------------------------
\* Top of the loop: act at once or wait.
LoopTop ==
    /\ pc = "top"
    /\ wait_ms' = TxWindowDelay(Estimate, last_tx_slot)
    /\ pc' = IF wait_ms' = 0 THEN "woken" ELSE "waiting"
    /\ UNCHANGED <<clock, offset_ms, last_tx_slot>>

TimerFires ==
    /\ pc = "waiting"
    /\ clock' = Later(wait_ms)
    /\ pc' = "woken"
    /\ UNCHANGED <<offset_ms, last_tx_slot, wait_ms>>

\* A frame wins the select, at the latest together with the timer.
Moments == {m \in Arrivals : m < wait_ms} \cup {wait_ms}

RxFrame ==
    /\ pc = "waiting"
    /\ \E m \in Moments, h \in HandlerTimes : clock' = Later(m + h)
    /\ pc' = "top"
    /\ UNCHANGED <<offset_ms, last_tx_slot, wait_ms>>

\* A SYNC stamped in slot 0 or 1 is handled d later: the offset it measures
\* is d too small.  One the relay passed on carries the relay's estimate of
\* the time, so for the sensor d includes the delay of the relay's clock.
RxSync ==
    /\ pc = "waiting"
    /\ \E m \in Moments, d \in SyncDelays, h \in HandlerTimes :
          /\ SlotAt(Later(m - d)) \in {SyncSlotNo, RelayControlSlotNo}
          /\ IsActiveWindow(Later(m - d))
          /\ offset_ms' = Smoothed(offset_ms, TrueOffset - d)
          /\ clock' = Later(m + h)
    /\ pc' = "top"
    /\ UNCHANGED <<last_tx_slot, wait_ms>>

\* The clock is read again: the slot is serviced if its window is open.
MayServe == IsActiveWindow(Estimate) /\ SlotAt(Estimate) # last_tx_slot

Service ==
    /\ pc = "woken"
    /\ MayServe
    /\ last_tx_slot' = SlotAt(Estimate)
    /\ \E t \in TxTimes : clock' = Later(t)
    /\ pc' = "top"
    /\ UNCHANGED <<offset_ms, wait_ms>>

WindowNotOpen ==
    /\ pc = "woken"
    /\ ~MayServe
    /\ pc' = "top"
    /\ UNCHANGED <<clock, offset_ms, last_tx_slot, wait_ms>>

Next == LoopTop \/ TimerFires \/ RxFrame \/ RxSync \/ Service \/ WindowNotOpen

Spec == Init /\ [][Next]_vars

\* The executor keeps polling the core task.
FairSpec == Spec /\ WF_vars(Next)
-----------------------------------------------------------------------------
\* Every slot is serviced in turn, none twice and none left out, although
\* handlers run into the window and SYNCs move the clock back and forth
\* (tx_window_delay_ms, last_tx_slot, the guard bands).
InTurnStep ==
    Service => \/ last_tx_slot = None
               \/ last_tx_slot' = NextSlot(last_tx_slot)
InTurn == [][InTurnStep]_vars

\* A transmission starts in the slot it is meant for by the gateway's clock:
\* the silent end of a slot absorbs the error of the node's clock.
StartsInSlot == [][Service => SlotAt(clock) = SlotAt(Estimate)]_vars

\* Smoothing and rounding never take the clock outside of what SYNCs measure
\* (apply_sync): a node is late by at most the longest SYNC delay, never early.
ErrorBounded == -MaxSyncDelay <= Error(offset_ms) /\ Error(offset_ms) <= 0

\* The loop never gets stuck or spins: each slot is serviced again and again.
EverySlotServed == \A s \in Slot : []<>(last_tx_slot = s)
=============================================================================
