--------------------------- MODULE SlotLoopProofs ---------------------------
(***************************************************************************)
(* Theorems about the schedule and about SlotLoop, for every length of a   *)
(* slot and of its guard bands, every offset and every SYNC delay.         *)
(***************************************************************************)
EXTENDS SlotLoop, TLAPS

(***************************************************************************)
(* A time is its slot, counted from the start of the gateway, and the time *)
(* elapsed in it.                                                          *)
(***************************************************************************)
SlotNo(time) == SlotCount * (time \div SuperframeMs) + SlotAt(time)

\* Division with remainder.
LEMMA DivMod ==
    ASSUME NEW a \in Int, NEW b \in Nat \ {0}
    PROVE  /\ a \div b \in Int /\ a % b \in Int
           /\ a = b * (a \div b) + (a % b)
           /\ 0 <= a % b /\ a % b < b
  OBVIOUS

\* Distribution, kept apart from division for the solver.
LEMMA Regroup ==
    ASSUME NEW q \in Int, NEW x \in Int
    PROVE  SlotMs * (8 * q + x) = SuperframeMs * q + SlotMs * x
  BY ScheduleAssumption DEF SuperframeMs, SlotCount

\* slot_at and slot_elapsed_ms take a time apart without loss.
LEMMA TimeSplit ==
    ASSUME NEW t \in Int
    PROVE  /\ SlotNo(t) \in Int /\ SlotAt(t) \in Slot
           /\ SlotElapsed(t) \in 0 .. SlotMs - 1
           /\ t = SlotMs * SlotNo(t) + SlotElapsed(t)
<1> DEFINE q == t \div SuperframeMs
           r == t % SuperframeMs
<1>1. SuperframeMs \in Nat \ {0} /\ SlotMs \in Nat \ {0} /\ SuperframeMs = 8 * SlotMs
  BY ScheduleAssumption DEF SuperframeMs, SlotCount
<1>2. /\ q \in Int /\ r \in Int /\ t = SuperframeMs * q + r
      /\ 0 <= r /\ r < SuperframeMs
  BY <1>1, DivMod
<1>3. /\ r \div SlotMs \in Int /\ r % SlotMs \in Int
      /\ r = SlotMs * (r \div SlotMs) + (r % SlotMs)
      /\ 0 <= r % SlotMs /\ r % SlotMs < SlotMs
  BY <1>1, <1>2, DivMod
<1>5. SlotNo(t) = 8 * q + (r \div SlotMs) /\ SlotElapsed(t) = r % SlotMs
      /\ SlotAt(t) = r \div SlotMs
  BY DEF SlotNo, SlotAt, SlotElapsed, SlotCount
<1> DEFINE x == r \div SlotMs
           e == r % SlotMs
<1>6. /\ x \in Int /\ e \in Int /\ 0 <= e /\ e < SlotMs /\ r = SlotMs * x + e
      /\ SlotNo(t) = 8 * q + x /\ SlotElapsed(t) = e /\ SlotAt(t) = x
  BY <1>3, <1>5
<1> HIDE DEF q, r, x, e
<1>7. x \in 0 .. 7
  BY <1>1, <1>2, <1>6
<1>8. SlotMs * (8 * q + x) = SuperframeMs * q + SlotMs * x
  BY <1>2, <1>6, Regroup
<1> QED
  BY <1>1, <1>2, <1>6, <1>7, <1>8 DEF Slot, SlotCount

(***************************************************************************)
(* PendingAck compares the local clock with the one it read at the last    *)
(* send; both readings are inside active windows.  Clock corrections of at *)
(* most the two guard bands do not disturb the count in slots that the     *)
(* module PendingAck uses: a frame sent less than two slots ago is not due *)
(* (next_retry), one sent more than two slots ago is.                      *)
(***************************************************************************)
THEOREM RetryDue ==
    ASSUME NEW sent \in Int, NEW now \in Int, NEW correction \in Int,
           IsActiveWindow(sent), IsActiveWindow(now),
           SlotNo(sent) <= SlotNo(now),
           -(SlotMs - ActiveMs) <= correction, correction <= SlotMs - ActiveMs
    PROVE  /\ SlotNo(now) - SlotNo(sent) < 2
                 => (now - sent) + correction < RetryDelayMs
           /\ SlotNo(now) - SlotNo(sent) > 2
                 => (now - sent) + correction >= RetryDelayMs
<1> DEFINE a == SlotNo(sent)
           b == SlotNo(now)
           e == SlotElapsed(sent)
           f == SlotElapsed(now)
<1>1. /\ a \in Int /\ e \in Int /\ sent = SlotMs * a + e
      /\ b \in Int /\ f \in Int /\ now = SlotMs * b + f
  BY TimeSplit
<1>2. /\ SlotMs \in Nat /\ ActiveMs \in Nat \ {0} /\ GuardBeforeMs \in Nat
      /\ GuardBeforeMs <= e /\ e < GuardBeforeMs + ActiveMs
      /\ GuardBeforeMs <= f /\ f < GuardBeforeMs + ActiveMs
  BY ScheduleAssumption DEF IsActiveWindow, ActiveEnd
<1> DEFINE k == b - a
<1>3. k \in Int /\ 0 <= k
  BY <1>1
<1> HIDE DEF a, b, e, f
<1>4. now - sent = SlotMs * k + (f - e)
  BY <1>1, <1>2
<1> HIDE DEF k
<1>5. CASE k < 2
  <2>1. SlotMs * k <= SlotMs
    BY <1>2, <1>3, <1>5
  <2> QED
    BY <1>1, <1>2, <1>4, <1>5, <2>1 DEF RetryDelayMs, k, a, b
<1>6. CASE k > 2
  <2>1. SlotMs * k >= 3 * SlotMs
    BY <1>2, <1>3, <1>6
  <2> QED
    BY <1>1, <1>2, <1>4, <1>6, <2>1 DEF RetryDelayMs, k, a, b
<1> QED
  BY <1>3, <1>5, <1>6 DEF k, a, b
-----------------------------------------------------------------------------
(***************************************************************************)
(* The node's clock.                                                       *)
(***************************************************************************)
LEMMA MaxSyncDelayFacts ==
    /\ MaxSyncDelay \in SyncDelays /\ MaxSyncDelay \in Nat
    /\ \A d \in SyncDelays : d \in Nat /\ d <= MaxSyncDelay
  BY LoopAssumption DEF MaxSyncDelay

\* The moving average stays between the old offset and the new measurement,
\* whatever is lost in the division, and moves by an eighth of their distance.
LEMMA SmoothedFacts ==
    ASSUME NEW offset \in Int, NEW measured \in Int, NEW lo \in Int, NEW hi \in Int,
           lo <= offset, offset <= hi, lo <= measured, measured <= hi
    PROVE  /\ Smoothed(offset, measured) \in Int
           /\ lo <= Smoothed(offset, measured) /\ Smoothed(offset, measured) <= hi
           /\ 8 * (Smoothed(offset, measured) - offset) <= (hi - lo) + 7
<1> DEFINE x == 7 * offset + measured
<1>1. x \in Int /\ 8 * lo <= x /\ x <= 8 * hi /\ x - 8 * offset <= hi - lo
  OBVIOUS
<1> HIDE DEF x
<1>2. CASE x < 0
  <2>1. /\ (-x) \div 8 \in Int
        /\ 8 * ((-x) \div 8) <= -x /\ -x < 8 * ((-x) \div 8) + 8
    BY <1>1
  <2>2. TruncatedDiv(x, 8) = -((-x) \div 8)
    BY <1>2 DEF TruncatedDiv
  <2> QED
    BY <1>1, <2>1, <2>2 DEF Smoothed, x
<1>3. CASE ~(x < 0)
  <2>1. x \div 8 \in Int /\ 8 * (x \div 8) <= x /\ x < 8 * (x \div 8) + 8
    BY <1>1
  <2>2. TruncatedDiv(x, 8) = x \div 8
    BY <1>3 DEF TruncatedDiv
  <2> QED
    BY <1>1, <2>1, <2>2 DEF Smoothed, x
<1> QED
  BY <1>2, <1>3

ClockInv == offset_ms \in Int /\ ErrorBounded

\* A SYNC keeps the clock within its bounds and moves it by little.
LEMMA SyncStep ==
    ASSUME ClockInv, NEW d \in SyncDelays,
           offset_ms' = Smoothed(offset_ms, TrueOffset - d)
    PROVE  ClockInv' /\ 8 * (offset_ms' - offset_ms) <= MaxSyncDelay + 7
<1> DEFINE lo == TrueOffset - MaxSyncDelay
           measured == TrueOffset - d
<1>1. /\ TrueOffset \in Int /\ MaxSyncDelay \in Nat /\ d \in Nat /\ d <= MaxSyncDelay
  BY LoopAssumption, MaxSyncDelayFacts
<1>2. /\ offset_ms \in Int /\ lo \in Int /\ measured \in Int
      /\ lo <= offset_ms /\ offset_ms <= TrueOffset
      /\ lo <= measured /\ measured <= TrueOffset
  BY <1>1 DEF ClockInv, ErrorBounded, Error
<1> HIDE DEF lo, measured
<1>3. /\ offset_ms' \in Int /\ lo <= offset_ms' /\ offset_ms' <= TrueOffset
      /\ 8 * (offset_ms' - offset_ms) <= (TrueOffset - lo) + 7
  BY <1>1, <1>2, SmoothedFacts DEF measured
<1>4. -MaxSyncDelay <= Error(offset_ms') /\ Error(offset_ms') <= 0
  BY <1>1, <1>3 DEF Error, lo
<1> QED
  BY <1>1, <1>3, <1>4 DEF ClockInv, ErrorBounded, lo, Error

LEMMA ClockInit == Init => ClockInv
<1> SUFFICES ASSUME NEW d \in SyncDelays, offset_ms = TrueOffset - d PROVE ClockInv
  BY DEF Init
<1>1. /\ d \in Nat /\ d <= MaxSyncDelay /\ TrueOffset \in Int /\ MaxSyncDelay \in Nat
  BY LoopAssumption, MaxSyncDelayFacts
<1>2. Error(offset_ms) = -d /\ offset_ms \in Int
  BY <1>1 DEF Error
<1> QED
  BY <1>1, <1>2 DEF ClockInv, ErrorBounded

LEMMA ClockStep == ClockInv /\ [Next]_vars => ClockInv'
<1> SUFFICES ASSUME ClockInv, [Next]_vars PROVE ClockInv'
  OBVIOUS
<1>1. CASE RxSync
  BY <1>1, SyncStep DEF RxSync
<1>2. CASE UNCHANGED offset_ms
  BY <1>2 DEF ClockInv, ErrorBounded, Error
<1> QED
  BY <1>1, <1>2 DEF Next, vars, LoopTop, TimerFires, RxFrame, Service, WindowNotOpen

\* Smoothing SYNC delays never takes the clock of a node past what a SYNC
\* measured: apply_sync keeps it late by at most the longest delay.
THEOREM ClockErrorBounded == Spec => []ErrorBounded
<1>1. ClockInv => ErrorBounded
  BY DEF ClockInv
<1> QED
  BY <1>1, ClockInit, ClockStep, PTL DEF Spec
-----------------------------------------------------------------------------
(***************************************************************************)
(* The loop.  Since is the true time elapsed from the start of the slot    *)
(* serviced last; the node takes it for Since plus its (negative) error.   *)
(***************************************************************************)
Since == (clock - SlotMs * last_tx_slot) % SuperframeMs
Taken == Since + Error(offset_ms)

LoopType ==
    /\ clock \in 0 .. SuperframeMs - 1
    /\ last_tx_slot \in Slot \cup {None}
    /\ pc \in {"top", "waiting", "woken"}
    /\ wait_ms \in 0 .. SlotMs

\* The loop looks at the clock again before the window of the next slot ends.
InReach ==
    last_tx_slot # None =>
        /\ GuardBeforeMs <= Since
        /\ pc # "waiting" => Taken < SlotMs + ActiveEnd
        /\ pc = "waiting" => Taken + wait_ms <= SlotMs + GuardBeforeMs

LoopInv == ClockInv /\ LoopType /\ InReach

\* What the environment must keep for the loop to follow the schedule: a SYNC
\* is handled within the silent end of a slot, a frame within the window less
\* what a SYNC may move the clock, the work of a slot within a slot.
Paced ==
    /\ MaxSyncDelay <= SlotMs - ActiveEnd
    /\ \A h \in HandlerTimes : 8 * h + MaxSyncDelay + 8 <= 8 * ActiveMs
    /\ \A t \in TxTimes : t <= SlotMs

LEMMA Numbers ==
    /\ SlotMs \in Nat \ {0} /\ SuperframeMs \in Nat \ {0} /\ SuperframeMs = 8 * SlotMs
    /\ GuardBeforeMs \in Nat /\ ActiveMs \in Nat \ {0}
    /\ ActiveEnd = GuardBeforeMs + ActiveMs /\ ActiveEnd <= SlotMs
    /\ Slot = 0 .. 7 /\ None \notin Slot
    /\ MaxSyncDelay \in Nat
  BY ScheduleAssumption, LoopAssumption, MaxSyncDelayFacts
     DEF SuperframeMs, SlotCount, ActiveEnd, Slot

\* Quotient and remainder are unique.
LEMMA DivUnique ==
    ASSUME NEW a \in Int, NEW b \in Nat \ {0}, NEW q \in Int, NEW r \in Int,
           a = b * q + r, 0 <= r, r < b
    PROVE  a % b = r /\ a \div b = q
<1> DEFINE q2 == a \div b
           r2 == a % b
<1>1. q2 \in Int /\ r2 \in Int /\ a = b * q2 + r2 /\ 0 <= r2 /\ r2 < b
  BY DivMod
<1> HIDE DEF q2, r2
<1>2. b * (q2 - q) = r - r2
  BY <1>1
<1>3. q2 - q < 1
  <2> SUFFICES ASSUME q2 - q >= 1 PROVE FALSE
    BY <1>1
  <2>1. b * (q2 - q) >= b
    BY <1>1
  <2> QED
    BY <1>1, <1>2, <2>1
<1>4. q2 - q > -1
  <2> SUFFICES ASSUME q2 - q <= -1 PROVE FALSE
    BY <1>1
  <2>1. b * (q2 - q) <= -b
    BY <1>1
  <2> QED
    BY <1>1, <1>2, <2>1
<1>5. q2 = q /\ r2 = r
  BY <1>1, <1>2, <1>3, <1>4
<1> QED
  BY <1>5 DEF q2, r2

\* A time given by its superframe, its slot and what has elapsed in it.
LEMMA Slotting ==
    ASSUME NEW t \in Int, NEW k \in Int, NEW n \in Slot, NEW e \in 0 .. SlotMs - 1,
           t = SuperframeMs * k + SlotMs * n + e
    PROVE  /\ t % SuperframeMs = SlotMs * n + e
           /\ SlotAt(t) = n /\ SlotElapsed(t) = e
<1>1. SlotMs * n \in Int /\ 0 <= SlotMs * n /\ SlotMs * n <= 7 * SlotMs
  BY Numbers
<1>2. t % SuperframeMs = SlotMs * n + e
  <2> DEFINE r == SlotMs * n + e
  <2>1. r \in Int /\ 0 <= r /\ r < SuperframeMs /\ t = SuperframeMs * k + r
    BY <1>1, Numbers
  <2> HIDE DEF r
  <2>2. t % SuperframeMs = r
    BY <2>1, DivUnique, Numbers
  <2> QED
    BY <2>2 DEF r
<1>3. (SlotMs * n + e) % SlotMs = e /\ (SlotMs * n + e) \div SlotMs = n
  <2>1. n \in Int /\ e \in Int /\ 0 <= e /\ e < SlotMs /\ SlotMs * n + e \in Int
    BY <1>1, Numbers
  <2> QED
    BY <2>1, DivUnique, Numbers
<1> QED
  BY <1>2, <1>3 DEF SlotAt, SlotElapsed

LEMMA ClockFacts ==
    ASSUME ClockInv
    PROVE  /\ Error(offset_ms) \in Int /\ -MaxSyncDelay <= Error(offset_ms)
           /\ Error(offset_ms) <= 0 /\ offset_ms \in Int /\ TrueOffset \in Int
  BY LoopAssumption DEF ClockInv, ErrorBounded, Error

\* The true time, counted from a slot.
LEMMA SinceFacts ==
    ASSUME LoopType, last_tx_slot # None
    PROVE  /\ last_tx_slot \in Slot /\ Since \in Int /\ 0 <= Since
           /\ clock \in Int /\ SlotMs * last_tx_slot \in Int
           /\ \E k \in Int : clock - SlotMs * last_tx_slot = SuperframeMs * k + Since
<1>1. last_tx_slot \in Slot /\ clock \in Int
  BY DEF LoopType
<1>2. SlotMs * last_tx_slot \in Int
  BY <1>1, Numbers
<1>3. clock - SlotMs * last_tx_slot \in Int /\ SuperframeMs \in Nat \ {0}
  BY <1>1, <1>2, Numbers
<1>4. /\ Since \in Int /\ 0 <= Since
      /\ (clock - SlotMs * last_tx_slot) \div SuperframeMs \in Int
      /\ clock - SlotMs * last_tx_slot
           = SuperframeMs * ((clock - SlotMs * last_tx_slot) \div SuperframeMs) + Since
  BY <1>3, DivMod DEF Since
<1> QED
  BY <1>1, <1>2, <1>4

(***************************************************************************)
(* What the node takes the time for, by how long ago it takes the start of *)
(* the slot serviced last to be: before it, in it, or in the next slot.    *)
(***************************************************************************)
LEMMA EstimateFacts ==
    ASSUME LoopInv, last_tx_slot # None, Taken < SlotMs + ActiveEnd,
           MaxSyncDelay <= SlotMs - ActiveEnd
    PROVE  /\ Taken \in Int
           /\ Taken < 0 => /\ SlotElapsed(Estimate) = SlotMs + Taken
                           /\ SlotElapsed(Estimate) >= ActiveEnd
                           /\ SlotAt(Estimate) # last_tx_slot
           /\ 0 <= Taken /\ Taken < SlotMs
                 => /\ SlotElapsed(Estimate) = Taken
                    /\ SlotAt(Estimate) = last_tx_slot
           /\ SlotMs <= Taken
                 => /\ SlotElapsed(Estimate) = Taken - SlotMs
                    /\ SlotAt(Estimate) = NextSlot(last_tx_slot)
                    /\ SlotAt(Estimate) # last_tx_slot
<1> DEFINE err == Error(offset_ms)
           t   == clock + err
           n   == last_tx_slot
           p   == Taken
<1>1. /\ err \in Int /\ -MaxSyncDelay <= err /\ err <= 0
  BY ClockFacts DEF LoopInv
<1>2. /\ n \in Slot /\ n \in 0 .. 7 /\ Since \in Int /\ clock \in Int /\ SlotMs * n \in Int
  BY SinceFacts, Numbers DEF LoopInv
<1>3. PICK k \in Int : clock - SlotMs * n = SuperframeMs * k + Since
  BY SinceFacts DEF LoopInv
<1>4. /\ p \in Int /\ t \in Int /\ SuperframeMs * k \in Int
      /\ t = SuperframeMs * k + SlotMs * n + p
  <2>1. p = Since + err
    BY DEF Taken
  <2>2. SuperframeMs * k \in Int
    BY Numbers
  <2> HIDE DEF p, err
  <2> QED
    BY <1>1, <1>2, <1>3, <2>1, <2>2
<1>5. /\ GuardBeforeMs <= Since /\ p >= GuardBeforeMs - MaxSyncDelay
      /\ p >= -(SlotMs - ActiveEnd) /\ p < SlotMs + ActiveEnd
  BY <1>1, <1>2, Numbers DEF LoopInv, InReach, Taken
<1>6. Estimate = t % SuperframeMs
  BY DEF Estimate
<1> HIDE DEF err, t, p
<1>7. ASSUME NEW m \in Slot, NEW e \in 0 .. SlotMs - 1, NEW q \in Int,
             t = SuperframeMs * q + SlotMs * m + e
      PROVE  SlotAt(Estimate) = m /\ SlotElapsed(Estimate) = e
  <2>1. Estimate = SlotMs * m + e
    BY <1>4, <1>6, <1>7, Slotting
  <2>2. Estimate \in Int /\ Estimate = SuperframeMs * 0 + SlotMs * m + e
    <3>1. SlotMs * m \in Int
      BY Numbers
    <3> QED
      BY <2>1, <3>1, Numbers
  <2> QED
    BY <2>2, Slotting
<1>8. CASE p < 0
  <2>1. SlotMs + p \in 0 .. SlotMs - 1 /\ SlotMs + p >= ActiveEnd
    BY <1>4, <1>5, <1>8, Numbers
  <2>2. CASE n = 0
    <3>1. t = SuperframeMs * (k - 1) + SlotMs * 7 + (SlotMs + p)
      BY <1>4, <2>2, Numbers
    <3>2. 7 \in Slot /\ k - 1 \in Int
      BY Numbers
    <3>3. SlotAt(Estimate) = 7 /\ SlotElapsed(Estimate) = SlotMs + p
      BY <1>7, <2>1, <3>1, <3>2
    <3> QED
      BY <1>4, <1>8, <2>1, <2>2, <3>3, Numbers DEF p
  <2>3. CASE n # 0
    <3>1. t = SuperframeMs * k + SlotMs * (n - 1) + (SlotMs + p)
      BY <1>2, <1>4, Numbers
    <3>2. n - 1 \in Slot
      BY <1>2, <2>3, Numbers
    <3>3. SlotAt(Estimate) = n - 1 /\ SlotElapsed(Estimate) = SlotMs + p
      BY <1>7, <2>1, <3>1, <3>2
    <3> QED
      BY <1>2, <1>4, <1>8, <2>1, <3>3, Numbers DEF p
  <2> QED
    BY <2>2, <2>3
<1>9. CASE 0 <= p /\ p < SlotMs
  <2>1. p \in 0 .. SlotMs - 1
    BY <1>4, <1>9, Numbers
  <2>2. SlotAt(Estimate) = n /\ SlotElapsed(Estimate) = p
    BY <1>2, <1>4, <1>7, <2>1
  <2> QED
    BY <1>4, <1>9, <2>2, Numbers DEF p
<1>10. CASE SlotMs <= p
  <2>1. p - SlotMs \in 0 .. SlotMs - 1
    BY <1>4, <1>5, <1>10, Numbers
  <2>2. CASE n = 7
    <3>1. t = SuperframeMs * (k + 1) + SlotMs * 0 + (p - SlotMs)
      BY <1>4, <2>2, Numbers
    <3>2. 0 \in Slot /\ k + 1 \in Int
      BY Numbers
    <3>3. SlotAt(Estimate) = 0 /\ SlotElapsed(Estimate) = p - SlotMs
      BY <1>7, <2>1, <3>1, <3>2
    <3>4. NextSlot(n) = 0
      BY <2>2 DEF NextSlot, SlotCount
    <3> QED
      BY <1>4, <1>10, <2>2, <3>3, <3>4, Numbers DEF p
  <2>3. CASE n # 7
    <3>1. t = SuperframeMs * k + SlotMs * (n + 1) + (p - SlotMs)
      BY <1>2, <1>4, Numbers
    <3>2. n + 1 \in Slot /\ n \in 0 .. 6
      BY <1>2, <2>3, Numbers
    <3>3. SlotAt(Estimate) = n + 1 /\ SlotElapsed(Estimate) = p - SlotMs
      BY <1>7, <2>1, <3>1, <3>2
    <3>4. NextSlot(n) = n + 1
      BY <3>2 DEF NextSlot, SlotCount
    <3> QED
      BY <1>2, <1>4, <1>10, <3>3, <3>4, Numbers DEF p
  <2> QED
    BY <2>2, <2>3
<1> QED
  BY <1>4, <1>8, <1>9, <1>10, Numbers DEF p

\* Waiting or not, the true time since the slot serviced last is small.
LEMMA SinceSmall ==
    ASSUME LoopInv, Paced, last_tx_slot # None
    PROVE  /\ Since + Error(offset_ms) = Taken /\ Taken \in Int
           /\ GuardBeforeMs <= Since
           /\ Since < SuperframeMs - 4 * SlotMs
           /\ pc = "waiting" => Since + wait_ms < SuperframeMs - 4 * SlotMs
<1>1. /\ Error(offset_ms) \in Int /\ -MaxSyncDelay <= Error(offset_ms)
      /\ Error(offset_ms) <= 0
  BY ClockFacts DEF LoopInv
<1>2. Since \in Int /\ Taken = Since + Error(offset_ms)
  BY SinceFacts DEF LoopInv, Taken
<1>3. wait_ms \in Nat /\ wait_ms <= SlotMs
  BY Numbers DEF LoopInv, LoopType
<1> QED
  BY <1>1, <1>2, <1>3, Numbers DEF LoopInv, InReach, Paced

\* x is the start of a slot, r the true time since: they stay so as time passes.
From(x, r) == \E k \in Int : clock - x = SuperframeMs * k + r

LEMMA Elapse ==
    ASSUME clock \in Int, NEW x \in Int, NEW r \in Int, From(x, r),
           NEW ms \in Nat, 0 <= r + ms, r + ms < SuperframeMs
    PROVE  (Later(ms) - x) % SuperframeMs = r + ms
<1> DEFINE q == (clock + ms) \div SuperframeMs
           c == (clock + ms) % SuperframeMs
<1>1. PICK k \in Int : clock - x = SuperframeMs * k + r
  BY DEF From
<1>2. q \in Int /\ c \in Int /\ clock + ms = SuperframeMs * q + c
  <2>1. clock + ms \in Int /\ SuperframeMs \in Nat \ {0}
    BY Numbers
  <2> QED
    BY <2>1, DivMod
<1>3. Later(ms) = c
  BY DEF Later
<1> HIDE DEF q, c
<1>4. c - x = SuperframeMs * (k - q) + (r + ms)
  <2> DEFINE sk == SuperframeMs * k
             sq == SuperframeMs * q
  <2>1. SuperframeMs * (k - q) = sk - sq /\ sk \in Int /\ sq \in Int
    BY <1>2, Numbers
  <2>2. clock + ms = sq + c /\ clock - x = sk + r
    BY <1>1, <1>2
  <2> HIDE DEF sk, sq
  <2>3. c - x = (sk - sq) + (r + ms)
    BY <1>2, <2>1, <2>2
  <2> QED
    BY <2>1, <2>3
<1>5. (c - x) % SuperframeMs = r + ms
  <2>1. /\ c - x \in Int /\ k - q \in Int /\ r + ms \in Int
    BY <1>2
  <2> QED
    BY <1>4, <2>1, DivUnique, Numbers
<1> QED
  BY <1>3, <1>5

\* Nothing but time passes.
LEMMA Pass ==
    ASSUME LoopInv, last_tx_slot # None, last_tx_slot' = last_tx_slot,
           NEW ms \in Nat, clock' = Later(ms), Since + ms < SuperframeMs
    PROVE  Since' = Since + ms
<1> DEFINE x == SlotMs * last_tx_slot
<1>1. /\ Since \in Int /\ 0 <= Since + ms /\ clock \in Int /\ x \in Int
      /\ From(x, Since)
  BY SinceFacts DEF LoopInv, From
<1>2. Since' = (Later(ms) - x) % SuperframeMs
  BY DEF Since, SuperframeMs, SlotCount
<1> HIDE DEF x
<1> QED
  BY <1>1, <1>2, Elapse

LEMMA LaterType == ASSUME clock \in Int, NEW ms \in Nat
                   PROVE  Later(ms) \in 0 .. SuperframeMs - 1
<1>1. clock + ms \in Int /\ SuperframeMs \in Nat \ {0}
  BY Numbers
<1> QED
  BY <1>1, DivMod DEF Later

\* The slot a time is taken for, and the true time elapsed from its start.
LEMMA ServiceFacts ==
    ASSUME ClockInv, LoopType, MaxSyncDelay <= SlotMs - ActiveEnd,
           IsActiveWindow(Estimate)
    PROVE  /\ SlotAt(Estimate) \in Slot
           /\ SlotElapsed(Estimate) \in Int
           /\ GuardBeforeMs <= SlotElapsed(Estimate)
           /\ SlotElapsed(Estimate) < ActiveEnd
           /\ \E k \in Int : clock - SlotMs * SlotAt(Estimate)
                 = SuperframeMs * k + (SlotElapsed(Estimate) - Error(offset_ms))
<1> DEFINE err == Error(offset_ms)
           est == Estimate
           n   == SlotAt(est)
           e   == SlotElapsed(est)
<1>1. /\ err \in Int /\ clock \in Int /\ clock + err \in Int
      /\ SuperframeMs \in Nat \ {0}
  BY ClockFacts, Numbers DEF LoopType
<1>2. PICK q \in Int : clock + err = SuperframeMs * q + est /\ est \in Int
                       /\ 0 <= est /\ est < SuperframeMs
  BY <1>1, DivMod DEF Estimate
<1>3. /\ SlotNo(est) \in Int /\ n \in Slot /\ e \in 0 .. SlotMs - 1
      /\ est = SlotMs * SlotNo(est) + e
  BY <1>2, TimeSplit
<1>4. est \div SuperframeMs = 0
  <2> HIDE DEF est
  <2> DEFINE z == 0
  <2>1. est = SuperframeMs * z + est /\ z \in Int
    BY <1>1, <1>2
  <2> HIDE DEF z
  <2>2. est \div SuperframeMs = z
    BY <1>1, <1>2, <2>1, DivUnique
  <2> QED
    BY <2>2 DEF z
<1>5. SlotNo(est) = n
  <2> HIDE DEF est
  <2>1. n \in Int
    BY <1>3, Numbers
  <2> QED
    BY <1>4, <2>1 DEF SlotNo, SlotCount, n
<1>6. GuardBeforeMs <= e /\ e < ActiveEnd
  BY DEF IsActiveWindow
<1>7. clock - SlotMs * n = SuperframeMs * q + (e - err)
  <2> HIDE DEF err, est, e, n
  <2>1. SlotMs * n \in Int /\ SuperframeMs * q \in Int /\ e \in Int
    BY <1>3, <1>5, Numbers
  <2> QED
    BY <1>1, <1>2, <1>3, <1>5, <2>1
<1> QED
  BY <1>3, <1>6, <1>7, Numbers

\* The wait ends at the next slot boundary or at the start of a window.
LEMMA DelayFacts ==
    ASSUME LoopInv, MaxSyncDelay <= SlotMs - ActiveEnd, pc = "top"
    PROVE  LET w == TxWindowDelay(Estimate, last_tx_slot)
           IN  /\ w \in 0 .. SlotMs
               /\ last_tx_slot # None /\ w # 0
                     => Taken + w <= SlotMs + GuardBeforeMs
<1> DEFINE est == Estimate
           e   == SlotElapsed(est)
<1>1. e \in 0 .. SlotMs - 1
  <2>1. clock + Error(offset_ms) \in Int /\ SuperframeMs \in Nat \ {0}
    BY ClockFacts, Numbers DEF LoopInv, LoopType
  <2>2. est \in Int
    BY <2>1, DivMod DEF Estimate
  <2> QED
    BY <2>2, TimeSplit
<1>2. TxWindowDelay(est, last_tx_slot) \in 0 .. SlotMs
  <2> HIDE DEF est
  <2> QED
    BY <1>1, Numbers DEF TxWindowDelay, NextSlotDelay
<1>3. ASSUME last_tx_slot # None, TxWindowDelay(est, last_tx_slot) # 0
      PROVE  Taken + TxWindowDelay(est, last_tx_slot) <= SlotMs + GuardBeforeMs
  <2> DEFINE p == Taken
             s == SlotAt(est)
  <2>1. /\ p \in Int /\ p < SlotMs + ActiveEnd
        /\ p < 0 => e = SlotMs + p /\ e >= ActiveEnd /\ s # last_tx_slot
        /\ 0 <= p /\ p < SlotMs => e = p /\ s = last_tx_slot
        /\ SlotMs <= p => e = p - SlotMs /\ s # last_tx_slot
    BY <1>3, EstimateFacts DEF LoopInv, InReach
  <2>2. TxWindowDelay(est, last_tx_slot)
          = IF last_tx_slot = s THEN SlotMs - e
            ELSE IF e < GuardBeforeMs THEN GuardBeforeMs - e
            ELSE IF GuardBeforeMs <= e /\ e < ActiveEnd THEN 0
            ELSE SlotMs - e
    BY DEF TxWindowDelay, NextSlotDelay, IsActiveWindow
  <2> HIDE DEF est, e, p, s
  <2> QED
    BY <1>1, <1>3, <2>1, <2>2, Numbers DEF p
<1> QED
  BY <1>2, <1>3

LEMMA LoopInit == Init => LoopInv
<1> SUFFICES ASSUME Init PROVE LoopType /\ InReach
  BY ClockInit DEF LoopInv
<1>1. PICK d \in SyncDelays : clock = (GuardBeforeMs + d) % SuperframeMs
  BY DEF Init
<1>2. clock \in 0 .. SuperframeMs - 1
  <2>1. GuardBeforeMs + d \in Int /\ SuperframeMs \in Nat \ {0}
    BY MaxSyncDelayFacts, Numbers
  <2> QED
    BY <1>1, <2>1, DivMod
<1>3. last_tx_slot = None /\ pc = "top" /\ wait_ms = 0
  BY DEF Init
<1> QED
  BY <1>2, <1>3, Numbers DEF LoopType, InReach

LEMMA LoopStep == Paced /\ LoopInv /\ [Next]_vars => LoopInv'
<1> SUFFICES ASSUME Paced, LoopInv, [Next]_vars PROVE LoopType' /\ InReach'
  BY ClockStep DEF LoopInv
<1> DEFINE err  == Error(offset_ms)
           last == last_tx_slot
<1>1. /\ err \in Int /\ -MaxSyncDelay <= err /\ err <= 0
      /\ clock \in Int /\ wait_ms \in Nat /\ wait_ms <= SlotMs
      /\ LoopType /\ InReach /\ ClockInv /\ MaxSyncDelay <= SlotMs - ActiveEnd
  BY ClockFacts, Numbers DEF LoopInv, LoopType, Paced
<1>2. CASE LoopTop
  <2> DEFINE w == TxWindowDelay(Estimate, last_tx_slot)
  <2>1. pc = "top" /\ wait_ms' = w /\ pc' = (IF w = 0 THEN "woken" ELSE "waiting")
        /\ UNCHANGED <<clock, offset_ms, last_tx_slot>>
    BY <1>2 DEF LoopTop
  <2>2. w \in 0 .. SlotMs /\ (last # None /\ w # 0 => Taken + w <= SlotMs + GuardBeforeMs)
    BY <1>1, <2>1, DelayFacts
  <2>3. Since' = Since /\ Taken' = Taken
    BY <2>1 DEF Since, Taken, Error, SuperframeMs, SlotCount
  <2> HIDE DEF w
  <2>4. LoopType'
    BY <1>1, <2>1, <2>2 DEF LoopType, SuperframeMs, SlotCount
  <2>5. InReach'
    BY <1>1, <2>1, <2>2, <2>3 DEF InReach, ActiveEnd
  <2> QED
    BY <2>4, <2>5
\* Time passes while the loop waits: m is what is left of the wait at most.
<1>3. ASSUME NEW m \in Nat, m <= wait_ms, NEW h \in Nat, pc = "waiting",
             clock' = Later(m + h), UNCHANGED <<last_tx_slot, wait_ms>>,
             pc' \in {"top", "woken"}, h < ActiveMs,
             offset_ms' \in Int, h + (offset_ms' - offset_ms) < ActiveMs
      PROVE  LoopType' /\ InReach'
  <2>1. LoopType'
    <3>1. Later(m + h) \in 0 .. SuperframeMs - 1
      BY <1>1, <1>3, LaterType
    <3> QED
      BY <1>1, <1>3, <3>1 DEF LoopType, SuperframeMs, SlotCount
  <2>2. ASSUME last # None
        PROVE  GuardBeforeMs <= Since' /\ Taken' < SlotMs + ActiveEnd
    <3>1. /\ Since + err = Taken /\ Taken \in Int /\ Since \in Int
          /\ GuardBeforeMs <= Since
          /\ Since + wait_ms < SuperframeMs - 4 * SlotMs
          /\ Taken + wait_ms <= SlotMs + GuardBeforeMs
      BY <1>1, <1>3, <2>2, SinceSmall, SinceFacts DEF InReach
    <3>2. m + h \in Nat /\ Since + (m + h) < SuperframeMs
      BY <1>1, <1>3, <3>1, Numbers
    <3>3. Since' = Since + (m + h)
      BY <1>3, <2>2, <3>2, Pass
    <3> DEFINE moved == offset_ms' - offset_ms
    <3>4. Taken' = Since' + (err + moved)
      BY <1>1, <1>3, ClockFacts, <3>1, <3>2, <3>3 DEF Taken, Error, ClockInv
    <3>5. moved \in Int /\ h + moved < ActiveMs
      BY <1>1, <1>3 DEF ClockInv
    <3> HIDE DEF err, moved
    <3> QED
      BY <1>1, <1>3, <3>1, <3>2, <3>3, <3>4, <3>5, Numbers
  <2>3. InReach'
    BY <1>3, <2>2 DEF InReach, ActiveEnd
  <2> QED
    BY <2>1, <2>3
<1>4. CASE TimerFires
  <2>1. /\ pc = "waiting" /\ clock' = Later(wait_ms + 0) /\ pc' = "woken"
        /\ UNCHANGED <<offset_ms, last_tx_slot, wait_ms>>
    BY <1>1, <1>4 DEF TimerFires
  <2>2. 0 \in Nat /\ 0 < ActiveMs /\ offset_ms' \in Int
        /\ 0 + (offset_ms' - offset_ms) < ActiveMs
    BY <1>1, <2>1, Numbers DEF ClockInv
  <2> QED
    BY <1>1, <1>3, <2>1, <2>2
<1>5. CASE RxFrame
  <2>1. PICK m \in Moments, h \in HandlerTimes : clock' = Later(m + h)
    BY <1>5 DEF RxFrame
  <2>2. /\ pc = "waiting" /\ pc' = "top"
        /\ UNCHANGED <<offset_ms, last_tx_slot, wait_ms>>
    BY <1>5 DEF RxFrame
  <2>3. m \in Nat /\ m <= wait_ms /\ h \in Nat
    BY <1>1, LoopAssumption DEF Moments
  <2>4. 8 * h + MaxSyncDelay + 8 <= 8 * ActiveMs
    BY DEF Paced
  <2>5. h < ActiveMs /\ offset_ms' \in Int /\ h + (offset_ms' - offset_ms) < ActiveMs
    BY <1>1, <2>2, <2>3, <2>4, Numbers DEF ClockInv
  <2> QED
    BY <1>3, <2>1, <2>2, <2>3, <2>5
<1>6. CASE RxSync
  <2>1. PICK m \in Moments, d \in SyncDelays, h \in HandlerTimes :
           clock' = Later(m + h) /\ offset_ms' = Smoothed(offset_ms, TrueOffset - d)
    BY <1>6 DEF RxSync
  <2>2. /\ pc = "waiting" /\ pc' = "top" /\ UNCHANGED <<last_tx_slot, wait_ms>>
    BY <1>6 DEF RxSync
  <2>3. m \in Nat /\ m <= wait_ms /\ h \in Nat
    BY <1>1, LoopAssumption DEF Moments
  <2>4. 8 * h + MaxSyncDelay + 8 <= 8 * ActiveMs
    BY DEF Paced
  <2>5. 8 * (offset_ms' - offset_ms) <= MaxSyncDelay + 7 /\ offset_ms' \in Int
    BY <1>1, <2>1, SyncStep DEF ClockInv
  <2>6. h < ActiveMs /\ h + (offset_ms' - offset_ms) < ActiveMs
    <3> DEFINE moved == offset_ms' - offset_ms
    <3>1. moved \in Int /\ 8 * moved <= MaxSyncDelay + 7
      BY <1>1, <2>5 DEF ClockInv
    <3> HIDE DEF moved
    <3>2. h < ActiveMs /\ h + moved < ActiveMs
      BY <2>3, <2>4, <3>1, Numbers
    <3> QED
      BY <3>2 DEF moved
  <2> QED
    BY <1>3, <2>1, <2>2, <2>3, <2>5, <2>6
<1>7. CASE Service
  <2> DEFINE n == SlotAt(Estimate)
             e == SlotElapsed(Estimate)
             x == SlotMs * n
  <2>1. PICK t \in TxTimes : clock' = Later(t)
    BY <1>7 DEF Service
  <2>2. /\ pc' = "top" /\ last_tx_slot' = n /\ UNCHANGED <<offset_ms, wait_ms>>
        /\ IsActiveWindow(Estimate)
    BY <1>7 DEF Service, MayServe
  <2>3. /\ n \in Slot /\ e \in Int /\ GuardBeforeMs <= e /\ e < ActiveEnd
        /\ From(x, e - err)
    BY <1>1, <2>2, ServiceFacts DEF From
  <2>4. t \in Nat /\ t <= SlotMs
    BY LoopAssumption DEF Paced
  <2>5. Since' = (Later(t) - x) % SuperframeMs
    BY <2>1, <2>2 DEF Since, SuperframeMs, SlotCount
  <2>6. Taken' = Since' + err
    BY <2>2 DEF Taken, Error
  <2>7. x \in Int
    BY <2>3, Numbers
  <2> HIDE DEF n, e, x, err
  <2>8. Since' = (e - err) + t
    BY <1>1, <2>3, <2>4, <2>5, <2>7, Elapse, Numbers
  <2>9. GuardBeforeMs <= Since' /\ Taken' < SlotMs + ActiveEnd
    BY <1>1, <2>3, <2>4, <2>6, <2>8, Numbers
  <2>10. LoopType'
    <3>1. Later(t) \in 0 .. SuperframeMs - 1
      BY <1>1, <2>4, LaterType
    <3> QED
      BY <1>1, <2>1, <2>2, <2>3, <3>1 DEF LoopType, SuperframeMs, SlotCount
  <2>11. InReach'
    BY <2>2, <2>9 DEF InReach, ActiveEnd
  <2> QED
    BY <2>10, <2>11
<1>8. CASE WindowNotOpen
  <2>1. /\ pc = "woken" /\ pc' = "top"
        /\ UNCHANGED <<clock, offset_ms, last_tx_slot, wait_ms>>
    BY <1>8 DEF WindowNotOpen
  <2>2. Since' = Since /\ Taken' = Taken
    BY <2>1 DEF Since, Taken, Error, SuperframeMs, SlotCount
  <2> QED
    BY <1>1, <2>1, <2>2 DEF LoopType, InReach, SuperframeMs, SlotCount, ActiveEnd
<1>9. CASE UNCHANGED vars
  <2>1. Since' = Since /\ Taken' = Taken
    BY <1>9 DEF vars, Since, Taken, Error, SuperframeMs, SlotCount
  <2> QED
    BY <1>1, <1>9, <2>1 DEF vars, LoopType, InReach, SuperframeMs, SlotCount, ActiveEnd
<1> QED
  BY <1>2, <1>4, <1>5, <1>6, <1>7, <1>8, <1>9 DEF Next

LEMMA LoopInvariant == Paced => (Spec => []LoopInv)
<1> SUFFICES ASSUME Paced PROVE Spec => []LoopInv
  OBVIOUS
<1>1. LoopInv /\ [Next]_vars => LoopInv'
  BY LoopStep
<1> QED
  BY LoopInit, <1>1, PTL DEF Spec

\* core_task services every slot in turn, skips none and repeats none, for
\* every schedule and clock offset, as long as handlers, slot work and SYNCs
\* are as quick as Paced says (tx_window_delay_ms, last_tx_slot).
THEOREM ServedInTurn == Paced => (Spec => InTurn)
<1> SUFFICES ASSUME Paced PROVE Spec => InTurn
  OBVIOUS
<1>1. LoopInv /\ [Next]_vars => [InTurnStep]_vars
  <2> SUFFICES ASSUME LoopInv, Service, last_tx_slot # None
               PROVE  last_tx_slot' = NextSlot(last_tx_slot)
    BY DEF InTurnStep
  <2>1. /\ IsActiveWindow(Estimate) /\ SlotAt(Estimate) # last_tx_slot
        /\ last_tx_slot' = SlotAt(Estimate) /\ pc = "woken"
    BY DEF Service, MayServe
  <2>2. MaxSyncDelay <= SlotMs - ActiveEnd /\ Taken < SlotMs + ActiveEnd
    BY <2>1 DEF Paced, LoopInv, InReach
  <2>3. SlotElapsed(Estimate) < ActiveEnd
    BY <2>1 DEF IsActiveWindow
  <2>4. ClockInv /\ LoopType
    BY DEF LoopInv
  <2>5. SlotElapsed(Estimate) \in Int
    BY <2>1, <2>2, <2>4, ServiceFacts
  <2>6. Taken \in Int /\ ~(Taken < 0) /\ ~(0 <= Taken /\ Taken < SlotMs)
    BY <2>1, <2>2, <2>3, <2>5, EstimateFacts, Numbers
  <2>7. SlotMs <= Taken
    BY <2>6, Numbers
  <2> QED
    BY <2>1, <2>2, <2>7, EstimateFacts
<1> QED
  BY <1>1, LoopInvariant, PTL DEF Spec, InTurn
-----------------------------------------------------------------------------
(***************************************************************************)
(* What needs no bound on handlers and slot work.                          *)
(***************************************************************************)
LEMMA DelayType ==
    ASSUME clock \in Int, ClockInv
    PROVE  TxWindowDelay(Estimate, last_tx_slot) \in 0 .. SlotMs
<1> DEFINE est == Estimate
<1>1. est \in Int
  <2>1. clock + Error(offset_ms) \in Int /\ SuperframeMs \in Nat \ {0}
    BY ClockFacts, Numbers
  <2> QED
    BY <2>1, DivMod DEF Estimate
<1>2. SlotElapsed(est) \in 0 .. SlotMs - 1
  BY <1>1, TimeSplit
<1> HIDE DEF est
<1>3. TxWindowDelay(est, last_tx_slot) \in 0 .. SlotMs
  BY <1>2, Numbers DEF TxWindowDelay, NextSlotDelay
<1> QED
  BY <1>3 DEF est

LEMMA TypeStep == ClockInv /\ LoopType /\ [Next]_vars => LoopType'
<1> SUFFICES ASSUME ClockInv, LoopType, [Next]_vars PROVE LoopType'
  OBVIOUS
<1>1. clock \in Int /\ wait_ms \in Nat
  BY Numbers DEF LoopType
<1>2. CASE LoopTop
  <2>1. wait_ms' \in 0 .. SlotMs
    BY <1>1, <1>2, DelayType DEF LoopTop
  <2> QED
    BY <1>2, <2>1 DEF LoopTop, LoopType, SuperframeMs, SlotCount
<1>3. ASSUME NEW ms \in Nat, clock' = Later(ms) PROVE clock' \in 0 .. SuperframeMs - 1
  BY <1>1, <1>3, LaterType
<1>4. CASE TimerFires
  <2>1. clock' \in 0 .. SuperframeMs - 1
    BY <1>1, <1>3, <1>4 DEF TimerFires
  <2> QED
    BY <1>4, <2>1 DEF TimerFires, LoopType, SuperframeMs, SlotCount
<1>5. CASE RxFrame \/ RxSync
  <2>1. PICK m \in Moments, h \in HandlerTimes : clock' = Later(m + h)
    BY <1>5 DEF RxFrame, RxSync
  <2>2. m + h \in Nat
    BY <1>1, LoopAssumption DEF Moments
  <2>3. clock' \in 0 .. SuperframeMs - 1
    BY <1>3, <2>1, <2>2
  <2> QED
    BY <1>5, <2>3 DEF RxFrame, RxSync, LoopType, SuperframeMs, SlotCount
<1>6. CASE Service
  <2>1. clock' \in 0 .. SuperframeMs - 1
    <3>1. PICK t \in TxTimes : clock' = Later(t)
      BY <1>6 DEF Service
    <3> QED
      BY <1>3, <3>1, LoopAssumption
  <2>2. SlotAt(Estimate) \in Slot
    <3>1. clock + Error(offset_ms) \in Int /\ SuperframeMs \in Nat \ {0}
      BY <1>1, ClockFacts, Numbers
    <3>2. Estimate \in Int
      BY <3>1, DivMod DEF Estimate
    <3> QED
      BY <3>2, TimeSplit
  <2> QED
    BY <1>6, <2>1, <2>2 DEF Service, LoopType, SuperframeMs, SlotCount
<1>7. CASE WindowNotOpen \/ UNCHANGED vars
  BY <1>7 DEF WindowNotOpen, vars, LoopType, SuperframeMs, SlotCount
<1> QED
  BY <1>2, <1>4, <1>5, <1>6, <1>7 DEF Next

LEMMA TypeInvariant == Spec => [](ClockInv /\ LoopType)
<1>1. Init => LoopType
  BY LoopInit DEF LoopInv
<1> QED
  BY <1>1, ClockInit, ClockStep, TypeStep, PTL DEF Spec

\* The type invariant of the loop: no wait is longer than a slot and the
\* serviced slot is one of the schedule (tx_window_delay_ms, slot_at).
THEOREM LoopTypeCorrect == Spec => []TypeOK
<1>1. ClockInv /\ LoopType => TypeOK
  BY DEF ClockInv, LoopType, TypeOK
<1> QED
  BY <1>1, TypeInvariant, PTL

\* A transmission starts in its slot by the gateway's clock if SYNCs are
\* handled within the silent end of a slot (guard bands of TdmaSchedule).
THEOREM ServedInSlot == MaxSyncDelay <= SlotMs - ActiveEnd => (Spec => StartsInSlot)
<1> SUFFICES ASSUME MaxSyncDelay <= SlotMs - ActiveEnd PROVE Spec => StartsInSlot
  OBVIOUS
<1>1. ClockInv /\ LoopType /\ [Next]_vars
        => [Service => SlotAt(clock) = SlotAt(Estimate)]_vars
  <2> SUFFICES ASSUME ClockInv, LoopType, Service
               PROVE  SlotAt(clock) = SlotAt(Estimate)
    OBVIOUS
  <2> DEFINE n   == SlotAt(Estimate)
             e   == SlotElapsed(Estimate)
             err == Error(offset_ms)
  <2>1. IsActiveWindow(Estimate)
    BY DEF Service, MayServe
  <2>2. /\ n \in Slot /\ e \in Int /\ GuardBeforeMs <= e /\ e < ActiveEnd
        /\ err \in Int /\ -MaxSyncDelay <= err /\ err <= 0 /\ clock \in Int
    BY <2>1, ServiceFacts, ClockFacts, Numbers DEF LoopType
  <2>3. PICK k \in Int : clock - SlotMs * n = SuperframeMs * k + (e - err)
    BY <2>1, ServiceFacts
  <2> HIDE DEF n, e, err
  <2>4. e - err \in 0 .. SlotMs - 1
    BY <2>2, Numbers
  <2>5. clock = SuperframeMs * k + SlotMs * n + (e - err)
    <3>1. SlotMs * n \in Int /\ SuperframeMs * k \in Int
      BY <2>2, Numbers
    <3> QED
      BY <2>2, <2>3, <3>1
  <2>6. SlotAt(clock) = n
    BY <2>2, <2>4, <2>5, Slotting
  <2> QED
    BY <2>6 DEF n
<1> QED
  BY <1>1, TypeInvariant, PTL DEF Spec, StartsInSlot
=============================================================================
