----------------------------- MODULE PendingAck -----------------------------
(***************************************************************************)
(* struct PendingAck of main.rs: the one frame a node retransmits until it *)
(* is acknowledged, as pure operators on a record                          *)
(*                                                                         *)
(*     [frame, attempts, age]                                              *)
(*                                                                         *)
(* age stands for now_ms - last_sent_ms, counted in slots since the last   *)
(* transmission and saturated at OldAge.  Both instants are read inside    *)
(* the active window of a slot, so the age decides whether RETRY_DELAY_MS  *)
(* (two slots long) has passed except when it is exactly two slots;        *)
(* theorem RetryDue of SlotLoopProofs states this in milliseconds.         *)
(*                                                                         *)
(* When no frame is pending the code leaves attempts and last_sent_ms as   *)
(* they were; every use of them is behind the presence of a frame and      *)
(* remember() overwrites them, so the model resets them.                   *)
(***************************************************************************)
EXTENDS Protocol

CONSTANTS None, MaxAttempts

OldAge == 3
Ages   == 0 .. OldAge

NoPending == [frame |-> None, attempts |-> 0, age |-> 0]

PendingAcks(frames) ==
    [frame : frames \cup {None}, attempts : 0 .. MaxAttempts, age : Ages]

HasPending(p) == p.frame # None

\* One more slot since the last transmission.
Aged(p) ==
    IF HasPending(p) /\ p.age < OldAge THEN [p EXCEPT !.age = p.age + 1] ELSE p

\* The values "RETRY_DELAY_MS has passed since the last send" may have.
DueOutcomes(p) ==
    CASE p.age < 2 -> {FALSE}
      [] p.age = 2 -> BOOLEAN
      [] OTHER     -> {TRUE}

\* Mutant of Remember: the attempts of the replaced frame are kept.
RememberKeepingAttempts(p, f) ==
    IF IsAckRequired(f.frame_type)
    THEN [frame |-> f, attempts |-> IF p.attempts = 0 THEN 1 ELSE p.attempts, age |-> 0]
    ELSE p

Remember(p, f) ==
    IF IsAckRequired(f.frame_type)
    THEN [frame |-> f, attempts |-> 1, age |-> 0]
    ELSE p

MayRetry(p, due)    == HasPending(p) /\ p.attempts < MaxAttempts /\ due

\* Mutant of IsExhausted: gives up one attempt early.
IsExhaustedEarly(p, due) == HasPending(p) /\ p.attempts >= MaxAttempts - 1 /\ due

IsExhausted(p, due) == HasPending(p) /\ p.attempts >= MaxAttempts /\ due

Retried(p) == [frame |-> p.frame, attempts |-> p.attempts + 1, age |-> 0]

ClearIfMatches(p, seq, frame_type) ==
    IF HasPending(p) /\ p.frame.seq = seq /\ p.frame.frame_type = frame_type
    THEN NoPending
    ELSE p

\* Mutant of CancelIfMatches: clearing an alarm leaves its retry armed.
CancelNothing(p, frame_type) == p

CancelIfMatches(p, frame_type) ==
    IF HasPending(p) /\ p.frame.frame_type = frame_type THEN NoPending ELSE p
=============================================================================
