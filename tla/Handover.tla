------------------------------ MODULE Handover ------------------------------
(***************************************************************************)
(* What the relay promises for the sensor's samples, told by the numbers   *)
(* of the frames that carry them.  It takes them in the order they were    *)
(* sent, each at most once, however often the radio repeats or delays      *)
(* them.  What it has taken it holds until it sends it on, or until a      *)
(* newer sample takes the place; nothing else disappears, and nothing it   *)
(* has sent on, or was never sent, is held again.                          *)
(***************************************************************************)
EXTENDS Integers, FiniteSets

VARIABLES
    sent,       \* number of the sensor's newest frame
    taken,      \* number of the newest frame the relay has taken, 0 before any
    held        \* numbers of the frames it has still to send on

vars == <<sent, taken, held>>

Init ==
    /\ sent \in Nat
    /\ taken = 0
    /\ held = {}

Send ==
    /\ sent' = sent + 1
    /\ UNCHANGED <<taken, held>>

\* Frame n arrives; one that waits may have to make room.
Take(n) ==
    /\ taken < n /\ n <= sent
    /\ taken' = n
    /\ \/ held' = held \cup {n}
       \/ \E old \in held : held' = (held \ {old}) \cup {n}
    /\ UNCHANGED sent

SendOn(n) ==
    /\ n \in held
    /\ held' = held \ {n}
    /\ UNCHANGED <<sent, taken>>

Next ==
    \/ Send
    \/ \E n \in taken + 1 .. sent : Take(n)
    \/ \E n \in held : SendOn(n)

Spec == Init /\ [][Next]_vars
=============================================================================
