---------------------------- MODULE FrameChannel ----------------------------
(***************************************************************************)
(* What the receive path promises core_task: a frame whose bytes all came  *)
(* in comes out of RX_FRAMES, in the order of arrival, once, and nothing   *)
(* that was not sent comes out.  A frame that was damaged on the way does  *)
(* so at most once (a lost byte may be made good by a copy of the frame).  *)
(* The one exception is an overrun of the UART's FIFO: frames that came in *)
(* last may be lost with it, but none before them.                         *)
(***************************************************************************)
EXTENDS Integers, Sequences

CONSTANTS Frames, NoFrame

VARIABLES
    coming,     \* the frame on the line, or NoFrame
    whole,      \* none of the bytes of the last frame on the line was lost or damaged
    overrun,    \* the FIFO has overrun since the receiver last noticed
    channel     \* the frames that have come in and are not yet delivered

vars == <<coming, whole, overrun, channel>>

TypeOK ==
    /\ coming \in Frames \cup {NoFrame}
    /\ whole \in BOOLEAN
    /\ overrun \in BOOLEAN
    /\ channel \in Seq(Frames)

Init ==
    /\ coming = NoFrame
    /\ whole = TRUE
    /\ overrun = FALSE
    /\ channel = <<>>

\* A byte that finds the FIFO full damages its frame and marks the overrun.
MayOverrun == overrun' = overrun \/ (overrun' /\ ~whole')

Begin(f) ==
    /\ coming = NoFrame
    /\ coming' = f
    /\ whole' \in BOOLEAN
    /\ MayOverrun
    /\ UNCHANGED channel

Damage ==
    /\ coming # NoFrame
    /\ whole' = FALSE
    /\ MayOverrun
    /\ UNCHANGED <<coming, channel>>

Complete ==
    /\ coming # NoFrame
    /\ whole
    /\ coming' = NoFrame
    /\ channel' = Append(channel, coming)
    /\ UNCHANGED <<whole, overrun>>

CompleteDamaged ==
    /\ coming # NoFrame
    /\ coming' = NoFrame
    /\ whole' = FALSE
    /\ channel' \in {channel, Append(channel, coming)}
    /\ MayOverrun

Deliver ==
    /\ channel # <<>>
    /\ channel' = Tail(channel)
    /\ UNCHANGED <<coming, whole, overrun>>

\* Noise can overrun the FIFO too.
Overrun ==
    /\ overrun' = TRUE
    /\ UNCHANGED <<coming, whole, channel>>

\* The receiver notices the overrun and starts afresh.
Reset ==
    /\ overrun
    /\ overrun' = FALSE
    /\ \E n \in 0 .. Len(channel) : channel' = SubSeq(channel, 1, n)
    /\ UNCHANGED <<coming, whole>>

Next ==
    \/ \E f \in Frames : Begin(f)
    \/ Damage \/ Complete \/ CompleteDamaged
    \/ Deliver
    \/ Overrun \/ Reset

Spec == Init /\ [][Next]_vars

\* No frame that has come in waits for ever.
Fairness == WF_vars(Deliver)
=============================================================================
