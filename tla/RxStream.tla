------------------------------ MODULE RxStream ------------------------------
(***************************************************************************)
(* The receive path of a node, byte by byte: the UART's FIFO, the stream   *)
(* decoder (FrameStreamDecoder of protocol.rs inside LoraRx of             *)
(* transport.rs), lora_rx_task and the channel RX_FRAMES.                  *)
(*                                                                         *)
(* A byte is a record [of, at].  Byte number k of the encoded frame f is   *)
(* [of |-> f, at |-> k]; a byte that no frame was encoded with (noise, or  *)
(* a byte corrupted on the way) is [of |-> Noise, at |-> its value].  The  *)
(* decoder sees only the value, except that the CRC is taken to be ideal:  *)
(* Frame::decode accepts exactly the bytes of one frame, all of them and   *)
(* in order.                                                               *)
(*                                                                         *)
(* The layout is scaled down: HeaderLen is 21 in the firmware, CrcLen 2,   *)
(* MaxPayloadLen 32, FifoLen 128 and RxDepth 8.                            *)
(***************************************************************************)
EXTENDS Integers, Sequences, FiniteSets

CONSTANTS
    Magic, Version,
    HeaderLen, CrcLen, MaxPayloadLen,
    Frames,         \* the frames other nodes send
    Encoded,        \* their bytes: a sequence of values for each frame
    Noise,          \* the owner of bytes of no frame
    NoiseValues,    \* values such bytes take
    FifoLen,        \* bytes the UART holds
    MaxBreaks,
    RxDepth         \* capacity of RX_FRAMES

MaxFrameLen == HeaderLen + MaxPayloadLen + CrcLen
RxBufferLen == MaxFrameLen * 6

ASSUME LayoutAssumption ==
    /\ HeaderLen \in Nat /\ HeaderLen > 2
    /\ CrcLen \in Nat /\ CrcLen > 0
    /\ MaxPayloadLen \in Nat /\ MaxBreaks \in Nat
    /\ Magic \in Nat /\ Version \in Nat /\ NoiseValues \subseteq Nat
    /\ FifoLen \in Nat \ {0} /\ RxDepth \in Nat \ {0}
    /\ Noise \notin Frames

\* Frame::encode: the payload's length is the last byte of the header.
ASSUME EncodedAssumption ==
    \A f \in Frames :
        /\ Encoded[f] \in Seq(Nat)
        /\ Encoded[f][1] = Magic
        /\ Encoded[f][2] = Version
        /\ Encoded[f][HeaderLen] \in 0 .. MaxPayloadLen
        /\ Len(Encoded[f]) = HeaderLen + Encoded[f][HeaderLen] + CrcLen

VARIABLES
    line,       \* bytes still to come of the frame that is arriving
    whole,      \* history: all bytes of the last frame so far went into the FIFO
    fifo,       \* bytes the UART has received
    overrun,    \* a byte came while the FIFO was full: the next read will fail
    buffer,     \* bytes in the decoder
    task,       \* what lora_rx_task awaits or does
    held,       \* the frame it waits to send to RX_FRAMES
    rx_frames   \* RX_FRAMES

vars == <<line, whole, fifo, overrun, buffer, task, held, rx_frames>>

NoFrame == Noise

\* The bytes of frame f, and all bytes there are.
BytesOf(f) == [k \in 1 .. Len(Encoded[f]) |-> [of |-> f, at |-> k]]

Byte ==
    [of : {Noise}, at : NoiseValues]
        \cup UNION {{BytesOf(f)[k] : k \in 1 .. Len(Encoded[f])} : f \in Frames}

Value(b) == IF b.of = Noise THEN b.at ELSE Encoded[b.of][b.at]

Init ==
    /\ line = <<>>
    /\ whole = TRUE
    /\ fifo = <<>>
    /\ overrun = FALSE
    /\ buffer = <<>>
    /\ task = "reading"
    /\ held = NoFrame
    /\ rx_frames = <<>>

-----------------------------------------------------------------------------
(***************************************************************************)
(* The UART and the air.                                                   *)
(***************************************************************************)

\* Byte c follows byte b in a stream without disturbance.
Follows(b, c) ==
    \/ c = [b EXCEPT !.at = b.at + 1]
    \/ b.of # Noise /\ b.at = Len(Encoded[b.of]) /\ c.at = 1

\* Bound: the bytes not yet decoded are disturbed in at most MaxBreaks places.
MayDisturb ==
    LET bytes == buffer \o fifo
    IN  Cardinality({i \in 1 .. Len(bytes) - 1 : ~Follows(bytes[i], bytes[i + 1])})
            < MaxBreaks

\* What may come next on the line: more of the frame, or a new one.
Coming == IF line = <<>> THEN {BytesOf(f) : f \in Frames} ELSE {line}

\* The next byte of a frame passes; `good` says whether as it was sent.
BytePasses(good) ==
    \E bytes \in Coming :
        /\ line' = Tail(bytes)
        /\ whole' = (good /\ (line # <<>> => whole))
        /\ good => fifo' = Append(fifo, Head(bytes))

ByteArrives ==
    /\ Len(fifo) < FifoLen
    /\ BytePasses(TRUE)
    /\ UNCHANGED <<overrun, buffer, task, held, rx_frames>>

\* The byte is replaced by another.
ByteCorrupted ==
    /\ MayDisturb
    /\ Len(fifo) < FifoLen
    /\ BytePasses(FALSE)
    /\ \E value \in NoiseValues : fifo' = Append(fifo, [of |-> Noise, at |-> value])
    /\ UNCHANGED <<overrun, buffer, task, held, rx_frames>>

\* The byte is lost, on the line or because the FIFO is full.
ByteLost ==
    /\ MayDisturb
    /\ BytePasses(FALSE)
    /\ overrun' = (overrun \/ Len(fifo) = FifoLen)
    /\ UNCHANGED <<fifo, buffer, task, held, rx_frames>>

\* Noise between two frames.
NoiseArrives ==
    /\ MayDisturb
    /\ line = <<>>
    /\ IF Len(fifo) < FifoLen
       THEN /\ \E value \in NoiseValues :
                  fifo' = Append(fifo, [of |-> Noise, at |-> value])
            /\ UNCHANGED overrun
       ELSE overrun' = TRUE /\ UNCHANGED fifo
    /\ UNCHANGED <<line, whole, buffer, task, held, rx_frames>>

-----------------------------------------------------------------------------
(***************************************************************************)
(* The decoder.                                                            *)
(***************************************************************************)

\* Length of the frame that a header at place i of bs announces.
FrameLen(bs, i) == HeaderLen + Value(bs[i + HeaderLen - 1]) + CrcLen

\* Frame::decode accepts the bytes at place i.
IntactAt(bs, i) ==
    LET f == bs[i].of
    IN  /\ f # Noise
        /\ i + Len(Encoded[f]) - 1 <= Len(bs)
        /\ \A k \in 1 .. Len(Encoded[f]) : bs[i + k - 1] = [of |-> f, at |-> k]

\* Mutant of Plausible: any length the byte can hold is believed.
PlausibleAnyLength(bs, i) == Value(bs[i + 1]) = Version

\* The header at place i is one the decoder believes.
Plausible(bs, i) ==
    /\ Value(bs[i + 1]) = Version
    /\ FrameLen(bs, i) <= MaxFrameLen

\* Mutant of WaitsAt: only the shortest frame is waited for.
WaitsForShortest(bs, i) ==
    LET remaining == Len(bs) - i + 1
    IN  remaining = 0 \/ (Value(bs[i]) = Magic /\ remaining < HeaderLen + CrcLen)

\* next_frame waits for more bytes with place i at the front of the buffer.
WaitsAt(bs, i) ==
    LET remaining == Len(bs) - i + 1
    IN  \/ remaining = 0
        \/ /\ Value(bs[i]) = Magic
           /\ \/ remaining < HeaderLen + CrcLen
              \/ Plausible(bs, i) /\ remaining < FrameLen(bs, i)

StopsAt(bs, i) == WaitsAt(bs, i) \/ IntactAt(bs, i)

\* Where the loop of next_frame ends: everything before is discarded, byte by byte.
Front(bs) ==
    CHOOSE i \in 1 .. Len(bs) + 1 :
        /\ StopsAt(bs, i)
        /\ \A j \in 1 .. i - 1 : ~StopsAt(bs, j)

From(bs, i) == SubSeq(bs, i, Len(bs))

-----------------------------------------------------------------------------
(***************************************************************************)
(* lora_rx_task.                                                           *)
(***************************************************************************)

\* push_bytes takes a chunk of n bytes.
Fits(n) == Len(buffer) + n <= RxBufferLen

\* read_into_decoder: at most MaxFrameLen bytes, into a buffer that clears itself
\* and reports an error when they do not fit.
Read ==
    /\ task = "reading"
    /\ ~overrun
    /\ fifo # <<>>
    /\ LET n == IF Len(fifo) < MaxFrameLen THEN Len(fifo) ELSE MaxFrameLen
       IN  /\ fifo' = From(fifo, n + 1)
           /\ IF Fits(n)
              THEN buffer' = buffer \o SubSeq(fifo, 1, n) /\ task' = "decoding"
              ELSE buffer' = <<>> /\ UNCHANGED task
    /\ UNCHANGED <<line, whole, overrun, held, rx_frames>>

\* Mutant of ReadFails: the overrun is reported again and again.
ReadFailsAgain ==
    /\ task = "reading"
    /\ overrun
    /\ UNCHANGED vars

\* The UART reports the overrun and starts again with an empty FIFO.  The back-off
\* that follows is part of the action: bytes that come meanwhile stay in the FIFO.
ReadFails ==
    /\ task = "reading"
    /\ overrun
    /\ fifo' = <<>>
    /\ overrun' = FALSE
    /\ UNCHANGED <<line, whole, buffer, task, held, rx_frames>>

\* One call of next_frame.
Decode ==
    /\ task = "decoding"
    /\ LET i == Front(buffer)
       IN  IF WaitsAt(buffer, i)
           THEN /\ buffer' = From(buffer, i)
                /\ task' = "reading"
                /\ UNCHANGED held
           ELSE /\ buffer' = From(buffer, i + FrameLen(buffer, i))
                /\ task' = "sending"
                /\ held' = buffer[i].of
    /\ UNCHANGED <<line, whole, fifo, overrun, rx_frames>>

\* Mutant of Send: the channel takes any number of frames.
SendUnbounded ==
    /\ task = "sending"
    /\ rx_frames' = Append(rx_frames, held)
    /\ held' = NoFrame
    /\ task' = "decoding"
    /\ UNCHANGED <<line, whole, fifo, overrun, buffer>>

\* RX_FRAMES.sender().send(frame).await
Send ==
    /\ task = "sending"
    /\ Len(rx_frames) < RxDepth
    /\ rx_frames' = Append(rx_frames, held)
    /\ held' = NoFrame
    /\ task' = "decoding"
    /\ UNCHANGED <<line, whole, fifo, overrun, buffer>>

\* core_task receives a frame.
CoreTakes ==
    /\ rx_frames # <<>>
    /\ rx_frames' = Tail(rx_frames)
    /\ UNCHANGED <<line, whole, fifo, overrun, buffer, task, held>>

Uart == ByteArrives \/ ByteCorrupted \/ ByteLost \/ NoiseArrives
RxTask == ReadFails \/ Decode \/ Send

Next == Uart \/ Read \/ RxTask \/ CoreTakes

Spec == Init /\ [][Next]_vars

(***************************************************************************)
(* Bytes keep coming, both tasks run, and the FIFO is read before it is    *)
(* full again and again.                                                   *)
(***************************************************************************)
FairSpec ==
    /\ Spec
    /\ WF_vars(ByteArrives)
    /\ SF_vars(Read)
    /\ WF_vars(RxTask)
    /\ WF_vars(CoreTakes)

-----------------------------------------------------------------------------
(***************************************************************************)
(* Properties.                                                             *)
(***************************************************************************)

TypeOK ==
    /\ line \in Seq(Byte)
    /\ whole \in BOOLEAN
    /\ fifo \in Seq(Byte) /\ Len(fifo) <= FifoLen
    /\ overrun \in BOOLEAN
    /\ buffer \in Seq(Byte) /\ Len(buffer) <= RxBufferLen
    /\ task \in {"reading", "decoding", "sending"}
    /\ held \in Frames \cup {NoFrame}
    /\ (held = NoFrame) = (task # "sending")
    /\ rx_frames \in Seq(Frames) /\ Len(rx_frames) <= RxDepth

(***************************************************************************)
(* A decoder that waits for more holds less than one frame, whatever the   *)
(* noise pretends to be: no frame is held back by more than that, and a    *)
(* chunk from the UART always fits.                                        *)
(***************************************************************************)
BufferBounded ==
    task = "reading" => Len(buffer) < MaxFrameLen

\* The numbers in P in ascending order.
Ascending(P) ==
    CHOOSE s \in [1 .. Cardinality(P) -> P] : \A j, k \in DOMAIN s : j < k => s[j] < s[k]

\* Where complete frames begin among the bytes bs, and which they are, in order.
Places(bs) == {i \in 1 .. Len(bs) : IntactAt(bs, i)}

FramesIn(bs) ==
    LET places == Ascending(Places(bs))
    IN  [k \in DOMAIN places |-> bs[places[k]].of]

(***************************************************************************)
(* The receive path implements FrameChannel: a frame is in the channel     *)
(* from the moment its last byte is in the FIFO.                           *)
(***************************************************************************)
Channel == INSTANCE FrameChannel WITH
    coming  <- IF line = <<>> THEN NoFrame ELSE line[1].of,
    channel <- rx_frames \o (IF held = NoFrame THEN <<>> ELSE <<held>>)
                         \o FramesIn(buffer \o fifo)

\* In order, once, and nothing that was not sent; no frame is skipped.
DeliversInOrder == Channel!Spec

\* No frame that has come in is held back for ever.
DeliversEveryFrame == Channel!Fairness
=============================================================================
