--------------------------- MODULE RxStreamProofs ---------------------------
(***************************************************************************)
(* Theorems about RxStream: its types, the bound on what the decoder holds *)
(* back, what next_frame does to the frames in its buffer, and that the    *)
(* receive path implements FrameChannel.                                   *)
(***************************************************************************)
EXTENDS RxStream, WellFoundedInduction, FiniteSetTheorems, SequenceTheorems, TLAPS

\* A set of numbers that is not empty has a least one.
LEMMA LeastNumber ==
    ASSUME NEW T \in SUBSET Nat, T # {}
    PROVE  \E x \in T : \A y \in T : ~ (y < x)
<1>1. PICK x \in T : \A y \in T : ~ (<<y, x>> \in OpToRel(<, Nat))
    BY NatLessThanWellFounded, WFMin
<1> QED
    BY <1>1 DEF OpToRel

\* The encoding of a frame.
LEMMA EncodedTyped ==
    ASSUME NEW f \in Frames
    PROVE  /\ Len(Encoded[f]) \in Nat \ {0}
           /\ Len(Encoded[f]) = HeaderLen + Encoded[f][HeaderLen] + CrcLen
           /\ HeaderLen \in 1 .. Len(Encoded[f])
           /\ Encoded[f][HeaderLen] \in 0 .. MaxPayloadLen
<1> DEFINE e == Encoded[f]
<1>1. /\ e \in Seq(Nat)
      /\ e[HeaderLen] \in 0 .. MaxPayloadLen
      /\ Len(e) = HeaderLen + e[HeaderLen] + CrcLen
    BY EncodedAssumption
<1> HIDE DEF e
<1>2. Len(e) \in Nat
    BY <1>1, LenProperties
<1>3. PICK m \in Nat : m = e[HeaderLen]
    BY <1>1, LayoutAssumption
<1>4. /\ Len(e) \in Nat \ {0}
      /\ HeaderLen \in 1 .. Len(e)
    <2>1. Len(e) = HeaderLen + m + CrcLen
        BY <1>1, <1>3
    <2>2. HeaderLen \in Nat /\ CrcLen \in Nat /\ HeaderLen > 2
        BY LayoutAssumption
    <2> QED
        BY <2>1, <2>2
<1> QED
    BY <1>1, <1>4 DEF e

\* What a byte is, and that it has a value.
LEMMA ByteTyped ==
    ASSUME NEW b \in Byte
    PROVE  /\ Value(b) \in Nat
           /\ b.of # Noise => /\ b.of \in Frames
                              /\ b.at \in 1 .. Len(Encoded[b.of])
<1>1. CASE b \in [of : {Noise}, at : NoiseValues]
    BY <1>1, LayoutAssumption DEF Value
<1>2. CASE \E f \in Frames : \E k \in 1 .. Len(Encoded[f]) : b = BytesOf(f)[k]
    <2>0. PICK f \in Frames : \E k \in 1 .. Len(Encoded[f]) : b = BytesOf(f)[k]
        BY <1>2
    <2>1. PICK k \in 1 .. Len(Encoded[f]) : b = [of |-> f, at |-> k]
        BY <2>0 DEF BytesOf
    <2>2. b.of = f /\ b.at = k /\ f # Noise
        BY <2>1, LayoutAssumption
    <2>3. Encoded[f][k] \in Nat
        BY EncodedAssumption, ElementOfSeq
    <2> QED
        BY <2>2, <2>3 DEF Value
<1> QED
    BY <1>1, <1>2 DEF Byte

LEMMA BytesOfTyped ==
    ASSUME NEW f \in Frames
    PROVE  /\ BytesOf(f) \in Seq(Byte)
           /\ BytesOf(f) # <<>>
           /\ Len(BytesOf(f)) = Len(Encoded[f])
<1>1. Len(Encoded[f]) \in Nat /\ Len(Encoded[f]) > 0
    BY EncodedTyped
<1>2. \A k \in 1 .. Len(Encoded[f]) : [of |-> f, at |-> k] \in Byte
    BY DEF Byte, BytesOf
<1>3. BytesOf(f) \in [1 .. Len(Encoded[f]) -> Byte]
    BY <1>2 DEF BytesOf
<1>4. BytesOf(f) \in Seq(Byte)
    BY <1>1, <1>3
<1> QED
    BY <1>1, <1>3, <1>4
-----------------------------------------------------------------------------
(***************************************************************************)
(* next_frame (protocol.rs): where its loop ends.                          *)
(***************************************************************************)

\* The loop of next_frame ends somewhere, and nowhere before.
LEMMA FrontDef ==
    ASSUME NEW bs \in Seq(Byte)
    PROVE  /\ Front(bs) \in 1 .. Len(bs) + 1
           /\ StopsAt(bs, Front(bs))
           /\ \A j \in 1 .. Front(bs) - 1 : ~ StopsAt(bs, j)
<1> DEFINE T == {i \in 1 .. Len(bs) + 1 : StopsAt(bs, i)}
<1>1. Len(bs) + 1 \in T
    BY DEF StopsAt, WaitsAt
<1>2. PICK i \in T : \A j \in T : ~ (j < i)
    <2>1. T \in SUBSET Nat /\ T # {}
        BY <1>1
    <2> HIDE DEF T
    <2> QED
        BY <2>1, LeastNumber
<1>3. \A j \in 1 .. i - 1 : ~ StopsAt(bs, j)
    BY <1>2
<1> QED
    BY <1>2, <1>3 DEF Front

\* Where the decoder waits, less than a frame remains.
LEMMA WaitingIsShort ==
    ASSUME NEW bs \in Seq(Byte), NEW i \in 1 .. Len(bs) + 1, WaitsAt(bs, i)
    PROVE  Len(bs) - i + 1 < MaxFrameLen
<1> DEFINE remaining == Len(bs) - i + 1
<1>0. remaining \in Nat /\ MaxFrameLen \in Nat /\ HeaderLen + CrcLen <= MaxFrameLen
    BY LayoutAssumption DEF MaxFrameLen
<1>1. CASE remaining = 0
    BY <1>1, LayoutAssumption DEF MaxFrameLen
<1>2. CASE remaining < HeaderLen + CrcLen
    BY <1>0, <1>2, LayoutAssumption
<1>3. CASE /\ ~ (remaining < HeaderLen + CrcLen)
           /\ Plausible(bs, i) /\ remaining < FrameLen(bs, i)
    <2>1. i + HeaderLen - 1 \in 1 .. Len(bs)
        BY <1>3, LayoutAssumption
    <2>2. FrameLen(bs, i) \in Nat
        BY <2>1, ElementOfSeq, ByteTyped, LayoutAssumption DEF FrameLen
    <2> QED
        BY <1>0, <1>3, <2>2 DEF Plausible
<1> QED
    BY <1>1, <1>2, <1>3 DEF WaitsAt

\* An intact frame fits where it is, and its header announces its length.
LEMMA IntactTyped ==
    ASSUME NEW bs \in Seq(Byte), NEW i \in 1 .. Len(bs) + 1, IntactAt(bs, i),
           ~ WaitsAt(bs, i)
    PROVE  /\ bs[i].of \in Frames
           /\ FrameLen(bs, i) = Len(Encoded[bs[i].of])
           /\ FrameLen(bs, i) \in Nat \ {0}
           /\ i + FrameLen(bs, i) <= Len(bs) + 1
<1> DEFINE f == bs[i].of
<1>1. i \in 1 .. Len(bs)
    BY DEF WaitsAt
<1>2. f \in Frames
    BY <1>1, ElementOfSeq, ByteTyped DEF IntactAt
<1>3. /\ Len(Encoded[f]) \in Nat
      /\ Len(Encoded[f]) = HeaderLen + Encoded[f][HeaderLen] + CrcLen
      /\ HeaderLen \in 1 .. Len(Encoded[f])
    BY <1>2, EncodedTyped
<1>4. bs[i + HeaderLen - 1] = [of |-> f, at |-> HeaderLen]
    BY <1>3 DEF IntactAt
<1>5. FrameLen(bs, i) = Len(Encoded[f])
    BY <1>2, <1>3, <1>4, LayoutAssumption DEF FrameLen, Value
<1>6. i + Len(Encoded[f]) - 1 <= Len(bs)
    BY DEF IntactAt
<1> QED
    BY <1>1, <1>2, <1>3, <1>5, <1>6

(***************************************************************************)
(* Nothing next_frame discards is the beginning of a frame that is         *)
(* complete (protocol.rs 246-282): it ends at or before the first one,     *)
(* whatever noise precedes it.                                             *)
(***************************************************************************)
THEOREM DecoderSkipsNoFrame ==
    ASSUME NEW bs \in Seq(Byte), NEW i \in 1 .. Len(bs), IntactAt(bs, i)
    PROVE  Front(bs) <= i
<1>1. StopsAt(bs, i)
    BY DEF StopsAt
<1>2. Front(bs) \in 1 .. Len(bs) + 1 /\ \A j \in 1 .. Front(bs) - 1 : ~ StopsAt(bs, j)
    BY FrontDef
<1> QED
    BY <1>1, <1>2

(***************************************************************************)
(* Two complete frames share no byte, so that discarding one does not      *)
(* damage the next.                                                        *)
(***************************************************************************)
THEOREM FramesDisjoint ==
    ASSUME NEW bs \in Seq(Byte), NEW i \in 1 .. Len(bs), NEW j \in 1 .. Len(bs),
           IntactAt(bs, i), IntactAt(bs, j), i < j
    PROVE  i + Len(Encoded[bs[i].of]) <= j
<1> DEFINE f == bs[i].of
           g == bs[j].of
<1>1. f \in Frames /\ g \in Frames
    BY ElementOfSeq, ByteTyped DEF IntactAt
<1>2. Len(Encoded[f]) \in Nat /\ Len(Encoded[g]) \in Nat \ {0}
    BY <1>1, EncodedTyped
<1>3. bs[j].at = 1
    <2>1. bs[j + 1 - 1] = [of |-> g, at |-> 1]
        BY <1>2 DEF IntactAt
    <2> QED
        BY <2>1
<1>4. ASSUME j < i + Len(Encoded[f])
      PROVE  FALSE
    <2>1. j - i + 1 \in 1 .. Len(Encoded[f])
        BY <1>2, <1>4
    <2>2. bs[i + (j - i + 1) - 1] = [of |-> f, at |-> j - i + 1]
        BY <2>1 DEF IntactAt
    <2>3. i + (j - i + 1) - 1 = j
        OBVIOUS
    <2>4. bs[j].at = j - i + 1
        BY <2>2, <2>3
    <2> QED
        BY <1>3, <2>4
<1> QED
    BY <1>2, <1>4
-----------------------------------------------------------------------------
(***************************************************************************)
(* Types and the bound.                                                    *)
(***************************************************************************)

\* What is left of a sequence of bytes, and how much.
LEMMA FromTyped ==
    ASSUME NEW bs \in Seq(Byte), NEW i \in Nat \ {0}, i <= Len(bs) + 1
    PROVE  /\ From(bs, i) \in Seq(Byte)
           /\ Len(From(bs, i)) = Len(bs) - i + 1
<1>1. \A j \in i .. Len(bs) : bs[j] \in Byte
    BY ElementOfSeq
<1>2. i \in Int /\ Len(bs) \in Int
    BY LenProperties
<1>3. /\ SubSeq(bs, i, Len(bs)) \in Seq(Byte)
      /\ Len(SubSeq(bs, i, Len(bs))) = IF i <= Len(bs) THEN Len(bs) - i + 1 ELSE 0
    BY <1>1, <1>2, SubSeqProperties
<1> QED
    BY <1>2, <1>3 DEF From

\* The bytes still to come, and the first of them.
LEMMA BytePassesTyped ==
    ASSUME TypeOK, NEW good \in BOOLEAN, BytePasses(good)
    PROVE  /\ line' \in Seq(Byte)
           /\ whole' \in BOOLEAN
           /\ good => \E b \in Byte : fifo' = Append(fifo, b)
<1>1. PICK bytes \in Coming :
          /\ line' = Tail(bytes)
          /\ whole' = (good /\ (line # <<>> => whole))
          /\ good => fifo' = Append(fifo, Head(bytes))
    BY DEF BytePasses
<1>2. bytes \in Seq(Byte) /\ bytes # <<>>
    BY BytesOfTyped DEF Coming, TypeOK
<1>3. Tail(bytes) \in Seq(Byte) /\ Head(bytes) \in Byte
    BY <1>2, HeadTailProperties
<1> QED
    BY <1>1, <1>3

\* The FIFO with one more byte.
LEMMA FifoTyped ==
    ASSUME TypeOK, Len(fifo) < FifoLen, NEW b \in Byte
    PROVE  Append(fifo, b) \in Seq(Byte) /\ Len(Append(fifo, b)) <= FifoLen
    BY LayoutAssumption DEF TypeOK

\* Noise is made of bytes.
LEMMA NoiseTyped ==
    ASSUME NEW value \in NoiseValues
    PROVE  [of |-> Noise, at |-> value] \in Byte
    BY DEF Byte

RxInv == TypeOK /\ BufferBounded

LEMMA RxInvInit == Init => RxInv
<1>1. MaxFrameLen \in Nat \ {0} /\ RxBufferLen \in Nat
    BY LayoutAssumption DEF MaxFrameLen, RxBufferLen
<1>2. /\ Len(<<>>) = 0
      /\ <<>> \in Seq(Byte) /\ <<>> \in Seq(Frames)
    BY EmptySeq
<1>3. 0 <= FifoLen /\ 0 <= RxDepth /\ 0 <= RxBufferLen /\ 0 < MaxFrameLen
    BY <1>1, LayoutAssumption
<1> QED
    BY <1>2, <1>3 DEF Init, RxInv, TypeOK, BufferBounded

LEMMA RxInvStep ==
    ASSUME RxInv, [Next]_vars
    PROVE  RxInv'
<1> USE DEF RxInv
<1>0. /\ MaxFrameLen \in Nat \ {0}
      /\ RxBufferLen = 6 * MaxFrameLen
      /\ NoFrame \notin Frames
    BY LayoutAssumption DEF MaxFrameLen, RxBufferLen, NoFrame
<1>1. CASE ByteArrives
    <2>1. /\ line' \in Seq(Byte) /\ whole' \in BOOLEAN
          /\ \E b \in Byte : fifo' = Append(fifo, b)
        BY <1>1, BytePassesTyped DEF ByteArrives
    <2>2. fifo' \in Seq(Byte) /\ Len(fifo') <= FifoLen
        BY <1>1, <2>1, FifoTyped DEF ByteArrives
    <2> QED
        BY <1>1, <2>1, <2>2 DEF ByteArrives, TypeOK, BufferBounded
<1>2. CASE ByteCorrupted
    <2>1. line' \in Seq(Byte) /\ whole' \in BOOLEAN
        BY <1>2, BytePassesTyped DEF ByteCorrupted
    <2>2. fifo' \in Seq(Byte) /\ Len(fifo') <= FifoLen
        BY <1>2, NoiseTyped, FifoTyped DEF ByteCorrupted
    <2> QED
        BY <1>2, <2>1, <2>2 DEF ByteCorrupted, TypeOK, BufferBounded
<1>3. CASE ByteLost
    <2>1. line' \in Seq(Byte) /\ whole' \in BOOLEAN
        BY <1>3, BytePassesTyped DEF ByteLost
    <2> QED
        BY <1>3, <2>1 DEF ByteLost, TypeOK, BufferBounded
<1>4. CASE NoiseArrives
    <2>1. fifo' \in Seq(Byte) /\ Len(fifo') <= FifoLen
        BY <1>4, NoiseTyped, FifoTyped DEF NoiseArrives, TypeOK
    <2>2. overrun' \in BOOLEAN
        BY <1>4 DEF NoiseArrives, TypeOK
    <2> QED
        BY <1>4, <2>1, <2>2 DEF NoiseArrives, TypeOK, BufferBounded
<1>5. CASE Read
    <2> DEFINE n == IF Len(fifo) < MaxFrameLen THEN Len(fifo) ELSE MaxFrameLen
    <2>1. /\ fifo' = From(fifo, n + 1)
          /\ IF Fits(n)
             THEN buffer' = buffer \o SubSeq(fifo, 1, n) /\ task' = "decoding"
             ELSE buffer' = <<>> /\ UNCHANGED task
        BY <1>5 DEF Read
    <2>2. n \in Nat /\ n <= Len(fifo) /\ Len(fifo) \in Nat /\ fifo \in Seq(Byte)
        BY <1>0 DEF TypeOK
    <2> HIDE DEF n
    <2>3. fifo' \in Seq(Byte) /\ Len(fifo') <= FifoLen
        <3>1. /\ From(fifo, n + 1) \in Seq(Byte)
              /\ Len(From(fifo, n + 1)) = Len(fifo) - (n + 1) + 1
            BY <2>2, FromTyped
        <3> QED
            BY <2>1, <2>2, <3>1, LayoutAssumption DEF TypeOK
    <2>4. SubSeq(fifo, 1, n) \in Seq(Byte) /\ Len(SubSeq(fifo, 1, n)) = n
        <3>1. \A j \in 1 .. n : fifo[j] \in Byte
            BY <2>2, ElementOfSeq
        <3> QED
            BY <2>2, <3>1, SubSeqProperties
    <2>5. /\ buffer' \in Seq(Byte) /\ Len(buffer') <= RxBufferLen
          /\ task' \in {"reading", "decoding"}
          /\ task' = "reading" => Len(buffer') < MaxFrameLen
        <3>1. CASE ~Fits(n)
            BY <1>0, <1>5, <2>1, <3>1 DEF Read
        <3>2. CASE Fits(n)
            <4>1. Len(buffer \o SubSeq(fifo, 1, n)) = Len(buffer) + n
                BY <2>4, ConcatProperties DEF TypeOK
            <4>2. buffer \o SubSeq(fifo, 1, n) \in Seq(Byte)
                BY <2>4, ConcatProperties DEF TypeOK
            <4>3. Len(buffer) + n <= RxBufferLen
                BY <3>2 DEF Fits
            <4> QED
                BY <2>1, <3>2, <4>1, <4>2, <4>3
        <3> QED
            BY <3>1, <3>2
    <2>6. /\ held' = NoFrame
          /\ UNCHANGED <<line, whole, overrun, held, rx_frames>>
        BY <1>5 DEF Read, TypeOK
    <2> QED
        BY <2>3, <2>5, <2>6 DEF TypeOK, BufferBounded
<1>6. CASE ReadFails
    <2>1. fifo' \in Seq(Byte) /\ Len(fifo') <= FifoLen
        BY <1>6, EmptySeq, LayoutAssumption DEF ReadFails
    <2> QED
        BY <1>6, <2>1 DEF ReadFails, TypeOK, BufferBounded
<1>7. CASE Decode
    <2> DEFINE i == Front(buffer)
    <2>1. buffer \in Seq(Byte) /\ Len(buffer) \in Nat /\ Len(buffer) <= RxBufferLen
        BY DEF TypeOK
    <2>2. i \in 1 .. Len(buffer) + 1 /\ StopsAt(buffer, i)
        BY <2>1, FrontDef
    <2>3. IF WaitsAt(buffer, i)
          THEN /\ buffer' = From(buffer, i)
               /\ task' = "reading"
               /\ UNCHANGED held
          ELSE /\ buffer' = From(buffer, i + FrameLen(buffer, i))
               /\ task' = "sending"
               /\ held' = buffer[i].of
        BY <1>7 DEF Decode
    <2>4. /\ UNCHANGED <<line, whole, fifo, overrun, rx_frames>>
          /\ held = NoFrame
        BY <1>7 DEF Decode, TypeOK
    <2> HIDE DEF i
    <2>5. CASE WaitsAt(buffer, i)
        <3>1. /\ From(buffer, i) \in Seq(Byte)
              /\ Len(From(buffer, i)) = Len(buffer) - i + 1
            BY <2>1, <2>2, FromTyped
        <3>2. Len(buffer) - i + 1 < MaxFrameLen
            BY <2>1, <2>2, <2>5, WaitingIsShort
        <3>3. Len(buffer') <= RxBufferLen /\ Len(buffer') < MaxFrameLen
            BY <1>0, <2>1, <2>2, <2>3, <2>5, <3>1, <3>2
        <3> QED
            BY <2>3, <2>4, <2>5, <3>1, <3>3 DEF TypeOK, BufferBounded
    <2>6. CASE ~ WaitsAt(buffer, i)
        <3>1. IntactAt(buffer, i)
            BY <2>2, <2>6 DEF StopsAt
        <3>2. /\ buffer[i].of \in Frames
              /\ FrameLen(buffer, i) \in Nat \ {0}
              /\ i + FrameLen(buffer, i) <= Len(buffer) + 1
            BY <2>1, <2>2, <2>6, <3>1, IntactTyped
        <3>3. PICK l \in Nat \ {0} : l = FrameLen(buffer, i)
            BY <3>2
        <3>4. /\ From(buffer, i + l) \in Seq(Byte)
              /\ Len(From(buffer, i + l)) = Len(buffer) - (i + l) + 1
            BY <2>1, <2>2, <3>2, <3>3, FromTyped
        <3>5. Len(buffer') <= RxBufferLen /\ buffer' \in Seq(Byte)
            BY <1>0, <2>1, <2>2, <2>3, <2>6, <3>3, <3>4
        <3> QED
            BY <1>0, <2>3, <2>4, <2>6, <3>2, <3>5 DEF TypeOK, BufferBounded
    <2> QED
        BY <2>5, <2>6
<1>8. CASE Send
    <2>1. rx_frames' \in Seq(Frames) /\ Len(rx_frames') <= RxDepth
        BY <1>8, LayoutAssumption DEF Send, TypeOK
    <2> QED
        BY <1>8, <2>1 DEF Send, TypeOK, BufferBounded
<1>9. CASE CoreTakes
    <2>1. rx_frames' \in Seq(Frames) /\ Len(rx_frames') <= RxDepth
        BY <1>9, HeadTailProperties, LayoutAssumption DEF CoreTakes, TypeOK
    <2> QED
        BY <1>9, <2>1 DEF CoreTakes, TypeOK, BufferBounded
<1>10. CASE UNCHANGED vars
    BY <1>10 DEF vars, TypeOK, BufferBounded
<1> QED
    BY <1>1, <1>2, <1>3, <1>4, <1>5, <1>6, <1>7, <1>8, <1>9, <1>10
       DEF Next, Uart, RxTask

(***************************************************************************)
(* Types and queue bounds of the receive path.                             *)
(***************************************************************************)
THEOREM RxTypeCorrect == Spec => []TypeOK
<1>1. RxInv => TypeOK
    BY DEF RxInv
<1> QED
    BY <1>1, RxInvInit, RxInvStep, PTL DEF Spec

(***************************************************************************)
(* However the noise looks, a decoder that waits holds less than a frame.  *)
(***************************************************************************)
THEOREM BufferCorrect == Spec => []BufferBounded
<1>1. RxInv => BufferBounded
    BY DEF RxInv
<1> QED
    BY <1>1, RxInvInit, RxInvStep, PTL DEF Spec

(***************************************************************************)
(* push_bytes (protocol.rs 236-244) never finds its buffer too small: the  *)
(* error path that clears the buffer is not taken by lora_rx_task.         *)
(***************************************************************************)
ChunkFits == task = "reading" => Len(buffer) + MaxFrameLen <= RxBufferLen

THEOREM PushNeverOverflows == Spec => []ChunkFits
<1>1. RxInv => ChunkFits
    <2> SUFFICES ASSUME RxInv, task = "reading"
                 PROVE  Len(buffer) + MaxFrameLen <= RxBufferLen
        BY DEF ChunkFits
    <2>1. Len(buffer) \in Nat /\ Len(buffer) < MaxFrameLen
        BY DEF RxInv, TypeOK, BufferBounded
    <2>2. MaxFrameLen \in Nat /\ RxBufferLen = 6 * MaxFrameLen
        BY LayoutAssumption DEF MaxFrameLen, RxBufferLen
    <2> QED
        BY <2>1, <2>2
<1> QED
    BY <1>1, RxInvInit, RxInvStep, PTL DEF Spec

-----------------------------------------------------------------------------
(***************************************************************************)
(* Sets of numbers in ascending order.                                     *)
(***************************************************************************)

\* s lists the numbers of P in ascending order.
Enumerates(s, P) ==
    /\ s \in Seq(Nat)
    /\ P = {s[k] : k \in 1 .. Len(s)}
    /\ \A j, k \in 1 .. Len(s) : j < k => s[j] < s[k]

\* Of two sets of which one is the beginning of the other, so are the enumerations.
LEMMA EnumerationPrefix ==
    ASSUME NEW P, NEW Q, NEW t, NEW s, Enumerates(t, P), Enumerates(s, Q),
           P \subseteq Q, \A p \in P : \A q \in Q : q < p => q \in P
    PROVE  Len(t) <= Len(s) /\ \A k \in 1 .. Len(t) : t[k] = s[k]
<1> DEFINE T == {k \in 1 .. Len(t) : k > Len(s) \/ t[k] # s[k]}
<1>0. /\ Len(t) \in Nat /\ Len(s) \in Nat
      /\ \A k \in 1 .. Len(t) : t[k] \in Nat /\ t[k] \in P
      /\ \A k \in 1 .. Len(s) : s[k] \in Nat /\ s[k] \in Q
    BY ElementOfSeq, LenProperties DEF Enumerates
<1>1. ASSUME T # {}
      PROVE  FALSE
    <2>1. PICK k \in T : \A y \in T : ~ (y < k)
        <3>1. T \in SUBSET Nat
            OBVIOUS
        <3> HIDE DEF T
        <3> QED
            BY <1>1, <3>1, LeastNumber
    <2>2. k \in 1 .. Len(t) /\ \A j \in 1 .. k - 1 : j <= Len(s) /\ t[j] = s[j]
        BY <1>0, <2>1
    <2>3. k - 1 <= Len(s)
        BY <1>0, <2>2
    <2>4. PICK m \in 1 .. Len(s) : t[k] = s[m]
        BY <1>0, <2>2 DEF Enumerates
    <2>5. ~ (m < k)
        <3> SUFFICES ASSUME m < k PROVE FALSE
            OBVIOUS
        <3>1. t[m] = t[k] /\ m \in 1 .. Len(t)
            BY <1>0, <2>2, <2>4
        <3>2. t[m] < t[k]
            BY <2>2, <3>1 DEF Enumerates
        <3> QED
            BY <1>0, <3>1, <3>2
    <2>6. k \in 1 .. Len(s) /\ t[k] # s[k] /\ k < m
        BY <1>0, <2>1, <2>2, <2>4, <2>5
    <2>7. s[k] < t[k]
        BY <2>4, <2>6 DEF Enumerates
    <2>8. s[k] \in P
        BY <1>0, <2>2, <2>6, <2>7
    <2>9. PICK l \in 1 .. Len(t) : s[k] = t[l]
        BY <2>8 DEF Enumerates
    <2>10. l < k
        <3> SUFFICES ASSUME ~ (l < k) PROVE FALSE
            OBVIOUS
        <3>1. l = k \/ k < l
            BY <1>0, <2>2
        <3>2. k < l => t[k] < t[l]
            BY <2>2 DEF Enumerates
        <3> QED
            BY <1>0, <2>2, <2>7, <2>9, <3>1, <3>2
    <2>11. s[l] = s[k] /\ l \in 1 .. Len(s)
        BY <1>0, <2>2, <2>9, <2>10
    <2>12. s[l] < s[k]
        BY <2>6, <2>10, <2>11 DEF Enumerates
    <2> QED
        BY <1>0, <2>6, <2>11, <2>12
<1>2. \A k \in 1 .. Len(t) : k <= Len(s) /\ t[k] = s[k]
    BY <1>0, <1>1
<1>3. Len(t) <= Len(s)
    BY <1>0, <1>2
<1> QED
    BY <1>2, <1>3

\* A set has one enumeration at most.
LEMMA EnumerationUnique ==
    ASSUME NEW P, NEW s, NEW t, Enumerates(s, P), Enumerates(t, P)
    PROVE  s = t
<1>1. Len(t) <= Len(s) /\ \A k \in 1 .. Len(t) : t[k] = s[k]
    BY EnumerationPrefix
<1>2. Len(s) <= Len(t)
    BY EnumerationPrefix
<1>3. s \in Seq(Nat) /\ t \in Seq(Nat) /\ Len(s) \in Nat /\ Len(t) \in Nat
    BY LenProperties DEF Enumerates
<1>4. Len(s) = Len(t)
    BY <1>1, <1>2, <1>3
<1> QED
    BY <1>1, <1>3, <1>4, SeqEqual

\* A number above all the others is enumerated last.
LEMMA EnumerationAppend ==
    ASSUME NEW P, NEW s, NEW n \in Nat, Enumerates(s, P), \A p \in P : p < n
    PROVE  Enumerates(Append(s, n), P \cup {n})
<1> DEFINE t == Append(s, n)
<1>1. /\ s \in Seq(Nat) /\ Len(s) \in Nat
      /\ \A k \in 1 .. Len(s) : s[k] \in Nat /\ s[k] \in P
    BY ElementOfSeq, LenProperties DEF Enumerates
<1>2. /\ t \in Seq(Nat)
      /\ Len(t) = Len(s) + 1
      /\ \A k \in 1 .. Len(s) : t[k] = s[k]
      /\ t[Len(s) + 1] = n
    BY <1>1, AppendProperties
<1> HIDE DEF t
<1>3. P \cup {n} = {t[k] : k \in 1 .. Len(t)}
    <2>1. ASSUME NEW p \in P
          PROVE  \E k \in 1 .. Len(t) : p = t[k]
        <3>1. PICK k \in 1 .. Len(s) : p = s[k]
            BY DEF Enumerates
        <3> QED
            BY <1>1, <1>2, <3>1
    <2>2. \E k \in 1 .. Len(t) : n = t[k]
        BY <1>1, <1>2
    <2>3. ASSUME NEW k \in 1 .. Len(t)
          PROVE  t[k] \in P \cup {n}
        <3>1. k \in 1 .. Len(s) \/ k = Len(s) + 1
            BY <1>1, <1>2
        <3> QED
            BY <1>1, <1>2, <3>1
    <2> QED
        BY <2>1, <2>2, <2>3
<1>4. ASSUME NEW j \in 1 .. Len(t), NEW k \in 1 .. Len(t), j < k
      PROVE  t[j] < t[k]
    <2>1. j \in 1 .. Len(s) /\ t[j] = s[j]
        BY <1>1, <1>2, <1>4
    <2>2. CASE k \in 1 .. Len(s)
        BY <1>2, <1>4, <2>1, <2>2 DEF Enumerates
    <2>3. CASE k = Len(s) + 1
        BY <1>1, <1>2, <2>1, <2>3
    <2> QED
        BY <1>1, <1>2, <2>2, <2>3
<1> QED
    BY <1>2, <1>3, <1>4 DEF Enumerates, t

\* Every bounded set of numbers can be enumerated.
LEMMA EveryEnumerable ==
    ASSUME NEW n \in Nat, NEW P \in SUBSET (1 .. n)
    PROVE  \E s : Enumerates(s, P)
<1> DEFINE Bad == {m \in Nat : \E R \in SUBSET (1 .. m) : \A s : ~ Enumerates(s, R)}
<1>1. ASSUME Bad # {}
      PROVE  FALSE
    <2>1. PICK m \in Bad : \A y \in Bad : ~ (y < m)
        <3>1. Bad \in SUBSET Nat
            OBVIOUS
        <3> HIDE DEF Bad
        <3> QED
            BY <1>1, <3>1, LeastNumber
    <2>2. PICK R \in SUBSET (1 .. m) : \A s : ~ Enumerates(s, R)
        BY <2>1
    <2>3. m # 0
        <3> SUFFICES ASSUME m = 0 PROVE FALSE
            OBVIOUS
        <3>1. R = {}
            BY <2>1, <2>2
        <3>2. <<>> \in Seq(Nat) /\ Len(<<>>) = 0
            BY EmptySeq
        <3>3. Enumerates(<<>>, R)
            BY <3>1, <3>2 DEF Enumerates
        <3> QED
            BY <2>2, <3>3
    <2>4. m - 1 \in Nat /\ m - 1 \notin Bad
        BY <2>1, <2>3
    <2>5. R \ {m} \in SUBSET (1 .. m - 1)
        BY <2>1, <2>2
    <2>6. PICK s : Enumerates(s, R \ {m})
        BY <2>4, <2>5
    <2>7. CASE m \in R
        <3>1. \A p \in R \ {m} : p < m
            BY <2>4, <2>5
        <3>2. Enumerates(Append(s, m), (R \ {m}) \cup {m})
            BY <2>1, <2>6, <3>1, EnumerationAppend
        <3>3. (R \ {m}) \cup {m} = R
            BY <2>7
        <3> QED
            BY <2>2, <3>2, <3>3
    <2>8. CASE m \notin R
        <3>1. R \ {m} = R
            BY <2>8
        <3> QED
            BY <2>2, <2>6, <3>1
    <2> QED
        BY <2>7, <2>8
<1> QED
    BY <1>1

LEMMA AscendingIs ==
    ASSUME NEW P, NEW s, Enumerates(s, P)
    PROVE  Ascending(P) = s
<1> DEFINE n == Len(s)
<1>1. /\ s \in Seq(Nat) /\ n \in Nat /\ DOMAIN s = 1 .. n
      /\ s \in [1 .. n -> P]
      /\ \A j \in 1 .. n : s[j] \in Nat
      /\ \A j, k \in 1 .. n : j < k => s[j] < s[k]
    BY ElementOfSeq, LenProperties DEF Enumerates
<1>2. s \in Bijection(1 .. n, P)
    <2>1. \A j, k \in 1 .. n : j # k => s[j] # s[k]
        BY <1>1
    <2>2. \A p \in P : \E k \in 1 .. n : s[k] = p
        BY DEF Enumerates
    <2> HIDE DEF n
    <2> QED
        BY <1>1, <2>1, <2>2 DEF Bijection, Injection, Surjection, IsInjective
<1>3. Cardinality(P) = n /\ IsFiniteSet(P)
    BY <1>1, <1>2, FS_CountingElements, FS_NatBijection DEF ExistsBijection
<1> DEFINE Increasing(a) == \A j, k \in DOMAIN a : j < k => a[j] < a[k]
           A == Ascending(P)
<1>4. A \in [1 .. n -> P] /\ Increasing(A)
    <2>1. \E a \in [1 .. n -> P] : Increasing(a)
        BY <1>1
    <2>2. A = CHOOSE a \in [1 .. n -> P] : Increasing(a)
        BY <1>3 DEF Ascending
    <2> HIDE DEF A, Increasing, n
    <2> QED
        BY <2>1, <2>2
<1> HIDE DEF A
<1>5. P \subseteq Nat
    BY <1>1 DEF Enumerates
<1>6. A \in Injection(1 .. n, P)
    <2>1. \A j, k \in 1 .. n : j < k => A[j] < A[k]
        BY <1>4
    <2>2. \A j \in 1 .. n : A[j] \in Nat
        BY <1>4, <1>5
    <2>3. \A j, k \in 1 .. n : A[j] = A[k] => j = k
        BY <1>1, <2>1, <2>2
    <2> QED
        BY <1>4, <2>3 DEF Injection, IsInjective
<1>7. A \in Surjection(1 .. n, P)
    <2>1. Cardinality(1 .. n) = n
        <3>1. n \in Nat /\ 1 \in Int /\ n \in Int
            BY <1>1
        <3> HIDE DEF n
        <3>2. Cardinality(1 .. n) = IF 1 > n THEN 0 ELSE n - 1 + 1
            BY <3>1, FS_Interval
        <3> QED
            BY <3>1, <3>2
    <2> DEFINE N == 1 .. n
    <2>2. Cardinality(N) = Cardinality(P) /\ A \in Injection(N, P)
        BY <1>3, <1>6, <2>1
    <2> HIDE DEF n, N
    <2>3. Cardinality(N) = Cardinality(P) <=> A \in Surjection(N, P)
        BY <1>3, <2>2, FS_Injection
    <2>4. A \in Surjection(N, P)
        BY <2>2, <2>3
    <2> QED
        BY <2>4 DEF N, n
<1>8. Enumerates(A, P)
    <2>1. A \in Seq(Nat) /\ Len(A) = n
        <3>1. A \in [1 .. n -> Nat] /\ n \in Nat
            BY <1>1, <1>4, <1>5
        <3> HIDE DEF n
        <3> QED
            BY <3>1
    <2>2. P = {A[k] : k \in 1 .. n}
        BY <1>4, <1>7 DEF Surjection
    <2> QED
        BY <1>4, <2>1, <2>2 DEF Enumerates
<1> QED
    BY <1>8, EnumerationUnique DEF A

\* The same distance added to every number.
LEMMA EnumerationShift ==
    ASSUME NEW P, NEW s, NEW d \in Nat, Enumerates(s, P)
    PROVE  Enumerates([k \in 1 .. Len(s) |-> s[k] + d], {p + d : p \in P})
<1> DEFINE t == [k \in 1 .. Len(s) |-> s[k] + d]
<1>1. s \in Seq(Nat) /\ Len(s) \in Nat /\ \A k \in 1 .. Len(s) : s[k] \in Nat
    BY ElementOfSeq, LenProperties DEF Enumerates
<1>2. t \in Seq(Nat) /\ Len(t) = Len(s)
    BY <1>1
<1>3. \A k \in 1 .. Len(s) : t[k] = s[k] + d
    OBVIOUS
<1> HIDE DEF t
<1>4. {p + d : p \in P} = {t[k] : k \in 1 .. Len(t)}
    <2>1. P = {s[k] : k \in 1 .. Len(s)}
        BY DEF Enumerates
    <2> QED
        BY <1>1, <1>2, <1>3, <2>1
<1>5. ASSUME NEW j \in 1 .. Len(t), NEW k \in 1 .. Len(t), j < k
      PROVE  t[j] < t[k]
    <2>1. s[j] < s[k]
        BY <1>2, <1>5 DEF Enumerates
    <2> QED
        BY <1>1, <1>2, <1>3, <2>1
<1> QED
    BY <1>2, <1>4, <1>5 DEF Enumerates, t

\* A number below all the others is enumerated first.
LEMMA EnumerationFirst ==
    ASSUME NEW P, NEW s, NEW n \in Nat, Enumerates(s, P), \A p \in P : n < p
    PROVE  Enumerates(<<n>> \o s, {n} \cup P)
<1> DEFINE t == <<n>> \o s
<1>1. /\ s \in Seq(Nat) /\ Len(s) \in Nat
      /\ \A k \in 1 .. Len(s) : s[k] \in Nat /\ s[k] \in P
    BY ElementOfSeq, LenProperties DEF Enumerates
<1>2. /\ t \in Seq(Nat)
      /\ Len(t) = Len(s) + 1
      /\ t[1] = n
      /\ \A k \in 2 .. Len(t) : t[k] = s[k - 1]
    <2>1. <<n>> \in Seq(Nat) /\ Len(<<n>>) = 1 /\ <<n>>[1] = n
        OBVIOUS
    <2> QED
        BY <1>1, <2>1, ConcatProperties
<1> HIDE DEF t
<1>3. {n} \cup P = {t[k] : k \in 1 .. Len(t)}
    <2>1. ASSUME NEW p \in P
          PROVE  \E k \in 1 .. Len(t) : p = t[k]
        <3>1. PICK k \in 1 .. Len(s) : p = s[k]
            BY DEF Enumerates
        <3>2. k + 1 \in 2 .. Len(t) /\ k + 1 \in 1 .. Len(t) /\ (k + 1) - 1 = k
            BY <1>1, <1>2
        <3>3. t[k + 1] = s[k]
            BY <1>2, <3>2
        <3> QED
            BY <3>1, <3>2, <3>3
    <2>2. \E k \in 1 .. Len(t) : n = t[k]
        BY <1>1, <1>2
    <2>3. ASSUME NEW k \in 1 .. Len(t)
          PROVE  t[k] \in {n} \cup P
        <3>1. k = 1 \/ (k \in 2 .. Len(t) /\ k - 1 \in 1 .. Len(s))
            BY <1>1, <1>2
        <3> QED
            BY <1>1, <1>2, <3>1
    <2> QED
        BY <2>1, <2>2, <2>3
<1>4. ASSUME NEW j \in 1 .. Len(t), NEW k \in 1 .. Len(t), j < k
      PROVE  t[j] < t[k]
    <2>1. k - 1 \in 1 .. Len(s) /\ t[k] = s[k - 1]
        BY <1>1, <1>2, <1>4
    <2>2. CASE j = 1
        BY <1>1, <1>2, <2>1, <2>2
    <2>3. CASE j # 1
        <3>1. j \in 2 .. Len(t) /\ j - 1 \in 1 .. Len(s) /\ j - 1 < k - 1
            BY <1>1, <1>2, <1>4, <2>3
        <3>2. t[j] = s[j - 1]
            BY <1>2, <3>1
        <3> QED
            BY <2>1, <3>1, <3>2 DEF Enumerates
    <2> QED
        BY <2>2, <2>3
<1> QED
    BY <1>2, <1>3, <1>4 DEF Enumerates, t
-----------------------------------------------------------------------------
(***************************************************************************)
(* The frames among some bytes.                                            *)
(***************************************************************************)

\* What a complete frame at place i is.
LEMMA IntactFrame ==
    ASSUME NEW bs \in Seq(Byte), NEW i \in 1 .. Len(bs), IntactAt(bs, i)
    PROVE  LET f == bs[i].of
           IN  /\ f \in Frames
               /\ Len(Encoded[f]) \in Nat \ {0}
               /\ i + Len(Encoded[f]) - 1 <= Len(bs)
               /\ \A k \in 1 .. Len(Encoded[f]) : bs[i + k - 1] = [of |-> f, at |-> k]
<1>1. bs[i].of \in Frames
    BY ElementOfSeq, ByteTyped DEF IntactAt
<1>2. Len(Encoded[bs[i].of]) \in Nat \ {0}
    BY <1>1, EncodedTyped
<1> QED
    BY <1>1, <1>2 DEF IntactAt

\* A complete frame stays one where its bytes are found again, d places later.
LEMMA IntactMoves ==
    ASSUME NEW bs \in Seq(Byte), NEW cs \in Seq(Byte),
           NEW i \in 1 .. Len(bs), NEW d \in Int,
           IntactAt(bs, i), i + d >= 1,
           i + d + Len(Encoded[bs[i].of]) - 1 <= Len(cs),
           \A m \in i .. i + Len(Encoded[bs[i].of]) - 1 : cs[m + d] = bs[m]
    PROVE  /\ i + d \in 1 .. Len(cs)
           /\ IntactAt(cs, i + d)
           /\ cs[i + d].of = bs[i].of
<1> DEFINE f == bs[i].of
           L == Len(Encoded[f])
<1>1. /\ f \in Frames /\ f # Noise
      /\ L \in Nat \ {0}
      /\ \A k \in 1 .. L : bs[i + k - 1] = [of |-> f, at |-> k]
    BY IntactFrame, LayoutAssumption
<1>2. i + d \in 1 .. Len(cs)
    <2>1. Len(cs) \in Nat /\ i \in Int
        BY LenProperties
    <2>2. i + d + L - 1 <= Len(cs)
        OBVIOUS
    <2> HIDE DEF L
    <2> QED
        BY <1>1, <2>1, <2>2
<1>3. cs[i + d].of = f
    <2>1. i \in i .. i + L - 1
        <3>1. i \in Int
            OBVIOUS
        <3> HIDE DEF L
        <3> QED
            BY <1>1, <3>1
    <2>2. cs[i + d] = bs[i]
        BY <2>1
    <2> QED
        BY <2>2
<1>4. ASSUME NEW k \in 1 .. L
      PROVE  cs[i + d + k - 1] = [of |-> f, at |-> k]
    <2>1. i + k - 1 \in i .. i + L - 1
        BY <1>1
    <2>2. cs[(i + k - 1) + d] = bs[i + k - 1]
        BY <2>1
    <2>3. (i + k - 1) + d = i + d + k - 1
        BY <1>1
    <2> QED
        BY <1>1, <2>2, <2>3
<1> QED
    BY <1>1, <1>2, <1>3, <1>4 DEF IntactAt

\* The same where its bytes are found again in the same place.
LEMMA IntactStays ==
    ASSUME NEW bs \in Seq(Byte), NEW cs \in Seq(Byte), NEW i \in 1 .. Len(bs),
           IntactAt(bs, i),
           i + Len(Encoded[bs[i].of]) - 1 <= Len(cs),
           \A m \in i .. i + Len(Encoded[bs[i].of]) - 1 : cs[m] = bs[m]
    PROVE  /\ i \in 1 .. Len(cs)
           /\ IntactAt(cs, i)
           /\ cs[i].of = bs[i].of
<1>1. PICK d \in Int : d = 0
    OBVIOUS
<1> DEFINE L == Len(Encoded[bs[i].of])
<1>2. L \in Nat \ {0}
    BY IntactFrame
<1> HIDE DEF L
<1>3. i + d = i /\ i + d >= 1 /\ \A m \in i .. i + L - 1 : m + d = m
    BY <1>1, <1>2
<1>4. i + d + L - 1 <= Len(cs) /\ \A m \in i .. i + L - 1 : cs[m + d] = bs[m]
    BY <1>3 DEF L
<1>5. i + d \in 1 .. Len(cs) /\ IntactAt(cs, i + d) /\ cs[i + d].of = bs[i].of
    BY <1>3, <1>4, IntactMoves DEF L
<1> QED
    BY <1>3, <1>5

LEMMA PlacesTyped ==
    ASSUME NEW bs \in Seq(Byte)
    PROVE  /\ Len(bs) \in Nat
           /\ Places(bs) \in SUBSET (1 .. Len(bs))
           /\ \E s : Enumerates(s, Places(bs))
    BY LenProperties, EveryEnumerable DEF Places

\* FramesIn, by any enumeration of the places.
LEMMA FramesInIs ==
    ASSUME NEW bs \in Seq(Byte), NEW s, Enumerates(s, Places(bs))
    PROVE  /\ Len(s) \in Nat
           /\ FramesIn(bs) \in Seq(Frames)
           /\ Len(FramesIn(bs)) = Len(s)
           /\ \A k \in 1 .. Len(s) : FramesIn(bs)[k] = bs[s[k]].of
<1>1. /\ s \in Seq(Nat) /\ Len(s) \in Nat /\ DOMAIN s = 1 .. Len(s)
      /\ \A k \in 1 .. Len(s) : s[k] \in Places(bs)
    BY LenProperties DEF Enumerates
<1>2. FramesIn(bs) = [k \in 1 .. Len(s) |-> bs[s[k]].of]
    BY <1>1, AscendingIs DEF FramesIn
<1>3. \A k \in 1 .. Len(s) : bs[s[k]].of \in Frames
    BY <1>1, IntactFrame DEF Places
<1> QED
    BY <1>1, <1>2, <1>3

\* Two runs of bytes whose places correspond hold the same frames.
LEMMA SameFrames ==
    ASSUME NEW bs \in Seq(Byte), NEW cs \in Seq(Byte), NEW s, NEW t,
           Enumerates(s, Places(bs)), Enumerates(t, Places(cs)), Len(s) = Len(t),
           \A k \in 1 .. Len(s) : bs[s[k]].of = cs[t[k]].of
    PROVE  FramesIn(bs) = FramesIn(cs)
<1>1. /\ FramesIn(bs) \in Seq(Frames) /\ Len(FramesIn(bs)) = Len(s)
      /\ \A k \in 1 .. Len(s) : FramesIn(bs)[k] = bs[s[k]].of
    BY FramesInIs
<1>2. /\ FramesIn(cs) \in Seq(Frames) /\ Len(FramesIn(cs)) = Len(s)
      /\ \A k \in 1 .. Len(s) : FramesIn(cs)[k] = cs[t[k]].of
    BY FramesInIs
<1> QED
    BY <1>1, <1>2, SeqEqual

\* The last n of the bytes bs are the first n of frame f.
Arrived(bs, f, n) ==
    n <= Len(bs) /\ \A k \in 1 .. n : bs[Len(bs) - n + k] = [of |-> f, at |-> k]

\* A place stays one when a byte is appended.
LEMMA PlaceStays ==
    ASSUME NEW bs \in Seq(Byte), NEW b \in Byte, NEW p \in Places(bs)
    PROVE  p \in Places(Append(bs, b)) /\ Append(bs, b)[p].of = bs[p].of
<1> DEFINE cs == Append(bs, b)
<1>1. /\ cs \in Seq(Byte) /\ Len(bs) \in Nat /\ Len(cs) = Len(bs) + 1
      /\ \A i \in 1 .. Len(bs) : cs[i] = bs[i]
    BY AppendProperties, LenProperties
<1> HIDE DEF cs
<1>2. p \in 1 .. Len(bs) /\ IntactAt(bs, p)
    BY DEF Places
<1> DEFINE L == Len(Encoded[bs[p].of])
<1>3. L \in Nat \ {0} /\ p + L - 1 <= Len(bs)
    BY <1>2, IntactFrame
<1>4. \A m \in p .. p + L - 1 : cs[m] = bs[m]
    <2> HIDE DEF L
    <2> QED
        BY <1>1, <1>2, <1>3
<1>5. p + L - 1 <= Len(cs)
    <2> HIDE DEF L
    <2> QED
        BY <1>1, <1>2, <1>3
<1>6. p \in 1 .. Len(cs) /\ IntactAt(cs, p) /\ cs[p].of = bs[p].of
    BY <1>1, <1>2, <1>4, <1>5, IntactStays
<1> QED
    BY <1>6 DEF Places, cs

\* A place that appears with a byte is that of a frame whose last byte it is.
LEMMA NewPlace ==
    ASSUME NEW bs \in Seq(Byte), NEW b \in Byte,
           NEW p \in Places(Append(bs, b)), p \notin Places(bs)
    PROVE  /\ b.of \in Frames
           /\ b.at = Len(Encoded[b.of])
           /\ p + Len(Encoded[b.of]) - 1 = Len(bs) + 1
           /\ Arrived(bs, b.of, Len(Encoded[b.of]) - 1)
<1> DEFINE cs == Append(bs, b)
           g == cs[p].of
           L == Len(Encoded[g])
<1>1. /\ cs \in Seq(Byte) /\ Len(bs) \in Nat /\ Len(cs) = Len(bs) + 1
      /\ \A i \in 1 .. Len(bs) : cs[i] = bs[i]
      /\ cs[Len(bs) + 1] = b
    BY AppendProperties, LenProperties
<1>2. p \in 1 .. Len(cs) /\ IntactAt(cs, p)
    BY DEF Places
<1> HIDE DEF cs
<1>3. /\ g \in Frames /\ L \in Nat \ {0} /\ p + L - 1 <= Len(cs)
      /\ \A k \in 1 .. L : cs[p + k - 1] = [of |-> g, at |-> k]
    BY <1>1, <1>2, IntactFrame
<1>4. ~ (p + L - 1 <= Len(bs))
    <2> SUFFICES ASSUME p + L - 1 <= Len(bs) PROVE FALSE
        OBVIOUS
    <2>1. \A m \in p .. p + L - 1 : bs[m] = cs[m]
        <3> HIDE DEF L
        <3> QED
            BY <1>1, <1>2, <1>3
    <2>2. p \in 1 .. Len(bs) /\ IntactAt(bs, p)
        BY <1>1, <1>2, <2>1, IntactStays
    <2> QED
        BY <2>2 DEF Places
<1> HIDE DEF L
<1>5. p + L - 1 = Len(bs) + 1
    BY <1>1, <1>2, <1>3, <1>4
<1>6. b = [of |-> g, at |-> L]
    <2>1. cs[p + L - 1] = [of |-> g, at |-> L]
        BY <1>3
    <2> QED
        BY <1>1, <1>5, <2>1
<1>7. Arrived(bs, g, L - 1)
    <2>1. L - 1 <= Len(bs)
        BY <1>1, <1>2, <1>3, <1>5
    <2>2. ASSUME NEW k \in 1 .. L - 1
          PROVE  bs[Len(bs) - (L - 1) + k] = [of |-> g, at |-> k]
        <3>1. Len(bs) - (L - 1) + k = p + k - 1 /\ p + k - 1 \in 1 .. Len(bs)
            BY <1>1, <1>2, <1>3, <1>5
        <3>2. cs[p + k - 1] = [of |-> g, at |-> k]
            BY <1>3
        <3> QED
            BY <1>1, <3>1, <3>2
    <2> QED
        BY <2>1, <2>2 DEF Arrived
<1> QED
    BY <1>3, <1>5, <1>6, <1>7 DEF L

\* A byte that completes no frame changes nothing.
LEMMA NothingCompleted ==
    ASSUME NEW bs \in Seq(Byte), NEW b \in Byte,
           ~ /\ b.of \in Frames
             /\ b.at = Len(Encoded[b.of])
             /\ Arrived(bs, b.of, Len(Encoded[b.of]) - 1)
    PROVE  FramesIn(Append(bs, b)) = FramesIn(bs)
<1>1. Places(Append(bs, b)) = Places(bs)
    BY PlaceStays, NewPlace
<1>2. PICK s : Enumerates(s, Places(bs))
    BY PlacesTyped
<1>3. \A k \in 1 .. Len(s) : s[k] \in Places(bs)
    BY <1>2 DEF Enumerates
<1>4. \A k \in 1 .. Len(s) : Append(bs, b)[s[k]].of = bs[s[k]].of
    BY <1>3, PlaceStays
<1>5. Append(bs, b) \in Seq(Byte)
    BY AppendProperties
<1> QED
    BY <1>1, <1>2, <1>4, <1>5, SameFrames

\* The last byte of a frame adds it behind the others.
LEMMA FrameCompleted ==
    ASSUME NEW bs \in Seq(Byte), NEW f \in Frames,
           Arrived(bs, f, Len(Encoded[f]) - 1)
    PROVE  FramesIn(Append(bs, [of |-> f, at |-> Len(Encoded[f])]))
               = Append(FramesIn(bs), f)
<1> DEFINE L == Len(Encoded[f])
           b == [of |-> f, at |-> L]
           cs == Append(bs, b)
           p == Len(bs) + 2 - L
<1>1. L \in Nat \ {0} /\ b \in Byte /\ f # Noise
    <2>1. L \in Nat \ {0}
        BY EncodedTyped
    <2>2. b = BytesOf(f)[L]
        BY <2>1 DEF BytesOf
    <2> QED
        BY <2>1, <2>2, LayoutAssumption DEF Byte
<1>2. b.of = f /\ b.at = L
    OBVIOUS
<1>3. /\ L - 1 <= Len(bs)
      /\ \A k \in 1 .. L - 1 : bs[Len(bs) - (L - 1) + k] = [of |-> f, at |-> k]
    BY DEF Arrived
<1> HIDE DEF L, b
<1>4. /\ cs \in Seq(Byte) /\ Len(bs) \in Nat /\ Len(cs) = Len(bs) + 1
      /\ \A i \in 1 .. Len(bs) : cs[i] = bs[i]
      /\ cs[Len(bs) + 1] = b
    BY <1>1, AppendProperties, LenProperties
<1>5. p \in 1 .. Len(cs) /\ p + L - 1 = Len(cs)
    BY <1>1, <1>3, <1>4
<1>6. \A k \in 1 .. L : cs[p + k - 1] = [of |-> f, at |-> k]
    <2> TAKE k \in 1 .. L
    <2>1. CASE k = L
        BY <1>1, <1>4, <2>1 DEF b
    <2>2. CASE k # L
        <3>1. k \in 1 .. L - 1 /\ p + k - 1 = Len(bs) - (L - 1) + k
            BY <1>1, <1>4, <2>2
        <3>2. p + k - 1 \in 1 .. Len(bs)
            BY <1>1, <1>3, <1>4, <3>1
        <3> QED
            BY <1>3, <1>4, <3>1, <3>2
    <2> QED
        BY <2>1, <2>2
<1> HIDE DEF cs, p
<1>7. cs[p].of = f /\ IntactAt(cs, p)
    <2>1. cs[p + 1 - 1] = [of |-> f, at |-> 1] /\ p + 1 - 1 = p
        BY <1>1, <1>5, <1>6
    <2>2. cs[p].of = f
        BY <2>1
    <2> QED
        BY <1>1, <1>4, <1>5, <1>6, <2>2 DEF IntactAt, L
<1>8. ASSUME NEW q \in Places(bs)
      PROVE  q < p
    <2>1. q \in 1 .. Len(bs) /\ IntactAt(bs, q) /\ q \in 1 .. Len(cs) /\ IntactAt(cs, q)
          /\ cs[q].of = bs[q].of
        BY <1>1, PlaceStays DEF Places, cs
    <2>2. q + Len(Encoded[bs[q].of]) - 1 <= Len(bs)
        BY <2>1, IntactFrame
    <2>3. q # p
        <3> SUFFICES ASSUME q = p PROVE FALSE
            OBVIOUS
        <3>1. q + L - 1 <= Len(bs)
            BY <1>7, <2>1, <2>2 DEF L
        <3> QED
            BY <1>4, <1>5, <3>1
    <2>4. ~ (p < q)
        <3> SUFFICES ASSUME p < q PROVE FALSE
            OBVIOUS
        <3>1. p + L <= q
            BY <1>4, <1>5, <1>7, <2>1, FramesDisjoint DEF L
        <3> QED
            BY <1>1, <1>4, <1>5, <2>1, <3>1
    <2> QED
        BY <1>5, <2>1, <2>3, <2>4
<1>9. Places(cs) = Places(bs) \cup {p}
    <2>1. \A q \in Places(bs) : q \in Places(cs)
        BY <1>1, PlaceStays DEF cs
    <2>2. p \in Places(cs)
        BY <1>5, <1>7 DEF Places
    <2>3. ASSUME NEW q \in Places(cs), q \notin Places(bs)
          PROVE  q = p
        <3>1. q + Len(Encoded[b.of]) - 1 = Len(bs) + 1
            BY <1>1, <2>3, NewPlace DEF cs
        <3>2. q + L - 1 = Len(bs) + 1 /\ q \in Nat
            BY <1>2, <1>4, <2>3, <3>1, PlacesTyped DEF L
        <3> QED
            BY <1>1, <1>4, <1>5, <3>2
    <2> QED
        BY <2>1, <2>2, <2>3
<1>10. PICK s : Enumerates(s, Places(bs))
    BY PlacesTyped
<1> DEFINE t == Append(s, p)
<1>11. Enumerates(t, Places(cs))
    BY <1>5, <1>8, <1>9, <1>10, EnumerationAppend
<1>12. /\ s \in Seq(Nat) /\ Len(s) \in Nat /\ p \in Nat
       /\ \A k \in 1 .. Len(s) : s[k] \in Places(bs)
    BY <1>5, <1>10, LenProperties DEF Enumerates
<1>13. /\ Len(t) = Len(s) + 1
       /\ \A k \in 1 .. Len(s) : t[k] = s[k]
       /\ t[Len(s) + 1] = p
    BY <1>12, AppendProperties
<1> HIDE DEF t
<1>14. /\ FramesIn(cs) \in Seq(Frames) /\ Len(FramesIn(cs)) = Len(s) + 1
       /\ \A k \in 1 .. Len(s) + 1 : FramesIn(cs)[k] = cs[t[k]].of
    BY <1>4, <1>11, <1>13, FramesInIs
<1>15. /\ FramesIn(bs) \in Seq(Frames) /\ Len(FramesIn(bs)) = Len(s)
       /\ \A k \in 1 .. Len(s) : FramesIn(bs)[k] = bs[s[k]].of
    BY <1>10, FramesInIs
<1>16. \A k \in 1 .. Len(s) : FramesIn(cs)[k] = FramesIn(bs)[k]
    <2> TAKE k \in 1 .. Len(s)
    <2>1. FramesIn(cs)[k] = cs[s[k]].of
        BY <1>12, <1>13, <1>14
    <2>2. cs[s[k]].of = bs[s[k]].of
        BY <1>1, <1>12, PlaceStays DEF cs
    <2> QED
        BY <1>15, <2>1, <2>2
<1>17. FramesIn(cs)[Len(s) + 1] = f
    <2>1. Len(s) + 1 \in 1 .. Len(s) + 1
        BY <1>12
    <2> QED
        BY <1>7, <1>13, <1>14, <2>1
<1> DEFINE F == Append(FramesIn(bs), f)
<1>18. /\ F \in Seq(Frames) /\ Len(F) = Len(s) + 1
       /\ \A k \in 1 .. Len(s) : F[k] = FramesIn(bs)[k]
       /\ F[Len(s) + 1] = f
    BY <1>15, AppendProperties
<1> HIDE DEF F
<1>19. FramesIn(cs) = F
    <2>1. \A k \in 1 .. Len(s) + 1 : k \in 1 .. Len(s) \/ k = Len(s) + 1
        BY <1>12
    <2>2. \A k \in 1 .. Len(FramesIn(cs)) : FramesIn(cs)[k] = F[k]
        BY <1>14, <1>16, <1>17, <1>18, <2>1
    <2> QED
        BY <1>14, <1>18, <2>2, SeqEqual
<1> QED
    BY <1>19 DEF F, cs, b, L

\* The bytes after the first d.
LEMMA FromBytes ==
    ASSUME NEW bs \in Seq(Byte), NEW d \in 0 .. Len(bs)
    PROVE  /\ From(bs, d + 1) \in Seq(Byte)
           /\ Len(From(bs, d + 1)) = Len(bs) - d
           /\ \A i \in 1 .. Len(bs) - d : From(bs, d + 1)[i] = bs[i + d]
<1>1. Len(bs) \in Nat /\ d \in Nat /\ d + 1 \in Nat \ {0} /\ d + 1 <= Len(bs) + 1
    BY LenProperties
<1>2. From(bs, d + 1) \in Seq(Byte) /\ Len(From(bs, d + 1)) = Len(bs) - d
    BY <1>1, FromTyped
<1>3. ASSUME NEW i \in 1 .. Len(bs) - d
      PROVE  From(bs, d + 1)[i] = bs[i + d]
    <2> DEFINE m == d + 1
    <2>1. \A j \in m .. Len(bs) : bs[j] \in Byte
        BY <1>1, ElementOfSeq
    <2>2. m \in Int /\ Len(bs) \in Int /\ i \in 1 .. Len(bs) - m + 1
        BY <1>1
    <2>3. m + i - 1 = i + d
        BY <1>1
    <2> HIDE DEF m
    <2>4. SubSeq(bs, m, Len(bs))[i] = bs[m + i - 1]
        BY <2>1, <2>2, SubSeqProperties
    <2> QED
        BY <2>3, <2>4 DEF From, m
<1> QED
    BY <1>2, <1>3

\* Their places are those of the whole.
LEMMA PlacesFrom ==
    ASSUME NEW bs \in Seq(Byte), NEW d \in 0 .. Len(bs)
    PROVE  /\ \A p \in Places(From(bs, d + 1)) :
                  p + d \in Places(bs) /\ bs[p + d].of = From(bs, d + 1)[p].of
           /\ \A q \in Places(bs) : q > d => q - d \in Places(From(bs, d + 1))
<1> DEFINE cs == From(bs, d + 1)
<1>1. /\ cs \in Seq(Byte) /\ Len(cs) = Len(bs) - d /\ Len(bs) \in Nat
      /\ \A i \in 1 .. Len(bs) - d : cs[i] = bs[i + d]
    BY FromBytes, LenProperties
<1> HIDE DEF cs
<1>2. ASSUME NEW p \in Places(cs)
      PROVE  p + d \in Places(bs) /\ bs[p + d].of = cs[p].of
    <2>1. p \in 1 .. Len(cs) /\ IntactAt(cs, p)
        BY DEF Places
    <2> DEFINE L == Len(Encoded[cs[p].of])
    <2>2. L \in Nat \ {0} /\ p + L - 1 <= Len(cs)
        BY <1>1, <2>1, IntactFrame
    <2> HIDE DEF L
    <2>3. /\ p + d >= 1 /\ p + d + L - 1 <= Len(bs) /\ d \in Int
          /\ \A m \in p .. p + L - 1 : bs[m + d] = cs[m]
        BY <1>1, <2>1, <2>2
    <2> QED
        BY <1>1, <2>1, <2>3, IntactMoves DEF Places, L
<1>3. ASSUME NEW q \in Places(bs), q > d
      PROVE  q - d \in Places(cs)
    <2>1. q \in 1 .. Len(bs) /\ IntactAt(bs, q)
        BY DEF Places
    <2>2. PICK e \in Int : e = 0 - d
        OBVIOUS
    <2> DEFINE L == Len(Encoded[bs[q].of])
    <2>3. L \in Nat \ {0} /\ q + L - 1 <= Len(bs)
        BY <2>1, IntactFrame
    <2> HIDE DEF L
    <2>4. q + e >= 1 /\ q + e + L - 1 <= Len(cs)
        BY <1>1, <1>3, <2>1, <2>2, <2>3
    <2>5. \A m \in q .. q + L - 1 : cs[m + e] = bs[m]
        <3> TAKE m \in q .. q + L - 1
        <3>1. m + e \in 1 .. Len(bs) - d /\ (m + e) + d = m
            BY <1>1, <1>3, <2>1, <2>2, <2>3
        <3>2. cs[m + e] = bs[(m + e) + d]
            BY <1>1, <3>1
        <3> QED
            BY <3>1, <3>2
    <2>6. q + e \in 1 .. Len(cs) /\ IntactAt(cs, q + e)
        BY <1>1, <2>1, <2>4, <2>5, IntactMoves DEF L
    <2>7. q + e = q - d
        BY <2>1, <2>2
    <2> QED
        BY <2>6, <2>7 DEF Places
<1> QED
    BY <1>2, <1>3 DEF cs

\* Bytes before the first frame can go.
LEMMA NoFrameDropped ==
    ASSUME NEW bs \in Seq(Byte), NEW i \in 1 .. Len(bs) + 1,
           \A q \in 1 .. i - 1 : ~ IntactAt(bs, q)
    PROVE  FramesIn(From(bs, i)) = FramesIn(bs)
<1>1. PICK d \in 0 .. Len(bs) : i = d + 1
    <2>1. i - 1 \in 0 .. Len(bs) /\ i = (i - 1) + 1
        BY LenProperties
    <2> QED
        BY <2>1
<1> DEFINE cs == From(bs, d + 1)
<1>2. cs \in Seq(Byte) /\ d \in Nat
    BY FromBytes
<1>3. PICK t : Enumerates(t, Places(cs))
    BY <1>2, PlacesTyped
<1>4. /\ Len(t) \in Nat
      /\ \A k \in 1 .. Len(t) : t[k] \in Places(cs)
    BY <1>3, LenProperties DEF Enumerates
<1> HIDE DEF cs
<1>5. Places(bs) = {p + d : p \in Places(cs)}
    <2>1. \A p \in Places(cs) : p + d \in Places(bs)
        BY PlacesFrom DEF cs
    <2>2. ASSUME NEW q \in Places(bs)
          PROVE  \E p \in Places(cs) : q = p + d
        <3>1. q \in 1 .. Len(bs) /\ IntactAt(bs, q)
            BY DEF Places
        <3>2. q > d
            BY <1>1, <3>1, LenProperties
        <3>3. q - d \in Places(cs)
            BY <3>2, PlacesFrom DEF cs
        <3>4. q = (q - d) + d
            BY <3>1
        <3> QED
            BY <3>3, <3>4
    <2> QED
        BY <2>1, <2>2
<1> DEFINE s == [k \in 1 .. Len(t) |-> t[k] + d]
<1>6. Enumerates(s, Places(bs))
    BY <1>2, <1>3, <1>5, EnumerationShift
<1>7. Len(s) = Len(t) /\ \A k \in 1 .. Len(s) : s[k] = t[k] + d
    BY <1>4
<1> HIDE DEF s
<1>8. \A k \in 1 .. Len(s) : bs[s[k]].of = cs[t[k]].of
    BY <1>4, <1>7, PlacesFrom DEF cs
<1>9. FramesIn(bs) = FramesIn(cs)
    BY <1>2, <1>3, <1>6, <1>7, <1>8, SameFrames
<1> QED
    BY <1>1, <1>9 DEF cs

\* A frame at the front goes, and the others stay.
LEMMA FirstFrameTaken ==
    ASSUME NEW bs \in Seq(Byte), 1 \in Places(bs)
    PROVE  /\ Len(Encoded[bs[1].of]) <= Len(bs)
           /\ FramesIn(bs) =
                 <<bs[1].of>> \o FramesIn(From(bs, Len(Encoded[bs[1].of]) + 1))
<1> DEFINE d == Len(Encoded[bs[1].of])
           cs == From(bs, d + 1)
<1>1. /\ 1 \in 1 .. Len(bs) /\ IntactAt(bs, 1)
      /\ d \in Nat \ {0} /\ d <= Len(bs) /\ Len(bs) \in Nat
    <2>1. 1 \in 1 .. Len(bs) /\ IntactAt(bs, 1) /\ Len(bs) \in Nat
        BY LenProperties DEF Places
    <2>2. d \in Nat \ {0} /\ 1 + d - 1 <= Len(bs)
        BY <2>1, IntactFrame
    <2> HIDE DEF d
    <2> QED
        BY <2>1, <2>2
<1>2. \A q \in Places(bs) : q = 1 \/ q > d
    <2> SUFFICES ASSUME NEW q \in Places(bs), q # 1 PROVE q > d
        OBVIOUS
    <2>1. q \in 1 .. Len(bs) /\ IntactAt(bs, q) /\ 1 < q
        BY <1>1 DEF Places
    <2>2. 1 + d <= q
        BY <1>1, <2>1, FramesDisjoint
    <2> HIDE DEF d
    <2> QED
        BY <1>1, <2>1, <2>2
<1> HIDE DEF d
<1>3. d \in 0 .. Len(bs) /\ cs \in Seq(Byte)
    BY <1>1, FromBytes
<1> HIDE DEF cs
<1>4. PICK t : Enumerates(t, Places(cs))
    BY <1>3, PlacesTyped
<1> DEFINE R == {p + d : p \in Places(cs)}
           r == [k \in 1 .. Len(t) |-> t[k] + d]
           s == <<1>> \o r
<1>5. /\ Len(t) \in Nat
      /\ \A k \in 1 .. Len(t) : t[k] \in Places(cs)
    BY <1>4, LenProperties DEF Enumerates
<1>6. Places(bs) = {1} \cup R
    <2>1. \A p \in Places(cs) : p + d \in Places(bs)
        BY <1>3, PlacesFrom DEF cs
    <2>2. ASSUME NEW q \in Places(bs), q # 1
          PROVE  q \in R
        <3>1. q - d \in Places(cs)
            BY <1>2, <1>3, <2>2, PlacesFrom DEF cs
        <3>2. q = (q - d) + d
            BY <1>1, PlacesTyped
        <3> QED
            BY <3>1, <3>2
    <2> QED
        BY <2>1, <2>2
<1>7. Enumerates(r, R)
    BY <1>1, <1>4, EnumerationShift
<1>8. \A q \in R : 1 < q
    BY <1>1, <1>3, PlacesTyped
<1>9. Len(r) = Len(t) /\ r \in Seq(Nat) /\ \A k \in 1 .. Len(t) : r[k] = t[k] + d
    BY <1>7 DEF Enumerates
<1> HIDE DEF R, r
<1>10. Enumerates(s, Places(bs))
    BY <1>6, <1>7, <1>8, EnumerationFirst
<1>11. /\ Len(s) = Len(t) + 1 /\ s[1] = 1
       /\ \A k \in 2 .. Len(t) + 1 : s[k] = r[k - 1]
    <2> DEFINE h == <<1>>
    <2>1. h \in Seq(Nat) /\ Len(h) = 1 /\ h[1] = 1
        OBVIOUS
    <2>2. s = h \o r /\ r \in Seq(Nat)
        BY <1>9
    <2> HIDE DEF h, s
    <2>3. /\ Len(s) = Len(h) + Len(r)
          /\ \A k \in 1 .. Len(h) + Len(r) :
                 s[k] = IF k <= Len(h) THEN h[k] ELSE r[k - Len(h)]
        BY <2>1, <2>2, ConcatProperties
    <2>4. Len(s) = Len(t) + 1 /\ 1 \in 1 .. Len(h) + Len(r)
        BY <1>5, <1>9, <2>1, <2>3
    <2>5. ASSUME NEW k \in 2 .. Len(t) + 1
          PROVE  s[k] = r[k - 1]
        <3>1. k \in 1 .. Len(h) + Len(r) /\ ~ (k <= Len(h)) /\ k - Len(h) = k - 1
            BY <1>5, <1>9, <2>1
        <3> QED
            BY <2>3, <3>1
    <2> QED
        BY <2>1, <2>3, <2>4, <2>5
<1> HIDE DEF s
<1>12. /\ FramesIn(bs) \in Seq(Frames) /\ Len(FramesIn(bs)) = Len(t) + 1
       /\ \A k \in 1 .. Len(t) + 1 : FramesIn(bs)[k] = bs[s[k]].of
    BY <1>10, <1>11, FramesInIs
<1>13. /\ FramesIn(cs) \in Seq(Frames) /\ Len(FramesIn(cs)) = Len(t)
       /\ \A k \in 1 .. Len(t) : FramesIn(cs)[k] = cs[t[k]].of
    BY <1>3, <1>4, FramesInIs
<1> DEFINE F == <<bs[1].of>> \o FramesIn(cs)
<1>14. /\ F \in Seq(Frames) /\ Len(F) = Len(t) + 1
       /\ F[1] = bs[1].of
       /\ \A k \in 2 .. Len(t) + 1 : F[k] = FramesIn(cs)[k - 1]
    <2> DEFINE h == <<bs[1].of>>
    <2>1. h \in Seq(Frames) /\ Len(h) = 1 /\ h[1] = bs[1].of
        BY <1>1, IntactFrame
    <2> HIDE DEF h
    <2> QED
        BY <1>5, <1>13, <2>1, ConcatProperties DEF h
<1> HIDE DEF F
<1>15. ASSUME NEW k \in 1 .. Len(t) + 1
       PROVE  FramesIn(bs)[k] = F[k]
    <2>1. CASE k = 1
        BY <1>11, <1>12, <1>14, <2>1
    <2>2. CASE k # 1
        <3>1. k \in 2 .. Len(t) + 1 /\ k - 1 \in 1 .. Len(t)
            BY <1>5, <2>2
        <3>2. s[k] = t[k - 1] + d
            BY <1>9, <1>11, <3>1
        <3>3. bs[t[k - 1] + d].of = cs[t[k - 1]].of
            BY <1>3, <1>5, <3>1, PlacesFrom DEF cs
        <3> QED
            BY <1>12, <1>13, <1>14, <3>1, <3>2, <3>3
    <2> QED
        BY <2>1, <2>2
<1>16. FramesIn(bs) = F
    BY <1>12, <1>14, <1>15, SeqEqual
<1> QED
    BY <1>1, <1>16 DEF F, cs, d

\* The frames among the first bytes are the first of the frames.
LEMMA FramesInPrefix ==
    ASSUME NEW bs \in Seq(Byte), NEW cs \in Seq(Byte)
    PROVE  \E n \in 0 .. Len(FramesIn(bs \o cs)) :
               FramesIn(bs) = SubSeq(FramesIn(bs \o cs), 1, n)
<1> DEFINE ds == bs \o cs
<1>1. /\ ds \in Seq(Byte) /\ Len(bs) \in Nat /\ Len(ds) \in Nat
      /\ Len(bs) <= Len(ds)
      /\ \A i \in 1 .. Len(bs) : ds[i] = bs[i]
    BY ConcatProperties, LenProperties
<1> HIDE DEF ds
<1>2. ASSUME NEW p \in Places(bs)
      PROVE  p \in Places(ds) /\ ds[p].of = bs[p].of
    <2>1. p \in 1 .. Len(bs) /\ IntactAt(bs, p)
        BY DEF Places
    <2> DEFINE L == Len(Encoded[bs[p].of])
    <2>2. L \in Nat \ {0} /\ p + L - 1 <= Len(bs)
        BY <2>1, IntactFrame
    <2> HIDE DEF L
    <2>3. p + L - 1 <= Len(ds) /\ \A m \in p .. p + L - 1 : ds[m] = bs[m]
        BY <1>1, <2>1, <2>2
    <2> QED
        BY <1>1, <2>1, <2>3, IntactStays DEF Places, L
<1>3. ASSUME NEW p \in Places(bs), NEW q \in Places(ds), q < p
      PROVE  q \in Places(bs)
    <2>1. p \in 1 .. Len(bs) /\ q \in 1 .. Len(ds) /\ IntactAt(ds, q) /\ p \in Places(ds)
        BY <1>2 DEF Places
    <2> DEFINE L == Len(Encoded[ds[q].of])
    <2>2. L \in Nat \ {0}
        BY <1>1, <2>1, IntactFrame
    <2>3. q + L <= p
        BY <1>1, <1>3, <2>1, FramesDisjoint DEF Places
    <2> HIDE DEF L
    <2>4. /\ q + L - 1 <= Len(bs)
          /\ \A m \in q .. q + L - 1 : bs[m] = ds[m]
        BY <1>1, <2>1, <2>2, <2>3
    <2> QED
        BY <1>1, <2>1, <2>4, IntactStays DEF Places, L
<1>4. PICK t : Enumerates(t, Places(bs))
    BY PlacesTyped
<1>5. PICK s : Enumerates(s, Places(ds))
    BY <1>1, PlacesTyped
<1>6. Len(t) <= Len(s) /\ \A k \in 1 .. Len(t) : t[k] = s[k]
    <2> DEFINE P == Places(bs)
               Q == Places(ds)
    <2>1. P \subseteq Q /\ \A p \in P : \A q \in Q : q < p => q \in P
        BY <1>2, <1>3
    <2>2. Enumerates(t, P) /\ Enumerates(s, Q)
        BY <1>4, <1>5
    <2> HIDE DEF P, Q
    <2> QED
        BY <2>1, <2>2, EnumerationPrefix
<1> DEFINE F == FramesIn(ds)
           n == Len(t)
           G == SubSeq(F, 1, n)
<1>7. /\ F \in Seq(Frames) /\ Len(F) = Len(s) /\ Len(s) \in Nat
      /\ \A k \in 1 .. Len(s) : F[k] = ds[s[k]].of
    BY <1>1, <1>5, FramesInIs
<1>8. /\ FramesIn(bs) \in Seq(Frames) /\ Len(FramesIn(bs)) = n /\ n \in Nat
      /\ \A k \in 1 .. n : FramesIn(bs)[k] = bs[t[k]].of
    BY <1>4, FramesInIs
<1> HIDE DEF F, n
<1>9. \A k \in 1 .. n : F[k] \in Frames
    BY <1>6, <1>7, <1>8, ElementOfSeq DEF n
<1>10. /\ G \in Seq(Frames) /\ Len(G) = n
       /\ \A k \in 1 .. n : G[k] = F[k]
    <2>1. n \in Int /\ 1 \in Int
        BY <1>8
    <2>2. /\ G \in Seq(Frames) /\ Len(G) = IF 1 <= n THEN n - 1 + 1 ELSE 0
          /\ \A k \in 1 .. n - 1 + 1 : G[k] = F[1 + k - 1]
        BY <1>9, <2>1, SubSeqProperties
    <2> HIDE DEF G
    <2>3. n - 1 + 1 = n /\ \A k \in 1 .. n : 1 + k - 1 = k
        BY <1>8
    <2> QED
        BY <1>8, <2>2, <2>3
<1> HIDE DEF G
<1>11. \A k \in 1 .. n : FramesIn(bs)[k] = G[k]
    <2> TAKE k \in 1 .. n
    <2>1. t[k] \in Places(bs)
        BY <1>4 DEF Enumerates, n
    <2>2. k \in 1 .. Len(s) /\ t[k] = s[k]
        BY <1>6, <1>7, <1>8 DEF n
    <2> QED
        BY <1>2, <1>7, <1>8, <1>10, <2>1, <2>2
<1>12. FramesIn(bs) = G
    BY <1>8, <1>10, <1>11, SeqEqual
<1>13. n \in 0 .. Len(F)
    BY <1>6, <1>7, <1>8 DEF n
<1> QED
    BY <1>12, <1>13 DEF G, F, ds

\* What is left when bytes are taken from the front of the first of two parts.
LEMMA FromConcat ==
    ASSUME NEW bs \in Seq(Byte), NEW cs \in Seq(Byte), NEW d \in 0 .. Len(bs)
    PROVE  From(bs, d + 1) \o cs = From(bs \o cs, d + 1)
<1> DEFINE ds == bs \o cs
           r == From(bs, d + 1)
           s == From(ds, d + 1)
           t == r \o cs
<1>1. /\ ds \in Seq(Byte) /\ Len(bs) \in Nat /\ Len(cs) \in Nat
      /\ Len(ds) = Len(bs) + Len(cs)
      /\ \A i \in 1 .. Len(bs) + Len(cs) :
             ds[i] = IF i <= Len(bs) THEN bs[i] ELSE cs[i - Len(bs)]
    BY ConcatProperties, LenProperties
<1>2. /\ r \in Seq(Byte) /\ Len(r) = Len(bs) - d
      /\ \A i \in 1 .. Len(bs) - d : r[i] = bs[i + d]
    BY FromBytes
<1> HIDE DEF ds
<1>3. d \in 0 .. Len(ds)
    BY <1>1
<1>4. /\ s \in Seq(Byte) /\ Len(s) = Len(ds) - d
      /\ \A i \in 1 .. Len(ds) - d : s[i] = ds[i + d]
    BY <1>1, <1>3, FromBytes
<1> HIDE DEF r, s
<1>5. /\ t \in Seq(Byte) /\ Len(t) = Len(r) + Len(cs)
      /\ \A i \in 1 .. Len(r) + Len(cs) :
             t[i] = IF i <= Len(r) THEN r[i] ELSE cs[i - Len(r)]
    BY <1>2, ConcatProperties
<1> HIDE DEF t
<1>6. Len(t) = Len(s) /\ Len(t) \in Nat
    BY <1>1, <1>2, <1>4, <1>5
<1>7. ASSUME NEW i \in 1 .. Len(t)
      PROVE  t[i] = s[i]
    <2>1. i \in 1 .. Len(ds) - d /\ s[i] = ds[i + d] /\ i + d \in 1 .. Len(bs) + Len(cs)
        BY <1>1, <1>4, <1>6
    <2>2. CASE i <= Len(r)
        <3>1. i \in 1 .. Len(bs) - d /\ i + d <= Len(bs)
            BY <1>1, <1>2, <2>2
        <3>2. t[i] = bs[i + d]
            BY <1>2, <1>5, <2>2, <3>1
        <3>3. ds[i + d] = bs[i + d]
            BY <1>1, <2>1, <3>1
        <3> QED
            BY <2>1, <3>2, <3>3
    <2>3. CASE ~ (i <= Len(r))
        <3>1. ~ (i + d <= Len(bs)) /\ i - Len(r) = (i + d) - Len(bs)
            BY <1>1, <1>2, <2>3
        <3>2. t[i] = cs[i - Len(r)]
            BY <1>5, <2>3
        <3>3. ds[i + d] = cs[(i + d) - Len(bs)]
            BY <1>1, <2>1, <3>1
        <3> QED
            BY <2>1, <3>1, <3>2, <3>3
    <2> QED
        BY <2>2, <2>3
<1>8. t = s
    BY <1>4, <1>5, <1>6, <1>7, SeqEqual
<1> QED
    BY <1>8 DEF t, s, r, ds

\* Bytes taken twice from the front.
LEMMA FromFrom ==
    ASSUME NEW bs \in Seq(Byte), NEW d \in 0 .. Len(bs), NEW e \in 0 .. Len(bs) - d
    PROVE  From(From(bs, d + 1), e + 1) = From(bs, (d + e) + 1)
<1> DEFINE r == From(bs, d + 1)
           s == From(r, e + 1)
           t == From(bs, (d + e) + 1)
<1>1. /\ r \in Seq(Byte) /\ Len(r) = Len(bs) - d /\ Len(bs) \in Nat
      /\ \A i \in 1 .. Len(bs) - d : r[i] = bs[i + d]
    BY FromBytes, LenProperties
<1> HIDE DEF r
<1>2. e \in 0 .. Len(r)
    BY <1>1
<1>3. /\ s \in Seq(Byte) /\ Len(s) = Len(r) - e
      /\ \A i \in 1 .. Len(r) - e : s[i] = r[i + e]
    BY <1>1, <1>2, FromBytes
<1>4. d + e \in 0 .. Len(bs)
    BY <1>1
<1>5. /\ t \in Seq(Byte) /\ Len(t) = Len(bs) - (d + e)
      /\ \A i \in 1 .. Len(bs) - (d + e) : t[i] = bs[i + (d + e)]
    BY <1>4, FromBytes
<1> HIDE DEF s, t
<1>6. Len(s) = Len(t) /\ Len(s) \in Nat
    BY <1>1, <1>2, <1>3, <1>5
<1>7. ASSUME NEW i \in 1 .. Len(s)
      PROVE  s[i] = t[i]
    <2>1. /\ i + e \in 1 .. Len(bs) - d /\ i \in 1 .. Len(r) - e
          /\ i \in 1 .. Len(bs) - (d + e) /\ (i + e) + d = i + (d + e)
        BY <1>1, <1>2, <1>3
    <2>2. s[i] = bs[(i + e) + d]
        BY <1>1, <1>3, <2>1
    <2>3. t[i] = bs[i + (d + e)]
        BY <1>5, <2>1
    <2> QED
        BY <2>1, <2>2, <2>3
<1>8. s = t
    BY <1>3, <1>5, <1>6, <1>7, SeqEqual
<1> QED
    BY <1>8 DEF s, t, r
-----------------------------------------------------------------------------
(***************************************************************************)
(* next_frame and the frames that are still arriving.                      *)
(***************************************************************************)

\* The decoder waits for a frame of which it has the beginning.
LEMMA ArrivingWaits ==
    ASSUME NEW bs \in Seq(Byte), NEW f \in Frames, NEW j \in 1 .. Len(bs) + 1,
           Len(bs) - j + 1 < Len(Encoded[f]),
           \A k \in 1 .. Len(bs) - j + 1 : bs[j + k - 1] = [of |-> f, at |-> k]
    PROVE  WaitsAt(bs, j)
<1> DEFINE r == Len(bs) - j + 1
           L == Len(Encoded[f])
           v == Encoded[f][HeaderLen]
<1>1. /\ Len(bs) \in Nat /\ j \in Nat /\ r \in Nat
      /\ L \in Nat \ {0} /\ v \in 0 .. MaxPayloadLen
      /\ L = HeaderLen + v + CrcLen
      /\ f # Noise
    BY EncodedTyped, LenProperties, LayoutAssumption
<1>2. r < L /\ \A k \in 1 .. r : bs[j + k - 1] = [of |-> f, at |-> k]
    OBVIOUS
<1>3. ASSUME NEW k \in 1 .. r
      PROVE  Value(bs[j + k - 1]) = Encoded[f][k]
    <2>1. bs[j + k - 1] = [of |-> f, at |-> k]
        BY <1>2
    <2>2. bs[j + k - 1].of = f /\ bs[j + k - 1].at = k
        BY <2>1
    <2> QED
        BY <1>1, <2>2 DEF Value
<1> HIDE DEF r, L, v
<1>4. CASE r = 0
    BY <1>4 DEF WaitsAt, r
<1>5. CASE r # 0
    <2>1. Value(bs[j]) = Magic
        <3>1. 1 \in 1 .. r /\ j + 1 - 1 = j
            BY <1>1, <1>5
        <3>2. Value(bs[j + 1 - 1]) = Encoded[f][1]
            BY <1>3, <3>1
        <3> QED
            BY <3>1, <3>2, EncodedAssumption
    <2>2. CASE r < HeaderLen + CrcLen
        BY <2>1, <2>2 DEF WaitsAt, r
    <2>3. CASE ~ (r < HeaderLen + CrcLen)
        <3>1. 2 \in 1 .. r /\ HeaderLen \in 1 .. r /\ j + 2 - 1 = j + 1
            BY <1>1, <2>3, LayoutAssumption
        <3>2. Value(bs[j + 1]) = Version
            <4>1. Value(bs[j + 2 - 1]) = Encoded[f][2]
                BY <1>3, <3>1
            <4> QED
                BY <3>1, <4>1, EncodedAssumption
        <3>3. Value(bs[j + HeaderLen - 1]) = v
            BY <1>3, <3>1 DEF v
        <3>4. FrameLen(bs, j) = L
            BY <1>1, <3>3 DEF FrameLen
        <3>5. L <= MaxFrameLen
            BY <1>1, LayoutAssumption DEF MaxFrameLen
        <3>6. Plausible(bs, j) /\ r < FrameLen(bs, j)
            BY <1>2, <3>2, <3>4, <3>5 DEF Plausible
        <3> QED
            BY <2>1, <3>6 DEF WaitsAt, r
    <2> QED
        BY <2>2, <2>3
<1> QED
    BY <1>4, <1>5

\* A frame of which the decoder has the beginning is not discarded, whether the
\* rest is in the FIFO or on the line.
LEMMA FrameStops ==
    ASSUME NEW bs \in Seq(Byte), NEW cs \in Seq(Byte), NEW q \in 1 .. Len(bs),
           IntactAt(bs \o cs, q)
    PROVE  StopsAt(bs, q)
<1> DEFINE ds == bs \o cs
           f == ds[q].of
           L == Len(Encoded[f])
<1>1. /\ ds \in Seq(Byte) /\ Len(bs) \in Nat /\ Len(ds) \in Nat
      /\ Len(bs) <= Len(ds)
      /\ \A i \in 1 .. Len(bs) : ds[i] = bs[i]
    BY ConcatProperties, LenProperties
<1> HIDE DEF ds
<1>2. /\ q \in 1 .. Len(ds) /\ IntactAt(ds, q)
    BY <1>1 DEF ds
<1>3. /\ f \in Frames /\ L \in Nat \ {0} /\ q + L - 1 <= Len(ds)
      /\ \A k \in 1 .. L : ds[q + k - 1] = [of |-> f, at |-> k]
    BY <1>1, <1>2, IntactFrame
<1>4. CASE q + L - 1 <= Len(bs)
    <2>1. \A m \in q .. q + L - 1 : bs[m] = ds[m]
        <3> HIDE DEF L
        <3> QED
            BY <1>1, <1>3, <1>4
    <2> QED
        BY <1>1, <1>2, <1>4, <2>1, IntactStays DEF StopsAt
<1>5. CASE ~ (q + L - 1 <= Len(bs))
    <2> HIDE DEF f, L
    <2>1. q \in 1 .. Len(bs) + 1 /\ Len(bs) - q + 1 < L
        BY <1>1, <1>3, <1>5
    <2>2. ASSUME NEW k \in 1 .. Len(bs) - q + 1
          PROVE  bs[q + k - 1] = [of |-> f, at |-> k]
        <3>1. k \in 1 .. L /\ q + k - 1 \in 1 .. Len(bs)
            BY <1>1, <1>3, <2>1
        <3> QED
            BY <1>1, <1>3, <3>1
    <2>3. WaitsAt(bs, q)
        BY <1>3, <2>1, <2>2, ArrivingWaits DEF L
    <2> QED
        BY <2>3 DEF StopsAt
<1> QED
    BY <1>4, <1>5

LEMMA ArrivedStops ==
    ASSUME NEW bs \in Seq(Byte), NEW ds \in Seq(Byte), Len(bs) <= Len(ds),
           \A i \in 1 .. Len(bs) : ds[i] = bs[i],
           NEW f \in Frames, NEW n \in 0 .. Len(Encoded[f]) - 1, Arrived(ds, f, n),
           NEW j \in 1 .. Len(bs), j = Len(ds) - n + 1
    PROVE  /\ WaitsAt(bs, j)
           /\ bs[j] = [of |-> f, at |-> 1]
           /\ Len(bs) - j + 1 < Len(Encoded[f])
<1> DEFINE L == Len(Encoded[f])
<1>1. /\ Len(bs) \in Nat /\ Len(ds) \in Nat
      /\ Len(bs) <= Len(ds)
      /\ \A i \in 1 .. Len(bs) : ds[i] = bs[i]
    BY LenProperties
<1>2. j = Len(ds) - n + 1 /\ n <= Len(ds)
      /\ \A k \in 1 .. n : ds[Len(ds) - n + k] = [of |-> f, at |-> k]
    BY DEF Arrived
<1>3. L \in Nat \ {0} /\ n \in 0 .. L - 1
    BY EncodedTyped
<1> HIDE DEF L
<1>4. Len(bs) - j + 1 < L /\ j \in 1 .. Len(bs) + 1
    BY <1>1, <1>2, <1>3
<1>5. ASSUME NEW k \in 1 .. Len(bs) - j + 1
      PROVE  bs[j + k - 1] = [of |-> f, at |-> k]
    <2>1. Len(ds) - n = j - 1 /\ k \in Nat /\ n \in Nat /\ j \in Nat
        BY <1>1, <1>2, <1>3
    <2>2. Len(ds) - n + k = j + k - 1
        BY <1>1, <2>1
    <2>3. k \in 1 .. n /\ j + k - 1 \in 1 .. Len(bs)
        BY <1>1, <2>1
    <2> QED
        BY <1>1, <1>2, <2>2, <2>3
<1>6. WaitsAt(bs, j)
    BY <1>4, <1>5, ArrivingWaits DEF L
<1>7. bs[j] = [of |-> f, at |-> 1]
    <2>1. 1 \in 1 .. Len(bs) - j + 1 /\ j + 1 - 1 = j
        BY <1>1, <1>4
    <2>2. bs[j + 1 - 1] = [of |-> f, at |-> 1]
        BY <1>5, <2>1
    <2> QED
        BY <2>1, <2>2
<1> QED
    BY <1>4, <1>6, <1>7 DEF L

\* What is dropped from the front does not touch what arrived last.
LEMMA ArrivedFrom ==
    ASSUME NEW bs \in Seq(Byte), NEW d \in 0 .. Len(bs), NEW f, NEW n \in Nat,
           Arrived(bs, f, n), n <= Len(bs) - d
    PROVE  Arrived(From(bs, d + 1), f, n)
<1> DEFINE cs == From(bs, d + 1)
<1>1. /\ Len(cs) = Len(bs) - d /\ Len(bs) \in Nat
      /\ \A i \in 1 .. Len(bs) - d : cs[i] = bs[i + d]
    BY FromBytes, LenProperties
<1> HIDE DEF cs
<1>2. ASSUME NEW k \in 1 .. n
      PROVE  cs[Len(cs) - n + k] = [of |-> f, at |-> k]
    <2>1. bs[Len(bs) - n + k] = [of |-> f, at |-> k]
        BY DEF Arrived
    <2>2. /\ Len(cs) - n + k \in 1 .. Len(bs) - d
          /\ (Len(cs) - n + k) + d = Len(bs) - n + k
        BY <1>1
    <2> QED
        BY <1>1, <2>1, <2>2
<1>3. Arrived(cs, f, n)
    BY <1>1, <1>2 DEF Arrived
<1> QED
    BY <1>3 DEF cs

\* One more byte of the frame arrives.
LEMMA ArrivedAppend ==
    ASSUME NEW bs \in Seq(Byte), NEW f \in Frames, NEW n \in 0 .. Len(Encoded[f]) - 1,
           Arrived(bs, f, n)
    PROVE  Arrived(Append(bs, [of |-> f, at |-> n + 1]), f, n + 1)
<1> DEFINE b == [of |-> f, at |-> n + 1]
           cs == Append(bs, b)
<1>1. n \in Nat /\ b \in Byte
    <2>1. n + 1 \in 1 .. Len(Encoded[f])
        BY EncodedTyped
    <2>2. BytesOf(f)[n + 1] = b
        BY <2>1 DEF BytesOf
    <2> QED
        BY <2>1, <2>2 DEF Byte
<1> HIDE DEF b
<1>2. /\ Len(cs) = Len(bs) + 1 /\ Len(bs) \in Nat
      /\ \A i \in 1 .. Len(bs) : cs[i] = bs[i]
      /\ cs[Len(bs) + 1] = b
    BY <1>1, AppendProperties, LenProperties
<1> HIDE DEF cs
<1>3. n <= Len(bs) /\ \A k \in 1 .. n : bs[Len(bs) - n + k] = [of |-> f, at |-> k]
    BY DEF Arrived
<1>4. ASSUME NEW k \in 1 .. n + 1
      PROVE  cs[Len(cs) - (n + 1) + k] = [of |-> f, at |-> k]
    <2>1. Len(cs) - (n + 1) + k = Len(bs) - n + k
        BY <1>1, <1>2
    <2>2. CASE k = n + 1
        <3>1. Len(bs) - n + k = Len(bs) + 1
            BY <1>1, <1>2, <2>2
        <3> QED
            BY <1>2, <2>1, <2>2, <3>1 DEF b
    <2>3. CASE k # n + 1
        <3>1. k \in 1 .. n /\ Len(bs) - n + k \in 1 .. Len(bs)
            BY <1>1, <1>2, <1>3, <2>3
        <3> QED
            BY <1>2, <1>3, <2>1, <3>1
    <2> QED
        BY <2>2, <2>3
<1>5. n + 1 <= Len(cs)
    BY <1>1, <1>2, <1>3
<1>6. Arrived(cs, f, n + 1)
    BY <1>4, <1>5 DEF Arrived
<1> QED
    BY <1>6 DEF cs, b

\* One call of next_frame: it drops no frame but the one it returns, and nothing of
\* the frame that is arriving.
LEMMA DecodeKeeps ==
    ASSUME TypeOK, Decode
    PROVE  /\ \A f \in Frames : \A n \in 0 .. Len(Encoded[f]) - 1 :
                  Arrived(buffer \o fifo, f, n) => Arrived(buffer' \o fifo', f, n)
           /\ \/ /\ held' = NoFrame
                 /\ FramesIn(buffer' \o fifo') = FramesIn(buffer \o fifo)
              \/ /\ held' \in Frames
                 /\ FramesIn(buffer \o fifo) = <<held'>> \o FramesIn(buffer' \o fifo')
<1> DEFINE ds == buffer \o fifo
           i == Front(buffer)
<1>1. buffer \in Seq(Byte) /\ fifo \in Seq(Byte) /\ Len(buffer) \in Nat /\ held = NoFrame
    BY LenProperties DEF TypeOK, Decode
<1>2. /\ ds \in Seq(Byte) /\ Len(ds) \in Nat /\ Len(buffer) <= Len(ds)
      /\ \A j \in 1 .. Len(buffer) : ds[j] = buffer[j]
    BY <1>1, ConcatProperties, LenProperties
<1>3. /\ i \in 1 .. Len(buffer) + 1 /\ StopsAt(buffer, i)
      /\ \A j \in 1 .. i - 1 : ~ StopsAt(buffer, j)
    BY <1>1, FrontDef
<1>4. /\ fifo' = fifo
      /\ IF WaitsAt(buffer, i)
         THEN buffer' = From(buffer, i) /\ held' = held
         ELSE buffer' = From(buffer, i + FrameLen(buffer, i)) /\ held' = buffer[i].of
    BY DEF Decode
<1>5. \A q \in 1 .. i - 1 : ~ IntactAt(ds, q)
    <2> SUFFICES ASSUME NEW q \in 1 .. i - 1, IntactAt(ds, q) PROVE FALSE
        OBVIOUS
    <2>1. q \in 1 .. Len(buffer)
        BY <1>1, <1>3
    <2>2. StopsAt(buffer, q)
        BY <1>1, <2>1, FrameStops
    <2> QED
        BY <1>3, <2>2
<1> HIDE DEF ds, i
\* The frame that arrives begins at the front, or behind it.
<1>6. ASSUME NEW f \in Frames, NEW n \in 0 .. Len(Encoded[f]) - 1, Arrived(ds, f, n)
      PROVE  LET j == Len(ds) - n + 1
             IN  /\ j \in Nat /\ i <= j /\ n \in Nat /\ n <= Len(ds)
                 /\ j <= Len(buffer) => /\ WaitsAt(buffer, j)
                                        /\ buffer[j] = [of |-> f, at |-> 1]
    <2> DEFINE j == Len(ds) - n + 1
    <2>1. n \in Nat /\ n <= Len(ds) /\ j \in Nat \ {0} /\ j = Len(ds) - n + 1
        BY <1>2, <1>6, EncodedTyped DEF Arrived
    <2> HIDE DEF j
    <2>2. ASSUME j <= Len(buffer)
          PROVE  WaitsAt(buffer, j) /\ buffer[j] = [of |-> f, at |-> 1]
        <3>1. j \in 1 .. Len(buffer)
            BY <1>1, <2>1, <2>2
        <3> QED
            BY <1>1, <1>2, <1>6, <2>1, <3>1, ArrivedStops
    <2>3. i <= j
        <3>1. CASE j <= Len(buffer)
            <4>1. StopsAt(buffer, j)
                BY <2>2, <3>1 DEF StopsAt
            <4>2. j \notin 1 .. i - 1
                BY <1>3, <4>1
            <4> QED
                BY <1>1, <1>3, <2>1, <4>2
        <3>2. CASE ~ (j <= Len(buffer))
            BY <1>1, <1>3, <2>1, <3>2
        <3> QED
            BY <3>1, <3>2
    <2> QED
        BY <2>1, <2>2, <2>3 DEF j
<1>7. CASE WaitsAt(buffer, i)
    <2>1. PICK d \in 0 .. Len(buffer) : i = d + 1
        <3>1. i - 1 \in 0 .. Len(buffer) /\ i = (i - 1) + 1
            BY <1>1, <1>3
        <3> QED
            BY <3>1
    <2>2. buffer' \o fifo' = From(ds, d + 1)
        BY <1>1, <1>4, <1>7, <2>1, FromConcat DEF ds
    <2>3. d \in 0 .. Len(ds) /\ i \in 1 .. Len(ds) + 1
        BY <1>1, <1>2, <1>3, <2>1
    <2>4. FramesIn(From(ds, d + 1)) = FramesIn(ds)
        BY <1>2, <1>5, <2>1, <2>3, NoFrameDropped
    <2>5. ASSUME NEW f \in Frames, NEW n \in 0 .. Len(Encoded[f]) - 1, Arrived(ds, f, n)
          PROVE  Arrived(From(ds, d + 1), f, n)
        <3>1. n \in Nat /\ i <= Len(ds) - n + 1
            BY <1>6, <2>5
        <3>2. n <= Len(ds) - d
            BY <1>2, <2>1, <2>3, <3>1
        <3> QED
            BY <1>2, <2>3, <2>5, <3>1, <3>2, ArrivedFrom
    <2> QED
        BY <1>1, <1>4, <1>7, <2>2, <2>4, <2>5 DEF ds
<1>8. CASE ~ WaitsAt(buffer, i)
    <2> DEFINE f == buffer[i].of
               L == Len(Encoded[f])
    <2>1. IntactAt(buffer, i) /\ i \in 1 .. Len(buffer)
        BY <1>1, <1>3, <1>8 DEF StopsAt, WaitsAt
    <2>2. /\ f \in Frames /\ L \in Nat \ {0} /\ i + L <= Len(buffer) + 1
          /\ buffer' = From(buffer, i + L) /\ held' = f
        BY <1>1, <1>3, <1>4, <1>8, <2>1, IntactTyped
    <2>3. \A k \in 1 .. L : buffer[i + k - 1] = [of |-> f, at |-> k]
        BY <1>1, <2>1, IntactFrame
    <2>4. IntactAt(ds, i) /\ ds[i].of = f /\ i \in 1 .. Len(ds)
        <3>1. i + L - 1 <= Len(ds) /\ \A m \in i .. i + L - 1 : ds[m] = buffer[m]
            <4> HIDE DEF L
            <4> QED
                BY <1>1, <1>2, <2>1, <2>2
        <3> QED
            BY <1>1, <1>2, <2>1, <3>1, IntactStays
    <2> HIDE DEF f, L
    <2>5. PICK d \in 0 .. Len(ds) : i = d + 1
        <3>1. i - 1 \in 0 .. Len(ds) /\ i = (i - 1) + 1
            BY <1>2, <2>4
        <3> QED
            BY <3>1
    <2>6. /\ d + L \in 0 .. Len(buffer) /\ d + L \in 0 .. Len(ds)
          /\ L \in 0 .. Len(ds) - d
          /\ i + L = (d + L) + 1
        BY <1>1, <1>2, <2>1, <2>2, <2>5
    <2>7. buffer' \o fifo' = From(ds, (d + L) + 1)
        BY <1>1, <1>4, <2>2, <2>6, FromConcat DEF ds
    <2>8. FramesIn(ds) = <<f>> \o FramesIn(From(ds, (d + L) + 1))
        <3> DEFINE cs == From(ds, d + 1)
        <3>1. i \in 1 .. Len(ds) + 1
            BY <1>2, <2>4
        <3>2. FramesIn(cs) = FramesIn(ds)
            BY <1>2, <1>5, <2>5, <3>1, NoFrameDropped
        <3>3. cs \in Seq(Byte)
            BY <1>2, <2>5, FromBytes
        <3>4. i \in Places(ds) /\ i > d /\ i - d = 1 /\ d \in Nat /\ 1 + d = i
            BY <2>4, <2>5 DEF Places
        <3>5. 1 \in Places(cs) /\ cs[1].of = f
            <4>1. i - d \in Places(cs)
                BY <1>2, <2>5, <3>4, PlacesFrom
            <4>2. 1 \in Places(cs)
                BY <3>4, <4>1
            <4>3. ds[1 + d].of = cs[1].of
                BY <1>2, <2>5, <4>2, PlacesFrom
            <4> QED
                BY <2>4, <3>4, <4>2, <4>3
        <3> HIDE DEF cs
        <3>6. FramesIn(cs) = <<f>> \o FramesIn(From(cs, L + 1))
            BY <3>3, <3>5, FirstFrameTaken DEF L
        <3>7. From(cs, L + 1) = From(ds, (d + L) + 1)
            BY <1>2, <2>5, <2>6, FromFrom DEF cs
        <3> QED
            BY <3>2, <3>6, <3>7
    <2>9. ASSUME NEW g \in Frames, NEW n \in 0 .. Len(Encoded[g]) - 1, Arrived(ds, g, n)
          PROVE  Arrived(From(ds, (d + L) + 1), g, n)
        <3> DEFINE j == Len(ds) - n + 1
        <3>1. /\ j \in Nat /\ i <= j /\ n \in Nat /\ n <= Len(ds)
              /\ j <= Len(buffer) => /\ WaitsAt(buffer, j)
                                     /\ buffer[j] = [of |-> g, at |-> 1]
              /\ j = Len(ds) - n + 1
            BY <1>6, <2>9
        <3> HIDE DEF j
        <3>2. i + L <= j
            <4> SUFFICES ASSUME j < i + L PROVE FALSE
                BY <2>1, <2>2, <3>1
            <4>1. j <= Len(buffer)
                BY <1>1, <2>1, <2>2, <3>1
            <4>2. j # i
                BY <1>8, <3>1, <4>1
            <4>3. j - i + 1 \in 1 .. L /\ i + (j - i + 1) - 1 = j /\ j - i + 1 # 1
                BY <2>1, <2>2, <3>1, <4>2
            <4>4. buffer[i + (j - i + 1) - 1] = [of |-> f, at |-> j - i + 1]
                BY <2>3, <4>3
            <4>5. buffer[j].at = j - i + 1 /\ buffer[j].at = 1
                BY <3>1, <4>1, <4>3, <4>4
            <4> QED
                BY <4>3, <4>5
        <3>3. n <= Len(ds) - (d + L)
            BY <1>2, <2>2, <2>5, <3>1, <3>2
        <3> QED
            BY <1>2, <2>6, <2>9, <3>1, <3>3, ArrivedFrom
    <2> QED
        BY <2>2, <2>7, <2>8, <2>9 DEF ds
<1> QED
    BY <1>7, <1>8
-----------------------------------------------------------------------------
(***************************************************************************)
(* The receive path implements FrameChannel.                               *)
(***************************************************************************)

\* The frame on the line, the frames out of the decoder, and those in the channel.
OnLine == IF line = <<>> THEN NoFrame ELSE line[1].of
Decoded == rx_frames \o (IF held = NoFrame THEN <<>> ELSE <<held>>)
InChannel == Decoded \o FramesIn(buffer \o fifo)

\* What is still to come of a frame follows what has arrived of it.
LineInv ==
    line # <<>> =>
        \E f \in Frames : \E n \in 1 .. Len(Encoded[f]) - 1 :
            /\ line = From(BytesOf(f), n + 1)
            /\ whole => Arrived(buffer \o fifo, f, n)

\* An overrun was of a full FIFO, and damaged the frame on the line.
OverrunInv ==
    overrun => Len(fifo) = FifoLen /\ (line # <<>> => ~whole)

StreamInv == RxInv /\ LineInv /\ OverrunInv

\* A frame has more than one byte.
LEMMA FrameLong ==
    ASSUME NEW f \in Frames
    PROVE  Len(Encoded[f]) \in Nat /\ Len(Encoded[f]) > 1
<1> DEFINE v == Encoded[f][HeaderLen]
<1>1. v \in Nat /\ Len(Encoded[f]) = HeaderLen + v + CrcLen
    BY EncodedTyped, LayoutAssumption
<1> HIDE DEF v
<1> QED
    BY <1>1, LayoutAssumption

\* The bytes of frame f after the first n.
LEMMA RestOfFrame ==
    ASSUME NEW f \in Frames, NEW n \in 0 .. Len(Encoded[f]) - 1
    PROVE  LET bytes == From(BytesOf(f), n + 1)
           IN  /\ bytes \in Seq(Byte) /\ bytes # <<>>
               /\ Head(bytes) = [of |-> f, at |-> n + 1]
               /\ bytes[1].of = f
               /\ Tail(bytes) = From(BytesOf(f), (n + 1) + 1)
               /\ Tail(bytes) = <<>> <=> n + 1 = Len(Encoded[f])
<1> DEFINE L == Len(Encoded[f])
           all == BytesOf(f)
           bytes == From(all, n + 1)
           rest == From(all, (n + 1) + 1)
<1>1. /\ all \in Seq(Byte) /\ Len(all) = L /\ L \in Nat \ {0}
      /\ \A k \in 1 .. L : all[k] = [of |-> f, at |-> k]
    BY BytesOfTyped, EncodedTyped DEF BytesOf
<1> HIDE DEF all, L
<1>2. n \in 0 .. Len(all) /\ n + 1 \in 0 .. Len(all) /\ n \in Nat /\ n + 1 <= L
    BY <1>1 DEF L
<1>3. /\ bytes \in Seq(Byte) /\ Len(bytes) = Len(all) - n
      /\ \A i \in 1 .. Len(all) - n : bytes[i] = all[i + n]
    BY <1>1, <1>2, FromBytes
<1>4. /\ rest \in Seq(Byte) /\ Len(rest) = Len(all) - (n + 1)
      /\ \A i \in 1 .. Len(all) - (n + 1) : rest[i] = all[i + (n + 1)]
    BY <1>1, <1>2, FromBytes
<1> HIDE DEF bytes, rest
<1>5. bytes # <<>>
    BY <1>1, <1>2, <1>3
<1>6. bytes[1] = [of |-> f, at |-> n + 1]
    <2>1. 1 \in 1 .. Len(all) - n /\ 1 + n = n + 1 /\ n + 1 \in 1 .. L
        BY <1>1, <1>2
    <2> QED
        BY <1>1, <1>3, <2>1
<1>7. Head(bytes) = bytes[1]
    BY <1>3, <1>5
<1>8. Tail(bytes) = rest
    <2> DEFINE t == Tail(bytes)
    <2>1. /\ t \in Seq(Byte) /\ Len(t) = Len(bytes) - 1
          /\ \A i \in 1 .. Len(t) : t[i] = bytes[i + 1]
        BY <1>3, <1>5, HeadTailProperties
    <2> HIDE DEF t
    <2>2. Len(t) = Len(rest)
        BY <1>1, <1>2, <1>3, <1>4, <2>1
    <2>3. ASSUME NEW i \in 1 .. Len(t)
          PROVE  t[i] = rest[i]
        <3>1. /\ i + 1 \in 1 .. Len(all) - n /\ i \in 1 .. Len(all) - (n + 1)
              /\ (i + 1) + n = i + (n + 1)
            BY <1>1, <1>2, <1>3, <2>1
        <3> QED
            BY <1>3, <1>4, <2>1, <3>1
    <2>4. t = rest
        BY <1>4, <2>1, <2>2, <2>3, SeqEqual
    <2> QED
        BY <2>4 DEF t
<1>9. rest = <<>> <=> n + 1 = L
    <2>1. rest = <<>> <=> Len(rest) = 0
        BY <1>4, EmptySeq
    <2> QED
        BY <1>1, <1>2, <1>4, <2>1
<1>10. /\ bytes \in Seq(Byte) /\ bytes # <<>>
       /\ Head(bytes) = [of |-> f, at |-> n + 1]
       /\ bytes[1].of = f
       /\ Tail(bytes) = rest
       /\ Tail(bytes) = <<>> <=> n + 1 = L
    <2>1. bytes[1].of = f
        BY <1>6
    <2>2. Head(bytes) = [of |-> f, at |-> n + 1]
        BY <1>6, <1>7
    <2>3. Tail(bytes) = <<>> <=> n + 1 = L
        BY <1>8, <1>9
    <2> QED
        BY <1>3, <1>5, <1>8, <2>1, <2>2, <2>3
<1> QED
    BY <1>10, Zenon DEF bytes, rest, all, L

\* The byte that passes is the next of the frame on the line, or the first of another.
LEMMA ByteComes ==
    ASSUME StreamInv, NEW good \in BOOLEAN, BytePasses(good)
    PROVE  \E f \in Frames : \E n \in 0 .. Len(Encoded[f]) - 1 :
               /\ line = <<>> <=> n = 0
               /\ OnLine = IF n = 0 THEN NoFrame ELSE f
               /\ line' = From(BytesOf(f), (n + 1) + 1)
               /\ line' = <<>> <=> n + 1 = Len(Encoded[f])
               /\ OnLine' = IF n + 1 = Len(Encoded[f]) THEN NoFrame ELSE f
               /\ (line = <<>> \/ whole) => Arrived(buffer \o fifo, f, n)
               /\ whole' = (good /\ (line # <<>> => whole))
               /\ good => fifo' = Append(fifo, [of |-> f, at |-> n + 1])
<1>1. PICK bytes \in Coming :
          /\ line' = Tail(bytes)
          /\ whole' = (good /\ (line # <<>> => whole))
          /\ good => fifo' = Append(fifo, Head(bytes))
    BY DEF BytePasses
<1>2. \E f \in Frames : \E n \in 0 .. Len(Encoded[f]) - 1 :
          /\ bytes = From(BytesOf(f), n + 1)
          /\ line = <<>> <=> n = 0
          /\ line # <<>> => line = bytes
          /\ (line = <<>> \/ whole) => Arrived(buffer \o fifo, f, n)
    <2>1. CASE line = <<>>
        <3>1. PICK f \in Frames : bytes = BytesOf(f)
            BY <2>1 DEF Coming
        <3>2. From(BytesOf(f), 0 + 1) = BytesOf(f)
            BY BytesOfTyped, SubSeqFull DEF From
        <3>3. buffer \o fifo \in Seq(Byte)
            BY ConcatProperties DEF StreamInv, RxInv, TypeOK
        <3>4. Arrived(buffer \o fifo, f, 0)
            BY <3>3, LenProperties DEF Arrived
        <3>5. 0 \in 0 .. Len(Encoded[f]) - 1
            BY FrameLong
        <3> QED
            BY <2>1, <3>1, <3>2, <3>4, <3>5
    <2>2. CASE line # <<>>
        <3>1. bytes = line
            BY <2>2 DEF Coming
        <3>2. PICK f \in Frames : \E n \in 1 .. Len(Encoded[f]) - 1 :
                  /\ line = From(BytesOf(f), n + 1)
                  /\ whole => Arrived(buffer \o fifo, f, n)
            BY <2>2 DEF StreamInv, LineInv
        <3>3. PICK n \in 1 .. Len(Encoded[f]) - 1 :
                  /\ line = From(BytesOf(f), n + 1)
                  /\ whole => Arrived(buffer \o fifo, f, n)
            BY <3>2
        <3>4. n \in 0 .. Len(Encoded[f]) - 1 /\ n # 0
            BY FrameLong
        <3> QED
            BY <2>2, <3>1, <3>3, <3>4
    <2> QED
        BY <2>1, <2>2
<1>3. PICK f \in Frames : \E n \in 0 .. Len(Encoded[f]) - 1 :
          /\ bytes = From(BytesOf(f), n + 1)
          /\ line = <<>> <=> n = 0
          /\ line # <<>> => line = bytes
          /\ (line = <<>> \/ whole) => Arrived(buffer \o fifo, f, n)
    BY <1>2
<1>4. PICK n \in 0 .. Len(Encoded[f]) - 1 :
          /\ bytes = From(BytesOf(f), n + 1)
          /\ line = <<>> <=> n = 0
          /\ line # <<>> => line = bytes
          /\ (line = <<>> \/ whole) => Arrived(buffer \o fifo, f, n)
    BY <1>3
<1>5. /\ Head(bytes) = [of |-> f, at |-> n + 1]
      /\ bytes[1].of = f
      /\ Tail(bytes) = From(BytesOf(f), (n + 1) + 1)
      /\ Tail(bytes) = <<>> <=> n + 1 = Len(Encoded[f])
    BY <1>4, RestOfFrame
<1>6. OnLine = IF n = 0 THEN NoFrame ELSE f
    BY <1>4, <1>5 DEF OnLine
<1>7. line' = <<>> <=> n + 1 = Len(Encoded[f])
    BY <1>1, <1>5
<1>8. line' # <<>> => line'[1].of = f
    <2> SUFFICES ASSUME line' # <<>> PROVE line'[1].of = f
        OBVIOUS
    <2>1. PICK m \in 0 .. Len(Encoded[f]) - 1 : m = n + 1
        <3>1. n + 1 \in 0 .. Len(Encoded[f]) - 1
            BY <1>7, FrameLong
        <3> QED
            BY <3>1
    <2>2. From(BytesOf(f), m + 1)[1].of = f
        BY RestOfFrame
    <2>3. line' = From(BytesOf(f), m + 1)
        BY <1>1, <1>5, <2>1
    <2> QED
        BY <2>2, <2>3
<1>9. OnLine' = IF n + 1 = Len(Encoded[f]) THEN NoFrame ELSE f
    BY <1>7, <1>8 DEF OnLine, NoFrame
<1> QED
    BY <1>1, <1>4, <1>5, <1>6, <1>7, <1>9

\* Frames in the decoder, and in the channel.
LEMMA ChannelTyped ==
    ASSUME TypeOK
    PROVE  /\ buffer \o fifo \in Seq(Byte)
           /\ FramesIn(buffer \o fifo) \in Seq(Frames)
           /\ Decoded \in Seq(Frames)
           /\ InChannel \in Seq(Frames)
<1>1. buffer \o fifo \in Seq(Byte)
    BY ConcatProperties DEF TypeOK
<1>2. FramesIn(buffer \o fifo) \in Seq(Frames)
    BY <1>1, PlacesTyped, FramesInIs
<1>3. Decoded \in Seq(Frames)
    <2> DEFINE h == IF held = NoFrame THEN <<>> ELSE <<held>>
    <2>1. h \in Seq(Frames)
        BY DEF TypeOK
    <2> HIDE DEF h
    <2>2. rx_frames \o h \in Seq(Frames)
        BY <2>1, ConcatProperties DEF TypeOK
    <2> QED
        BY <2>2 DEF Decoded, h
<1> QED
    BY <1>1, <1>2, <1>3, ConcatProperties DEF InChannel

\* A frame behind the last.
LEMMA AppendConcat ==
    ASSUME NEW S, NEW s \in Seq(S), NEW t \in Seq(S), NEW e \in S
    PROVE  s \o Append(t, e) = Append(s \o t, e)
<1> DEFINE h == <<e>>
<1>1. h \in Seq(S) /\ s \o t \in Seq(S)
    BY ConcatProperties
<1>2. Append(t, e) = t \o h /\ Append(s \o t, e) = (s \o t) \o h
    BY <1>1, AppendIsConcat
<1> HIDE DEF h
<1> QED
    BY <1>1, <1>2, ConcatAssociative

\* The first of some frames and then of others.
LEMMA TailOfConcat ==
    ASSUME NEW S, NEW s \in Seq(S), NEW t \in Seq(S), s # <<>>
    PROVE  /\ s \o t \in Seq(S) /\ s \o t # <<>>
           /\ Tail(s \o t) = Tail(s) \o t
<1> DEFINE u == s \o t
           r == Tail(s)
           v == r \o t
           w == Tail(u)
<1>1. /\ u \in Seq(S) /\ Len(u) = Len(s) + Len(t)
      /\ \A i \in 1 .. Len(s) + Len(t) :
            u[i] = IF i <= Len(s) THEN s[i] ELSE t[i - Len(s)]
    BY ConcatProperties
<1>2. /\ r \in Seq(S) /\ Len(r) = Len(s) - 1
      /\ \A i \in 1 .. Len(r) : r[i] = s[i + 1]
      /\ Len(s) \in Nat \ {0} /\ Len(t) \in Nat
    BY HeadTailProperties, LenProperties, EmptySeq
<1> HIDE DEF u, r
<1>3. u # <<>>
    BY <1>1, <1>2, EmptySeq
<1>4. /\ v \in Seq(S) /\ Len(v) = Len(r) + Len(t)
      /\ \A i \in 1 .. Len(r) + Len(t) :
            v[i] = IF i <= Len(r) THEN r[i] ELSE t[i - Len(r)]
    BY <1>2, ConcatProperties
<1>5. /\ w \in Seq(S) /\ Len(w) = Len(u) - 1
      /\ \A i \in 1 .. Len(w) : w[i] = u[i + 1]
    BY <1>1, <1>3, HeadTailProperties
<1> HIDE DEF v, w
<1>6. Len(w) = Len(v) /\ Len(w) \in Nat
    BY <1>1, <1>2, <1>4, <1>5
<1>7. ASSUME NEW i \in 1 .. Len(w)
      PROVE  w[i] = v[i]
    <2>1. /\ i + 1 \in 1 .. Len(s) + Len(t) /\ i \in 1 .. Len(r) + Len(t)
          /\ (i + 1) - Len(s) = i - Len(r)
        BY <1>1, <1>2, <1>5
    <2>2. CASE i <= Len(r)
        <3>1. i + 1 <= Len(s) /\ i \in 1 .. Len(r)
            BY <1>2, <2>2
        <3> QED
            BY <1>1, <1>2, <1>4, <1>5, <2>1, <2>2, <3>1
    <2>3. CASE ~ (i <= Len(r))
        <3>1. ~ (i + 1 <= Len(s))
            BY <1>2, <2>3
        <3>2. w[i] = t[(i + 1) - Len(s)]
            BY <1>1, <1>5, <2>1, <3>1
        <3>3. v[i] = t[i - Len(r)]
            BY <1>4, <2>1, <2>3
        <3> QED
            BY <2>1, <3>2, <3>3
    <2> QED
        BY <2>2, <2>3
<1>8. w = v
    BY <1>4, <1>5, <1>6, <1>7, SeqEqual
<1> QED
    BY <1>1, <1>3, <1>8 DEF u, r, v, w

\* All of some frames and the first of others.
LEMMA PrefixOfConcat ==
    ASSUME NEW S, NEW s \in Seq(S), NEW t \in Seq(S), NEW n \in 0 .. Len(t)
    PROVE  /\ Len(s) + n \in 0 .. Len(s \o t)
           /\ s \o SubSeq(t, 1, n) = SubSeq(s \o t, 1, Len(s) + n)
<1> DEFINE u == s \o t
           m == Len(s) + n
           p == SubSeq(t, 1, n)
           v == s \o p
           w == SubSeq(u, 1, m)
<1>1. /\ u \in Seq(S) /\ Len(u) = Len(s) + Len(t) /\ Len(s) \in Nat /\ Len(t) \in Nat
      /\ \A i \in 1 .. Len(s) + Len(t) :
            u[i] = IF i <= Len(s) THEN s[i] ELSE t[i - Len(s)]
    BY ConcatProperties, LenProperties
<1> HIDE DEF u
<1>2. m \in 0 .. Len(u) /\ m \in Int /\ n \in Int /\ 1 \in Int /\ m = Len(s) + n
    BY <1>1
<1>3. /\ p \in Seq(S) /\ Len(p) = n
      /\ \A i \in 1 .. n : p[i] = t[i]
    <2>1. \A i \in 1 .. n : t[i] \in S
        BY <1>1, ElementOfSeq
    <2>2. /\ p \in Seq(S) /\ Len(p) = IF 1 <= n THEN n - 1 + 1 ELSE 0
          /\ \A i \in 1 .. n - 1 + 1 : p[i] = t[1 + i - 1]
        BY <1>2, <2>1, SubSeqProperties
    <2> HIDE DEF p
    <2>3. n - 1 + 1 = n /\ \A i \in 1 .. n : 1 + i - 1 = i
        OBVIOUS
    <2> QED
        BY <1>1, <2>2, <2>3
<1> HIDE DEF m, p
<1>4. /\ w \in Seq(S) /\ Len(w) = m
      /\ \A i \in 1 .. m : w[i] = u[i]
    <2>1. \A i \in 1 .. m : u[i] \in S
        BY <1>1, <1>2, ElementOfSeq
    <2>2. /\ w \in Seq(S) /\ Len(w) = IF 1 <= m THEN m - 1 + 1 ELSE 0
          /\ \A i \in 1 .. m - 1 + 1 : w[i] = u[1 + i - 1]
        BY <1>2, <2>1, SubSeqProperties
    <2> HIDE DEF w
    <2>3. m - 1 + 1 = m /\ \A i \in 1 .. m : 1 + i - 1 = i
        BY <1>2
    <2> QED
        BY <1>1, <1>2, <2>2, <2>3
<1>5. /\ v \in Seq(S) /\ Len(v) = Len(s) + n
      /\ \A i \in 1 .. Len(s) + n : v[i] = IF i <= Len(s) THEN s[i] ELSE p[i - Len(s)]
    BY <1>3, ConcatProperties
<1> HIDE DEF v, w
<1>6. ASSUME NEW i \in 1 .. Len(v)
      PROVE  v[i] = w[i]
    <2>1. /\ i \in 1 .. m /\ i \in 1 .. Len(s) + Len(t) /\ i \in 1 .. Len(s) + n
          /\ w[i] = u[i]
        BY <1>1, <1>2, <1>4, <1>5
    <2>2. CASE i <= Len(s)
        BY <1>1, <1>5, <2>1, <2>2
    <2>3. CASE ~ (i <= Len(s))
        <3>1. i - Len(s) \in 1 .. n
            BY <1>1, <1>2, <2>1, <2>3
        <3> QED
            BY <1>1, <1>3, <1>5, <2>1, <2>3, <3>1
    <2> QED
        BY <2>2, <2>3
<1>7. v = w
    BY <1>2, <1>4, <1>5, <1>6, SeqEqual
<1> QED
    BY <1>2, <1>7 DEF u, m, p, v, w

\* What FrameChannel sees.
LEMMA Mapped ==
    ASSUME OnLine' = OnLine, whole' = whole, overrun' = overrun, InChannel' = InChannel
    PROVE  UNCHANGED Channel!vars
    BY DEF Channel!vars, OnLine, InChannel, Decoded

LEMMA StepByteArrives ==
    ASSUME StreamInv, ByteArrives
    PROVE  LineInv' /\ OverrunInv' /\ [Channel!Next]_Channel!vars
<1> DEFINE ds == buffer \o fifo
<1>1. /\ TypeOK /\ BytePasses(TRUE)
      /\ Len(fifo) < FifoLen /\ whole \in BOOLEAN
      /\ fifo \in Seq(Byte) /\ buffer \in Seq(Byte) /\ ds \in Seq(Byte)
      /\ UNCHANGED <<overrun, buffer, held, rx_frames>>
    BY ChannelTyped DEF ByteArrives, StreamInv, RxInv, TypeOK
<1>2. PICK f \in Frames : \E n \in 0 .. Len(Encoded[f]) - 1 :
          /\ line = <<>> <=> n = 0
          /\ OnLine = IF n = 0 THEN NoFrame ELSE f
          /\ line' = From(BytesOf(f), (n + 1) + 1)
          /\ line' = <<>> <=> n + 1 = Len(Encoded[f])
          /\ OnLine' = IF n + 1 = Len(Encoded[f]) THEN NoFrame ELSE f
          /\ (line = <<>> \/ whole) => Arrived(ds, f, n)
          /\ whole' = (line # <<>> => whole)
          /\ fifo' = Append(fifo, [of |-> f, at |-> n + 1])
    BY <1>1, ByteComes
<1> DEFINE L == Len(Encoded[f])
<1>3. PICK n \in 0 .. L - 1 :
          /\ line = <<>> <=> n = 0
          /\ OnLine = IF n = 0 THEN NoFrame ELSE f
          /\ line' = From(BytesOf(f), (n + 1) + 1)
          /\ line' = <<>> <=> n + 1 = L
          /\ OnLine' = IF n + 1 = L THEN NoFrame ELSE f
          /\ (line = <<>> \/ whole) => Arrived(ds, f, n)
          /\ whole' = (line # <<>> => whole)
          /\ fifo' = Append(fifo, [of |-> f, at |-> n + 1])
    BY <1>2
<1> DEFINE b == [of |-> f, at |-> n + 1]
<1>4. /\ L \in Nat /\ L > 1 /\ n \in Nat /\ n + 1 \in 1 .. L
      /\ b \in Byte /\ b.of = f /\ b.at = n + 1 /\ f # NoFrame
    <2>1. L \in Nat /\ L > 1
        BY FrameLong
    <2>2. n \in Nat /\ n + 1 \in 1 .. L
        BY <2>1
    <2>3. BytesOf(f)[n + 1] = b
        BY <2>2 DEF BytesOf
    <2> QED
        BY <2>1, <2>2, <2>3, LayoutAssumption DEF Byte, NoFrame
<1> HIDE DEF b
<1>5. buffer' \o fifo' = Append(ds, b)
    BY <1>1, <1>3, <1>4, AppendConcat DEF b
<1> HIDE DEF ds
<1>6. LineInv'
    <2> SUFFICES ASSUME line' # <<>>
                 PROVE  \E g \in Frames : \E m \in 1 .. Len(Encoded[g]) - 1 :
                            /\ line' = From(BytesOf(g), m + 1)
                            /\ whole' => Arrived(buffer' \o fifo', g, m)
        BY DEF LineInv
    <2>1. n + 1 \in 1 .. L - 1
        BY <1>3, <1>4
    <2>2. whole' => Arrived(buffer' \o fifo', f, n + 1)
        BY <1>1, <1>3, <1>5, ArrivedAppend DEF b
    <2> QED
        BY <1>3, <2>1, <2>2
<1>7. OverrunInv'
    <2>1. ~ overrun
        BY <1>1, LenProperties, LayoutAssumption DEF StreamInv, OverrunInv
    <2> QED
        BY <1>1, <2>1 DEF OverrunInv
<1>8. Decoded' = Decoded
    BY <1>1 DEF Decoded
<1>9. [Channel!Next]_Channel!vars
    <2>1. CASE n + 1 = L /\ Arrived(ds, f, n)
        <3>1. FramesIn(buffer' \o fifo') = Append(FramesIn(ds), f)
            <4>1. n = L - 1
                BY <1>4, <2>1
            <4> QED
                BY <1>1, <1>5, <2>1, <4>1, FrameCompleted DEF b
        <3>2. InChannel' = Append(InChannel, f)
            <4>1. InChannel' = Decoded \o Append(FramesIn(ds), f)
                BY <1>8, <3>1 DEF InChannel
            <4> QED
                BY <1>1, <4>1, ChannelTyped, AppendConcat DEF InChannel, ds
        <3>3. line # <<>> /\ OnLine = f /\ OnLine' = NoFrame /\ whole' = whole
            BY <1>1, <1>3, <1>4, <2>1
        <3>4. CASE whole
            <4>1. Channel!Complete
                BY <1>1, <1>4, <3>2, <3>3, <3>4
                   DEF Channel!Complete, OnLine, InChannel, Decoded
            <4> QED
                BY <4>1 DEF Channel!Next
        <3>5. CASE ~ whole
            <4>1. Channel!CompleteDamaged
                BY <1>1, <1>4, <3>2, <3>3, <3>5
                   DEF Channel!CompleteDamaged, Channel!MayOverrun, OnLine, InChannel,
                       Decoded
            <4> QED
                BY <4>1 DEF Channel!Next
        <3> QED
            BY <3>4, <3>5
    <2>2. CASE ~ (n + 1 = L /\ Arrived(ds, f, n))
        <3>1. FramesIn(buffer' \o fifo') = FramesIn(ds)
            <4>1. ~ (/\ b.at = Len(Encoded[b.of])
                     /\ Arrived(ds, b.of, Len(Encoded[b.of]) - 1))
                <5>1. n + 1 = L => n = L - 1
                    BY <1>4
                <5> QED
                    BY <1>4, <2>2, <5>1
            <4> QED
                BY <1>1, <1>4, <1>5, <4>1, NothingCompleted
        <3>2. InChannel' = InChannel
            BY <1>8, <3>1 DEF InChannel, ds
        <3>3. CASE n + 1 = L
            <4>1. /\ line # <<>> /\ ~ whole /\ whole' = FALSE
                  /\ OnLine = f /\ OnLine' = NoFrame
                BY <1>1, <1>3, <1>4, <2>2, <3>3
            <4>2. Channel!CompleteDamaged
                BY <1>1, <1>4, <3>2, <4>1
                   DEF Channel!CompleteDamaged, Channel!MayOverrun, OnLine, InChannel,
                       Decoded
            <4> QED
                BY <4>2 DEF Channel!Next
        <3>4. CASE n + 1 # L /\ n = 0
            <4>1. OnLine = NoFrame /\ OnLine' = f /\ whole' \in BOOLEAN
                BY <1>3, <3>4
            <4>2. Channel!Begin(f)
                BY <1>1, <3>2, <4>1
                   DEF Channel!Begin, Channel!MayOverrun, OnLine, InChannel, Decoded
            <4> QED
                BY <4>2 DEF Channel!Next
        <3>5. CASE n + 1 # L /\ n # 0
            <4>1. OnLine' = OnLine /\ whole' = whole
                BY <1>1, <1>3, <3>5
            <4> QED
                BY <1>1, <3>2, <4>1, Mapped
        <3> QED
            BY <3>3, <3>4, <3>5
    <2> QED
        BY <2>1, <2>2
<1> QED
    BY <1>6, <1>7, <1>9

\* A byte that is corrupted or lost completes no frame.
LEMMA BadByte ==
    ASSUME StreamInv, BytePasses(FALSE),
           FramesIn(buffer' \o fifo') = FramesIn(buffer \o fifo),
           UNCHANGED <<buffer, held, rx_frames>>,
           Channel!MayOverrun
    PROVE  ~ whole' /\ LineInv' /\ [Channel!Next]_Channel!vars
<1>1. PICK f \in Frames : \E n \in 0 .. Len(Encoded[f]) - 1 :
          /\ line = <<>> <=> n = 0
          /\ OnLine = IF n = 0 THEN NoFrame ELSE f
          /\ line' = From(BytesOf(f), (n + 1) + 1)
          /\ line' = <<>> <=> n + 1 = Len(Encoded[f])
          /\ OnLine' = IF n + 1 = Len(Encoded[f]) THEN NoFrame ELSE f
          /\ whole' = FALSE
    BY ByteComes
<1> DEFINE L == Len(Encoded[f])
<1>2. PICK n \in 0 .. L - 1 :
          /\ line = <<>> <=> n = 0
          /\ OnLine = IF n = 0 THEN NoFrame ELSE f
          /\ line' = From(BytesOf(f), (n + 1) + 1)
          /\ line' = <<>> <=> n + 1 = L
          /\ OnLine' = IF n + 1 = L THEN NoFrame ELSE f
          /\ whole' = FALSE
    BY <1>1
<1>3. L \in Nat /\ L > 1 /\ n \in Nat /\ f # NoFrame
    <2>1. L \in Nat /\ L > 1
        BY FrameLong
    <2> QED
        BY <2>1, LayoutAssumption DEF NoFrame
<1>4. LineInv'
    <2> SUFFICES ASSUME line' # <<>>
                 PROVE  \E g \in Frames : \E m \in 1 .. Len(Encoded[g]) - 1 :
                            /\ line' = From(BytesOf(g), m + 1)
                            /\ whole' => Arrived(buffer' \o fifo', g, m)
        BY DEF LineInv
    <2>1. n + 1 \in 1 .. L - 1
        BY <1>2, <1>3
    <2> QED
        BY <1>2, <2>1
<1>5. InChannel' = InChannel
    BY DEF InChannel, Decoded
<1>6. CASE n = 0
    <2>1. OnLine = NoFrame /\ OnLine' = f
        <3>1. n + 1 # L
            <4> HIDE DEF L
            <4> QED
                BY <1>3, <1>6
        <3> QED
            BY <1>2, <1>6, <3>1
    <2>2. Channel!Begin(f)
        BY <1>2, <1>5, <2>1 DEF Channel!Begin, OnLine, InChannel, Decoded
    <2> QED
        BY <1>2, <1>4, <2>2 DEF Channel!Next
<1>7. CASE n # 0 /\ n + 1 = L
    <2>1. OnLine = f /\ OnLine' = NoFrame
        BY <1>2, <1>7
    <2>2. Channel!CompleteDamaged
        BY <1>2, <1>3, <1>5, <2>1 DEF Channel!CompleteDamaged, OnLine, InChannel, Decoded
    <2> QED
        BY <1>2, <1>4, <2>2 DEF Channel!Next
<1>8. CASE n # 0 /\ n + 1 # L
    <2>1. OnLine = f /\ OnLine' = f
        BY <1>2, <1>8
    <2>2. Channel!Damage
        BY <1>2, <1>3, <1>5, <2>1 DEF Channel!Damage, OnLine, InChannel, Decoded
    <2> QED
        BY <1>2, <1>4, <2>2 DEF Channel!Next
<1> QED
    BY <1>6, <1>7, <1>8

\* A byte of no frame changes no frame.
LEMMA NoiseByte ==
    ASSUME TypeOK, NEW value \in NoiseValues,
           fifo' = Append(fifo, [of |-> Noise, at |-> value]), buffer' = buffer
    PROVE  FramesIn(buffer' \o fifo') = FramesIn(buffer \o fifo)
<1> DEFINE b == [of |-> Noise, at |-> value]
<1>1. b \in Byte /\ b.of \notin Frames
    BY NoiseTyped, LayoutAssumption
<1> HIDE DEF b
<1>2. buffer' \o fifo' = Append(buffer \o fifo, b)
    BY <1>1, AppendConcat DEF TypeOK, b
<1> QED
    BY <1>1, <1>2, ChannelTyped, NothingCompleted

LEMMA StepByteCorrupted ==
    ASSUME StreamInv, ByteCorrupted
    PROVE  LineInv' /\ OverrunInv' /\ [Channel!Next]_Channel!vars
<1>1. /\ TypeOK /\ BytePasses(FALSE) /\ Len(fifo) < FifoLen
      /\ \E value \in NoiseValues : fifo' = Append(fifo, [of |-> Noise, at |-> value])
      /\ UNCHANGED <<overrun, buffer, held, rx_frames>>
    BY DEF ByteCorrupted, StreamInv, RxInv
<1>2. FramesIn(buffer' \o fifo') = FramesIn(buffer \o fifo)
    BY <1>1, NoiseByte
<1>3. Channel!MayOverrun
    BY <1>1 DEF Channel!MayOverrun
<1>4. ~ overrun
    BY <1>1, LenProperties, LayoutAssumption DEF StreamInv, OverrunInv, TypeOK
<1>5. LineInv' /\ [Channel!Next]_Channel!vars
    BY <1>1, <1>2, <1>3, BadByte
<1> QED
    BY <1>1, <1>4, <1>5 DEF OverrunInv

LEMMA StepByteLost ==
    ASSUME StreamInv, ByteLost
    PROVE  LineInv' /\ OverrunInv' /\ [Channel!Next]_Channel!vars
<1>1. /\ BytePasses(FALSE) /\ overrun \in BOOLEAN
      /\ overrun' = (overrun \/ Len(fifo) = FifoLen)
      /\ UNCHANGED <<fifo, buffer, held, rx_frames>>
    BY DEF ByteLost, StreamInv, RxInv, TypeOK
<1>2. whole' = FALSE
    BY <1>1 DEF BytePasses
<1>3. Channel!MayOverrun
    BY <1>1, <1>2 DEF Channel!MayOverrun
<1>4. LineInv' /\ [Channel!Next]_Channel!vars
    BY <1>1, <1>3, BadByte
<1>5. OverrunInv'
    BY <1>1, <1>2 DEF OverrunInv, StreamInv
<1> QED
    BY <1>4, <1>5

LEMMA StepNoiseArrives ==
    ASSUME StreamInv, NoiseArrives
    PROVE  LineInv' /\ OverrunInv' /\ [Channel!Next]_Channel!vars
<1>1. /\ TypeOK /\ line = <<>>
      /\ UNCHANGED <<line, whole, buffer, held, rx_frames>>
    BY DEF NoiseArrives, StreamInv, RxInv
<1>2. LineInv'
    BY <1>1 DEF LineInv
<1>3. OnLine' = OnLine
    BY <1>1 DEF OnLine
<1>4. CASE Len(fifo) < FifoLen
    <2>1. /\ \E value \in NoiseValues : fifo' = Append(fifo, [of |-> Noise, at |-> value])
          /\ UNCHANGED overrun
        BY <1>4 DEF NoiseArrives
    <2>2. FramesIn(buffer' \o fifo') = FramesIn(buffer \o fifo)
        BY <1>1, <2>1, NoiseByte
    <2>3. InChannel' = InChannel
        BY <1>1, <2>2 DEF InChannel, Decoded
    <2>4. UNCHANGED Channel!vars
        BY <1>1, <1>3, <2>1, <2>3, Mapped
    <2>5. ~ overrun
        BY <1>1, <1>4, LenProperties, LayoutAssumption DEF StreamInv, OverrunInv, TypeOK
    <2> QED
        BY <1>2, <2>1, <2>4, <2>5 DEF OverrunInv
<1>5. CASE ~ (Len(fifo) < FifoLen)
    <2>1. overrun' = TRUE /\ UNCHANGED fifo
        BY <1>5 DEF NoiseArrives
    <2>2. InChannel' = InChannel
        BY <1>1, <2>1 DEF InChannel, Decoded
    <2>3. Channel!Overrun
        BY <1>1, <1>3, <2>1, <2>2 DEF Channel!Overrun, OnLine, InChannel, Decoded
    <2>4. Len(fifo) = FifoLen
        BY <1>1, <1>5, LenProperties, LayoutAssumption DEF TypeOK
    <2> QED
        BY <1>1, <1>2, <2>1, <2>3, <2>4 DEF OverrunInv, Channel!Next
<1> QED
    BY <1>4, <1>5

LEMMA StepRead ==
    ASSUME StreamInv, Read
    PROVE  LineInv' /\ OverrunInv' /\ [Channel!Next]_Channel!vars
<1> DEFINE n == IF Len(fifo) < MaxFrameLen THEN Len(fifo) ELSE MaxFrameLen
<1>1. /\ TypeOK /\ BufferBounded /\ task = "reading" /\ ~ overrun
      /\ fifo' = From(fifo, n + 1)
      /\ Fits(n) => buffer' = buffer \o SubSeq(fifo, 1, n)
      /\ UNCHANGED <<line, whole, overrun, held, rx_frames>>
    BY DEF Read, StreamInv, RxInv
<1>2. /\ fifo \in Seq(Byte) /\ buffer \in Seq(Byte)
      /\ Len(fifo) \in Nat /\ Len(buffer) \in Nat
    BY <1>1, LenProperties DEF TypeOK
<1>3. MaxFrameLen \in Nat \ {0} /\ RxBufferLen = 6 * MaxFrameLen
    BY LayoutAssumption DEF MaxFrameLen, RxBufferLen
<1>4. n \in 0 .. Len(fifo) /\ n <= MaxFrameLen
    BY <1>2, <1>3
<1> HIDE DEF n
<1>5. Fits(n)
    BY <1>1, <1>2, <1>3, <1>4 DEF Fits, BufferBounded
<1>6. buffer' \o fifo' = buffer \o fifo
    <2> DEFINE h == SubSeq(fifo, 1, n)
               t == From(fifo, n + 1)
    <2>1. h \in Seq(Byte)
        <3>1. \A i \in 1 .. n : fifo[i] \in Byte
            BY <1>2, <1>4, ElementOfSeq
        <3> QED
            BY <1>4, <3>1, SubSeqProperties
    <2>2. t \in Seq(Byte)
        BY <1>2, <1>4, FromBytes
    <2>3. h \o t = fifo
        <3>1. /\ 1 \in 1 .. Len(fifo) + 1 /\ n \in 1 - 1 .. Len(fifo)
              /\ Len(fifo) \in n .. Len(fifo)
            BY <1>2, <1>4
        <3>2. h \o t = SubSeq(fifo, 1, Len(fifo))
            BY <1>2, <3>1, ConcatAdjacentSubSeq DEF From
        <3> QED
            BY <1>2, <3>2, SubSeqFull
    <2> HIDE DEF h, t
    <2>4. (buffer \o h) \o t = buffer \o (h \o t)
        BY <1>2, <2>1, <2>2, ConcatAssociative
    <2>5. buffer' = buffer \o h /\ fifo' = t
        BY <1>1, <1>5 DEF h, t
    <2> QED
        BY <2>3, <2>4, <2>5
<1>7. LineInv'
    BY <1>1, <1>6 DEF LineInv, StreamInv
<1>8. OnLine' = OnLine /\ InChannel' = InChannel
    BY <1>1, <1>6 DEF OnLine, InChannel, Decoded
<1>9. UNCHANGED Channel!vars
    BY <1>1, <1>8, Mapped
<1> QED
    BY <1>1, <1>7, <1>9 DEF OverrunInv

LEMMA StepReadFails ==
    ASSUME StreamInv, ReadFails
    PROVE  LineInv' /\ OverrunInv' /\ [Channel!Next]_Channel!vars
<1>1. /\ TypeOK /\ overrun /\ fifo' = <<>> /\ overrun' = FALSE
      /\ line # <<>> => ~ whole
      /\ UNCHANGED <<line, whole, buffer, held, rx_frames>>
    BY DEF ReadFails, StreamInv, RxInv, OverrunInv
<1>2. LineInv'
    BY <1>1 DEF LineInv, StreamInv
<1>3. OverrunInv'
    BY <1>1 DEF OverrunInv
<1>4. buffer' \o fifo' = buffer
    BY <1>1, ConcatEmptySeq DEF TypeOK
<1> DEFINE F == FramesIn(buffer \o fifo)
           D == Decoded
<1>5. PICK n \in 0 .. Len(F) : FramesIn(buffer) = SubSeq(F, 1, n)
    BY <1>1, FramesInPrefix DEF TypeOK
<1>6. F \in Seq(Frames) /\ D \in Seq(Frames) /\ Len(F) \in Nat /\ Len(D) \in Nat
    BY <1>1, ChannelTyped, LenProperties
<1>7. OnLine' = OnLine /\ InChannel' = D \o SubSeq(F, 1, n) /\ InChannel = D \o F
    BY <1>1, <1>4, <1>5 DEF OnLine, InChannel, Decoded
<1> HIDE DEF F, D
<1>8. /\ Len(D) + n \in 0 .. Len(D \o F)
      /\ D \o SubSeq(F, 1, n) = SubSeq(D \o F, 1, Len(D) + n)
    BY <1>6, PrefixOfConcat
<1>9. \E m \in 0 .. Len(InChannel) : InChannel' = SubSeq(InChannel, 1, m)
    BY <1>7, <1>8
<1>10. Channel!Reset
    BY <1>1, <1>7, <1>9 DEF Channel!Reset, OnLine, InChannel, Decoded
<1> QED
    BY <1>2, <1>3, <1>10 DEF Channel!Next

LEMMA StepDecode ==
    ASSUME StreamInv, Decode
    PROVE  LineInv' /\ OverrunInv' /\ [Channel!Next]_Channel!vars
<1>1. /\ TypeOK /\ held = NoFrame
      /\ UNCHANGED <<line, whole, fifo, overrun, rx_frames>>
    BY DEF Decode, StreamInv, RxInv, TypeOK
<1>2. /\ \A f \in Frames : \A n \in 0 .. Len(Encoded[f]) - 1 :
             Arrived(buffer \o fifo, f, n) => Arrived(buffer' \o fifo', f, n)
      /\ \/ /\ held' = NoFrame
            /\ FramesIn(buffer' \o fifo') = FramesIn(buffer \o fifo)
         \/ /\ held' \in Frames
            /\ FramesIn(buffer \o fifo) = <<held'>> \o FramesIn(buffer' \o fifo')
    BY <1>1, DecodeKeeps
<1>3. LineInv'
    <2> SUFFICES ASSUME line # <<>>
                 PROVE  \E g \in Frames : \E m \in 1 .. Len(Encoded[g]) - 1 :
                            /\ line = From(BytesOf(g), m + 1)
                            /\ whole => Arrived(buffer' \o fifo', g, m)
        BY <1>1 DEF LineInv
    <2>1. PICK f \in Frames : \E n \in 1 .. Len(Encoded[f]) - 1 :
              line = From(BytesOf(f), n + 1) /\ (whole => Arrived(buffer \o fifo, f, n))
        BY DEF StreamInv, LineInv
    <2>2. PICK n \in 1 .. Len(Encoded[f]) - 1 :
              line = From(BytesOf(f), n + 1) /\ (whole => Arrived(buffer \o fifo, f, n))
        BY <2>1
    <2>3. n \in 0 .. Len(Encoded[f]) - 1
        BY FrameLong
    <2> QED
        BY <1>2, <2>2, <2>3
<1>4. InChannel' = InChannel
    <2>1. CASE /\ held' = NoFrame
               /\ FramesIn(buffer' \o fifo') = FramesIn(buffer \o fifo)
        BY <1>1, <2>1 DEF InChannel, Decoded
    <2>2. CASE /\ held' \in Frames
               /\ FramesIn(buffer \o fifo) = <<held'>> \o FramesIn(buffer' \o fifo')
        <3> DEFINE F == FramesIn(buffer' \o fifo')
                   h == <<held'>>
        <3>1. rx_frames \in Seq(Frames) /\ h \in Seq(Frames) /\ held' # NoFrame
            BY <1>1, <2>2, LayoutAssumption DEF TypeOK, NoFrame
        <3>2. F \in Seq(Frames)
            <4>1. TypeOK'
                BY RxInvStep DEF StreamInv, RxInv, Next, RxTask
            <4>2. buffer' \o fifo' \in Seq(Byte)
                BY <4>1, ConcatProperties DEF TypeOK
            <4> QED
                BY <4>2, PlacesTyped, FramesInIs
        <3>3. InChannel = (rx_frames \o <<>>) \o (h \o F)
            BY <1>1, <2>2 DEF InChannel, Decoded
        <3>4. InChannel' = (rx_frames \o h) \o F
            BY <1>1, <2>2, <3>1 DEF InChannel, Decoded
        <3> HIDE DEF F, h
        <3>5. rx_frames \o <<>> = rx_frames
            BY <3>1, ConcatEmptySeq
        <3> QED
            BY <3>1, <3>2, <3>3, <3>4, <3>5, ConcatAssociative
    <2> QED
        BY <1>2, <2>1, <2>2
<1>5. OnLine' = OnLine
    BY <1>1 DEF OnLine
<1>6. UNCHANGED Channel!vars
    BY <1>1, <1>4, <1>5, Mapped
<1> QED
    BY <1>1, <1>3, <1>6 DEF OverrunInv, StreamInv

LEMMA StepSend ==
    ASSUME StreamInv, Send
    PROVE  LineInv' /\ OverrunInv' /\ [Channel!Next]_Channel!vars
<1>1. /\ TypeOK /\ held \in Frames /\ held # NoFrame /\ rx_frames \in Seq(Frames)
      /\ rx_frames' = Append(rx_frames, held) /\ held' = NoFrame
      /\ UNCHANGED <<line, whole, fifo, overrun, buffer>>
    BY DEF Send, StreamInv, RxInv, TypeOK
<1>2. LineInv' /\ OverrunInv'
    BY <1>1 DEF LineInv, OverrunInv, StreamInv
<1>3. Decoded' = Decoded
    <2>1. Append(rx_frames, held) \in Seq(Frames)
        BY <1>1, AppendProperties
    <2>2. Append(rx_frames, held) = rx_frames \o <<held>>
        BY <1>1, AppendIsConcat
    <2>3. Decoded' = Append(rx_frames, held) \o <<>>
        BY <1>1 DEF Decoded
    <2>4. Append(rx_frames, held) \o <<>> = Append(rx_frames, held)
        BY <2>1, ConcatEmptySeq
    <2> QED
        BY <1>1, <2>2, <2>3, <2>4 DEF Decoded
<1>4. OnLine' = OnLine /\ InChannel' = InChannel
    BY <1>1, <1>3 DEF OnLine, InChannel
<1> QED
    BY <1>1, <1>2, <1>4, Mapped

LEMMA StepCoreTakes ==
    ASSUME StreamInv, CoreTakes
    PROVE  LineInv' /\ OverrunInv' /\ [Channel!Next]_Channel!vars
<1>1. /\ TypeOK /\ rx_frames # <<>> /\ rx_frames' = Tail(rx_frames)
      /\ rx_frames \in Seq(Frames)
      /\ UNCHANGED <<line, whole, fifo, overrun, buffer, held>>
    BY DEF CoreTakes, StreamInv, RxInv, TypeOK
<1>2. LineInv' /\ OverrunInv'
    BY <1>1 DEF LineInv, OverrunInv, StreamInv
<1> DEFINE h == IF held = NoFrame THEN <<>> ELSE <<held>>
           F == FramesIn(buffer \o fifo)
<1>3. h \in Seq(Frames) /\ F \in Seq(Frames)
    BY <1>1, ChannelTyped DEF TypeOK
<1>4. OnLine' = OnLine /\ InChannel = (rx_frames \o h) \o F
      /\ InChannel' = (Tail(rx_frames) \o h) \o F
    BY <1>1 DEF OnLine, InChannel, Decoded
<1> HIDE DEF h, F
<1>5. InChannel # <<>> /\ InChannel' = Tail(InChannel)
    <2> DEFINE r == rx_frames \o h
    <2>1. r \in Seq(Frames) /\ r # <<>> /\ Tail(r) = Tail(rx_frames) \o h
        BY <1>1, <1>3, TailOfConcat
    <2>2. InChannel = r \o F /\ InChannel' = Tail(r) \o F
        BY <1>4, <2>1
    <2> HIDE DEF r
    <2>3. r \o F # <<>> /\ Tail(r \o F) = Tail(r) \o F
        BY <1>3, <2>1, TailOfConcat
    <2> QED
        BY <2>2, <2>3
<1>6. Channel!Deliver
    BY <1>1, <1>4, <1>5 DEF Channel!Deliver, OnLine, InChannel, Decoded
<1> QED
    BY <1>2, <1>6 DEF Channel!Next

LEMMA StreamInvInit == Init => StreamInv
<1>1. Init => LineInv /\ OverrunInv
    BY DEF Init, LineInv, OverrunInv
<1> QED
    BY <1>1, RxInvInit DEF StreamInv

LEMMA StreamStep ==
    ASSUME StreamInv, [Next]_vars
    PROVE  StreamInv' /\ [Channel!Next]_Channel!vars
<1>1. RxInv'
    BY RxInvStep DEF StreamInv
<1>2. CASE UNCHANGED vars
    <2>1. LineInv' /\ OverrunInv' /\ OnLine' = OnLine /\ InChannel' = InChannel
        BY <1>2 DEF vars, StreamInv, LineInv, OverrunInv, OnLine, InChannel, Decoded
    <2> QED
        BY <1>1, <1>2, <2>1, Mapped DEF StreamInv, vars
<1>3. CASE Next
    <2>1. LineInv' /\ OverrunInv' /\ [Channel!Next]_Channel!vars
        BY <1>3, StepByteArrives, StepByteCorrupted, StepByteLost, StepNoiseArrives,
           StepRead, StepReadFails, StepDecode, StepSend, StepCoreTakes
           DEF Next, Uart, RxTask
    <2> QED
        BY <1>1, <2>1 DEF StreamInv
<1> QED
    BY <1>2, <1>3

(***************************************************************************)
(* Every frame whose bytes all came in is delivered in order, once, and    *)
(* nothing else is (lora_rx_task of main.rs, read_into_decoder of          *)
(* transport.rs, push_bytes and next_frame of protocol.rs), for all        *)
(* layouts of a frame and however the line is disturbed.                   *)
(***************************************************************************)
THEOREM ReceivePathDelivers == Spec => DeliversInOrder
<1>1. Init => Channel!Init
    <2> SUFFICES ASSUME Init PROVE Channel!Init
        OBVIOUS
    <2>1. OnLine = NoFrame
        BY DEF Init, OnLine
    <2>2. InChannel = <<>>
        <3>1. buffer \o fifo = <<>>
            BY ConcatEmptySeq, EmptySeq DEF Init
        <3>2. Places(<<>>) = {} /\ Enumerates(<<>>, {}) /\ <<>> \in Seq(Byte)
            BY EmptySeq DEF Places, Enumerates
        <3>3. FramesIn(<<>>) \in Seq(Frames) /\ Len(FramesIn(<<>>)) = 0
            BY <3>2, FramesInIs, EmptySeq
        <3>4. FramesIn(<<>>) = <<>>
            BY <3>3, EmptySeq
        <3>5. Decoded = <<>>
            BY EmptySeq, ConcatEmptySeq DEF Init, Decoded
        <3> QED
            BY <3>1, <3>4, <3>5, EmptySeq, ConcatEmptySeq DEF InChannel
    <2> QED
        BY <2>1, <2>2 DEF Init, Channel!Init, OnLine, InChannel, Decoded
<1>2. StreamInv /\ [Next]_vars => StreamInv' /\ [Channel!Next]_Channel!vars
    BY StreamStep
<1> QED
    BY <1>1, <1>2, StreamInvInit, PTL DEF Spec, DeliversInOrder, Channel!Spec
=============================================================================
