--------------------------- MODULE BootstrapProofs ---------------------------
(***************************************************************************)
(* Theorems about the way of a SYNC through the relay: type correctness,   *)
(* the number zero stops there, and as long as the number does not wrap    *)
(* the relay passes SYNCs on in order and at most once, through losses,    *)
(* missed slots and restarts.                                              *)
(***************************************************************************)
EXTENDS Bootstrap, SequenceTheorems, TLAPS

-----------------------------------------------------------------------------
(***************************************************************************)
(* Queues.                                                                 *)
(***************************************************************************)
LEMMA Nodes ==
    /\ Gateway \in Node /\ Relay \in Node /\ Sensor \in Node
    /\ Gateway # Relay /\ Gateway # Sensor /\ Relay # Sensor
    /\ Parent(Relay) = Gateway /\ Parent(Sensor) = Relay
    /\ \A n \in Forwarder : n \in Node /\ Parent(n) \in Node /\ Parent(n) # n
    /\ \A n \in Node : n = Gateway \/ n = Relay \/ n = Sensor
    /\ \A n \in Node : Inbox(n) \subseteq FramesTo(Node)
    /\ \A n \in Node : n # Gateway => n \in Forwarder
BY DEF Node, Parent, Gateway, Relay, Sensor, Forwarder, FramesTo

LEMMA Inboxes ==
    /\ Inbox(Gateway) = {Hello(Relay)}
    /\ Inbox(Relay) = {Hello(Sensor), JoinAck(Relay)}
                      \cup {Sync(Gateway, s) : s \in SyncSeqs}
    /\ Inbox(Sensor) = {JoinAck(Sensor)}
                      \cup {Sync(p, s) : p \in {Gateway, Relay}, s \in SyncSeqs}
BY Nodes DEF Inbox

\* A node's queue after another frame for it, and after its head was handled.
LEMMA QueueTypes ==
    ASSUME TypeOK, NEW n \in Node
    PROVE  /\ \A f \in Inbox(n) : \A q \in Reaches(rx[n], f) :
                 q \in Seq(Inbox(n)) /\ Len(q) <= RxDepth
           /\ rx[n] # <<>> => /\ Head(rx[n]) \in Inbox(n)
                              /\ Tail(rx[n]) \in Seq(Inbox(n))
                              /\ Len(Tail(rx[n])) <= RxDepth
           /\ <<>> \in Seq(Inbox(n)) /\ Len(<<>>) <= RxDepth
<1>1. rx[n] \in Seq(Inbox(n)) /\ Len(rx[n]) <= RxDepth /\ Len(rx[n]) \in Nat
      /\ RxDepth \in Nat
  BY LenProperties, BootstrapAssumption DEF TypeOK
<1>2. ASSUME NEW f \in Inbox(n), NEW q \in Reaches(rx[n], f)
      PROVE  q \in Seq(Inbox(n)) /\ Len(q) <= RxDepth
  <2>1. CASE q = rx[n]
    BY <1>1, <2>1
  <2>2. CASE Len(rx[n]) < RxDepth /\ q = Append(rx[n], f)
    <3>1. Len(q) = Len(rx[n]) + 1 /\ q \in Seq(Inbox(n))
      BY <1>1, <2>2, AppendProperties
    <3> QED
      BY <1>1, <2>2, <3>1
  <2> QED
    BY <1>2, <2>1, <2>2 DEF Reaches
<1>3. ASSUME rx[n] # <<>>
      PROVE  /\ Head(rx[n]) \in Inbox(n) /\ Tail(rx[n]) \in Seq(Inbox(n))
             /\ Len(Tail(rx[n])) <= RxDepth
  <2>1. Len(rx[n]) # 0
    BY <1>1, <1>3, EmptySeq
  <2> QED
    BY <1>1, <1>3, <2>1, HeadTailProperties
<1>4. <<>> \in Seq(Inbox(n)) /\ Len(<<>>) = 0
  BY EmptySeq
<1> QED
  BY <1>1, <1>2, <1>3, <1>4

\* New queues at one node, or at two.
LEMMA RadioType ==
    ASSUME TypeOK, NEW a \in Node, NEW b \in Node,
           NEW x \in Seq(Inbox(a)), Len(x) <= RxDepth,
           NEW y \in Seq(Inbox(b)), Len(y) <= RxDepth,
           \/ rx' = [rx EXCEPT ![a] = x]
           \/ rx' = [rx EXCEPT ![a] = x, ![b] = y]
    PROVE  /\ rx' \in [Node -> Seq(FramesTo(Node))]
           /\ \A n \in Node : rx'[n] \in Seq(Inbox(n)) /\ Len(rx'[n]) <= RxDepth
<1>1. x \in Seq(FramesTo(Node)) /\ y \in Seq(FramesTo(Node))
  BY Nodes, SeqMonotonic
<1> QED
  BY <1>1 DEF TypeOK
-----------------------------------------------------------------------------
(***************************************************************************)
(* Types.                                                                  *)
(***************************************************************************)
LEMMA HelloChild ==
    ASSUME TypeOK, NEW n \in Node, n # Sensor, Receives(n, "hello")
    PROVE  /\ rx[n] # <<>> /\ Head(rx[n]).src \in Forwarder
           /\ Head(rx[n]).src # n
           /\ n = Gateway => Head(rx[n]).src = Relay
           /\ n = Relay => Head(rx[n]).src = Sensor
<1>1. rx[n] # <<>> /\ Head(rx[n]).frame_type = "hello" /\ Head(rx[n]) \in Inbox(n)
  BY QueueTypes DEF Receives
<1>2. Head(rx[n]) = Hello(IF n = Gateway THEN Relay ELSE Sensor)
  BY <1>1, Nodes, Inboxes DEF Hello, JoinAck, Sync
<1> QED
  BY <1>1, <1>2, Nodes DEF Hello, Forwarder

LEMMA SyncHead ==
    ASSUME TypeOK, NEW n \in Forwarder, Receives(n, "sync")
    PROVE  /\ rx[n] # <<>> /\ Head(rx[n]).sync_seq \in SyncSeqs
           /\ n = Relay => Head(rx[n]).src = Gateway
<1>1. rx[n] # <<>> /\ Head(rx[n]).frame_type = "sync" /\ Head(rx[n]) \in Inbox(n)
  BY QueueTypes, Nodes DEF Receives
<1> QED
  BY <1>1, Inboxes, Nodes DEF Hello, JoinAck, Sync, Forwarder

LEMMA FrameTypes ==
    /\ \A n \in Forwarder : Hello(n) \in Inbox(Parent(n)) /\ JoinAck(n) \in Inbox(n)
    /\ \A s \in SyncSeqs : /\ Sync(Gateway, s) \in Inbox(Relay)
                           /\ Sync(Gateway, s) \in Inbox(Sensor)
                           /\ Sync(Relay, s) \in Inbox(Sensor)
BY Inboxes, Nodes DEF Forwarder

LEMMA TypeStep == TypeOK /\ [Next]_vars => TypeOK'
<1> SUFFICES ASSUME TypeOK, [Next]_vars PROVE TypeOK'
  OBVIOUS
<1>1. CASE UNCHANGED vars
  BY <1>1 DEF vars, TypeOK
<1>2. CASE Tick
  BY <1>2 DEF Tick, TypeOK, NextWorkSlot, SyncSlotNo, RelayControlSlotNo, QuietSlotNo
<1>3. CASE GatewaySyncSlot
  <2>1. NextSyncSeq \in SyncSeqs
    BY BootstrapAssumption DEF NextSyncSeq, SyncSeqs, TypeOK
  <2>2. PICK r \in Reaches(rx[Relay], Sync(Gateway, NextSyncSeq)),
             s \in IF SensorHears THEN Reaches(rx[Sensor], Sync(Gateway, NextSyncSeq))
                   ELSE {rx[Sensor]} :
                rx' = [rx EXCEPT ![Relay] = r, ![Sensor] = s]
    BY <1>3 DEF GatewaySyncSlot
  <2>3. r \in Seq(Inbox(Relay)) /\ Len(r) <= RxDepth
    BY <2>1, QueueTypes, FrameTypes, Nodes
  <2>4. s \in Seq(Inbox(Sensor)) /\ Len(s) <= RxDepth
    BY <2>1, QueueTypes, FrameTypes, Nodes DEF TypeOK
  <2>5. /\ rx' \in [Node -> Seq(FramesTo(Node))]
        /\ \A n \in Node : rx'[n] \in Seq(Inbox(n)) /\ Len(rx'[n]) <= RxDepth
    BY <2>2, <2>3, <2>4, RadioType, Nodes
  <2> QED
    BY <1>3, <2>1, <2>5 DEF GatewaySyncSlot, TypeOK
<1>4. CASE RelayControlSlot
  <2>1. /\ rx' \in [Node -> Seq(FramesTo(Node))]
        /\ \A n \in Node : rx'[n] \in Seq(Inbox(n)) /\ Len(rx'[n]) <= RxDepth
    <3>1. CASE pending_sync_forward = None
      BY <1>4, <3>1 DEF RelayControlSlot, TypeOK
    <3>2. CASE pending_sync_forward # None
      <4>1. PICK q \in Reaches(rx[Sensor], Sync(Relay, pending_sync_forward)) :
               rx' = [rx EXCEPT ![Sensor] = q]
        BY <1>4, <3>2 DEF RelayControlSlot
      <4>2. q \in Seq(Inbox(Sensor)) /\ Len(q) <= RxDepth
        BY <3>2, QueueTypes, FrameTypes, Nodes DEF TypeOK
      <4> QED
        BY <4>1, <4>2, RadioType, Nodes
    <3> QED
      BY <3>1, <3>2
  <2> QED
    BY <1>4, <2>1 DEF RelayControlSlot, TypeOK
<1>5. ASSUME NEW n \in Node, n # Sensor, RxHello(n) PROVE TypeOK'
  <2> DEFINE child == Head(rx[n]).src
  <2>1. child \in Forwarder /\ child # n /\ rx[n] # <<>> /\ child \in Node
    BY <1>5, HelloChild, Nodes DEF RxHello
  <2>2. PICK q \in Reaches(rx[child], JoinAck(child)) :
           rx' = [rx EXCEPT ![n] = Tail(rx[n]), ![child] = q]
    BY <1>5 DEF RxHello
  <2> HIDE DEF child
  <2>3. q \in Seq(Inbox(child)) /\ Len(q) <= RxDepth
    BY <2>1, QueueTypes, FrameTypes
  <2>4. Tail(rx[n]) \in Seq(Inbox(n)) /\ Len(Tail(rx[n])) <= RxDepth
    BY <2>1, QueueTypes
  <2>5. /\ rx' \in [Node -> Seq(FramesTo(Node))]
        /\ \A m \in Node : rx'[m] \in Seq(Inbox(m)) /\ Len(rx'[m]) <= RxDepth
    BY <2>1, <2>2, <2>3, <2>4, RadioType
  <2> QED
    BY <1>5, <2>5 DEF RxHello, TypeOK
<1>6. ASSUME NEW n \in Forwarder, RxJoinAck(n) \/ RxSync(n) PROVE TypeOK'
  <2>1. n \in Node /\ rx[n] # <<>> /\ rx' = [rx EXCEPT ![n] = Tail(rx[n])]
    BY <1>6, Nodes DEF RxJoinAck, RxSync, Receives
  <2>2. /\ rx' \in [Node -> Seq(FramesTo(Node))]
        /\ \A m \in Node : rx'[m] \in Seq(Inbox(m)) /\ Len(rx'[m]) <= RxDepth
    BY <2>1, QueueTypes, RadioType
  <2>3. CASE RxJoinAck(n)
    BY <2>2, <2>3 DEF RxJoinAck, TypeOK
  <2>4. CASE RxSync(n)
    BY <2>2, <2>4, SyncHead DEF RxSync, TypeOK
  <2> QED
    BY <1>6, <2>3, <2>4
<1>7. ASSUME NEW n \in Forwarder, HelloRetry(n) \/ Restart(n) PROVE TypeOK'
  <2>1. /\ n \in Node /\ Parent(n) \in Node /\ Hello(n) \in Inbox(Parent(n))
    BY Nodes, FrameTypes
  <2>2. \E q \in Reaches(rx[Parent(n)], Hello(n)) :
           \/ rx' = [rx EXCEPT ![Parent(n)] = q]
           \/ rx' = [rx EXCEPT ![Parent(n)] = q, ![n] = <<>>]
    BY <1>7 DEF HelloRetry, Restart
  <2>3. /\ rx' \in [Node -> Seq(FramesTo(Node))]
        /\ \A m \in Node : rx'[m] \in Seq(Inbox(m)) /\ Len(rx'[m]) <= RxDepth
    BY <2>1, <2>2, QueueTypes, RadioType
  <2>4. CASE HelloRetry(n)
    BY <2>3, <2>4 DEF HelloRetry, TypeOK
  <2>5. CASE Restart(n)
    <3>1. restarts' \in 0 .. MaxRestarts
      BY <2>5, BootstrapAssumption DEF Restart, TypeOK
    <3>2. 0 \in SyncSeqs
      BY BootstrapAssumption DEF SyncSeqs
    <3>3. /\ phase' \in [Forwarder -> {Searching, Joined}]
          /\ last_sync_seq' \in [Forwarder -> SyncSeqs]
      BY <2>5, <3>2 DEF Restart, TypeOK
    <3>4. /\ serviced' \subseteq {Gateway, Relay}
          /\ pending_sync_forward' \in SyncSeqs \cup {None}
      BY <2>5 DEF Restart, TypeOK
    <3> QED
      BY <2>3, <2>5, <3>1, <3>3, <3>4 DEF Restart, TypeOK
  <2> QED
    BY <1>7, <2>4, <2>5
<1> QED
  BY <1>1, <1>2, <1>3, <1>4, <1>5, <1>6, <1>7, Nodes DEF Next, CoreTask

\* Every variable of Bootstrap keeps its type, for every depth of the queue,
\* every modulus and every bound.
THEOREM BootstrapTypeCorrect == Spec => []TypeOK
<1>1. Init => TypeOK
  <2> SUFFICES ASSUME Init PROVE TypeOK
    OBVIOUS
  <2>1. \A S : <<>> \in Seq(S) /\ Len(<<>>) = 0
    BY EmptySeq
  <2> QED
    BY <2>1, BootstrapAssumption DEF Init, TypeOK, SyncSeqs
<1> QED
  BY <1>1, TypeStep, PTL DEF Spec
-----------------------------------------------------------------------------
(***************************************************************************)
(* The SYNCs of one sender in a queue.                                     *)
(***************************************************************************)
From(f, p) == f.frame_type = "sync" /\ f.src = p

Numbers(q, p) ==
    {q[i].sync_seq : i \in {k \in 1 .. Len(q) : From(q[k], p)}}

Ascending(q, p) ==
    \A i \in 1 .. Len(q) : From(q[i], p) =>
        \A j \in i + 1 .. Len(q) : From(q[j], p) => q[i].sync_seq < q[j].sync_seq

\* What q has become brings no SYNC of p that q did not hold, in its order.
Quiet(q, q2, p) ==
    /\ Numbers(q2, p) \subseteq Numbers(q, p)
    /\ Ascending(q, p) => Ascending(q2, p)

LEMMA QuietCases ==
    ASSUME NEW S, NEW q \in Seq(S), NEW p
    PROVE  /\ Quiet(q, q, p) /\ Quiet(q, <<>>, p)
           /\ q # <<>> => Quiet(q, Tail(q), p)
           /\ \A f \in S : ~From(f, p) => Quiet(q, Append(q, f), p)
<1>1. Quiet(q, q, p)
  BY DEF Quiet
<1>2. Quiet(q, <<>>, p)
  <2>1. Len(<<>>) = 0
    BY EmptySeq
  <2> QED
    BY <2>1 DEF Quiet, Numbers, Ascending
<1>3. ASSUME q # <<>> PROVE Quiet(q, Tail(q), p)
  <2>1. Len(q) \in Nat \ {0}
    BY <1>3, LenProperties, EmptySeq
  <2>2. /\ Len(Tail(q)) = Len(q) - 1
        /\ \A i \in 1 .. Len(Tail(q)) : i + 1 \in 1 .. Len(q) /\ Tail(q)[i] = q[i + 1]
    BY <1>3, <2>1, HeadTailProperties
  <2>3. ASSUME NEW n \in Numbers(Tail(q), p) PROVE n \in Numbers(q, p)
    <3>1. PICK i \in 1 .. Len(Tail(q)) : From(Tail(q)[i], p) /\ n = Tail(q)[i].sync_seq
      BY <2>3 DEF Numbers
    <3>2. i + 1 \in 1 .. Len(q) /\ From(q[i + 1], p) /\ n = q[i + 1].sync_seq
      BY <2>2, <3>1
    <3> QED
      BY <3>2 DEF Numbers
  <2>4. ASSUME Ascending(q, p), NEW i \in 1 .. Len(Tail(q)), From(Tail(q)[i], p),
               NEW j \in i + 1 .. Len(Tail(q)), From(Tail(q)[j], p)
        PROVE  Tail(q)[i].sync_seq < Tail(q)[j].sync_seq
    <3>1. /\ i + 1 \in 1 .. Len(q) /\ Tail(q)[i] = q[i + 1]
          /\ j + 1 \in i + 1 + 1 .. Len(q) /\ Tail(q)[j] = q[j + 1]
      BY <2>1, <2>2
    <3> QED
      BY <2>4, <3>1 DEF Ascending
  <2> QED
    BY <2>3, <2>4 DEF Quiet, Ascending
<1>4. ASSUME NEW f \in S, ~From(f, p) PROVE Quiet(q, Append(q, f), p)
  <2> DEFINE a == Append(q, f)
  <2>1. /\ Len(a) = Len(q) + 1 /\ Len(q) \in Nat /\ a[Len(q) + 1] = f
        /\ \A i \in 1 .. Len(q) : a[i] = q[i]
    BY AppendProperties, LenProperties
  <2> HIDE DEF a
  <2>2. \A i \in 1 .. Len(a) : From(a[i], p) => i \in 1 .. Len(q) /\ a[i] = q[i]
    BY <1>4, <2>1
  <2>3. Numbers(a, p) \subseteq Numbers(q, p)
    BY <2>2 DEF Numbers
  <2>4. ASSUME Ascending(q, p), NEW i \in 1 .. Len(a), From(a[i], p),
               NEW j \in i + 1 .. Len(a), From(a[j], p)
        PROVE  a[i].sync_seq < a[j].sync_seq
    <3>1. i \in 1 .. Len(q) /\ j \in i + 1 .. Len(q) /\ a[i] = q[i] /\ a[j] = q[j]
      BY <2>1, <2>2, <2>4
    <3> QED
      BY <2>4, <3>1 DEF Ascending
  <2> QED
    BY <2>3, <2>4 DEF Quiet, Ascending, a
<1> QED
  BY <1>1, <1>2, <1>3, <1>4

\* The head is lower than what follows it.
LEMMA HeadLowest ==
    ASSUME NEW S, NEW q \in Seq(S), q # <<>>, NEW p, Ascending(q, p), From(Head(q), p)
    PROVE  /\ Head(q).sync_seq \in Numbers(q, p)
           /\ \A n \in Numbers(Tail(q), p) : Head(q).sync_seq < n
<1>1. Len(q) \in Nat \ {0}
  BY LenProperties, EmptySeq
<1>2. /\ Head(q) = q[1] /\ Len(Tail(q)) = Len(q) - 1
      /\ \A i \in 1 .. Len(Tail(q)) : Tail(q)[i] = q[i + 1]
  BY <1>1, HeadTailProperties
<1>3. 1 \in 1 .. Len(q) /\ From(q[1], p)
  BY <1>1, <1>2
<1>4. ASSUME NEW n \in Numbers(Tail(q), p) PROVE q[1].sync_seq < n
  <2>1. PICK i \in 1 .. Len(Tail(q)) : From(Tail(q)[i], p) /\ n = Tail(q)[i].sync_seq
    BY <1>4 DEF Numbers
  <2>2. i + 1 \in 1 + 1 .. Len(q) /\ From(q[i + 1], p) /\ n = q[i + 1].sync_seq
    BY <1>1, <1>2, <2>1
  <2> QED
    BY <1>3, <2>2 DEF Ascending
<1> QED
  BY <1>2, <1>3, <1>4 DEF Numbers

\* A SYNC higher than all of them goes to the end.
LEMMA AppendHighest ==
    ASSUME NEW S, NEW q \in Seq(S), NEW p, Ascending(q, p), NEW f \in S, From(f, p),
           \A n \in Numbers(q, p) : n < f.sync_seq
    PROVE  /\ Ascending(Append(q, f), p)
           /\ Numbers(Append(q, f), p) \subseteq Numbers(q, p) \cup {f.sync_seq}
<1> DEFINE a == Append(q, f)
<1>1. /\ Len(a) = Len(q) + 1 /\ Len(q) \in Nat /\ a[Len(q) + 1] = f
      /\ \A i \in 1 .. Len(q) : a[i] = q[i]
  BY AppendProperties, LenProperties
<1> HIDE DEF a
<1>2. \A i \in 1 .. Len(a) : i = Len(q) + 1 \/ (i \in 1 .. Len(q) /\ a[i] = q[i])
  BY <1>1
<1>3. Numbers(a, p) \subseteq Numbers(q, p) \cup {f.sync_seq}
  BY <1>1, <1>2 DEF Numbers
<1>4. ASSUME NEW i \in 1 .. Len(a), From(a[i], p), NEW j \in i + 1 .. Len(a), From(a[j], p)
      PROVE  a[i].sync_seq < a[j].sync_seq
  <2>1. i \in 1 .. Len(q) /\ a[i] = q[i]
    BY <1>1, <1>4
  <2>2. CASE j = Len(q) + 1
    <3>1. a[i].sync_seq \in Numbers(q, p)
      BY <1>4, <2>1 DEF Numbers
    <3> QED
      BY <1>1, <2>2, <3>1
  <2>3. CASE j \in i + 1 .. Len(q)
    BY <1>1, <1>4, <2>1, <2>3 DEF Ascending
  <2> QED
    BY <1>1, <1>4, <2>2, <2>3
<1> QED
  BY <1>3, <1>4 DEF Ascending, a
-----------------------------------------------------------------------------
(***************************************************************************)
(* How a step changes what is on its way through the relay.                *)
(***************************************************************************)
\* Nothing new: frames without a number arrive, frames leave, nodes restart.
NothingNew ==
    /\ Quiet(rx[Relay], rx'[Relay], Gateway) /\ Quiet(rx[Sensor], rx'[Sensor], Relay)
    /\ sync_seq' = sync_seq
    /\ pending_sync_forward' \in {pending_sync_forward, None}

\* A SYNC of the gateway arrives at the relay.
Broadcast ==
    /\ sync_seq' = NextSyncSeq /\ sync_seq # LastSyncSeq
    /\ \/ Quiet(rx[Relay], rx'[Relay], Gateway)
       \/ rx'[Relay] = Append(rx[Relay], Sync(Gateway, NextSyncSeq))
    /\ Quiet(rx[Sensor], rx'[Sensor], Relay)
    /\ pending_sync_forward' = pending_sync_forward

\* The relay takes it, and passes it on.
Taken ==
    /\ rx[Relay] # <<>> /\ rx'[Relay] = Tail(rx[Relay]) /\ From(Head(rx[Relay]), Gateway)
    /\ pending_sync_forward' = Head(rx[Relay]).sync_seq
    /\ rx'[Sensor] = rx[Sensor] /\ sync_seq' = sync_seq

PassedOn ==
    /\ pending_sync_forward # None /\ pending_sync_forward' = None
    /\ rx'[Sensor] = Append(rx[Sensor], Sync(Relay, pending_sync_forward))
    /\ rx'[Relay] = rx[Relay] /\ sync_seq' = sync_seq

LEMMA QuietFrames ==
    ASSUME NEW n \in Forwarder
    PROVE  /\ \A p : ~From(JoinAck(n), p) /\ ~From(Hello(n), p)
           /\ \A s : ~From(Sync(Gateway, s), Relay)
           /\ \A s : From(Sync(Gateway, s), Gateway) /\ From(Sync(Relay, s), Relay)
BY Nodes DEF From, JoinAck, Hello, Sync

LEMMA QuietArrival ==
    ASSUME TypeOK, NEW n \in Node, NEW f \in Inbox(n), NEW p, ~From(f, p),
           NEW q \in Reaches(rx[n], f)
    PROVE  Quiet(rx[n], q, p)
<1>1. rx[n] \in Seq(Inbox(n)) /\ q \in {rx[n], Append(rx[n], f)}
  BY DEF TypeOK, Reaches
<1> QED
  BY <1>1, QuietCases

LEMMA QuietSame ==
    ASSUME TypeOK, NEW n \in Node, NEW p
    PROVE  /\ Quiet(rx[n], rx[n], p) /\ Quiet(rx[n], <<>>, p)
           /\ rx[n] # <<>> => Quiet(rx[n], Tail(rx[n]), p)
<1>1. rx[n] \in Seq(Inbox(n))
  BY DEF TypeOK
<1> QED
  BY <1>1, QuietCases

LEMMA ArrivesQuietly ==
    ASSUME TypeOK, NEW n \in Forwarder, HelloRetry(n) \/ Restart(n)
    PROVE  NothingNew
<1>1. PICK q \in Reaches(rx[Parent(n)], Hello(n)) :
         \/ rx' = [rx EXCEPT ![Parent(n)] = q]
         \/ rx' = [rx EXCEPT ![Parent(n)] = q, ![n] = <<>>]
  BY DEF HelloRetry, Restart
<1>2. Parent(n) \in Node /\ n \in Node /\ Parent(n) # n /\ Hello(n) \in Inbox(Parent(n))
  BY Nodes, FrameTypes
<1>3. \A p : Quiet(rx[Parent(n)], q, p)
  BY <1>2, QuietArrival, QuietFrames
<1>4. ASSUME NEW m \in Node PROVE rx'[m] \in {rx[m], <<>>} \/ (m = Parent(n) /\ rx'[m] = q)
  BY <1>1, <1>2 DEF TypeOK
<1>5. \A m \in Node : \A p : Quiet(rx[m], rx'[m], p)
  BY <1>3, <1>4, QuietSame
<1>6. sync_seq' = sync_seq /\ pending_sync_forward' \in {pending_sync_forward, None}
  BY DEF HelloRetry, Restart
<1> QED
  BY <1>5, <1>6, Nodes DEF NothingNew

LEMMA HandledQuietly ==
    ASSUME TypeOK, NEW n \in Node,
           \/ n # Sensor /\ RxHello(n)
           \/ n # Gateway /\ RxJoinAck(n)
           \/ n = Sensor /\ RxSync(n)
    PROVE  NothingNew
<1>1. sync_seq' = sync_seq /\ pending_sync_forward' = pending_sync_forward
  BY Nodes DEF RxHello, RxJoinAck, RxSync
<1>2. \A m \in Node : \A p : Quiet(rx[m], rx'[m], p)
  <2>1. CASE n # Sensor /\ RxHello(n)
    <3> DEFINE child == Head(rx[n]).src
    <3>1. child \in Forwarder /\ child # n /\ rx[n] # <<>> /\ child \in Node
      BY <2>1, HelloChild, Nodes DEF RxHello
    <3>2. PICK q \in Reaches(rx[child], JoinAck(child)) :
             rx' = [rx EXCEPT ![n] = Tail(rx[n]), ![child] = q]
      BY <2>1 DEF RxHello
    <3> HIDE DEF child
    <3>3. \A p : Quiet(rx[child], q, p)
      BY <3>1, FrameTypes, QuietArrival, QuietFrames
    <3>4. \A m \in Node : \/ rx'[m] = rx[m]
                          \/ m = n /\ rx'[m] = Tail(rx[n])
                          \/ m = child /\ rx'[m] = q
      BY <3>1, <3>2 DEF TypeOK
    <3> QED
      BY <3>1, <3>3, <3>4, QuietSame
  <2>2. CASE RxJoinAck(n) \/ RxSync(n)
    <3>1. rx[n] # <<>> /\ rx' = [rx EXCEPT ![n] = Tail(rx[n])]
      BY <2>2 DEF RxJoinAck, RxSync, Receives
    <3>2. \A m \in Node : rx'[m] = rx[m] \/ (m = n /\ rx'[m] = Tail(rx[n]))
      BY <3>1 DEF TypeOK
    <3> QED
      BY <3>1, <3>2, QuietSame
  <2> QED
    BY <2>1, <2>2
<1> QED
  BY <1>1, <1>2, Nodes DEF NothingNew

LEMMA PassageSteps ==
    ASSUME TypeOK, [Next]_vars
    PROVE  NothingNew \/ Broadcast \/ Taken \/ PassedOn
<1>1. CASE UNCHANGED vars \/ Tick
  BY <1>1, QuietSame, Nodes DEF vars, Tick, NothingNew
<1>2. CASE GatewaySyncSlot
  <2>1. NextSyncSeq \in SyncSeqs
    BY BootstrapAssumption DEF NextSyncSeq, SyncSeqs, TypeOK
  <2>2. PICK r \in Reaches(rx[Relay], Sync(Gateway, NextSyncSeq)),
             s \in IF SensorHears THEN Reaches(rx[Sensor], Sync(Gateway, NextSyncSeq))
                   ELSE {rx[Sensor]} :
                rx' = [rx EXCEPT ![Relay] = r, ![Sensor] = s]
    BY <1>2 DEF GatewaySyncSlot
  <2>3. rx'[Relay] = r /\ rx'[Sensor] = s
    BY <2>2, Nodes DEF TypeOK
  <2>4. Quiet(rx[Sensor], s, Relay)
    <3>1. Sync(Gateway, NextSyncSeq) \in Inbox(Sensor)
      BY <2>1, FrameTypes
    <3>2. ~From(Sync(Gateway, NextSyncSeq), Relay)
      BY QuietFrames DEF Forwarder
    <3> QED
      BY <2>2, <3>1, <3>2, QuietArrival, QuietSame, Nodes
  <2>5. r = rx[Relay] \/ r = Append(rx[Relay], Sync(Gateway, NextSyncSeq))
    BY DEF Reaches
  <2>6. Quiet(rx[Relay], rx[Relay], Gateway)
    BY QuietSame, Nodes
  <2> QED
    BY <1>2, <2>3, <2>4, <2>5, <2>6 DEF GatewaySyncSlot, Broadcast
<1>3. CASE RelayControlSlot
  <2>1. CASE pending_sync_forward = None
    BY <1>3, <2>1, QuietSame, Nodes DEF RelayControlSlot, NothingNew
  <2>2. CASE pending_sync_forward # None
    <3>1. PICK q \in Reaches(rx[Sensor], Sync(Relay, pending_sync_forward)) :
             rx' = [rx EXCEPT ![Sensor] = q]
      BY <1>3, <2>2 DEF RelayControlSlot
    <3>2. rx'[Sensor] = q /\ rx'[Relay] = rx[Relay]
      BY <3>1, Nodes DEF TypeOK
    <3>3. q = rx[Sensor] \/ q = Append(rx[Sensor], Sync(Relay, pending_sync_forward))
      BY DEF Reaches
    <3>4. sync_seq' = sync_seq /\ pending_sync_forward' = None
      BY <1>3 DEF RelayControlSlot
    <3> QED
      BY <2>2, <3>2, <3>3, <3>4, QuietSame, Nodes DEF NothingNew, PassedOn
  <2> QED
    BY <2>1, <2>2
<1>4. CASE RxSync(Relay)
  <2>1. /\ rx[Relay] # <<>> /\ From(Head(rx[Relay]), Gateway)
        /\ rx' = [rx EXCEPT ![Relay] = Tail(rx[Relay])]
        /\ pending_sync_forward' = Head(rx[Relay]).sync_seq /\ sync_seq' = sync_seq
    BY <1>4, SyncHead, Nodes DEF RxSync, Receives, From, Forwarder
  <2> QED
    BY <2>1, Nodes DEF Taken, TypeOK
<1>5. ASSUME NEW n \in Node, n # Sensor, RxHello(n) PROVE NothingNew
  BY <1>5, HandledQuietly
<1>6. ASSUME NEW n \in Node, n # Gateway, RxJoinAck(n) PROVE NothingNew
  BY <1>6, HandledQuietly
<1>7. CASE RxSync(Sensor)
  BY <1>7, HandledQuietly, Nodes
<1>8. ASSUME NEW n \in Forwarder, HelloRetry(n) \/ Restart(n) PROVE NothingNew
  BY <1>8, ArrivesQuietly
<1> QED
  BY <1>1, <1>2, <1>3, <1>4, <1>5, <1>6, <1>7, <1>8, Nodes DEF Next, CoreTask
-----------------------------------------------------------------------------
(***************************************************************************)
(* Order.                                                                  *)
(***************************************************************************)
\* The gateway stops before its number wraps.
NoSyncWrap == LastSyncSeq # None /\ FirstSyncSeq <= LastSyncSeq

\* The inductive form of SyncPassedInOrder: on their way from the gateway over
\* the relay's queue, its place for one SYNC and the sensor's queue, numbers
\* go down.
Passage ==
    LET up   == Numbers(rx[Relay], Gateway)
        down == Numbers(rx[Sensor], Relay)
        p    == pending_sync_forward
    IN  /\ sync_seq <= LastSyncSeq
        /\ Ascending(rx[Relay], Gateway) /\ Ascending(rx[Sensor], Relay)
        /\ \A u \in up : u <= sync_seq
        /\ \A d \in down : d <= sync_seq /\ \A u \in up : d < u
        /\ p # None => /\ p <= sync_seq
                       /\ \A u \in up : p < u
                       /\ \A d \in down : d < p

LEMMA NumbersAreNat ==
    ASSUME TypeOK, NEW n \in Node, NEW p
    PROVE  Numbers(rx[n], p) \subseteq SyncSeqs /\ SyncSeqs \subseteq Nat
<1>1. ASSUME NEW i \in 1 .. Len(rx[n]), From(rx[n][i], p) PROVE rx[n][i].sync_seq \in SyncSeqs
  <2>1. rx[n][i] \in Inbox(n)
    BY ElementOfSeq DEF TypeOK
  <2> QED
    BY <1>1, <2>1, Inboxes, Nodes DEF From, Hello, JoinAck, Sync
<1> QED
  BY <1>1, BootstrapAssumption DEF Numbers, SyncSeqs

LEMMA PassageStep ==
    ASSUME NoSyncWrap, TypeOK, Passage, [Next]_vars PROVE Passage'
<1> DEFINE up    == Numbers(rx[Relay], Gateway)
           down  == Numbers(rx[Sensor], Relay)
           up2   == Numbers(rx'[Relay], Gateway)
           down2 == Numbers(rx'[Sensor], Relay)
           p     == pending_sync_forward
<1>1. /\ up \subseteq Nat /\ down \subseteq Nat /\ sync_seq \in Nat
      /\ p # None => p \in Nat
      /\ rx[Relay] \in Seq(Inbox(Relay)) /\ rx[Sensor] \in Seq(Inbox(Sensor))
      /\ None \notin SyncSeqs
  BY NumbersAreNat, Nodes, BootstrapAssumption DEF TypeOK, SyncSeqs
<1>2. /\ sync_seq <= LastSyncSeq
      /\ Ascending(rx[Relay], Gateway) /\ Ascending(rx[Sensor], Relay)
      /\ \A u \in up : u <= sync_seq
      /\ \A d \in down : d <= sync_seq /\ \A u \in up : d < u
      /\ p # None => /\ p <= sync_seq
                     /\ \A u \in up : p < u
                     /\ \A d \in down : d < p
  BY DEF Passage
<1>3. SUFFICES
         /\ sync_seq' <= LastSyncSeq
         /\ Ascending(rx'[Relay], Gateway) /\ Ascending(rx'[Sensor], Relay)
         /\ \A u \in up2 : u <= sync_seq'
         /\ \A d \in down2 : d <= sync_seq' /\ \A u \in up2 : d < u
         /\ p' # None => /\ p' <= sync_seq'
                         /\ \A u \in up2 : p' < u
                         /\ \A d \in down2 : d < p'
  BY DEF Passage, Numbers, Ascending
<1> HIDE DEF up, down, up2, down2
<1>4. CASE NothingNew
  <2>1. /\ up2 \subseteq up /\ down2 \subseteq down /\ sync_seq' = sync_seq
        /\ p' = p \/ p' = None
        /\ Ascending(rx'[Relay], Gateway) /\ Ascending(rx'[Sensor], Relay)
    BY <1>2, <1>4 DEF NothingNew, Quiet, up, up2, down, down2
  <2> QED
    BY <1>2, <2>1
<1>5. CASE Broadcast
  <2>1. sync_seq' = sync_seq + 1 /\ sync_seq' <= LastSyncSeq /\ sync_seq' \in SyncSeqs
    <3>1. /\ sync_seq < LastSyncSeq /\ LastSyncSeq \in 0 .. SyncModulus - 1
      BY <1>1, <1>2, <1>5, BootstrapAssumption DEF Broadcast, NoSyncWrap
    <3>2. sync_seq + 1 \in 0 .. SyncModulus - 1
      BY <1>1, <3>1, BootstrapAssumption
    <3>3. \A m \in Nat : \A a \in 0 .. m - 1 : a % m = a
      OBVIOUS
    <3>4. NextSyncSeq = sync_seq + 1
      BY <3>2, <3>3, BootstrapAssumption DEF NextSyncSeq
    <3> QED
      BY <1>1, <1>5, <3>1, <3>2, <3>4 DEF Broadcast, SyncSeqs
  <2>2. /\ down2 \subseteq down /\ Ascending(rx'[Sensor], Relay) /\ p' = p
    BY <1>2, <1>5 DEF Broadcast, Quiet, down, down2
  <2>3. up2 \subseteq up \cup {sync_seq'} /\ Ascending(rx'[Relay], Gateway)
    <3>1. CASE Quiet(rx[Relay], rx'[Relay], Gateway)
      BY <1>2, <3>1 DEF Quiet, up, up2
    <3>2. CASE rx'[Relay] = Append(rx[Relay], Sync(Gateway, sync_seq'))
      <4> DEFINE f == Sync(Gateway, sync_seq')
      <4>1. f \in Inbox(Relay) /\ From(f, Gateway) /\ f.sync_seq = sync_seq'
        BY <2>1, FrameTypes DEF From, Sync
      <4>2. \A n \in Numbers(rx[Relay], Gateway) : n < f.sync_seq
        BY <1>1, <1>2, <2>1, <4>1 DEF up
      <4> HIDE DEF f
      <4>3. /\ Ascending(Append(rx[Relay], f), Gateway)
            /\ Numbers(Append(rx[Relay], f), Gateway)
                  \subseteq Numbers(rx[Relay], Gateway) \cup {f.sync_seq}
        BY <1>1, <1>2, <4>1, <4>2, AppendHighest
      <4> QED
        BY <3>2, <4>1, <4>3 DEF up, up2, f
    <3> QED
      BY <1>5, <3>1, <3>2 DEF Broadcast
  <2>4. ASSUME NEW u \in up2 PROVE u <= sync_seq'
    <3>1. u = sync_seq' \/ (u \in Nat /\ u <= sync_seq)
      BY <1>1, <1>2, <2>3, <2>4
    <3> QED
      BY <1>1, <2>1, <3>1
  <2>5. \A d \in down2 : d <= sync_seq' /\ \A u \in up2 : d < u
    BY <1>1, <1>2, <2>1, <2>2, <2>3
  <2>6. p' # None => /\ p' <= sync_seq' /\ \A u \in up2 : p' < u
                     /\ \A d \in down2 : d < p'
    BY <1>1, <1>2, <2>1, <2>2, <2>3
  <2> QED
    BY <2>1, <2>2, <2>3, <2>4, <2>5, <2>6
<1>6. CASE Taken
  <2>1. /\ p' \in up /\ \A u \in up2 : p' < u
    BY <1>1, <1>2, <1>6, HeadLowest DEF Taken, up, up2
  <2>2. up2 \subseteq up /\ Ascending(rx'[Relay], Gateway)
    <3>1. Quiet(rx[Relay], Tail(rx[Relay]), Gateway)
      BY <1>6, QuietSame, Nodes DEF Taken
    <3> QED
      BY <1>2, <1>6, <3>1 DEF Taken, Quiet, up, up2
  <2>3. down2 = down /\ Ascending(rx'[Sensor], Relay) /\ sync_seq' = sync_seq
    BY <1>2, <1>6 DEF Taken, down, down2
  <2> QED
    BY <1>1, <1>2, <2>1, <2>2, <2>3
<1>7. CASE PassedOn
  <2> DEFINE f == Sync(Relay, p)
  <2>1. p # None /\ p' = None /\ sync_seq' = sync_seq /\ up2 = up /\ rx'[Relay] = rx[Relay]
    BY <1>7 DEF PassedOn, up, up2
  <2>2. f \in Inbox(Sensor) /\ From(f, Relay) /\ f.sync_seq = p
    BY <2>1, FrameTypes DEF From, Sync, TypeOK
  <2>3. \A n \in Numbers(rx[Sensor], Relay) : n < f.sync_seq
    BY <1>2, <2>1, <2>2 DEF down
  <2> HIDE DEF f
  <2>4. /\ Ascending(Append(rx[Sensor], f), Relay)
        /\ Numbers(Append(rx[Sensor], f), Relay)
              \subseteq Numbers(rx[Sensor], Relay) \cup {f.sync_seq}
    BY <1>1, <1>2, <2>2, <2>3, AppendHighest
  <2>5. Ascending(rx'[Sensor], Relay) /\ down2 \subseteq down \cup {p}
    BY <1>7, <2>2, <2>4 DEF PassedOn, down, down2, f
  <2> QED
    BY <1>1, <1>2, <2>1, <2>5
<1> QED
  BY <1>4, <1>5, <1>6, <1>7, PassageSteps

\* While the gateway's number does not wrap, the relay passes each SYNC on at
\* most once and never an older one after a newer one.
THEOREM SyncPassedInOrderCorrect ==
    ASSUME NoSyncWrap PROVE Spec => []SyncPassedInOrder
<1>1. Init => Passage
  <2> SUFFICES ASSUME Init PROVE Passage
    OBVIOUS
  <2>1. Len(rx[Relay]) = 0 /\ Len(rx[Sensor]) = 0
    BY EmptySeq, Nodes DEF Init
  <2> QED
    BY <2>1 DEF Init, Passage, Numbers, Ascending, NoSyncWrap
<1>2. TypeOK /\ Passage /\ [Next]_vars => Passage'
  BY PassageStep
<1>3. Passage => SyncPassedInOrder
  <2> SUFFICES ASSUME Passage, NEW i \in 1 .. Len(rx[Sensor]), FromRelay(rx[Sensor][i])
               PROVE  /\ pending_sync_forward # None
                            => rx[Sensor][i].sync_seq < pending_sync_forward
                      /\ \A j \in i + 1 .. Len(rx[Sensor]) : FromRelay(rx[Sensor][j])
                            => rx[Sensor][i].sync_seq < rx[Sensor][j].sync_seq
    BY DEF SyncPassedInOrder
  <2>1. rx[Sensor][i].sync_seq \in Numbers(rx[Sensor], Relay)
    BY DEF Numbers, From, FromRelay
  <2> QED
    BY <2>1 DEF Passage, Ascending, From, FromRelay
<1> QED
  BY <1>1, <1>2, <1>3, BootstrapTypeCorrect, PTL DEF Spec
-----------------------------------------------------------------------------
(***************************************************************************)
(* The number zero.                                                        *)
(***************************************************************************)
\* What waits at the relay is what its clock was set by.
WaitsAsApplied == pending_sync_forward \in {None, last_sync_seq[Relay]}

LEMMA ZeroStep ==
    ASSUME TypeOK, WaitsAsApplied, ZeroStopsAtRelay, [Next]_vars
    PROVE  WaitsAsApplied' /\ ZeroStopsAtRelay'
<1> DEFINE down == Numbers(rx[Sensor], Relay)
<1>1. WaitsAsApplied'
  <2>1. ASSUME NEW n \in Node, CoreTask(n) PROVE WaitsAsApplied'
    BY <2>1, Nodes DEF CoreTask, GatewaySyncSlot, RelayControlSlot, RxHello, RxJoinAck,
       RxSync, WaitsAsApplied, TypeOK
  <2>2. ASSUME NEW n \in Forwarder, HelloRetry(n) \/ Restart(n) PROVE WaitsAsApplied'
    BY <2>2, Nodes DEF HelloRetry, Restart, WaitsAsApplied, TypeOK
  <2>3. CASE Tick \/ UNCHANGED vars
    BY <2>3 DEF Tick, vars, WaitsAsApplied
  <2> QED
    BY <2>1, <2>2, <2>3 DEF Next
<1>2. 0 \notin down
  BY DEF ZeroStopsAtRelay, Numbers, From, FromRelay
<1>3. 0 \notin Numbers(rx'[Sensor], Relay)
  <2>1. CASE NothingNew \/ Broadcast
    BY <1>2, <2>1 DEF NothingNew, Broadcast, Quiet
  <2>2. CASE Taken
    BY <1>2, <2>2 DEF Taken
  <2>3. CASE PassedOn
    <3>1. last_sync_seq[Relay] # 0
      <4>1. RelayControlSlot
        <5>1. ASSUME NEW n \in Node, CoreTask(n), ~RelayControlSlot
              PROVE  ~PassedOn
          BY <5>1, Nodes DEF CoreTask, GatewaySyncSlot, RxHello, RxJoinAck, RxSync,
             PassedOn, TypeOK
        <5>2. ASSUME NEW n \in Forwarder, HelloRetry(n) PROVE ~PassedOn
          BY <5>2 DEF HelloRetry, PassedOn
        <5>3. ASSUME NEW n \in Forwarder, Restart(n) PROVE ~PassedOn
          <6>1. n = Relay => rx'[Relay] = <<>>
            BY <5>3, Nodes DEF Restart, TypeOK
          <6> QED
            BY <5>3, Nodes DEF Restart, PassedOn, TypeOK
        <5>4. Tick \/ UNCHANGED vars => ~PassedOn
          BY DEF Tick, vars, PassedOn
        <5> QED
          BY <2>3, <5>1, <5>2, <5>3, <5>4 DEF Next
      <4> QED
        BY <4>1 DEF RelayControlSlot, FollowsSchedule, IsSynced
    <3>2. pending_sync_forward # 0
      BY <2>3, <3>1 DEF WaitsAsApplied, PassedOn
    <3> DEFINE f == Sync(Relay, pending_sync_forward)
               a == Append(rx[Sensor], f)
    <3>3. rx[Sensor] \in Seq(Inbox(Sensor)) /\ f.sync_seq # 0 /\ f \in Inbox(Sensor)
      BY <2>3, <3>2, FrameTypes, Nodes DEF TypeOK, Sync, PassedOn
    <3> HIDE DEF f
    <3>4. /\ Len(a) = Len(rx[Sensor]) + 1 /\ Len(rx[Sensor]) \in Nat
          /\ a[Len(rx[Sensor]) + 1] = f
          /\ \A i \in 1 .. Len(rx[Sensor]) : a[i] = rx[Sensor][i]
      BY <3>3, AppendProperties, LenProperties
    <3>5. rx'[Sensor] = a
      BY <2>3 DEF PassedOn, f
    <3> HIDE DEF a
    <3> QED
      BY <1>2, <3>3, <3>4, <3>5 DEF Numbers
  <2> QED
    BY <2>1, <2>2, <2>3, PassageSteps
<1> QED
  BY <1>1, <1>3 DEF ZeroStopsAtRelay, Numbers, From, FromRelay

\* The SYNC number zero does not pass the relay, however the numbers wrap.
THEOREM ZeroStopsAtRelayCorrect == Spec => []ZeroStopsAtRelay
<1>1. Init => WaitsAsApplied /\ ZeroStopsAtRelay
  <2> SUFFICES ASSUME Init PROVE WaitsAsApplied /\ ZeroStopsAtRelay
    OBVIOUS
  <2>1. Len(rx[Sensor]) = 0
    BY EmptySeq, Nodes DEF Init
  <2> QED
    BY <2>1 DEF Init, WaitsAsApplied, ZeroStopsAtRelay
<1>2. TypeOK /\ WaitsAsApplied /\ ZeroStopsAtRelay /\ [Next]_vars
      => WaitsAsApplied' /\ ZeroStopsAtRelay'
  BY ZeroStep
<1> QED
  BY <1>1, <1>2, BootstrapTypeCorrect, PTL DEF Spec
=============================================================================
