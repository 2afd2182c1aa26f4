------------------------- MODULE LossAccounting_proofs -------------------------
(***************************************************************************)
(* Proofs about LossAccounting for every size of the messages and frames,  *)
(* every timeout and delay, and any number of frames below the number of   *)
(* frame IDs: at the wrap the Defragmenter's order of the frames is wrong. *)
(*                                                                         *)
(* IInv is inductive.  A packet that has arrived stays in the buffer until *)
(* the counters have passed it; a frame in the buffer is not older than    *)
(* what is still in the network allows (Buffer), so that with delays below *)
(* the timeout nothing in the network is behind the counters (InvAhead).   *)
(***************************************************************************)
EXTENDS LossAccounting, NumberTheorems, SequenceTheorems, FiniteSetTheorems, TLAPS

\* The frame IDs do not wrap.
FewFrames == \A s \in Settings : s.maxFrames < FrameIDs

PacketType == [frame : Nat, byteSeq : Int, len : Int]
FrameType == [created : Nat, fragments : SUBSET Nat]

Typed ==
  /\ setting \in Settings /\ now \in Nat
  /\ outFrames \in 0..MaxFrames /\ outBytes \in Int
  /\ sent \in Seq(PacketType) /\ inFlight \subseteq [seq : Nat, due : Nat]
  /\ next.frame \in 0..outFrames /\ next.packet \in 0..Len(sent)
  /\ arrived \subseteq Seqs
  /\ {stats.receivedPackets, stats.receivedFrames, stats.lostFrames,
      stats.lostPackets} \subseteq Int

\* The packets are in the order of their frames.
InvSent ==
  \A i \in Seqs : /\ Packet(i).frame \in 0..(outFrames - 1)
                  /\ \A j \in Seqs : i <= j => Packet(i).frame <= Packet(j).frame

InvNetwork ==
  \A p \in inFlight : p.seq \in Seqs /\ now <= p.due /\ p.due <= now + MaxDelay

\* The buffer fs, when the packets arr have arrived.
Buffer(fs, arr) ==
  \A id \in DOMAIN fs :
    /\ id \in 0..(outFrames - 1) /\ fs[id] \in FrameType /\ fs[id].created <= now
    /\ fs[id].fragments # {} /\ fs[id].fragments \subseteq arr
    /\ \A s \in fs[id].fragments : Packet(s).frame = id
    /\ \A p \in inFlight :
         Packet(p.seq).frame <= id => p.due <= fs[id].created + MaxDelay
    /\ \A g \in DOMAIN fs :
         id <= g => fs[id].created <= fs[g].created + MaxDelay

InBuffer(s, fs) ==
  Packet(s).frame \in DOMAIN fs /\ s \in fs[Packet(s).frame].fragments

\* What has arrived and not been passed by the counters is in the buffer.
Keeps(fs, arr, nextFrame, nextPacket) ==
  \A s \in arr :
    s >= nextPacket \/ Packet(s).frame >= nextFrame => InBuffer(s, fs)

\* Nothing in the network is behind the counters.
InvAhead ==
  MaxDelay < Timeout =>
    \A p \in inFlight : p.seq >= next.packet /\ Packet(p.seq).frame >= next.frame

\* The frames of which a packet has arrived.
FramesOf(arr) == {Packet(s).frame : s \in arr}

InvLost ==
  MaxDelay < Timeout =>
    /\ stats.lostPackets = Cardinality((0..(next.packet - 1)) \ arrived)
    /\ stats.lostFrames = Cardinality((0..(next.frame - 1)) \ FramesOf(arrived))

InvReceived ==
  stats.receivedFrames <= Cardinality((0..(next.frame - 1)) \cap FramesOf(arrived))

IInv ==
  /\ Typed /\ InvSent /\ InvNetwork /\ Buffer(frames, arrived)
  /\ Keeps(frames, arrived, next.frame, next.packet)
  /\ InvAhead /\ InvLost /\ InvReceived

-----------------------------------------------------------------------------
(* The constants.                                                          *)

LEMMA SettingFacts ==
  ASSUME FewFrames, Typed
  PROVE  /\ Timeout \in Nat \ {0} /\ MaxDelay \in Nat /\ MaxFrames \in Nat
         /\ MaxFrames < FrameIDs /\ FrameSizes \subseteq Nat \ {0}
         /\ FrameIDs \in Nat \ {0} /\ outFrames < FrameIDs
<1>1. setting \in Settings
  BY DEF Typed
<1>2. /\ setting.frameSizes \subseteq Nat \ {0} /\ setting.timeout \in Nat \ {0}
      /\ setting.maxDelay \in Nat /\ setting.maxFrames \in Nat
      /\ setting.maxFrames < FrameIDs /\ FrameIDs \in Nat \ {0}
  BY <1>1, ConstantsAssumption DEF FewFrames
<1> QED
  BY <1>2 DEF Typed, Timeout, MaxDelay, MaxFrames, FrameSizes

\* The ID of a frame is its number.
LEMMA FrameNumber ==
  ASSUME FewFrames, Typed, InvSent, NEW s \in Seqs
  PROVE  FrameID(s) = Packet(s).frame
<1>1. Packet(s).frame \in 0..(FrameIDs - 1)
  BY SettingFacts DEF InvSent, Typed
<1> QED
  BY <1>1, SettingFacts, WithinRing DEF FrameID

-----------------------------------------------------------------------------
(* The number after the greatest one.                                      *)

LEMMA GreatestNumber ==
  ASSUME NEW n \in Nat, NEW S \in SUBSET (0..n), S # {}
  PROVE  \E m \in S : \A x \in S : x <= m
<1> DEFINE T == {n - x : x \in S}
<1>1. T \in SUBSET Nat /\ T # {}
  <2>1. \A x \in S : n - x \in Nat
    OBVIOUS
  <2>2. \E x \in S : TRUE
    OBVIOUS
  <2> QED
    BY <2>1, <2>2
<1>2. PICK k \in T : \A y \in T : k <= y
  BY <1>1, LeastNumberPrinciple
<1>3. PICK m \in S : k = n - m
  BY <1>2
<1>4. ASSUME NEW x \in S PROVE x <= m
  <2>1. n - m <= n - x
    BY <1>2, <1>3
  <2> QED
    BY <2>1
<1> QED
  BY <1>4

\* a is the number after the greatest one in S, or n.
IsAfter(a, S, n) ==
  /\ a \in Nat /\ n <= a /\ \A x \in S : x < a
  /\ a = n \/ a - 1 \in S

LEMMA AfterFacts ==
  ASSUME NEW k \in Nat, NEW S \in SUBSET (0..k), NEW n \in Nat
  PROVE  IsAfter(After(S, n), S, n)
<1>1. CASE \E x \in S : x >= n
  <2>1. PICK x \in S : x >= n
    BY <1>1
  <2> DEFINE m == CHOOSE y \in S : \A z \in S : z <= y
  <2>2. m \in S /\ \A z \in S : z <= m
    <3>1. \E y \in S : \A z \in S : z <= y
      BY <2>1, GreatestNumber
    <3> QED
      BY <3>1
  <2>3. After(S, n) = 1 + m
    BY <1>1 DEF After
  <2> HIDE DEF m
  <2>4. m \in Nat /\ x <= m /\ x \in Nat
    BY <2>1, <2>2
  <2> QED
    BY <2>1, <2>2, <2>3, <2>4 DEF IsAfter
<1>2. CASE ~\E x \in S : x >= n
  BY <1>2 DEF After, IsAfter
<1> QED
  BY <1>1, <1>2

-----------------------------------------------------------------------------
(* Counting.                                                               *)

\* Of the numbers from a to b - 1, those in C are the ones that A has.
MissingOf(a, b, A, C) ==
  /\ IsFiniteSet((a..(b - 1)) \ A) /\ IsFiniteSet(C) /\ Cardinality(C) \in Nat
  /\ Cardinality((a..(b - 1)) \ A) = b - a - Cardinality(C)

LEMMA CountMissing ==
  ASSUME NEW a \in Nat, NEW b \in Nat, a <= b, NEW A, NEW C,
         C = (a..(b - 1)) \cap A
  PROVE  MissingOf(a, b, A, C)
<1> DEFINE I == a..(b - 1)
           D == I \ A
<1>1. IsFiniteSet(I) /\ Cardinality(I) = b - a
  <2>1. b - 1 \in Int /\ (a > b - 1 => b - a = 0) /\ (b - 1) - a + 1 = b - a
    OBVIOUS
  <2>2. /\ IsFiniteSet(I)
        /\ Cardinality(I) = IF a > b - 1 THEN 0 ELSE (b - 1) - a + 1
    BY <2>1, FS_Interval
  <2> HIDE DEF I
  <2> QED
    BY <2>1, <2>2
<1> HIDE DEF I
<1>2. C \in SUBSET I /\ D \in SUBSET I /\ C \cup D = I /\ C \cap D = {}
  BY DEF I
<1> HIDE DEF D
<1>3. IsFiniteSet(C) /\ IsFiniteSet(D) /\ Cardinality(C) \in Nat /\ Cardinality(D) \in Nat
  BY <1>1, <1>2, FS_Subset, FS_CardinalityType
<1>4. Cardinality(C \cup D) = Cardinality(C) + Cardinality(D) - Cardinality(C \cap D)
  BY <1>3, FS_Union
<1>5. Cardinality(C \cap D) = 0 /\ Cardinality(C \cup D) = Cardinality(I)
  BY <1>2, FS_EmptySet
<1>6. b - a = Cardinality(C) + Cardinality(D)
  BY <1>1, <1>3, <1>4, <1>5
<1>7. Cardinality(D) = b - a - Cardinality(C)
  BY <1>3, <1>6
<1> QED
  BY <1>3, <1>7 DEF D, I, MissingOf

\* The pairs of a set count as much as their second parts, if these tell them
\* apart.
LEMMA CountPairs ==
  ASSUME NEW S, NEW T, IsFiniteSet(T), \A x \in S : x[2] \in T,
         \A y \in T : \E x \in S : x[2] = y,
         \A x, y \in S : x[2] = y[2] => x = y
  PROVE  Cardinality(S) = Cardinality(T)
<1> DEFINE f == [x \in S |-> x[2]]
<1>1. f \in [S -> T] /\ \A x \in S : f[x] = x[2]
  OBVIOUS
<1> HIDE DEF f
<1>2. f \in Injection(S, T)
  BY <1>1 DEF Injection, IsInjective
<1>3. f \in Surjection(S, T)
  BY <1>1 DEF Surjection
<1> QED
  BY <1>2, <1>3, FS_Injection

-----------------------------------------------------------------------------
(* A packet arrives: it is added to the buffer.                            *)

LEMMA AddedBuffer ==
  ASSUME FewFrames, IInv, NEW p \in inFlight
  PROVE  LET a == AddFragment(p.seq)
             arr == arrived \cup {p.seq}
         IN /\ Buffer(a, arr) /\ InBuffer(p.seq, a)
            /\ Keeps(a, arr, next.frame, next.packet)
<1> DEFINE seq == p.seq
           id == FrameID(seq)
           a == AddFragment(seq)
           arr == arrived \cup {seq}
<1>1. /\ Typed /\ InvSent /\ seq \in Seqs /\ seq \in Nat
      /\ now <= p.due /\ p.due \in Nat /\ now \in Nat
      /\ \A q \in inFlight : q.due <= now + MaxDelay /\ q.due \in Nat
      /\ MaxDelay \in Nat
  BY SettingFacts DEF IInv, Typed, InvNetwork, Seqs
<1>2. id = Packet(seq).frame /\ id \in 0..(outFrames - 1)
  BY <1>1, FrameNumber DEF InvSent
<1>3. /\ DOMAIN a = DOMAIN frames \cup {id}
      /\ \A f \in DOMAIN frames : f # id => a[f] = frames[f]
      /\ id \in DOMAIN frames =>
           a[id] = [frames[id] EXCEPT !.fragments = @ \cup {seq}]
      /\ id \notin DOMAIN frames => a[id] = [created |-> now, fragments |-> {seq}]
  BY DEF AddFragment
<1>4. Buffer(frames, arrived)
  BY DEF IInv
<1> HIDE DEF seq, id, a
<1>5. ASSUME NEW f \in DOMAIN frames
      PROVE  /\ a[f] \in FrameType /\ a[f].created = frames[f].created
             /\ a[f].fragments = IF f = id THEN frames[f].fragments \cup {seq}
                                 ELSE frames[f].fragments
  <2>1. frames[f] \in FrameType
    BY <1>4 DEF Buffer
  <2>2. CASE f # id
    BY <1>3, <2>1, <2>2
  <2>3. CASE f = id
    <3>1. a[f] = [frames[f] EXCEPT !.fragments = @ \cup {seq}]
      BY <1>3, <2>3
    <3>2. frames[f].fragments \cup {seq} \in SUBSET Nat
      BY <1>1, <2>1 DEF FrameType
    <3> QED
      BY <2>1, <2>3, <3>1, <3>2 DEF FrameType
  <2> QED
    BY <2>2, <2>3
<1>6. ASSUME id \notin DOMAIN frames
      PROVE  a[id] \in FrameType /\ a[id].created = now /\ a[id].fragments = {seq}
  BY <1>1, <1>3, <1>6 DEF FrameType
<1>7. seq \in a[id].fragments
  BY <1>5, <1>6
<1>8. ASSUME NEW f \in DOMAIN a
      PROVE  /\ f \in 0..(outFrames - 1) /\ a[f] \in FrameType /\ a[f].created <= now
             /\ a[f].fragments # {} /\ a[f].fragments \subseteq arr
             /\ \A s \in a[f].fragments : Packet(s).frame = f
  <2>1. CASE f \in DOMAIN frames
    <3>1. /\ f \in 0..(outFrames - 1) /\ frames[f].created <= now
          /\ frames[f].fragments # {} /\ frames[f].fragments \subseteq arrived
          /\ \A s \in frames[f].fragments : Packet(s).frame = f
      BY <1>4, <2>1 DEF Buffer
    <3>2. a[f] \in FrameType /\ a[f].created = frames[f].created
      BY <1>5, <2>1
    <3>3. CASE f = id
      <4>1. a[f].fragments = frames[f].fragments \cup {seq}
        BY <1>5, <2>1, <3>3
      <4> QED
        BY <1>2, <3>1, <3>2, <3>3, <4>1
    <3>4. CASE f # id
      <4>1. a[f].fragments = frames[f].fragments
        BY <1>5, <2>1, <3>4
      <4> QED
        BY <1>2, <3>1, <3>2, <4>1
    <3> QED
      BY <3>3, <3>4
  <2>2. CASE f \notin DOMAIN frames
    BY <1>1, <1>2, <1>3, <1>6, <2>2
  <2> QED
    BY <2>1, <2>2
<1>9. ASSUME NEW f \in DOMAIN a, NEW q \in inFlight, Packet(q.seq).frame <= f
      PROVE  q.due <= a[f].created + MaxDelay
  <2>1. CASE f \in DOMAIN frames
    BY <1>4, <1>5, <1>9, <2>1 DEF Buffer
  <2>2. CASE f \notin DOMAIN frames
    BY <1>1, <1>3, <1>6, <2>2
  <2> QED
    BY <2>1, <2>2
<1>10. ASSUME NEW f \in DOMAIN a, NEW g \in DOMAIN a, f <= g
       PROVE  a[f].created <= a[g].created + MaxDelay
  <2>1. a[f].created \in Nat /\ a[g].created \in Nat /\ a[f].created <= now
    BY <1>8 DEF FrameType
  <2>2. CASE g \notin DOMAIN frames
    BY <1>1, <1>3, <1>6, <2>1, <2>2
  <2>3. CASE g \in DOMAIN frames /\ f \in DOMAIN frames
    BY <1>4, <1>5, <1>10, <2>3 DEF Buffer
  <2>4. CASE g \in DOMAIN frames /\ f \notin DOMAIN frames
    <3>1. f = id /\ a[f].created = now
      BY <1>3, <1>6, <2>4
    <3>2. p.due <= a[g].created + MaxDelay
      BY <1>2, <1>9, <1>10, <3>1 DEF seq
    <3> QED
      BY <1>1, <2>1, <3>1, <3>2
  <2> QED
    BY <2>2, <2>3, <2>4
<1>11. Buffer(a, arr)
  BY <1>8, <1>9, <1>10 DEF Buffer
<1>12. InBuffer(seq, a)
  BY <1>2, <1>3, <1>7 DEF InBuffer
<1>13. ASSUME NEW s \in arr, s >= next.packet \/ Packet(s).frame >= next.frame
       PROVE  InBuffer(s, a)
  <2>1. CASE s = seq
    BY <1>12, <2>1
  <2>2. CASE s \in arrived
    <3>1. InBuffer(s, frames)
      BY <1>13, <2>2 DEF IInv, Keeps
    <3> QED
      BY <1>3, <1>5, <3>1 DEF InBuffer
  <2> QED
    BY <2>1, <2>2
<1>14. Keeps(a, arr, next.frame, next.packet)
  BY <1>13 DEF Keeps
<1> QED
  BY <1>11, <1>12, <1>14 DEF a, seq

-----------------------------------------------------------------------------
(* What is purged from the buffer a, and the counters after that.          *)

PurgedFragments(a) == {x \in Fragments(a) : x[1] \in Expired(a)}
PurgedSeqs(a) == {x[2] : x \in PurgedFragments(a)}

\* Frames are purged in their order, up to the first one that is young.
LEMMA ExpiredFirst ==
  ASSUME Typed, NEW arr, NEW a, Buffer(a, arr)
  PROVE  /\ Expired(a) \subseteq DOMAIN a /\ Expired(a) \subseteq 0..(outFrames - 1)
         /\ \A f \in Expired(a) : a[f].created + Timeout <= now
         /\ \A f \in DOMAIN a, g \in Expired(a) : f <= g => f \in Expired(a)
         /\ \A f \in DOMAIN a \ Expired(a) :
              \E g \in DOMAIN a : g <= f /\ ~(a[g].created + Timeout <= now)
<1>1. DOMAIN a \subseteq 0..(outFrames - 1) /\ outFrames \in Int
  BY DEF Buffer, Typed
<1>2. ASSUME NEW f \in DOMAIN a, NEW g \in DOMAIN a, NEW h \in DOMAIN a, f <= g, h <= f
      PROVE  h <= g
  BY <1>1, <1>2
<1>3. \A f \in DOMAIN a : f <= f
  BY <1>1
<1> QED
  BY <1>1, <1>2, <1>3 DEF Expired, IsOld

LEMMA PurgedFacts ==
  ASSUME Typed, NEW arr \in SUBSET Seqs, NEW a, Buffer(a, arr)
  PROVE  /\ \A x \in PurgedFragments(a) :
              /\ x = <<Packet(x[2]).frame, x[2]>> /\ x[1] = Packet(x[2]).frame
              /\ x[2] \in arr
         /\ \A s : s \in PurgedSeqs(a) <=>
                     /\ s \in arr /\ InBuffer(s, a)
                     /\ Packet(s).frame \in Expired(a)
<1>1. ASSUME NEW x \in PurgedFragments(a)
      PROVE  /\ x = <<Packet(x[2]).frame, x[2]>> /\ x[1] = Packet(x[2]).frame
             /\ x[2] \in arr /\ InBuffer(x[2], a) /\ x[1] \in Expired(a)
  <2>1. /\ x \in (DOMAIN a) \X Seqs /\ x[2] \in a[x[1]].fragments /\ x[1] \in Expired(a)
    BY DEF PurgedFragments, Fragments
  <2>2. x[1] \in DOMAIN a /\ x = <<x[1], x[2]>>
    BY <2>1
  <2>3. x[1] = Packet(x[2]).frame /\ x[2] \in arr
    BY <2>1, <2>2 DEF Buffer
  <2> QED
    BY <2>1, <2>2, <2>3 DEF InBuffer
<1>2. ASSUME NEW s \in arr, InBuffer(s, a), Packet(s).frame \in Expired(a)
      PROVE  s \in PurgedSeqs(a)
  <2> DEFINE x == <<Packet(s).frame, s>>
  <2>1. x[1] = Packet(s).frame /\ x[2] = s /\ x \in (DOMAIN a) \X Seqs
    BY <1>2 DEF InBuffer
  <2> HIDE DEF x
  <2>2. x \in PurgedFragments(a)
    BY <1>2, <2>1 DEF PurgedFragments, Fragments, InBuffer
  <2> QED
    BY <2>1, <2>2 DEF PurgedSeqs
<1>3. ASSUME NEW s \in PurgedSeqs(a)
      PROVE  s \in arr /\ InBuffer(s, a) /\ Packet(s).frame \in Expired(a)
  <2>1. PICK x \in PurgedFragments(a) : s = x[2]
    BY DEF PurgedSeqs
  <2> QED
    BY <1>1, <2>1
<1> QED
  BY <1>1, <1>2, <1>3

InOrder(S) == \A x \in S : x = <<Packet(x[2]).frame, x[2]>> /\ x[2] \in Seqs

\* The order of purge() is that of the sequence numbers.
LEMMA OrderOfPackets ==
  ASSUME InvSent, NEW S, InOrder(S), NEW x \in S, NEW y \in S
  PROVE  /\ x[2] \in Nat /\ y[2] \in Nat /\ (x[2] = y[2] => x = y)
         /\ Before(y, x) <=> y[2] < x[2]
<1>1. /\ x[2] \in Seqs /\ y[2] \in Seqs /\ x[2] \in Nat /\ y[2] \in Nat
      /\ x[1] = Packet(x[2]).frame /\ y[1] = Packet(y[2]).frame
      /\ x = <<Packet(x[2]).frame, x[2]>> /\ y = <<Packet(y[2]).frame, y[2]>>
  BY DEF InOrder, Seqs
<1>2. /\ x[1] \in Int /\ y[1] \in Int
      /\ x[2] <= y[2] => x[1] <= y[1]
      /\ y[2] <= x[2] => y[1] <= x[1]
  BY <1>1 DEF InvSent
<1> QED
  BY <1>1, <1>2 DEF Before

\* No fragment is passed over: purge() sees them in the order of the packets.
LEMMA CountedSeqs ==
  ASSUME Typed, InvSent, NEW arr \in SUBSET Seqs, NEW a, Buffer(a, arr)
  PROVE  Cardinality(CountedPackets(PurgedFragments(a)))
           = Cardinality({s \in PurgedSeqs(a) : s >= next.packet})
<1> DEFINE S == CountedPackets(PurgedFragments(a))
           T == {s \in PurgedSeqs(a) : s >= next.packet}
<1>1. ASSUME NEW x \in PurgedFragments(a), NEW y \in PurgedFragments(a), Before(y, x)
      PROVE  y[2] < x[2]
  <2>1. InOrder(PurgedFragments(a))
    BY PurgedFacts DEF InOrder
  <2> QED
    BY <1>1, <2>1, OrderOfPackets
<1>2. S = {x \in PurgedFragments(a) : x[2] >= next.packet}
  BY <1>1 DEF CountedPackets
<1>3. \A x \in S : x[2] \in T
  BY <1>2 DEF PurgedSeqs
<1>4. \A s \in T : \E x \in S : x[2] = s
  BY <1>2 DEF PurgedSeqs
<1>5. \A x, y \in S : x[2] = y[2] => x = y
  <2>1. \A x \in S : x = <<Packet(x[2]).frame, x[2]>>
    BY <1>2, PurgedFacts
  <2> QED
    BY <2>1
<1>6. IsFiniteSet(T)
  <2>1. IsFiniteSet(Seqs)
    <3>1. Len(sent) - 1 \in Int
      BY LenProperties DEF Typed
    <3> QED
      BY <3>1, FS_Interval DEF Seqs
  <2>2. T \in SUBSET Seqs
    BY PurgedFacts
  <2> QED
    BY <2>1, <2>2, FS_Subset
<1> HIDE DEF S, T
<1>7. Cardinality(S) = Cardinality(T)
  BY <1>3, <1>4, <1>5, <1>6, CountPairs
<1> QED
  BY <1>7 DEF S, T
\* The counters after the purge: what they pass, and has arrived, is purged
\* now.
Passed(a, arr, nextFrame, nextPacket) ==
  /\ nextFrame \in next.frame..outFrames /\ nextPacket \in next.packet..Len(sent)
  /\ (next.packet..(nextPacket - 1)) \cap arr
       = {s \in PurgedSeqs(a) : s >= next.packet}
  /\ (next.frame..(nextFrame - 1)) \cap FramesOf(arr) = Counted(Expired(a))
  /\ \A s \in PurgedSeqs(a) : s < nextPacket
  /\ \A f \in Expired(a) : f < nextFrame
  /\ nextPacket = next.packet \/ nextPacket - 1 \in PurgedSeqs(a)
  /\ nextFrame = next.frame \/ nextFrame - 1 \in Expired(a)

LEMMA CountersPass ==
  ASSUME Typed, InvSent, NEW arr \in SUBSET Seqs, NEW a, Buffer(a, arr),
         Keeps(a, arr, next.frame, next.packet)
  PROVE  Passed(a, arr, After(Expired(a), next.frame),
                After(PurgedSeqs(a), next.packet))
<1> DEFINE nf == After(Expired(a), next.frame)
           np == After(PurgedSeqs(a), next.packet)
           n == Len(sent)
           S == PurgedSeqs(a)
<1>1. /\ n \in Nat /\ Seqs = 0..(n - 1) /\ next.packet \in 0..n
      /\ outFrames \in Nat /\ next.frame \in 0..outFrames
  BY LenProperties, SettingFacts DEF Typed, Seqs
<1>2. S \subseteq arr /\ S \subseteq 0..n
  <2>1. S \subseteq arr
    BY PurgedFacts
  <2>2. Seqs \subseteq 0..n
    BY <1>1
  <2> QED
    BY <2>1, <2>2
<1>3. Expired(a) \subseteq 0..(outFrames - 1) /\ Expired(a) \subseteq 0..outFrames
  <2>1. Expired(a) \subseteq 0..(outFrames - 1)
    BY ExpiredFirst
  <2> QED
    BY <1>1, <2>1
<1>4. IsAfter(nf, Expired(a), next.frame) /\ IsAfter(np, S, next.packet)
  <2>1. next.frame \in Nat /\ next.packet \in Nat
    BY <1>1
  <2> HIDE DEF S
  <2> QED
    BY <1>1, <1>2, <1>3, <2>1, AfterFacts DEF S
<1> HIDE DEF nf, np, S, n
<1>5. nf \in next.frame..outFrames /\ np \in next.packet..n
  <2>1. nf - 1 \in Expired(a) => nf <= outFrames
    BY <1>1, <1>3, <1>4 DEF IsAfter
  <2>2. np - 1 \in S => np <= n
    <3>1. \A s \in S : s <= n - 1
      BY <1>1, <1>2
    <3> QED
      BY <1>1, <1>4, <3>1 DEF IsAfter
  <2> QED
    BY <1>1, <1>4, <2>1, <2>2 DEF IsAfter
<1>6. \A s \in S : s < np
  BY <1>4 DEF IsAfter
<1>7. \A f \in Expired(a) : f < nf
  BY <1>4 DEF IsAfter
<1>8. ASSUME NEW s \in arr, s >= next.packet, s < np
      PROVE  s \in S
  <2>1. np - 1 \in S
    BY <1>1, <1>4, <1>8 DEF IsAfter, Seqs
  <2>2. np - 1 \in Seqs /\ s \in Seqs /\ s <= np - 1
    BY <1>1, <1>2, <1>5, <1>8, <2>1
  <2>3. Packet(s).frame <= Packet(np - 1).frame
    BY <2>2 DEF InvSent
  <2>4. InBuffer(s, a)
    BY <1>8 DEF Keeps
  <2>5. Packet(np - 1).frame \in Expired(a)
    BY <2>1, PurgedFacts DEF S
  <2>6. Packet(s).frame \in Expired(a)
    BY <2>3, <2>4, <2>5, ExpiredFirst DEF InBuffer
  <2> QED
    BY <1>8, <2>4, <2>6, PurgedFacts DEF S
<1>9. ASSUME NEW s \in arr, Packet(s).frame >= next.frame, Packet(s).frame < nf
      PROVE  Packet(s).frame \in Expired(a)
  <2>1. Packet(s).frame \in Nat
    BY <1>1 DEF InvSent
  <2>2. nf - 1 \in Expired(a)
    BY <1>1, <1>4, <1>9, <2>1 DEF IsAfter
  <2>3. Packet(s).frame <= nf - 1
    BY <1>1, <1>5, <1>9, <2>1
  <2>4. InBuffer(s, a)
    BY <1>9 DEF Keeps
  <2> QED
    BY <2>2, <2>3, <2>4, ExpiredFirst DEF InBuffer
<1>10. (next.packet..(np - 1)) \cap arr = {s \in S : s >= next.packet}
  <2>1. \A s \in S : s \in Int /\ s \in arr
    BY <1>2
  <2>2. \A s \in S : s >= next.packet => s \in next.packet..(np - 1)
    BY <1>1, <1>5, <1>6, <2>1
  <2>3. \A s \in (next.packet..(np - 1)) \cap arr : s \in S /\ s >= next.packet
    BY <1>1, <1>5, <1>8
  <2> QED
    BY <2>1, <2>2, <2>3
<1>11. (next.frame..(nf - 1)) \cap FramesOf(arr) = Counted(Expired(a))
  <2>1. ASSUME NEW f \in Counted(Expired(a))
        PROVE  f \in (next.frame..(nf - 1)) \cap FramesOf(arr)
    <3>1. f \in Expired(a) /\ f >= next.frame /\ f < nf /\ f \in Nat
      BY <1>3, <1>7 DEF Counted
    <3>2. f \in DOMAIN a
      BY <3>1, ExpiredFirst
    <3>3. PICK s \in a[f].fragments : s \in arr /\ Packet(s).frame = f
      BY <3>2 DEF Buffer
    <3> QED
      BY <1>1, <1>5, <3>1, <3>3 DEF FramesOf
  <2>2. ASSUME NEW f \in (next.frame..(nf - 1)) \cap FramesOf(arr)
        PROVE  f \in Counted(Expired(a))
    <3>1. PICK s \in arr : f = Packet(s).frame
      BY <2>2 DEF FramesOf
    <3>2. f >= next.frame /\ f < nf
      BY <1>1, <1>5, <2>2
    <3> QED
      BY <1>9, <3>1, <3>2 DEF Counted
  <2> QED
    BY <2>1, <2>2
<1>12. Passed(a, arr, nf, np)
  BY <1>4, <1>5, <1>6, <1>7, <1>10, <1>11 DEF Passed, IsAfter, S, n
<1> QED
  BY <1>12 DEF nf, np, S

-----------------------------------------------------------------------------
(* What the receipt of a packet does.                                      *)

\* Packet p is added to the buffer, which is a then, and a is purged.
Updated(p, a) ==
  /\ UNCHANGED <<setting, now, outFrames, outBytes, sent>>
  /\ inFlight' \subseteq inFlight /\ arrived' = arrived \cup {p.seq}
  /\ Buffer(a, arrived') /\ Keeps(a, arrived', next.frame, next.packet)
  /\ frames' = [id \in DOMAIN a \ Expired(a) |-> a[id]]
  /\ Passed(a, arrived', next'.frame, next'.packet)
  /\ stats'.receivedPackets = stats.receivedPackets + 1
  /\ stats'.receivedFrames =
       stats.receivedFrames
       + Cardinality((next.frame..(next'.frame - 1)) \cap FramesOf(arrived'))
  /\ stats'.lostFrames =
       stats.lostFrames
       + Cardinality((next.frame..(next'.frame - 1)) \ FramesOf(arrived'))
  /\ stats'.lostPackets =
       stats.lostPackets
       + Cardinality((next.packet..(next'.packet - 1)) \ arrived')

LEMMA ReceiveUpdates ==
  ASSUME FewFrames, IInv, NEW p \in inFlight, Receive(p), setting' = setting
  PROVE  Updated(p, AddFragment(p.seq))
<1> DEFINE a == AddFragment(p.seq)
           arr == arrived \cup {p.seq}
           e == Expired(a)
           nf == After(e, next.frame)
           np == After(PurgedSeqs(a), next.packet)
<1>1. Typed /\ InvSent /\ arr \in SUBSET Seqs
  BY DEF IInv, InvNetwork, Typed
<1>2. Buffer(a, arr) /\ Keeps(a, arr, next.frame, next.packet)
  BY AddedBuffer
<1>3. /\ UNCHANGED <<setting, now, outFrames, outBytes, sent>>
      /\ inFlight' \subseteq inFlight /\ arrived' = arr
  BY DEF Receive, senderVars
<1>4. /\ frames' = [id \in DOMAIN a \ e |-> a[id]]
      /\ next'.frame = (IF nf = FrameIDs THEN 0 ELSE nf) /\ next'.packet = np
      /\ stats'.receivedPackets = stats.receivedPackets + 1
      /\ stats'.receivedFrames = stats.receivedFrames + Cardinality(Counted(e))
      /\ stats'.lostFrames = stats.lostFrames + nf - next.frame - Cardinality(Counted(e))
      /\ stats'.lostPackets = stats.lostPackets + np - next.packet
                              - Cardinality(CountedPackets(PurgedFragments(a)))
  BY DEF Receive, UpdateStatistics, PurgedSeqs, PurgedFragments
<1> HIDE DEF a, arr
<1>5. Passed(a, arr, nf, np)
  BY <1>1, <1>2, CountersPass
<1>6. Cardinality(CountedPackets(PurgedFragments(a)))
        = Cardinality({s \in PurgedSeqs(a) : s >= next.packet})
  BY <1>1, <1>2, CountedSeqs
<1> HIDE DEF e, nf, np
<1>7. /\ nf \in Nat /\ np \in Nat /\ next.frame \in Nat /\ next.packet \in Nat
      /\ next.frame <= nf /\ next.packet <= np /\ nf # FrameIDs
      /\ outFrames < FrameIDs /\ FrameIDs \in Nat
      /\ {stats.receivedPackets, stats.receivedFrames, stats.lostFrames,
          stats.lostPackets} \subseteq Int
  <2>1. nf \in next.frame..outFrames /\ np \in next.packet..Len(sent)
    BY <1>5 DEF Passed
  <2>2. /\ outFrames < FrameIDs /\ FrameIDs \in Nat /\ outFrames \in Nat
        /\ Len(sent) \in Nat /\ next.frame \in Nat /\ next.packet \in Nat
        /\ {stats.receivedPackets, stats.receivedFrames, stats.lostFrames,
            stats.lostPackets} \subseteq Int
    BY <1>1, SettingFacts, LenProperties DEF Typed
  <2> QED
    BY <2>1, <2>2
<1> DEFINE C == {s \in PurgedSeqs(a) : s >= next.packet}
           D == Counted(e)
<1>8. /\ Cardinality(C) \in Nat
      /\ Cardinality((next.packet..(np - 1)) \ arr) = np - next.packet - Cardinality(C)
  <2>1. C = (next.packet..(np - 1)) \cap arr
    BY <1>5 DEF Passed
  <2>2. next.packet \in Nat /\ np \in Nat /\ next.packet <= np
    BY <1>7
  <2> HIDE DEF C
  <2>3. MissingOf(next.packet, np, arr, C)
    BY <2>1, <2>2, CountMissing
  <2> QED
    BY <2>3 DEF MissingOf
<1>9. /\ Cardinality(D) \in Nat /\ D = (next.frame..(nf - 1)) \cap FramesOf(arr)
      /\ Cardinality((next.frame..(nf - 1)) \ FramesOf(arr))
           = nf - next.frame - Cardinality(D)
  <2>1. D = (next.frame..(nf - 1)) \cap FramesOf(arr)
    BY <1>5 DEF Passed, e
  <2>2. next.frame \in Nat /\ nf \in Nat /\ next.frame <= nf
    BY <1>7
  <2> HIDE DEF D
  <2>3. MissingOf(next.frame, nf, FramesOf(arr), D)
    BY <2>1, <2>2, CountMissing
  <2> QED
    BY <2>1, <2>3 DEF MissingOf
<1>10. next'.frame = nf /\ next'.packet = np
  BY <1>4, <1>7
<1>11. stats'.receivedFrames =
         stats.receivedFrames
         + Cardinality((next.frame..(next'.frame - 1)) \cap FramesOf(arrived'))
  BY <1>3, <1>4, <1>9, <1>10
<1>12. stats'.lostFrames =
         stats.lostFrames
         + Cardinality((next.frame..(next'.frame - 1)) \ FramesOf(arrived'))
  BY <1>3, <1>4, <1>7, <1>9, <1>10
<1>13. stats'.lostPackets =
         stats.lostPackets
         + Cardinality((next.packet..(next'.packet - 1)) \ arrived')
  <2>1. stats'.lostPackets = stats.lostPackets + np - next.packet - Cardinality(C)
    BY <1>4, <1>6
  <2> HIDE DEF C
  <2> QED
    BY <1>3, <1>7, <1>8, <1>10, <2>1
<1>14. Updated(p, a)
  BY <1>2, <1>3, <1>4, <1>5, <1>10, <1>11, <1>12, <1>13 DEF Updated, e, arr
<1> QED
  BY <1>14 DEF a
LEMMA CountOfRange ==
  ASSUME NEW m \in Int, NEW n \in Int, NEW S, S \subseteq m..n
  PROVE  IsFiniteSet(S) /\ Cardinality(S) \in Nat
  BY FS_Interval, FS_Subset, FS_CardinalityType

\* The count of what is in one of two parts.
LEMMA CountTwoParts ==
  ASSUME NEW X, NEW Y, IsFiniteSet(X), IsFiniteSet(Y), X \cap Y = {}
  PROVE  Cardinality(X \cup Y) = Cardinality(X) + Cardinality(Y)
<1>1. /\ Cardinality(X \cup Y) =
           Cardinality(X) + Cardinality(Y) - Cardinality(X \cap Y)
      /\ Cardinality(X) \in Nat /\ Cardinality(Y) \in Nat
  BY FS_Union, FS_CardinalityType
<1>2. Cardinality(X \cap Y) = 0
  BY FS_EmptySet
<1> QED
  BY <1>1, <1>2

\* With delays below the timeout a packet in the network is behind no frame
\* that is purged.
LEMMA NothingBehind ==
  ASSUME FewFrames, IInv, NEW p \in inFlight, NEW a, Updated(p, a),
         MaxDelay < Timeout, NEW q \in inFlight, NEW g \in Expired(a),
         Packet(q.seq).frame <= g
  PROVE  FALSE
<1>1. /\ MaxDelay \in Nat /\ Timeout \in Nat /\ Typed /\ now \in Nat
      /\ q.due \in Nat /\ now <= q.due
  BY SettingFacts DEF IInv, Typed, InvNetwork
<1>2. Buffer(a, arrived') /\ g \in DOMAIN a /\ a[g].created + Timeout <= now
  BY <1>1, ExpiredFirst DEF Updated
<1>3. q.due <= a[g].created + MaxDelay /\ a[g].created \in Nat
  BY <1>2 DEF Buffer, FrameType
<1> QED
  BY <1>1, <1>2, <1>3

LEMMA AheadStep ==
  ASSUME FewFrames, IInv, NEW p \in inFlight, NEW a, Updated(p, a)
  PROVE  InvAhead'
<1>1. UNCHANGED <<setting, sent>> /\ inFlight' \subseteq inFlight /\ Typed /\ InvSent
  BY DEF Updated, IInv
<1>2. /\ \A q \in inFlight : /\ q.seq \in Seqs /\ q.seq \in Int
                             /\ Packet(q.seq).frame \in Int
      /\ \A i \in Seqs : i \in Int /\ Packet(i).frame \in Int
      /\ Len(sent) \in Nat
      /\ next.packet \in Int /\ next.frame \in Int /\ outFrames \in Int
  <2>1. Len(sent) \in Nat /\ outFrames \in Int
    BY <1>1, LenProperties DEF Typed
  <2>2. next.packet \in Int /\ next.frame \in Int
    BY <1>1, <2>1 DEF Typed
  <2>3. \A i \in Seqs : i \in Int /\ Packet(i).frame \in Int
    BY <1>1, <2>1 DEF InvSent, Seqs
  <2>4. \A q \in inFlight : q.seq \in Seqs
    BY DEF IInv, InvNetwork
  <2> QED
    BY <2>1, <2>2, <2>3, <2>4
<1>3. Passed(a, arrived', next'.frame, next'.packet) /\ arrived' \in SUBSET Seqs
      /\ Buffer(a, arrived')
  BY <1>1 DEF Updated, Typed, IInv, InvNetwork
<1>4. /\ next'.packet \in Int /\ next'.frame \in Int
      /\ next.packet <= next'.packet /\ next.frame <= next'.frame
  BY <1>2, <1>3 DEF Passed
<1>5. ASSUME MaxDelay < Timeout, NEW q \in inFlight
      PROVE  q.seq >= next'.packet
  <2>0. q.seq \in Int
    BY <1>2
  <2> SUFFICES ASSUME q.seq < next'.packet PROVE FALSE
    BY <1>4, <2>0
  <2> DEFINE m == next'.packet - 1
  <2>1. q.seq >= next.packet
    BY <1>5 DEF IInv, InvAhead
  <2>2. m \in PurgedSeqs(a)
    BY <1>2, <1>3, <1>4, <2>0, <2>1 DEF Passed
  <2>3. m \in Seqs /\ Packet(m).frame \in Expired(a)
    BY <1>1, <1>3, <2>2, PurgedFacts
  <2>4. q.seq <= m
    BY <1>4, <2>0
  <2>5. Packet(q.seq).frame <= Packet(m).frame
    BY <1>1, <1>2, <2>3, <2>4 DEF InvSent
  <2> QED
    BY <1>5, <2>3, <2>5, NothingBehind
<1>6. ASSUME MaxDelay < Timeout, NEW q \in inFlight
      PROVE  Packet(q.seq).frame >= next'.frame
  <2>0. Packet(q.seq).frame \in Int
    BY <1>2
  <2> SUFFICES ASSUME Packet(q.seq).frame < next'.frame PROVE FALSE
    BY <1>4, <2>0
  <2>1. Packet(q.seq).frame >= next.frame
    BY <1>6 DEF IInv, InvAhead
  <2>2. next'.frame - 1 \in Expired(a)
    BY <1>2, <1>3, <1>4, <2>0, <2>1 DEF Passed
  <2>3. Packet(q.seq).frame <= next'.frame - 1
    BY <1>4, <2>0
  <2> QED
    BY <1>6, <2>2, <2>3, NothingBehind
<1> QED
  BY <1>1, <1>5, <1>6 DEF InvAhead, MaxDelay, Timeout, Packet
LEMMA BufferStep ==
  ASSUME FewFrames, IInv, NEW p \in inFlight, NEW a, Updated(p, a)
  PROVE  /\ Typed' /\ InvSent' /\ InvNetwork' /\ Buffer(frames, arrived)'
         /\ Keeps(frames, arrived, next.frame, next.packet)'
<1>1. /\ UNCHANGED <<setting, now, outFrames, outBytes, sent>>
      /\ inFlight' \subseteq inFlight /\ arrived' = arrived \cup {p.seq}
      /\ Buffer(a, arrived') /\ Keeps(a, arrived', next.frame, next.packet)
      /\ frames' = [id \in DOMAIN a \ Expired(a) |-> a[id]]
      /\ Passed(a, arrived', next'.frame, next'.packet)
  BY DEF Updated
<1>2. Typed /\ InvSent /\ InvNetwork
  BY DEF IInv
<1>3. /\ Seqs' = Seqs /\ arrived' \in SUBSET Seqs /\ MaxDelay' = MaxDelay
      /\ MaxFrames' = MaxFrames /\ Len(sent) \in Nat /\ outFrames \in Nat
      /\ next.packet \in Nat /\ next.frame \in Nat
  <2>1. Seqs' = Seqs /\ MaxDelay' = MaxDelay /\ MaxFrames' = MaxFrames
    BY <1>1 DEF Seqs, MaxDelay, MaxFrames
  <2>2. arrived' \in SUBSET Seqs
    BY <1>1, <1>2 DEF Typed, InvNetwork
  <2>3. Len(sent) \in Nat
    BY <1>2, LenProperties DEF Typed
  <2>4. outFrames \in Nat
    BY <1>2, SettingFacts DEF Typed
  <2>5. next.packet \in Nat /\ next.frame \in Nat
    BY <1>2, <2>3, <2>4 DEF Typed
  <2> QED
    BY <2>1, <2>2, <2>3, <2>4, <2>5
<1>4. /\ next'.packet \in next.packet..Len(sent) /\ next'.frame \in next.frame..outFrames
      /\ \A s \in PurgedSeqs(a) : s < next'.packet
      /\ \A f \in Expired(a) : f < next'.frame
  BY <1>1 DEF Passed
<1>5. Typed'
  <2>1. /\ stats'.receivedPackets = stats.receivedPackets + 1
        /\ stats'.receivedFrames =
             stats.receivedFrames
             + Cardinality((next.frame..(next'.frame - 1)) \cap FramesOf(arrived'))
        /\ stats'.lostFrames =
             stats.lostFrames
             + Cardinality((next.frame..(next'.frame - 1)) \ FramesOf(arrived'))
        /\ stats'.lostPackets =
             stats.lostPackets
             + Cardinality((next.packet..(next'.packet - 1)) \ arrived')
    BY DEF Updated
  <2>2. next'.frame - 1 \in Int /\ next'.packet - 1 \in Int
    BY <1>3, <1>4
  <2>3. /\ Cardinality((next.frame..(next'.frame - 1)) \cap FramesOf(arrived')) \in Nat
        /\ Cardinality((next.frame..(next'.frame - 1)) \ FramesOf(arrived')) \in Nat
        /\ Cardinality((next.packet..(next'.packet - 1)) \ arrived') \in Nat
    <3> DEFINE X == (next.frame..(next'.frame - 1)) \cap FramesOf(arrived')
               Y == (next.frame..(next'.frame - 1)) \ FramesOf(arrived')
               Z == (next.packet..(next'.packet - 1)) \ arrived'
    <3>1. /\ X \subseteq next.frame..(next'.frame - 1)
          /\ Y \subseteq next.frame..(next'.frame - 1)
          /\ Z \subseteq next.packet..(next'.packet - 1)
          /\ next.frame \in Int /\ next.packet \in Int
      BY <1>3
    <3> HIDE DEF X, Y, Z
    <3>2. Cardinality(X) \in Nat /\ Cardinality(Y) \in Nat /\ Cardinality(Z) \in Nat
      BY <2>2, <3>1, CountOfRange
    <3> QED
      BY <3>2 DEF X, Y, Z
  <2>4. /\ stats'.receivedPackets \in Int /\ stats'.receivedFrames \in Int
        /\ stats'.lostFrames \in Int /\ stats'.lostPackets \in Int
    <3>1. /\ stats.receivedPackets \in Int /\ stats.receivedFrames \in Int
          /\ stats.lostFrames \in Int /\ stats.lostPackets \in Int
      BY <1>2 DEF Typed
    <3> QED
      BY <2>1, <2>3, <3>1
  <2>5. next'.frame \in 0..outFrames /\ next'.packet \in 0..Len(sent)
    BY <1>3, <1>4
  <2> QED
    BY <1>1, <1>2, <1>3, <2>4, <2>5 DEF Typed
<1>6. InvSent'
  BY <1>1, <1>2, <1>3 DEF InvSent, Packet
<1>7. InvNetwork'
  BY <1>1, <1>2, <1>3 DEF InvNetwork
<1>8. Buffer(frames', arrived')
  <2>1. DOMAIN frames' \subseteq DOMAIN a /\ \A f \in DOMAIN frames' : frames'[f] = a[f]
    BY <1>1
  <2> QED
    BY <1>1, <2>1 DEF Buffer
<1>9. Buffer(frames, arrived)'
  BY <1>1, <1>3, <1>8 DEF Buffer, Packet
<1>10. Keeps(frames', arrived', next'.frame, next'.packet)
  <2> SUFFICES ASSUME NEW s \in arrived',
                      s >= next'.packet \/ Packet(s).frame >= next'.frame
               PROVE  InBuffer(s, frames')
    BY DEF Keeps
  <2>1. s \in Int /\ Packet(s).frame \in Int /\ next'.packet \in Int /\ next'.frame \in Int
    BY <1>2, <1>3, <1>4 DEF Seqs, InvSent
  <2>2. s >= next.packet \/ Packet(s).frame >= next.frame
    BY <1>3, <1>4, <2>1
  <2>3. InBuffer(s, a)
    BY <1>1, <2>2 DEF Keeps
  <2>4. Packet(s).frame \notin Expired(a)
    <3> SUFFICES ASSUME Packet(s).frame \in Expired(a) PROVE FALSE
      OBVIOUS
    <3>1. s \in PurgedSeqs(a)
      BY <1>1, <1>2, <1>3, <2>3, PurgedFacts
    <3>2. s < next'.packet /\ Packet(s).frame < next'.frame
      BY <1>4, <3>1
    <3> QED
      BY <2>1, <3>2
  <2> QED
    BY <1>1, <2>3, <2>4 DEF InBuffer
<1>11. Keeps(frames, arrived, next.frame, next.packet)'
  BY <1>1, <1>10 DEF Keeps, InBuffer, Packet
<1> QED
  BY <1>5, <1>6, <1>7, <1>9, <1>11

LEMMA CountsStep ==
  ASSUME FewFrames, IInv, NEW p \in inFlight, NEW a, Updated(p, a)
  PROVE  InvLost' /\ InvReceived'
<1> DEFINE F == FramesOf(arrived)
           G == FramesOf(arrived')
           f == next.frame
           g == next'.frame
           m == next.packet
           n == next'.packet
<1>1. /\ f \in Nat /\ g \in Nat /\ m \in Nat /\ n \in Nat /\ f <= g /\ m <= n
  <2>1. g \in f..outFrames /\ n \in m..Len(sent)
    BY DEF Updated, Passed
  <2>2. f \in Nat /\ m \in Nat /\ outFrames \in Nat /\ Len(sent) \in Nat
    BY SettingFacts, LenProperties DEF IInv, Typed
  <2> QED
    BY <2>1, <2>2
<1>2. /\ arrived' = arrived \cup {p.seq} /\ sent' = sent /\ setting' = setting
      /\ stats'.receivedFrames =
           stats.receivedFrames + Cardinality((f..(g - 1)) \cap G)
      /\ stats'.lostFrames = stats.lostFrames + Cardinality((f..(g - 1)) \ G)
      /\ stats'.lostPackets = stats.lostPackets + Cardinality((m..(n - 1)) \ arrived')
  BY DEF Updated
<1>3. G = F \cup {Packet(p.seq).frame} /\ F \subseteq G
  BY <1>2 DEF FramesOf
<1>4. p.seq \in Int /\ Packet(p.seq).frame \in Int /\ stats.receivedFrames \in Int
  <2>1. Typed /\ InvSent /\ p.seq \in Seqs
    BY DEF IInv, InvNetwork
  <2> QED
    BY <2>1 DEF Typed, InvSent, Seqs
<1>5. /\ FramesOf(arrived)' = G /\ MaxDelay' = MaxDelay /\ Timeout' = Timeout
  BY <1>2 DEF FramesOf, MaxDelay, Timeout, Packet
<1> HIDE DEF F, G, f, g, m, n
<1>6. f - 1 \in Int /\ g - 1 \in Int /\ m - 1 \in Int /\ n - 1 \in Int
  BY <1>1
<1>7. ASSUME MaxDelay < Timeout
      PROVE  /\ stats'.lostPackets = Cardinality((0..(n - 1)) \ arrived')
             /\ stats'.lostFrames = Cardinality((0..(g - 1)) \ G)
  <2>1. /\ p.seq >= m /\ Packet(p.seq).frame >= f
        /\ stats.lostPackets = Cardinality((0..(m - 1)) \ arrived)
        /\ stats.lostFrames = Cardinality((0..(f - 1)) \ F)
    BY <1>7 DEF IInv, InvAhead, InvLost, m, f, F
  <2>2. Cardinality((0..(n - 1)) \ arrived')
          = Cardinality((0..(m - 1)) \ arrived) + Cardinality((m..(n - 1)) \ arrived')
    <3> DEFINE X == (0..(m - 1)) \ arrived
               Y == (m..(n - 1)) \ arrived'
    <3>1. (0..(n - 1)) \ arrived' = X \cup Y /\ X \cap Y = {}
      BY <1>1, <1>2, <1>4, <2>1
    <3>2. IsFiniteSet(X) /\ IsFiniteSet(Y)
      BY <1>1, <1>6, CountOfRange
    <3> HIDE DEF X, Y
    <3>3. Cardinality(X \cup Y) = Cardinality(X) + Cardinality(Y)
      BY <3>1, <3>2, CountTwoParts
    <3> QED
      BY <3>1, <3>3 DEF X, Y
  <2>3. Cardinality((0..(g - 1)) \ G)
          = Cardinality((0..(f - 1)) \ F) + Cardinality((f..(g - 1)) \ G)
    <3> DEFINE X == (0..(f - 1)) \ F
               Y == (f..(g - 1)) \ G
    <3>1. (0..(g - 1)) \ G = X \cup Y /\ X \cap Y = {}
      BY <1>1, <1>3, <1>4, <2>1
    <3>2. IsFiniteSet(X) /\ IsFiniteSet(Y)
      BY <1>1, <1>6, CountOfRange
    <3> HIDE DEF X, Y
    <3>3. Cardinality(X \cup Y) = Cardinality(X) + Cardinality(Y)
      BY <3>1, <3>2, CountTwoParts
    <3> QED
      BY <3>1, <3>3 DEF X, Y
  <2> QED
    BY <1>2, <2>1, <2>2, <2>3
<1>8. stats'.receivedFrames <= Cardinality((0..(g - 1)) \cap G)
  <2> DEFINE X == (0..(f - 1)) \cap G
             Y == (f..(g - 1)) \cap G
             Z == (0..(f - 1)) \cap F
  <2>1. (0..(g - 1)) \cap G = X \cup Y /\ X \cap Y = {} /\ Z \subseteq X
    BY <1>1, <1>3
  <2>2. IsFiniteSet(X) /\ IsFiniteSet(Y) /\ Cardinality(X) \in Nat /\ Cardinality(Y) \in Nat
    <3>1. X \subseteq 0..(f - 1) /\ Y \subseteq f..(g - 1)
      OBVIOUS
    <3>2. 0 \in Int /\ f \in Int
      BY <1>1
    <3> HIDE DEF X, Y, Z
    <3>3. IsFiniteSet(X) /\ Cardinality(X) \in Nat
      BY <1>6, <3>1, <3>2, CountOfRange
    <3>4. IsFiniteSet(Y) /\ Cardinality(Y) \in Nat
      BY <1>6, <3>1, <3>2, CountOfRange
    <3> QED
      BY <3>3, <3>4
  <2>3. stats.receivedFrames <= Cardinality(Z)
    BY DEF IInv, InvReceived, f, F
  <2>4. stats'.receivedFrames = stats.receivedFrames + Cardinality(Y)
    BY <1>2
  <2> HIDE DEF X, Y, Z
  <2>5. Cardinality(X \cup Y) = Cardinality(X) + Cardinality(Y)
    BY <2>1, <2>2, CountTwoParts
  <2>6. Cardinality(Z) <= Cardinality(X) /\ IsFiniteSet(Z)
    BY <2>1, <2>2, FS_Subset
  <2>7. Cardinality(Z) \in Nat
    BY <2>6, FS_CardinalityType
  <2>8. stats.receivedFrames + Cardinality(Y) <= Cardinality(X) + Cardinality(Y)
    BY <1>4, <2>2, <2>3, <2>6, <2>7
  <2> QED
    BY <2>1, <2>4, <2>5, <2>8
<1>9. InvLost'
  BY <1>5, <1>7 DEF InvLost, n, g
<1>10. InvReceived'
  BY <1>5, <1>8 DEF InvReceived, g
<1> QED
  BY <1>9, <1>10

-----------------------------------------------------------------------------
(* The other steps.                                                        *)

LEMMA QuietStep ==
  ASSUME FewFrames, IInv,
         UNCHANGED <<setting, outFrames, outBytes, sent, frames, next, stats, arrived>>,
         now' \in Nat, now <= now', inFlight' \subseteq inFlight,
         \A q \in inFlight' : now' <= q.due
  PROVE  IInv'
<1>1. /\ Typed /\ InvSent /\ InvNetwork /\ Buffer(frames, arrived) /\ now \in Nat
      /\ MaxDelay \in Nat
  BY SettingFacts DEF IInv, Typed
<1>2. /\ Seqs' = Seqs /\ MaxDelay' = MaxDelay /\ MaxFrames' = MaxFrames
      /\ Timeout' = Timeout
  BY DEF Seqs, MaxDelay, MaxFrames, Timeout
<1>3. Typed' /\ InvSent'
  BY <1>1, <1>2 DEF Typed, InvSent, Packet
<1>4. InvNetwork'
  <2>1. ASSUME NEW q \in inFlight'
        PROVE  q.seq \in Seqs /\ now' <= q.due /\ q.due <= now' + MaxDelay
    <3>1. q.seq \in Seqs /\ q.due <= now + MaxDelay /\ q.due \in Nat
      BY <1>1 DEF InvNetwork, Typed
    <3> QED
      BY <1>1, <3>1
  <2> QED
    BY <1>2, <2>1 DEF InvNetwork
<1>5. Buffer(frames, arrived)'
  <2>1. \A id \in DOMAIN frames : frames[id].created \in Nat /\ frames[id].created <= now'
    BY <1>1 DEF Buffer, FrameType
  <2> QED
    BY <1>1, <1>2, <2>1 DEF Buffer, Packet
<1>6. Keeps(frames, arrived, next.frame, next.packet)'
  BY DEF IInv, Keeps, InBuffer, Packet
<1>7. InvAhead'
  BY <1>2 DEF IInv, InvAhead, Packet
<1>8. InvLost' /\ InvReceived'
  <2>1. FramesOf(arrived)' = FramesOf(arrived)
    BY DEF FramesOf, Packet
  <2> QED
    BY <1>2, <2>1 DEF IInv, InvLost, InvReceived
<1> QED
  BY <1>3, <1>4, <1>5, <1>6, <1>7, <1>8 DEF IInv

LEMMA Lengths ==
  ASSUME NEW size \in Nat \ {0}
  PROVE  /\ FullLength \in Nat \ {0} /\ NumPackets(size) \in Nat
         /\ \A i \in Int : PacketLength(size, i) \in Int
<1>1. FullLength \in Nat \ {0} /\ MaxMsgSize \in Int /\ HeaderSize \in Int
  BY ConstantsAssumption DEF FullLength
<1> HIDE DEF FullLength
<1>2. NumPackets(size) \in Nat
  <2> DEFINE k == size + FullLength - 1
  <2>1. k \in Nat
    BY <1>1
  <2> HIDE DEF k
  <2>2. k \div FullLength \in Nat
    BY <1>1, <2>1
  <2> QED
    BY <2>2 DEF NumPackets, k
<1>3. ASSUME NEW i \in Int
      PROVE  PacketLength(size, i) \in Int
  <2> DEFINE r == size - (i - 1) * FullLength
  <2>1. r \in Int
    <3>1. (i - 1) * FullLength \in Int
      BY <1>1
    <3> QED
      BY <3>1
  <2> HIDE DEF r
  <2>2. PacketLength(size, i) = IF r > MaxMsgSize THEN FullLength
                                ELSE IF r < HeaderSize THEN HeaderSize ELSE r
    BY DEF PacketLength, r
  <2> QED
    BY <1>1, <2>1, <2>2
<1> QED
  BY <1>1, <1>2, <1>3

\* One more frame has been sent.
Transmitted ==
  /\ UNCHANGED <<setting, now, frames, next, stats, arrived>>
  /\ outFrames < MaxFrames /\ outFrames' = outFrames + 1 /\ outBytes' \in Int
  /\ sent' \in Seq(PacketType) /\ Seqs \subseteq Seqs' /\ Len(sent) <= Len(sent')
  /\ \A s \in Seqs : Packet(s)' = Packet(s)
  /\ \A s \in Seqs' \ Seqs : s >= Len(sent) /\ Packet(s)'.frame = outFrames
  /\ inFlight \subseteq inFlight' /\ inFlight' \subseteq [seq : Nat, due : Nat]
  /\ \A q \in inFlight' \ inFlight :
       q.seq \in Seqs' \ Seqs /\ q.due = now + MaxDelay

LEMMA SendTransmits ==
  ASSUME FewFrames, IInv, Send, setting' = setting
  PROVE  Transmitted
<1>0. PICK size \in FrameSizes :
        \E failing \in 0..NumPackets(size) : TransmitFrame(size, failing)
  BY DEF Send
<1>1. PICK failing \in 0..NumPackets(size) : TransmitFrame(size, failing)
  BY <1>0
<1>2. /\ Typed /\ size \in Nat \ {0} /\ outFrames \in Nat /\ outBytes \in Int
      /\ now \in Nat /\ MaxDelay \in Nat /\ sent \in Seq(PacketType)
      /\ inFlight \subseteq [seq : Nat, due : Nat]
  <2>1. /\ Typed /\ outFrames \in Nat /\ outBytes \in Int /\ now \in Nat
        /\ sent \in Seq(PacketType) /\ inFlight \subseteq [seq : Nat, due : Nat]
    BY DEF IInv, Typed
  <2>2. size \in Nat \ {0} /\ MaxDelay \in Nat
    BY <2>1, SettingFacts
  <2> QED
    BY <2>1, <2>2
<1>3. /\ FullLength \in Nat \ {0} /\ NumPackets(size) \in Nat
      /\ \A i \in Int : PacketLength(size, i) \in Int
  BY <1>2, Lengths
<1> DEFINE n == IF failing = 0 THEN NumPackets(size) ELSE failing
           packets == [i \in 1..n |-> [frame |-> outFrames, byteSeq |-> outBytes,
                                       len |-> PacketLength(size, i)]]
           left == {i \in DOMAIN packets : i # failing}
           bytes == IF failing = 0
                    THEN (NumPackets(size) - 1) * FullLength
                         + PacketLength(size, NumPackets(size))
                    ELSE (failing - 1) * FullLength
           L == Len(sent)
<1>4. /\ outFrames < MaxFrames /\ outFrames' = outFrames + 1
      /\ outBytes' = outBytes + bytes /\ sent' = sent \o packets
      /\ inFlight' = inFlight \cup
           {[seq |-> Len(sent) + i - 1, due |-> now + MaxDelay] : i \in left}
      /\ UNCHANGED <<now, frames, next, stats, arrived>>
  BY <1>1 DEF TransmitFrame, receiverVars
<1>5. n \in Nat /\ failing \in Nat
  BY <1>3
<1>6. bytes \in Int
  <2>1. /\ (NumPackets(size) - 1) * FullLength \in Int
        /\ (failing - 1) * FullLength \in Int
        /\ PacketLength(size, NumPackets(size)) \in Int
    BY <1>3, <1>5
  <2> QED
    BY <2>1
<1> HIDE DEF n, bytes
<1>7. /\ packets \in Seq(PacketType) /\ Len(packets) = n /\ DOMAIN packets = 1..n
      /\ \A i \in 1..n : packets[i].frame = outFrames
  <2>1. packets \in [1..n -> PacketType] /\ \A i \in 1..n : packets[i].frame = outFrames
    BY <1>2, <1>3 DEF PacketType
  <2> HIDE DEF packets
  <2>2. packets \in Seq(PacketType) /\ Len(packets) = n
    BY <1>5, <2>1, IsASeq, LenProperties
  <2> QED
    BY <2>1, <2>2
<1> HIDE DEF packets
<1>8. L \in Nat /\ Seqs = 0..(L - 1)
  BY <1>2, LenProperties DEF Seqs
<1> HIDE DEF L
<1>9. /\ sent' \in Seq(PacketType) /\ Len(sent') = L + n
      /\ \A i \in 1..(L + n) : sent'[i] = IF i <= L THEN sent[i] ELSE packets[i - L]
  BY <1>2, <1>4, <1>7, ConcatProperties DEF L
<1>10. Seqs' = 0..(L + n - 1)
  <2>1. Seqs' = 0..(Len(sent') - 1)
    BY DEF Seqs
  <2> QED
    BY <1>5, <1>8, <1>9, <2>1
<1>11. Seqs \subseteq Seqs' /\ L <= Len(sent')
  BY <1>5, <1>8, <1>9, <1>10
<1>12. ASSUME NEW s \in Seqs
       PROVE  Packet(s)' = Packet(s)
  <2>1. s + 1 \in 1..(L + n) /\ s + 1 <= L
    BY <1>5, <1>8
  <2> QED
    BY <1>9, <2>1 DEF Packet
<1>13. ASSUME NEW s \in Seqs' \ Seqs
       PROVE  s >= L /\ Packet(s)'.frame = outFrames
  <2> DEFINE k == s + 1
             j == k - L
  <2>1. k \in 1..(L + n) /\ ~(k <= L) /\ j \in 1..n /\ s >= L
    BY <1>5, <1>8, <1>10
  <2>2. Packet(s)' = sent'[k]
    BY DEF Packet
  <2> HIDE DEF k
  <2>3. sent'[k] = packets[j]
    BY <1>9, <2>1
  <2> HIDE DEF j
  <2>4. packets[j].frame = outFrames
    BY <1>7, <2>1
  <2>5. sent'[k].frame = outFrames
    BY <2>3, <2>4
  <2> QED
    BY <2>1, <2>5 DEF Packet, k
<1>14. ASSUME NEW q \in inFlight' \ inFlight
       PROVE  /\ q \in [seq : Nat, due : Nat] /\ q.seq \in Seqs' \ Seqs
              /\ q.due = now + MaxDelay
  <2>1. PICK i \in 1..n : q = [seq |-> L + i - 1, due |-> now + MaxDelay]
    BY <1>4, <1>7 DEF L
  <2>2. q.seq = L + i - 1 /\ q.due = now + MaxDelay
    BY <2>1
  <2>3. L + i - 1 \in Nat /\ now + MaxDelay \in Nat
    BY <1>2, <1>5, <1>8
  <2>4. L + i - 1 \in 0..(L + n - 1) /\ L + i - 1 \notin 0..(L - 1)
    BY <1>5, <1>8
  <2> QED
    BY <1>8, <1>10, <2>1, <2>2, <2>3, <2>4
<1>15. outBytes' \in Int
  BY <1>2, <1>4, <1>6
<1>16. inFlight \subseteq inFlight' /\ inFlight' \subseteq [seq : Nat, due : Nat]
  BY <1>2, <1>4, <1>14
<1> QED
  BY <1>4, <1>9, <1>11, <1>12, <1>13, <1>14, <1>15, <1>16 DEF Transmitted, L
LEMMA SendStep ==
  ASSUME FewFrames, IInv, Transmitted
  PROVE  IInv'
<1>1. /\ Typed /\ InvSent /\ InvNetwork /\ Buffer(frames, arrived)
      /\ Keeps(frames, arrived, next.frame, next.packet)
      /\ now \in Nat /\ MaxDelay \in Nat /\ MaxFrames \in Nat /\ outFrames \in Nat
      /\ outFrames < MaxFrames /\ Len(sent) \in Nat /\ arrived \subseteq Seqs
      /\ next.packet \in 0..Len(sent) /\ next.frame \in 0..outFrames
  <2>1. Typed
    BY DEF IInv
  <2>2. now \in Nat /\ MaxDelay \in Nat /\ MaxFrames \in Nat /\ outFrames \in Nat
    BY <2>1, SettingFacts DEF Typed
  <2>3. Len(sent) \in Nat
    BY <2>1, LenProperties DEF Typed
  <2> QED
    BY <2>1, <2>2, <2>3 DEF IInv, Typed, Transmitted
<1>2. /\ MaxDelay' = MaxDelay /\ MaxFrames' = MaxFrames /\ Timeout' = Timeout
      /\ UNCHANGED <<setting, now, frames, next, stats, arrived>>
      /\ outFrames' = outFrames + 1 /\ Seqs \subseteq Seqs'
      /\ \A s \in Seqs : Packet(s)' = Packet(s)
      /\ \A s \in Seqs' \ Seqs : s >= Len(sent) /\ Packet(s)'.frame = outFrames
  BY DEF Transmitted, MaxDelay, MaxFrames, Timeout
<1>3. ASSUME NEW q \in inFlight'
      PROVE  \/ q \in inFlight
             \/ /\ q.due = now + MaxDelay /\ q.seq >= Len(sent)
                /\ q.seq \in Seqs' /\ Packet(q.seq)'.frame = outFrames
  BY DEF Transmitted
<1>4. \A q \in inFlight : q.seq \in Seqs
  BY <1>1 DEF InvNetwork
<1>5. Typed'
  <2>1. next.packet \in 0..Len(sent')
    <3>1. Len(sent') \in Nat /\ Len(sent) <= Len(sent')
      BY LenProperties DEF Transmitted
    <3> QED
      BY <1>1, <3>1
  <2>2. outFrames' \in 0..MaxFrames /\ next.frame \in 0..outFrames'
    BY <1>1, <1>2
  <2> QED
    BY <1>1, <1>2, <2>1, <2>2 DEF Typed, Transmitted
<1>6. InvSent'
  <2>1. ASSUME NEW i \in Seqs'
        PROVE  /\ Packet(i)'.frame \in 0..(outFrames' - 1)
               /\ \A j \in Seqs' : i <= j => Packet(i)'.frame <= Packet(j)'.frame
    <3>1. CASE i \in Seqs
      <4>1. Packet(i)' = Packet(i) /\ Packet(i).frame \in 0..(outFrames - 1)
        BY <1>1, <1>2, <3>1 DEF InvSent
      <4>2. ASSUME NEW j \in Seqs', i <= j
            PROVE  Packet(i)'.frame <= Packet(j)'.frame
        <5>1. CASE j \in Seqs
          BY <1>1, <1>2, <3>1, <4>2, <5>1 DEF InvSent
        <5>2. CASE j \notin Seqs
          <6>1. Packet(j)'.frame = outFrames
            BY <1>2, <5>2
          <6> QED
            BY <1>1, <4>1, <6>1
        <5> QED
          BY <5>1, <5>2
      <4> QED
        BY <1>1, <1>2, <4>1, <4>2
    <3>2. CASE i \notin Seqs
      <4>1. i >= Len(sent) /\ Packet(i)'.frame = outFrames
        BY <1>2, <3>2
      <4>2. ASSUME NEW j \in Seqs', i <= j
            PROVE  Packet(j)'.frame = outFrames
        <5>1. i \in Int /\ j \in Int
          BY DEF Seqs
        <5>2. j \notin Seqs
          BY <1>1, <4>1, <4>2, <5>1 DEF Seqs
        <5> QED
          BY <1>2, <5>2
      <4> QED
        BY <1>1, <1>2, <4>1, <4>2
    <3> QED
      BY <3>1, <3>2
  <2> QED
    BY <2>1 DEF InvSent
<1>7. InvNetwork'
  <2>1. ASSUME NEW q \in inFlight'
        PROVE  q.seq \in Seqs' /\ now <= q.due /\ q.due <= now + MaxDelay
    BY <1>1, <1>2, <1>3 DEF InvNetwork
  <2> QED
    BY <1>2, <2>1 DEF InvNetwork
<1>8. Buffer(frames, arrived)'
  <2>1. ASSUME NEW id \in DOMAIN frames
        PROVE  /\ id \in 0..(outFrames' - 1)
               /\ \A s \in frames[id].fragments : Packet(s)'.frame = id
               /\ \A q \in inFlight' :
                    Packet(q.seq)'.frame <= id => q.due <= frames[id].created + MaxDelay
    <3>1. id \in 0..(outFrames - 1)
      BY <1>1 DEF Buffer
    <3>2. id \in 0..(outFrames' - 1) /\ ~(outFrames <= id)
      BY <1>1, <1>2, <3>1
    <3>3. \A s \in frames[id].fragments : s \in Seqs /\ Packet(s).frame = id
      BY <1>1 DEF Buffer
    <3>4. ASSUME NEW q \in inFlight', Packet(q.seq)'.frame <= id
          PROVE  q.due <= frames[id].created + MaxDelay
      <4>1. q \in inFlight
        BY <1>3, <3>2, <3>4
      <4>2. Packet(q.seq).frame <= id
        BY <1>2, <1>4, <3>4, <4>1
      <4> QED
        BY <1>1, <4>1, <4>2 DEF Buffer
    <3> QED
      BY <1>2, <3>2, <3>3, <3>4
  <2>2. \A id \in DOMAIN frames :
          /\ frames[id] \in FrameType /\ frames[id].created <= now
          /\ frames[id].fragments # {} /\ frames[id].fragments \subseteq arrived
          /\ \A g \in DOMAIN frames :
               id <= g => frames[id].created <= frames[g].created + MaxDelay
    BY <1>1 DEF Buffer
  <2> QED
    BY <1>2, <2>1, <2>2 DEF Buffer
<1>9. Keeps(frames, arrived, next.frame, next.packet)'
  <2>1. \A s \in arrived : Packet(s)' = Packet(s)
    BY <1>1, <1>2
  <2> QED
    BY <1>1, <1>2, <2>1 DEF Keeps, InBuffer
<1>10. InvAhead'
  <2>1. ASSUME MaxDelay < Timeout, NEW q \in inFlight'
        PROVE  q.seq >= next.packet /\ Packet(q.seq)'.frame >= next.frame
    <3>1. CASE q \in inFlight
      BY <1>2, <1>4, <2>1, <3>1 DEF IInv, InvAhead
    <3>2. CASE /\ q.seq >= Len(sent) /\ q.seq \in Seqs'
               /\ Packet(q.seq)'.frame = outFrames
      <4>1. q.seq \in Int
        BY <3>2 DEF Seqs
      <4> QED
        BY <1>1, <3>2, <4>1
    <3> QED
      BY <1>3, <3>1, <3>2
  <2> QED
    BY <1>2, <2>1 DEF InvAhead
<1>11. InvLost' /\ InvReceived'
  <2>1. FramesOf(arrived)' = FramesOf(arrived)
    <3>1. \A s \in arrived : Packet(s)' = Packet(s)
      BY <1>1, <1>2
    <3> QED
      BY <1>2, <3>1 DEF FramesOf
  <2> QED
    BY <1>2, <2>1 DEF IInv, InvLost, InvReceived
<1> QED
  BY <1>5, <1>6, <1>7, <1>8, <1>9, <1>10, <1>11 DEF IInv

LEMMA ReceiveStep ==
  ASSUME FewFrames, IInv, NEW p \in inFlight, Receive(p), setting' = setting
  PROVE  IInv'
<1>1. Updated(p, AddFragment(p.seq))
  BY ReceiveUpdates
<1> QED
  BY <1>1, BufferStep, AheadStep, CountsStep DEF IInv

LEMMA EveryStep ==
  ASSUME FewFrames, IInv, [Next]_vars
  PROVE  IInv'
<1>1. CASE Send /\ setting' = setting
  BY <1>1, SendTransmits, SendStep
<1>2. ASSUME NEW p \in inFlight, Receive(p), setting' = setting
      PROVE  IInv'
  BY <1>2, ReceiveStep
<1>3. now \in Nat /\ \A q \in inFlight : now <= q.due /\ q.due \in Nat
  BY DEF IInv, Typed, InvNetwork
<1>4. ASSUME NEW p \in inFlight, Lose(p), setting' = setting
      PROVE  IInv'
  <2>1. /\ UNCHANGED <<setting, now, outFrames, outBytes, sent, frames, next, stats,
                       arrived>>
        /\ inFlight' \subseteq inFlight
    BY <1>4 DEF Lose, senderVars, receiverVars
  <2>2. now' \in Nat /\ now <= now' /\ \A q \in inFlight' : now' <= q.due
    BY <1>3, <2>1
  <2> QED
    BY <2>1, <2>2, QuietStep
<1>5. CASE Tick /\ setting' = setting
  <2>1. /\ UNCHANGED <<setting, outFrames, outBytes, sent, frames, next, stats,
                       arrived>>
        /\ inFlight' = inFlight /\ now' = now + 1
        /\ \A q \in inFlight : q.due > now
    BY <1>5 DEF Tick, senderVars, receiverVars
  <2>2. now' \in Nat /\ now <= now' /\ \A q \in inFlight' : now' <= q.due
    BY <1>3, <2>1
  <2> QED
    BY <2>1, <2>2, QuietStep
<1>6. CASE UNCHANGED vars
  <2>1. /\ UNCHANGED <<setting, now, outFrames, outBytes, sent, frames, next, stats,
                       arrived>>
        /\ inFlight' \subseteq inFlight
    BY <1>6 DEF vars, senderVars, receiverVars
  <2>2. now' \in Nat /\ now <= now' /\ \A q \in inFlight' : now' <= q.due
    BY <1>3, <2>1
  <2> QED
    BY <2>1, <2>2, QuietStep
<1> QED
  BY <1>1, <1>2, <1>4, <1>5, <1>6 DEF Next
LEMMA Start ==
  ASSUME FewFrames, Init
  PROVE  IInv
<1>1. /\ setting \in Settings /\ now = 0 /\ outFrames = 0 /\ outBytes = 0
      /\ sent = <<>> /\ inFlight = {} /\ frames = <<>> /\ arrived = {}
      /\ next.frame = 0 /\ next.packet = 0
      /\ stats.receivedPackets = 0 /\ stats.receivedFrames = 0
      /\ stats.lostFrames = 0 /\ stats.lostPackets = 0
  BY DEF Init
<1>2. MaxFrames \in Nat
  BY <1>1, ConstantsAssumption DEF MaxFrames
<1>3. /\ Len(<<>>) = 0 /\ <<>> \in Seq(PacketType)
      /\ 0..(0 - 1) = {} /\ Seqs = {} /\ DOMAIN frames = {}
  <2>1. Len(<<>>) = 0 /\ <<>> \in Seq(PacketType)
    BY EmptySeq
  <2>2. DOMAIN frames = 1..Len(<<>>)
    BY <1>1, <2>1, LenProperties
  <2>3. 1..0 = {} /\ 0..(0 - 1) = {}
    OBVIOUS
  <2> QED
    BY <1>1, <2>1, <2>2, <2>3 DEF Seqs
<1>4. Typed
  BY <1>1, <1>2, <1>3 DEF Typed
<1>5. Cardinality({}) = 0
  BY FS_EmptySet
<1>6. FramesOf(arrived) = {}
  BY <1>1 DEF FramesOf
<1>7. InvLost /\ InvReceived
  <2>1. (0..(next.packet - 1)) \ arrived = {} /\ (0..(next.frame - 1)) \ FramesOf(arrived) = {}
        /\ (0..(next.frame - 1)) \cap FramesOf(arrived) = {}
    BY <1>1, <1>3, <1>6
  <2> QED
    BY <1>1, <1>5, <2>1 DEF InvLost, InvReceived
<1>8. InvSent /\ InvNetwork /\ Buffer(frames, arrived)
      /\ Keeps(frames, arrived, next.frame, next.packet) /\ InvAhead
  BY <1>1, <1>3 DEF InvSent, InvNetwork, Buffer, Keeps, InvAhead
<1> QED
  BY <1>4, <1>7, <1>8 DEF IInv

-----------------------------------------------------------------------------
(* The theorems.                                                           *)

\* The inductive invariant: what has arrived is in the buffer until the
\* counters have passed it, and what is in the network is ahead of them.
THEOREM LossInvariant ==
  ASSUME FewFrames
  PROVE  Spec => []IInv
<1>1. Init => IInv
  BY Start
<1>2. IInv /\ [Next]_vars => IInv'
  BY EveryStep
<1> QED
  BY <1>1, <1>2, PTL DEF Spec

\* A packet that has arrived is never counted as lost (ArrivedIsNotLost), for
\* every timeout and however long packets are delayed: updateStatistics()
\* counts exactly those that have not arrived when the counters pass them.
THEOREM ArrivedIsNotLostHolds ==
  ASSUME FewFrames
  PROVE  Spec => ArrivedIsNotLost
<1>1. IInv /\ [Next]_vars =>
        [stats'.lostPackets - stats.lostPackets =
           Cardinality((next.packet..(next'.packet - 1)) \ arrived')]_vars
  <2> SUFFICES ASSUME IInv, [Next]_vars
               PROVE  \/ stats'.lostPackets - stats.lostPackets =
                           Cardinality((next.packet..(next'.packet - 1)) \ arrived')
                      \/ UNCHANGED vars
    OBVIOUS
  <2>1. /\ stats.lostPackets \in Int /\ next.packet \in Int
        /\ \A n \in Int : \A S : Cardinality((next.packet..n) \ S) \in Nat
    <3>1. Typed
      BY DEF IInv
    <3>2. Len(sent) \in Nat
      BY <3>1, LenProperties DEF Typed
    <3>3. stats.lostPackets \in Int /\ next.packet \in Int
      BY <3>1, <3>2 DEF Typed
    <3> QED
      BY <3>3, CountOfRange
  <2>2. ASSUME NEW p \in inFlight, Receive(p), setting' = setting
        PROVE  stats'.lostPackets - stats.lostPackets =
                 Cardinality((next.packet..(next'.packet - 1)) \ arrived')
    <3> DEFINE C == Cardinality((next.packet..(next'.packet - 1)) \ arrived')
    <3>1. /\ stats'.lostPackets = stats.lostPackets + C
          /\ next'.packet \in next.packet..Len(sent)
      BY <2>2, ReceiveUpdates DEF Updated, Passed
    <3>2. next'.packet - 1 \in Int
      BY <3>1
    <3>3. C \in Nat
      BY <2>1, <3>2
    <3> HIDE DEF C
    <3>4. stats'.lostPackets - stats.lostPackets = C
      BY <2>1, <3>1, <3>3
    <3> QED
      BY <3>4 DEF C
  <2>3. ASSUME stats' = stats, next' = next
        PROVE  stats'.lostPackets - stats.lostPackets =
                 Cardinality((next.packet..(next'.packet - 1)) \ arrived')
    <3>1. (next.packet..(next.packet - 1)) \ arrived' = {}
      BY <2>1
    <3>2. Cardinality({}) = 0
      BY FS_EmptySet
    <3> QED
      BY <2>1, <2>3, <3>1, <3>2
  <2>4. ASSUME Next PROVE (\E p \in inFlight : Receive(p) /\ setting' = setting)
                          \/ (stats' = stats /\ next' = next)
    BY <2>4 DEF Next, Send, TransmitFrame, Lose, Tick, receiverVars
  <2> QED
    BY <2>2, <2>3, <2>4
<1> QED
  BY <1>1, LossInvariant, PTL DEF Spec, ArrivedIsNotLost

\* With delays below the timeout the loss that is reported is the loss of the
\* network (LossIsExact), however the packets are reordered and repeated.
THEOREM LossIsExactHolds ==
  ASSUME FewFrames
  PROVE  Spec => []LossIsExact
<1>1. IInv => LossIsExact
  <2> SUFFICES ASSUME IInv, MaxDelay < Timeout
               PROVE  LossIsExact
    BY DEF LossIsExact
  <2>1. /\ stats.lostPackets = Cardinality((0..(next.packet - 1)) \ arrived)
        /\ stats.lostFrames = Cardinality((0..(next.frame - 1)) \ FramesOf(arrived))
    BY DEF IInv, InvLost
  <2>2. {f \in 0..(next.frame - 1) : \A s \in arrived : Packet(s).frame # f}
          = (0..(next.frame - 1)) \ FramesOf(arrived)
    BY DEF FramesOf
  <2>3. ASSUME NEW s \in Coming
        PROVE  /\ s \notin 0..(next.packet - 1)
               /\ Packet(s).frame \notin 0..(next.frame - 1)
    <3>1. PICK q \in inFlight : s = q.seq
      BY DEF Coming
    <3>2. s >= next.packet /\ Packet(s).frame >= next.frame
      BY <3>1 DEF IInv, InvAhead
    <3>3. /\ next.packet \in Int /\ next.frame \in Int
          /\ s \in Int /\ Packet(s).frame \in Int
      <4>1. Typed /\ InvSent /\ s \in Seqs
        BY <3>1 DEF IInv, InvNetwork
      <4>2. Len(sent) \in Nat
        BY <4>1, LenProperties DEF Typed
      <4> QED
        BY <4>1, <4>2 DEF Typed, InvSent, Seqs
    <3> QED
      BY <3>2, <3>3
  <2> QED
    BY <2>1, <2>2, <2>3 DEF LossIsExact
<1> QED
  BY <1>1, LossInvariant, PTL

\* No frame is counted twice as received (FramesCountedOnce), although a late
\* packet makes a frame anew that has been purged.
THEOREM FramesCountedOnceHolds ==
  ASSUME FewFrames
  PROVE  Spec => []FramesCountedOnce
<1>1. IInv => FramesCountedOnce
  <2> SUFFICES ASSUME IInv PROVE FramesCountedOnce
    OBVIOUS
  <2> DEFINE F == FramesOf(arrived)
             G == (0..(next.frame - 1)) \cap F
  <2>1. stats.receivedFrames <= Cardinality(G) /\ stats.receivedFrames \in Int
    BY DEF IInv, InvReceived, Typed
  <2>2. outFrames - 1 \in Int /\ F \subseteq 0..(outFrames - 1)
    <3>1. Typed /\ InvSent /\ outFrames \in Nat
      BY SettingFacts DEF IInv, Typed
    <3> QED
      BY <3>1 DEF InvSent, Typed, FramesOf
  <2> HIDE DEF F, G
  <2>3. IsFiniteSet(F) /\ Cardinality(F) \in Nat
    <3>1. 0 \in Int /\ outFrames - 1 \in Int /\ F \subseteq 0..(outFrames - 1)
      BY <2>2
    <3> QED
      BY <3>1, CountOfRange
  <2>4. Cardinality(G) <= Cardinality(F) /\ IsFiniteSet(G)
    BY <2>3, FS_Subset DEF G
  <2>5. Cardinality(G) \in Nat
    BY <2>4, FS_CardinalityType
  <2>6. stats.receivedFrames <= Cardinality(F)
    BY <2>1, <2>3, <2>4, <2>5
  <2> QED
    BY <2>6 DEF FramesCountedOnce, F, FramesOf
<1> QED
  BY <1>1, LossInvariant, PTL

\* The buffer is bounded in time (BufferIsBounded): a young frame at its head
\* hides none that is older than the timeout and the delay together.
THEOREM BufferIsBoundedHolds ==
  ASSUME FewFrames
  PROVE  Spec => BufferIsBounded
<1>1. IInv /\ [Next]_vars =>
        [stats' # stats =>
           \A id \in DOMAIN frames' :
             frames'[id].created + Timeout + MaxDelay > now]_vars
  <2> SUFFICES ASSUME IInv, Next, stats' # stats, NEW id \in DOMAIN frames'
               PROVE  frames'[id].created + Timeout + MaxDelay > now
    OBVIOUS
  <2>1. PICK p \in inFlight : Receive(p) /\ setting' = setting
    BY DEF Next, Send, TransmitFrame, Lose, Tick, receiverVars
  <2> DEFINE a == AddFragment(p.seq)
  <2>2. Updated(p, a)
    BY <2>1, ReceiveUpdates
  <2> HIDE DEF a
  <2>3. /\ id \in DOMAIN a \ Expired(a) /\ frames'[id] = a[id] /\ Buffer(a, arrived')
    BY <2>2 DEF Updated
  <2>4. Typed /\ MaxDelay \in Nat /\ Timeout \in Nat /\ now \in Nat
    BY SettingFacts DEF IInv, Typed
  <2>5. PICK g \in DOMAIN a : g <= id /\ ~(a[g].created + Timeout <= now)
    BY <2>3, <2>4, ExpiredFirst
  <2>6. /\ a[g].created <= a[id].created + MaxDelay
        /\ a[g].created \in Nat /\ a[id].created \in Nat
    BY <2>3, <2>5 DEF Buffer, FrameType
  <2> QED
    BY <2>3, <2>4, <2>5, <2>6
<1> QED
  BY <1>1, LossInvariant, PTL DEF Spec, BufferIsBounded

-----------------------------------------------------------------------------
(* The bytes that are lost: ByteLoss, a fold, one fragment after the other. *)

\* The last fragment.
LEMMA LatestFragment ==
  ASSUME Typed, InvSent, NEW S, InOrder(S), S # {}
  PROVE  Latest(S) \in S /\ \A y \in S : y = Latest(S) \/ y[2] < Latest(S)[2]
<1> DEFINE T == {x[2] : x \in S}
<1>1. Len(sent) \in Nat /\ T \in SUBSET (0..Len(sent)) /\ T # {}
  <2>1. Len(sent) \in Nat
    BY LenProperties DEF Typed
  <2>2. \A x \in S : x[2] \in 0..Len(sent)
    BY <2>1 DEF InOrder, Seqs
  <2> QED
    BY <2>1, <2>2
<1>2. PICK m \in T : \A n \in T : n <= m
  <2> HIDE DEF T
  <2> QED
    BY <1>1, GreatestNumber
<1>3. PICK z \in S : z[2] = m
  BY <1>2
<1>4. ASSUME NEW y \in S
      PROVE  y = z \/ Before(y, z)
  <2>1. y[2] <= z[2]
    BY <1>2, <1>3
  <2>2. /\ y[2] \in Nat /\ z[2] \in Nat /\ (z[2] = y[2] => z = y)
        /\ Before(y, z) <=> y[2] < z[2]
    BY OrderOfPackets
  <2> QED
    BY <2>1, <2>2
<1>5. Latest(S) \in S /\ \A y \in S : y = Latest(S) \/ Before(y, Latest(S))
  BY <1>4 DEF Latest
<1> QED
  BY <1>5, OrderOfPackets

\* One fragment more.
Step(x, acc) ==
  IF Packet(x[2]).byteSeq < acc.next THEN acc
  ELSE [next |-> Packet(x[2]).byteSeq + Packet(x[2]).len,
        lost |-> acc.lost + Packet(x[2]).byteSeq - acc.next]

FoldEquation(h, S) ==
  h = [s \in SUBSET S |->
         IF s = {} THEN [next |-> next.byte, lost |-> 0]
         ELSE Step(Latest(s), h[s \ {Latest(s)}])]

LEMMA ByteLossUnfolds ==
  ASSUME Typed, InvSent, NEW S, IsFiniteSet(S), InOrder(S), NEW h, FoldEquation(h, S)
  PROVE  ByteLoss(S) = h[S]
<1> DEFINE H == CHOOSE k : FoldEquation(k, S)
<1>1. FoldEquation(H, S)
  OBVIOUS
<1>2. ByteLoss(S) = H[S]
  BY DEF ByteLoss, MapThenFoldSet, FoldEquation, Step
<1> HIDE DEF H
<1> DEFINE Q == {s \in SUBSET S : H[s] = h[s]}
<1>3. {} \in Q
  BY <1>1 DEF FoldEquation
<1>4. ASSUME NEW s \in SUBSET S, s # {}, \A x \in s : s \ {x} \in Q
      PROVE  s \in Q
  <2>1. Latest(s) \in s
    <3>1. InOrder(s)
      BY DEF InOrder
    <3> QED
      BY <1>4, <3>1, LatestFragment
  <2>2. H[s \ {Latest(s)}] = h[s \ {Latest(s)}]
    BY <1>4, <2>1
  <2>3. /\ H[s] = Step(Latest(s), H[s \ {Latest(s)}])
        /\ h[s] = Step(Latest(s), h[s \ {Latest(s)}])
    BY <1>1, <1>4 DEF FoldEquation
  <2> QED
    BY <2>2, <2>3
<1>5. \A s \in SUBSET S : s \in Q
  <2> HIDE DEF Q
  <2> QED
    BY <1>3, <1>4, SetInduction
<1> QED
  BY <1>2, <1>5

-----------------------------------------------------------------------------
(* With frames of one packet, what is counted is the offset of the next     *)
(* packet, but for the bytes that have arrived.                             *)

SinglePackets == \A size \in FrameSizes : NumPackets(size) = 1

\* TransmittedBytes before packet n.
Offset(n) == IF n < Len(sent) THEN Packet(n).byteSeq ELSE outBytes

Bytes == [s \in Seqs |-> Packet(s).len]

InvOffsets ==
  /\ Offset(0) = 0
  /\ \A s \in Seqs :
       /\ Packet(s).len \in Nat
       /\ Offset(s + 1) \in {Offset(s), Offset(s) + Packet(s).len}
       /\ s \in arrived \cup Coming => Offset(s + 1) = Offset(s) + Packet(s).len

InvBytes ==
  MaxDelay < Timeout /\ SinglePackets =>
    /\ InvOffsets
    /\ \A id \in DOMAIN frames : \A s \in frames[id].fragments : s >= next.packet
    /\ next.byte = Offset(next.packet)
    /\ stats.lostBytes = Offset(next.packet)
         - SumFunctionOnSet(Bytes, arrived \cap (0..(next.packet - 1)))

LEMMA Offsets ==
  ASSUME Typed, InvOffsets
  PROVE  /\ Len(sent) \in Nat /\ Seqs = 0..(Len(sent) - 1)
         /\ \A n \in 0..Len(sent) : Offset(n) \in Int
         /\ \A n \in Seqs : Offset(n) = Packet(n).byteSeq
         /\ \A m, n \in 0..Len(sent) : m <= n => Offset(m) <= Offset(n)
<1>1. Len(sent) \in Nat /\ Seqs = 0..(Len(sent) - 1)
  BY LenProperties DEF Typed, Seqs
<1>2. \A n \in 0..Len(sent) : Offset(n) \in Int
  <2>1. \A n \in Seqs : Packet(n) \in PacketType
    BY <1>1, ElementOfSeq DEF Typed, Packet
  <2>2. outBytes \in Int
    BY DEF Typed
  <2> QED
    BY <1>1, <2>1, <2>2 DEF Offset, PacketType
<1>3. \A n \in Seqs : Offset(n) = Packet(n).byteSeq
  BY <1>1 DEF Offset
<1> DEFINE N == {n \in Nat : \A m \in 0..n : n <= Len(sent) => Offset(m) <= Offset(n)}
<1>4. 0 \in N
  BY <1>1, <1>2
<1>5. ASSUME NEW n \in N PROVE n + 1 \in N
  <2>1. ASSUME NEW m \in 0..(n + 1), n + 1 <= Len(sent)
        PROVE  Offset(m) <= Offset(n + 1)
    <3>1. n \in Seqs /\ n + 1 \in 0..Len(sent) /\ n \in 0..Len(sent)
          /\ m \in 0..Len(sent)
      BY <1>1, <2>1
    <3>2. Packet(n).len \in Nat /\ Offset(n + 1) \in {Offset(n), Offset(n) + Packet(n).len}
      BY <3>1 DEF InvOffsets
    <3>3. m = n + 1 \/ Offset(m) <= Offset(n)
      BY <1>1, <2>1
    <3> HIDE DEF N
    <3> QED
      BY <1>2, <3>1, <3>2, <3>3
  <2> QED
    BY <2>1
<1>6. N \in SUBSET Nat
  OBVIOUS
<1>7. N = Nat
  <2> HIDE DEF N
  <2> QED
    BY <1>4, <1>5, <1>6, Induction
<1>8. ASSUME NEW m \in 0..Len(sent), NEW n \in 0..Len(sent), m <= n
      PROVE  Offset(m) <= Offset(n)
  <2>1. n \in N /\ m \in 0..n
    BY <1>1, <1>7, <1>8
  <2> QED
    BY <1>1, <2>1
<1> QED
  BY <1>1, <1>2, <1>3, <1>8

LEMMA BytesSum ==
  ASSUME Typed, InvOffsets
  PROVE  /\ IsFiniteSet(Seqs)
         /\ \A s \in Seqs : Bytes[s] = Packet(s).len /\ Bytes[s] \in Nat
         /\ \A U \in SUBSET Seqs :
              IsFiniteSet(U) /\ SumFunctionOnSet(Bytes, U) \in Nat
<1>1. IsFiniteSet(Seqs)
  <2>1. Len(sent) - 1 \in Int
    BY LenProperties DEF Typed
  <2> QED
    BY <2>1, FS_Interval DEF Seqs
<1>2. \A s \in Seqs : Bytes[s] = Packet(s).len /\ Bytes[s] \in Nat
  BY DEF Bytes, InvOffsets
<1>3. ASSUME NEW U \in SUBSET Seqs
      PROVE  IsFiniteSet(U) /\ SumFunctionOnSet(Bytes, U) \in Nat
  <2>1. IsFiniteSet(U) /\ \A s \in U : Bytes[s] \in Nat
    BY <1>1, <1>2, FS_Subset
  <2> QED
    BY <2>1, SumOfPick
<1> QED
  BY <1>1, <1>2, <1>3

\* The bytes up to the last fragment of s, but for those that have arrived, are
\* what is counted as lost when s has been purged, as every fragment of s is
\* behind the counter.
End(s) == IF s = {} THEN next.byte ELSE Offset(Latest(s)[2] + 1)

SecondParts(s) == {x[2] : x \in s}

Loss(S, B) ==
  [s \in SUBSET S |->
     [next |-> End(s),
      lost |-> End(s) - SumFunctionOnSet(Bytes, B \cup SecondParts(s))
                      - stats.lostBytes]]

LEMMA LossEquation ==
  ASSUME Typed, InvSent, InvOffsets, next.byte = Offset(next.packet),
         NEW B \in SUBSET Seqs, \A b \in B : b < next.packet,
         stats.lostBytes + SumFunctionOnSet(Bytes, B) = Offset(next.packet),
         stats.lostBytes \in Int,
         NEW S, InOrder(S),
         \A x \in S : /\ x[2] \in arrived \cup Coming
                      /\ x[2] >= next.packet
  PROVE  FoldEquation(Loss(S, B), S)
<1>1. /\ Len(sent) \in Nat /\ Seqs = 0..(Len(sent) - 1)
      /\ \A n \in 0..Len(sent) : Offset(n) \in Int
      /\ \A n \in Seqs : Offset(n) = Packet(n).byteSeq
      /\ \A m, n \in 0..Len(sent) : m <= n => Offset(m) <= Offset(n)
      /\ next.packet \in 0..Len(sent)
  <2>1. next.packet \in 0..Len(sent)
    BY DEF Typed
  <2> QED
    BY <2>1, Offsets
<1>2. IsFiniteSet(Seqs) /\ \A b \in Seqs : Bytes[b] = Packet(b).len /\ Bytes[b] \in Nat
  BY BytesSum
<1>3. \A s \in SUBSET S : SecondParts(s) \in SUBSET Seqs
  BY DEF InOrder, SecondParts
<1>4. \A U \in SUBSET Seqs : SumFunctionOnSet(Bytes, U) \in Nat
  BY BytesSum
<1> DEFINE h == Loss(S, B)
<1>5. \A s \in SUBSET S :
        h[s] = [next |-> End(s),
                lost |-> End(s) - SumFunctionOnSet(Bytes, B \cup SecondParts(s))
                                - stats.lostBytes]
  BY DEF Loss
<1>6. h[{}] = [next |-> next.byte, lost |-> 0]
  <2>1. End({}) = next.byte /\ B \cup SecondParts({}) = B
    BY DEF End, SecondParts
  <2>2. next.byte - SumFunctionOnSet(Bytes, B) - stats.lostBytes = 0
    BY <1>1, <1>4
  <2> QED
    BY <1>5, <2>1, <2>2
<1>7. ASSUME NEW s \in SUBSET S, s # {}
      PROVE  h[s] = Step(Latest(s), h[s \ {Latest(s)}])
  <2> DEFINE x == Latest(s)
             t == s \ {x}
             n == x[2]
             U == B \cup SecondParts(s)
             V == B \cup SecondParts(t)
  <2>1. x \in s /\ (\A y \in s : y = x \/ y[2] < n) /\ InOrder(s) /\ InOrder(t)
    <3>1. InOrder(s)
      BY DEF InOrder
    <3> QED
      BY <1>7, <3>1, LatestFragment DEF InOrder
  <2>2. /\ n \in Seqs /\ n \in 0..Len(sent) /\ n + 1 \in 0..Len(sent)
        /\ next.packet <= n /\ n \in arrived \cup Coming /\ n \in Int
    BY <1>1, <2>1 DEF InOrder
  <2>3. /\ Offset(n + 1) = Offset(n) + Packet(n).len
        /\ Offset(n) = Packet(n).byteSeq /\ Packet(n).len \in Nat
        /\ Offset(n) \in Int /\ Offset(n + 1) \in Int
    BY <1>1, <2>2 DEF InvOffsets
  <2>4. End(s) = Offset(n + 1)
    BY <1>7 DEF End
  <2>5. End(t) \in Int /\ End(t) <= Offset(n)
    <3>1. CASE t = {}
      <4>1. End(t) = Offset(next.packet)
        BY <3>1 DEF End
      <4> HIDE DEF t, n
      <4> QED
        BY <1>1, <2>2, <4>1
    <3>2. CASE t # {}
      <4> DEFINE k == Latest(t)[2]
      <4>1. Latest(t) \in t
        <5> HIDE DEF t
        <5> QED
          BY <2>1, <3>2, LatestFragment
      <4>2. k < n /\ k \in Seqs
        BY <2>1, <4>1 DEF InOrder
      <4>3. End(t) = Offset(k + 1)
        BY <3>2 DEF End
      <4> HIDE DEF k, t, n
      <4>4. k + 1 \in 0..Len(sent) /\ k + 1 <= n
        BY <1>1, <2>2, <4>2
      <4> QED
        BY <1>1, <2>2, <4>3, <4>4
    <3> QED
      BY <3>1, <3>2
  <2>6. n \in U /\ V = U \ {n} /\ U \in SUBSET Seqs /\ V \in SUBSET Seqs
    <3>1. n \in SecondParts(s) /\ n \notin SecondParts(t) /\ n \notin B
          /\ SecondParts(s) = SecondParts(t) \cup {n}
      <4>1. \A y \in t : y[2] # n
        <5>1. \A y \in s : y[2] \in Int
          BY <1>1, <2>1 DEF InOrder
        <5> QED
          BY <2>1, <2>2, <5>1
      <4>2. n \notin B
        BY <1>1, <2>2
      <4> QED
        BY <2>1, <4>1, <4>2 DEF SecondParts
    <3>2. SecondParts(s) \in SUBSET Seqs
      BY <1>3
    <3> QED
      BY <3>1, <3>2
  <2>7. /\ SumFunctionOnSet(Bytes, U) = Bytes[n] + SumFunctionOnSet(Bytes, V)
        /\ SumFunctionOnSet(Bytes, U) \in Nat /\ SumFunctionOnSet(Bytes, V) \in Nat
    <3> HIDE DEF U, V, n
    <3>1. IsFiniteSet(U) /\ \A u \in U : Bytes[u] \in Nat
      BY <1>2, <2>6, FS_Subset
    <3>2. SumFunctionOnSet(Bytes, U) = Bytes[n] + SumFunctionOnSet(Bytes, U \ {n})
      BY <2>6, <3>1, SumWithoutOne
    <3> QED
      BY <1>4, <2>6, <3>2
  <2>8. Bytes[n] = Packet(n).len
    BY <1>2, <2>2
  <2>9. /\ h[s] = [next |-> Offset(n + 1),
                   lost |-> Offset(n + 1) - SumFunctionOnSet(Bytes, U) - stats.lostBytes]
        /\ h[t].next = End(t)
        /\ h[t].lost = End(t) - SumFunctionOnSet(Bytes, V) - stats.lostBytes
    <3>1. s \in SUBSET S /\ t \in SUBSET S
      OBVIOUS
    <3> HIDE DEF h, t, n
    <3>2. h[s] = [next |-> Offset(n + 1),
                  lost |-> Offset(n + 1) - SumFunctionOnSet(Bytes, U) - stats.lostBytes]
      BY <1>5, <2>4, <3>1
    <3>3. h[t] = [next |-> End(t),
                  lost |-> End(t) - SumFunctionOnSet(Bytes, V) - stats.lostBytes]
      BY <1>5, <3>1
    <3> HIDE DEF U, V
    <3> QED
      BY <3>2, <3>3
  <2> HIDE DEF h, t, U, V
  <2>10. Step(x, h[t]) = [next |-> Packet(n).byteSeq + Packet(n).len,
                          lost |-> h[t].lost + Packet(n).byteSeq - h[t].next]
    <3>1. ~(Packet(n).byteSeq < h[t].next)
      BY <2>3, <2>5, <2>9
    <3> QED
      BY <3>1 DEF Step
  <2> HIDE DEF x, n
  <2>11. h[t].lost + Packet(n).byteSeq - h[t].next
           = Offset(n + 1) - SumFunctionOnSet(Bytes, U) - stats.lostBytes
    BY <2>3, <2>5, <2>7, <2>8, <2>9
  <2>12. h[s] = Step(x, h[t])
    BY <2>3, <2>9, <2>10, <2>11
  <2> QED
    BY <2>12 DEF x, t
<1>8. h = [s \in SUBSET S |-> h[s]]
  BY DEF Loss
<1>9. FoldEquation(h, S)
  <2> HIDE DEF h
  <2> QED
    BY <1>6, <1>7, <1>8 DEF FoldEquation
<1> QED
  BY <1>9

LEMMA SameOffsets ==
  ASSUME Typed, InvOffsets, UNCHANGED <<setting, outBytes, sent>>,
         arrived' \cup Coming' \subseteq arrived \cup Coming
  PROVE  /\ InvOffsets' /\ Seqs' = Seqs /\ Bytes' = Bytes
         /\ \A n : Offset(n)' = Offset(n)
         /\ MaxDelay' = MaxDelay /\ Timeout' = Timeout
         /\ SinglePackets' <=> SinglePackets
<1>1. /\ Seqs' = Seqs /\ Bytes' = Bytes /\ \A n : Offset(n)' = Offset(n)
      /\ \A n : Packet(n)' = Packet(n)
  BY DEF Seqs, Bytes, Offset, Packet
<1>2. InvOffsets'
  BY <1>1 DEF InvOffsets
<1>3. /\ MaxDelay' = MaxDelay /\ Timeout' = Timeout /\ FrameSizes' = FrameSizes
  BY DEF MaxDelay, Timeout, FrameSizes
<1> QED
  BY <1>1, <1>2, <1>3 DEF SinglePackets

LEMMA PurgedAreFinite ==
  ASSUME Typed, NEW arr \in SUBSET Seqs, NEW a, Buffer(a, arr)
  PROVE  IsFiniteSet(PurgedFragments(a)) /\ InOrder(PurgedFragments(a))
<1>1. outFrames \in Nat /\ Len(sent) \in Nat
  BY SettingFacts, LenProperties DEF Typed
<1>2. IsFiniteSet(0..(outFrames - 1)) /\ IsFiniteSet(Seqs)
  BY <1>1, FS_Interval DEF Seqs
<1>3. IsFiniteSet((0..(outFrames - 1)) \X Seqs)
  BY <1>2, FS_Product
<1>4. PurgedFragments(a) \in SUBSET ((0..(outFrames - 1)) \X Seqs)
  BY DEF PurgedFragments, Fragments, Buffer
<1>5. InOrder(PurgedFragments(a))
  BY PurgedFacts DEF InOrder
<1> QED
  BY <1>3, <1>4, <1>5, FS_Subset

LEMMA ReceiveBytes ==
  ASSUME FewFrames, IInv, InvBytes, NEW p \in inFlight, Receive(p), setting' = setting,
         MaxDelay < Timeout, SinglePackets
  PROVE  InvBytes'
<1> DEFINE a == AddFragment(p.seq)
           S == PurgedFragments(a)
           q == next.packet
           r == next'.packet
           B == arrived \cap (0..(q - 1))
<1>1. /\ Updated(p, a)
      /\ next'.byte = ByteLoss(S).next
      /\ stats'.lostBytes = stats.lostBytes + ByteLoss(S).lost
  BY ReceiveUpdates DEF Receive, UpdateStatistics, PurgedFragments
<1>2. \A id \in DOMAIN a : \A s \in a[id].fragments :
        (id \in DOMAIN frames /\ s \in frames[id].fragments) \/ s = p.seq
  BY DEF AddFragment
<1> HIDE DEF a
<1>3. /\ Typed /\ InvSent /\ p.seq \in Seqs /\ p.seq >= q /\ p.seq \in Coming
      /\ \A id \in DOMAIN frames : \A s \in frames[id].fragments : s >= q
      /\ InvOffsets /\ next.byte = Offset(q)
      /\ stats.lostBytes = Offset(q) - SumFunctionOnSet(Bytes, B)
  BY DEF IInv, InvNetwork, InvAhead, InvBytes, Coming
<1>4. /\ UNCHANGED <<setting, outBytes, sent>> /\ arrived' = arrived \cup {p.seq}
      /\ arrived' \cup Coming' \subseteq arrived \cup Coming
      /\ Buffer(a, arrived') /\ frames' = [id \in DOMAIN a \ Expired(a) |-> a[id]]
      /\ Passed(a, arrived', next'.frame, r)
  BY <1>1 DEF Updated, Coming
<1>5. /\ InvOffsets' /\ Seqs' = Seqs /\ Bytes' = Bytes
      /\ \A n : Offset(n)' = Offset(n)
      /\ MaxDelay' = MaxDelay /\ Timeout' = Timeout
  BY <1>3, <1>4, SameOffsets
<1>6. /\ Len(sent) \in Nat /\ Seqs = 0..(Len(sent) - 1)
      /\ \A n \in 0..Len(sent) : Offset(n) \in Int
      /\ q \in 0..Len(sent) /\ r \in q..Len(sent) /\ q \in Nat /\ r \in Nat
  BY <1>3, <1>4, Offsets DEF Typed, Passed
<1>7. arrived' \in SUBSET Seqs
  BY <1>3, <1>4 DEF Typed
<1>8. /\ \A s \in PurgedSeqs(a) : s < r /\ s \in arrived'
      /\ (q..(r - 1)) \cap arrived' = {s \in PurgedSeqs(a) : s >= q}
      /\ r = q \/ r - 1 \in PurgedSeqs(a)
  <2>1. \A s \in PurgedSeqs(a) : s \in arrived'
    BY <1>3, <1>4, <1>7, PurgedFacts
  <2> QED
    BY <1>4, <2>1 DEF Passed
<1>9. \A id \in DOMAIN a : \A s \in a[id].fragments : s >= q
  BY <1>2, <1>3
<1>10. \A x \in S : x[2] \in arrived \cup Coming /\ x[2] >= q
  <2>1. \A x \in S : /\ x[1] = Packet(x[2]).frame /\ x[2] \in arrived'
                     /\ x[2] \in PurgedSeqs(a)
    BY <1>3, <1>4, <1>7, PurgedFacts DEF PurgedSeqs
  <2>2. \A s \in PurgedSeqs(a) : InBuffer(s, a)
    BY <1>3, <1>4, <1>7, PurgedFacts
  <2> QED
    BY <1>4, <1>9, <2>1, <2>2 DEF InBuffer
<1>11. IsFiniteSet(S) /\ InOrder(S)
  BY <1>3, <1>4, <1>7, PurgedAreFinite
<1> HIDE DEF S
<1>12. ByteLoss(S) = [next |-> End(S),
                      lost |-> End(S) - SumFunctionOnSet(Bytes, B \cup SecondParts(S))
                                      - stats.lostBytes]
  <2>1. B \in SUBSET Seqs /\ \A b \in B : b < q
    <3>1. arrived \subseteq Seqs
      BY <1>3 DEF Typed
    <3> HIDE DEF q
    <3> QED
      BY <1>6, <3>1
  <2>2. stats.lostBytes \in Int
        /\ stats.lostBytes + SumFunctionOnSet(Bytes, B) = Offset(q)
    <3>1. SumFunctionOnSet(Bytes, B) \in Nat
      BY <1>3, <2>1, BytesSum
    <3>2. Offset(q) \in Int
      BY <1>6
    <3> HIDE DEF B, q
    <3> QED
      BY <1>3, <3>1, <3>2
  <2> HIDE DEF B, q
  <2>3. FoldEquation(Loss(S, B), S)
    BY <1>3, <1>10, <1>11, <2>1, <2>2, LossEquation DEF q
  <2>4. ByteLoss(S) = Loss(S, B)[S]
    BY <1>3, <1>11, <2>3, ByteLossUnfolds
  <2> QED
    BY <2>4 DEF Loss
<1>13. SecondParts(S) = PurgedSeqs(a)
  BY DEF SecondParts, PurgedSeqs, S
<1>14. B \cup SecondParts(S) = arrived' \cap (0..(r - 1))
  <2>1. \A s \in arrived' : s \in Int /\ s >= 0
    BY <1>6, <1>7
  <2>2. B = arrived' \cap (0..(q - 1))
    BY <1>3, <1>4, <1>6, <2>1
  <2>3. PurgedSeqs(a) = (q..(r - 1)) \cap arrived'
    BY <1>8, <1>10, <1>13 DEF SecondParts
  <2> HIDE DEF B
  <2> QED
    BY <1>6, <1>13, <2>1, <2>2, <2>3
<1>15. End(S) = Offset(r)
  <2>1. CASE S = {}
    <3>1. r = q
      BY <1>8, <1>13, <2>1 DEF SecondParts
    <3> QED
      BY <1>3, <2>1, <3>1 DEF End
  <2>2. CASE S # {}
    <3> DEFINE x == Latest(S)
    <3>1. x \in S /\ \A y \in S : y = x \/ y[2] < x[2]
      BY <1>3, <1>11, <2>2, LatestFragment
    <3> HIDE DEF x
    <3>2. x[2] \in PurgedSeqs(a) /\ x[2] >= q /\ x[2] < r /\ x[2] \in Int
      BY <1>8, <1>7, <1>6, <1>10, <1>13, <3>1 DEF SecondParts
    <3>3. r - 1 \in PurgedSeqs(a)
      BY <1>6, <1>8, <3>2
    <3>4. r - 1 <= x[2]
      <4>1. PICK y \in S : y[2] = r - 1
        BY <1>13, <3>3 DEF SecondParts
      <4> QED
        BY <1>6, <3>1, <3>2, <4>1
    <3>5. x[2] + 1 = r
      BY <1>6, <3>2, <3>4
    <3> QED
      BY <2>2, <3>5 DEF End, x
  <2> QED
    BY <2>1, <2>2
<1>16. next'.byte = Offset(r)
  BY <1>1, <1>12, <1>15
<1>17. stats'.lostBytes =
         Offset(r) - SumFunctionOnSet(Bytes, arrived' \cap (0..(r - 1)))
  <2> DEFINE C == arrived' \cap (0..(r - 1))
  <2>1. C \in SUBSET Seqs /\ B \in SUBSET Seqs
    BY <1>3, <1>7 DEF Typed
  <2>2. SumFunctionOnSet(Bytes, C) \in Nat /\ SumFunctionOnSet(Bytes, B) \in Nat
    BY <1>3, <2>1, BytesSum
  <2>3. Offset(r) \in Int /\ Offset(q) \in Int
    BY <1>6
  <2>4. B \cup SecondParts(S) = C
    BY <1>14
  <2> HIDE DEF B, C, q, r
  <2>5. ByteLoss(S).lost = Offset(r) - SumFunctionOnSet(Bytes, C) - stats.lostBytes
    BY <1>12, <1>15, <2>4
  <2>6. stats.lostBytes \in Int
    BY <1>3, <2>2, <2>3
  <2>7. stats'.lostBytes = Offset(r) - SumFunctionOnSet(Bytes, C)
    BY <1>1, <2>2, <2>3, <2>5, <2>6
  <2> QED
    BY <2>7 DEF C
<1>18. ASSUME NEW id \in DOMAIN frames', NEW s \in frames'[id].fragments
       PROVE  s >= r
  <2>1. id \in DOMAIN a /\ id \notin Expired(a) /\ s \in a[id].fragments /\ s >= q
    BY <1>4, <1>9, <1>18
  <2>2. s \in arrived' /\ Packet(s).frame = id /\ s \in Seqs /\ s \in Int
    BY <1>4, <1>6, <1>7, <2>1 DEF Buffer
  <2> SUFFICES ASSUME s < r PROVE FALSE
    BY <1>6, <2>2
  <2>3. s \in PurgedSeqs(a)
    BY <1>6, <1>8, <2>1, <2>2
  <2>4. Packet(s).frame \in Expired(a)
    BY <1>3, <1>4, <1>7, <2>3, PurgedFacts
  <2> QED
    BY <2>1, <2>2, <2>4
<1> QED
  BY <1>5, <1>16, <1>17, <1>18 DEF InvBytes

LEMMA SequenceOf ==
  ASSUME NEW n \in Nat, NEW S, NEW f \in [1..n -> S]
  PROVE  f \in Seq(S) /\ Len(f) = n
<1>1. f \in Seq(S)
  OBVIOUS
<1>2. Len(f) \in Nat /\ 1..Len(f) = 1..n
  BY <1>1, LenProperties
<1> QED
  BY <1>1, <1>2

\* Neither a loss nor a tick changes what is counted.
LEMMA QuietBytes ==
  ASSUME IInv, InvBytes, UNCHANGED <<setting, outBytes, sent, frames, next, stats, arrived>>,
         inFlight' \subseteq inFlight
  PROVE  InvBytes'
<1> SUFFICES ASSUME MaxDelay' < Timeout', SinglePackets'
             PROVE  InvBytes'
  BY DEF InvBytes
<1>1. MaxDelay' = MaxDelay /\ Timeout' = Timeout /\ FrameSizes' = FrameSizes
  BY DEF MaxDelay, Timeout, FrameSizes
<1>2. Typed /\ MaxDelay < Timeout /\ SinglePackets
  BY <1>1 DEF IInv, SinglePackets
<1>3. /\ InvOffsets /\ next.byte = Offset(next.packet)
      /\ \A id \in DOMAIN frames : \A s \in frames[id].fragments : s >= next.packet
      /\ stats.lostBytes = Offset(next.packet)
           - SumFunctionOnSet(Bytes, arrived \cap (0..(next.packet - 1)))
  BY <1>2 DEF InvBytes
<1>4. arrived' \cup Coming' \subseteq arrived \cup Coming
  BY DEF Coming
<1>5. InvOffsets' /\ Bytes' = Bytes /\ \A n : Offset(n)' = Offset(n)
  BY <1>2, <1>3, <1>4, SameOffsets
<1> QED
  BY <1>3, <1>5 DEF InvBytes

\* A frame is one packet, which carries what has been sent before it, and adds
\* its length to that unless it was not sent.
LEMMA SendBytes ==
  ASSUME FewFrames, IInv, InvBytes, Send, setting' = setting
  PROVE  InvBytes'
<1> SUFFICES ASSUME MaxDelay' < Timeout', SinglePackets'
             PROVE  InvBytes'
  BY DEF InvBytes
<1>0. PICK L : L = Len(sent)
  OBVIOUS
<1>1. MaxDelay' = MaxDelay /\ Timeout' = Timeout /\ FrameSizes' = FrameSizes
  BY DEF MaxDelay, Timeout, FrameSizes
<1>2. Typed /\ MaxDelay < Timeout /\ SinglePackets
  BY <1>1 DEF IInv, SinglePackets
<1>3. /\ InvOffsets /\ next.byte = Offset(next.packet)
      /\ \A id \in DOMAIN frames : \A s \in frames[id].fragments : s >= next.packet
      /\ stats.lostBytes = Offset(next.packet)
           - SumFunctionOnSet(Bytes, arrived \cap (0..(next.packet - 1)))
  BY <1>2 DEF InvBytes
<1>4. /\ Transmitted /\ L \in Nat /\ Seqs = 0..(L - 1) /\ outBytes \in Int
      /\ next.packet \in 0..L
      /\ \A n \in Seqs : Offset(n) = Packet(n).byteSeq
  BY <1>0, <1>2, <1>3, SendTransmits, Offsets DEF Typed
<1>5. UNCHANGED <<frames, next, stats, arrived>>
      /\ \A s \in Seqs : Packet(s)' = Packet(s)
  BY <1>4 DEF Transmitted
<1>6. PICK size \in FrameSizes :
        \E failing \in 0..NumPackets(size) : TransmitFrame(size, failing)
  BY DEF Send
<1>7. PICK failing \in 0..NumPackets(size) : TransmitFrame(size, failing)
  BY <1>6
<1>8. NumPackets(size) = 1 /\ failing \in {0, 1} /\ size \in Nat \ {0}
  <2>1. NumPackets(size) = 1
    BY <1>2 DEF SinglePackets
  <2>2. size \in Nat \ {0}
    BY <1>2, SettingFacts
  <2> QED
    BY <1>7, <2>1, <2>2
<1> DEFINE len == PacketLength(size, 1)
           new == [frame |-> outFrames, byteSeq |-> outBytes, len |-> len]
           packets == [i \in 1..1 |-> [frame |-> outFrames, byteSeq |-> outBytes,
                                       len |-> PacketLength(size, i)]]
<1>9. len \in Nat
  <2>1. FullLength \in Nat /\ MaxMsgSize \in Int /\ HeaderSize \in Nat
    BY ConstantsAssumption DEF FullLength
  <2>2. size - (1 - 1) * FullLength = size
    BY <1>8, <2>1
  <2> QED
    BY <1>8, <2>1, <2>2 DEF PacketLength
<1>10. /\ sent' = sent \o packets
       /\ failing = 0 => outBytes' = outBytes + len
       /\ failing = 1 => outBytes' = outBytes /\ inFlight' = inFlight
  <2>1. failing = 0 => outBytes' = outBytes + (0 * FullLength + len)
    BY <1>7, <1>8 DEF TransmitFrame
  <2>2. failing = 1 => outBytes' = outBytes + 0 * FullLength
    BY <1>7, <1>8 DEF TransmitFrame
  <2>3. 0 * FullLength = 0
    BY <1>8, Lengths
  <2>4. sent' = sent \o packets
    BY <1>7, <1>8 DEF TransmitFrame
  <2>5. failing = 1 => inFlight' = inFlight
    BY <1>7, <1>8 DEF TransmitFrame
  <2> HIDE DEF len, packets
  <2> QED
    BY <1>4, <1>9, <2>1, <2>2, <2>3, <2>4, <2>5
<1>11. Seqs' = 0..L /\ Len(sent') = L + 1 /\ Packet(L)' = new
  <2>1. packets \in Seq(PacketType) /\ Len(packets) = 1 /\ packets[1] = new
    <3>1. packets[1] = new /\ DOMAIN packets = 1..1 /\ 1 \in Nat
      OBVIOUS
    <3>2. new \in PacketType
      <4>1. outFrames \in Nat /\ outBytes \in Int /\ len \in Int
        BY <1>2, <1>4, <1>9, SettingFacts DEF Typed
      <4> HIDE DEF len
      <4> QED
        BY <4>1 DEF PacketType
    <3>3. packets \in [1..1 -> PacketType]
      BY <3>1, <3>2
    <3> HIDE DEF packets, new
    <3> QED
      BY <3>1, <3>3, SequenceOf
  <2> HIDE DEF packets, new
  <2>2. sent \in Seq(PacketType)
    BY <1>2 DEF Typed
  <2>3. /\ Len(sent \o packets) = L + 1
        /\ \A i \in 1..(L + 1) :
             (sent \o packets)[i] = IF i <= L THEN sent[i] ELSE packets[i - L]
    <3>1. L = Len(sent) /\ Len(packets) = 1
      BY <1>0, <2>1
    <3>2. Len(sent \o packets) = Len(sent) + Len(packets)
      BY <2>1, <2>2, ConcatProperties
    <3>3. \A i \in 1..(Len(sent) + Len(packets)) :
            (sent \o packets)[i] = IF i <= Len(sent) THEN sent[i]
                                                     ELSE packets[i - Len(sent)]
      BY <2>1, <2>2, ConcatProperties
    <3> QED
      BY <3>1, <3>2, <3>3
  <2>4. L + 1 \in 1..(L + 1) /\ ~(L + 1 <= L) /\ L + 1 - L = 1 /\ L + 1 - 1 = L
    BY <1>4
  <2>5. Len(sent') = L + 1 /\ sent'[L + 1] = new
    BY <1>4, <1>10, <2>1, <2>3, <2>4
  <2>6. Seqs' = 0..(Len(sent') - 1) /\ Packet(L)' = sent'[L + 1]
    BY DEF Seqs, Packet
  <2>7. Seqs' = 0..L
    BY <1>4, <2>4, <2>5, <2>6
  <2> QED
    BY <2>5, <2>6, <2>7
<1> HIDE DEF new
<1>12. \A n \in 0..L : Offset(n)' = Offset(n)
  <2>1. ASSUME NEW n \in Seqs PROVE Offset(n)' = Offset(n)
    BY <1>4, <1>5, <1>11 DEF Offset
  <2>2. Offset(L)' = Offset(L)
    <3>1. Packet(L)'.byteSeq = outBytes
      BY <1>11 DEF new
    <3> QED
      BY <1>0, <1>4, <1>11, <3>1 DEF Offset
  <2>3. \A n \in 0..L : n \in Seqs \/ n = L
    BY <1>4
  <2> QED
    BY <2>1, <2>2, <2>3
<1>13. Offset(L + 1)' = outBytes' /\ Offset(L)' = outBytes /\ Packet(L)'.len = len
  BY <1>4, <1>11, <1>12 DEF Offset, new
<1>14. InvOffsets'
  <2>1. ASSUME NEW s \in Seqs'
        PROVE  /\ Packet(s)'.len \in Nat
               /\ Offset(s + 1)' \in {Offset(s)', Offset(s)' + Packet(s)'.len}
               /\ s \in arrived' \cup Coming' => Offset(s + 1)' = Offset(s)' + Packet(s)'.len
    <3>1. CASE s \in Seqs
      <4>1. s \in 0..L /\ s + 1 \in 0..L
        BY <1>4, <3>1
      <4>2. s \in Coming' => s \in Coming
        <5>1. \A q \in inFlight' \ inFlight : q.seq \notin Seqs
          BY <1>4 DEF Transmitted
        <5> QED
          BY <3>1, <5>1 DEF Coming
      <4> QED
        BY <1>3, <1>5, <1>12, <3>1, <4>1, <4>2 DEF InvOffsets
    <3>2. CASE s \notin Seqs
      <4>1. s = L
        BY <1>4, <1>11, <3>2
      <4>2. failing = 1 => L \notin arrived' \cup Coming'
        <5>1. arrived \subseteq Seqs /\ Coming \subseteq Seqs /\ L \notin Seqs
          BY <1>4 DEF IInv, Typed, InvNetwork, Coming
        <5> QED
          BY <1>5, <1>10, <5>1 DEF Coming
      <4> HIDE DEF len
      <4> QED
        BY <1>4, <1>8, <1>9, <1>10, <1>13, <4>1, <4>2
    <3> QED
      BY <3>1, <3>2
  <2>2. Offset(0)' = 0
    BY <1>3, <1>4, <1>12 DEF InvOffsets
  <2> QED
    BY <2>1, <2>2 DEF InvOffsets
<1>15. SumFunctionOnSet(Bytes, arrived \cap (0..(next.packet - 1)))'
         = SumFunctionOnSet(Bytes, arrived \cap (0..(next.packet - 1)))
  <2> DEFINE C == arrived \cap (0..(next.packet - 1))
  <2>1. C \in SUBSET Seqs
    BY <1>2 DEF Typed
  <2>2. \A s \in Seqs : Bytes'[s] = Bytes[s]
    BY <1>4, <1>5, <1>11 DEF Bytes
  <2>3. C' = C
    BY <1>5
  <2> HIDE DEF C
  <2>4. IsFiniteSet(C) /\ \A s \in C : Bytes[s] \in Nat /\ Bytes'[s] = Bytes[s]
    BY <1>2, <1>3, <2>1, <2>2, BytesSum
  <2>5. SumFunctionOnSet(Bytes', C) = SumFunctionOnSet(Bytes, C)
    <3> DEFINE f == Bytes'
    <3>1. \A s \in C : f[s] = Bytes[s]
      BY <2>4
    <3> HIDE DEF f
    <3>2. SumFunctionOnSet(f, C) = SumFunctionOnSet(Bytes, C)
      BY <2>4, <3>1, SumCongruence
    <3> QED
      BY <3>2 DEF f
  <2> QED
    BY <2>3, <2>5 DEF C
<1> QED
  BY <1>3, <1>4, <1>5, <1>12, <1>14, <1>15 DEF InvBytes

LEMMA EveryStepCountsBytes ==
  ASSUME FewFrames, IInv, InvBytes, [Next]_vars
  PROVE  InvBytes'
<1>1. CASE Send /\ setting' = setting
  BY <1>1, SendBytes
<1>2. ASSUME NEW p \in inFlight, Receive(p), setting' = setting
      PROVE  InvBytes'
  <2> SUFFICES ASSUME MaxDelay' < Timeout', SinglePackets'
               PROVE  InvBytes'
    BY DEF InvBytes
  <2>1. MaxDelay' = MaxDelay /\ Timeout' = Timeout /\ FrameSizes' = FrameSizes
    BY <1>2 DEF MaxDelay, Timeout, FrameSizes
  <2>2. MaxDelay < Timeout /\ SinglePackets
    BY <2>1 DEF SinglePackets
  <2> QED
    BY <1>2, <2>2, ReceiveBytes
<1>3. CASE /\ UNCHANGED <<setting, outBytes, sent, frames, next, stats, arrived>>
           /\ inFlight' \subseteq inFlight
  BY <1>3, QuietBytes
<1>4. ASSUME NEW p \in inFlight, Lose(p), setting' = setting
      PROVE  InvBytes'
  BY <1>3, <1>4 DEF Lose, senderVars, receiverVars
<1>5. CASE Tick /\ setting' = setting
  BY <1>3, <1>5 DEF Tick, senderVars, receiverVars
<1>6. CASE UNCHANGED vars
  BY <1>3, <1>6 DEF vars, senderVars, receiverVars
<1> QED
  BY <1>1, <1>2, <1>4, <1>5, <1>6 DEF Next

LEMMA NothingCounted ==
  ASSUME FewFrames, Init
  PROVE  InvBytes
<1>1. /\ outBytes = 0 /\ sent = <<>> /\ frames = <<>> /\ arrived = {}
      /\ next.packet = 0 /\ next.byte = 0 /\ stats.lostBytes = 0
  BY DEF Init
<1>2. Len(<<>>) = 0 /\ Seqs = {} /\ DOMAIN frames = {}
  <2>1. Len(<<>>) = 0 /\ <<>> \in Seq(PacketType)
    BY EmptySeq
  <2>2. DOMAIN frames = 1..Len(<<>>)
    BY <1>1, <2>1, LenProperties
  <2>3. 1..0 = {} /\ 0..(0 - 1) = {}
    OBVIOUS
  <2> QED
    BY <1>1, <2>1, <2>2, <2>3 DEF Seqs
<1>3. Offset(0) = 0 /\ Offset(next.packet) = 0
  BY <1>1, <1>2 DEF Offset
<1>4. SumFunctionOnSet(Bytes, {}) = 0
  <2>1. IsFiniteSet({})
    BY FS_EmptySet
  <2> QED
    BY <2>1, SumOfPick
<1>5. arrived \cap (0..(next.packet - 1)) = {}
  BY <1>1
<1>6. InvOffsets
  BY <1>2, <1>3 DEF InvOffsets
<1> QED
  BY <1>1, <1>2, <1>3, <1>4, <1>5, <1>6 DEF InvBytes

\* With frames of one packet and delays below the timeout, NextByteSeqNumber
\* and LostBytes follow TransmittedBytes: what is counted as lost is what was
\* sent before the next packet, but for the bytes that have arrived.
THEOREM BytesInvariant ==
  ASSUME FewFrames
  PROVE  Spec => []InvBytes
<1>1. Init => IInv /\ InvBytes
  BY Start, NothingCounted
<1>2. IInv /\ InvBytes /\ [Next]_vars => IInv' /\ InvBytes'
  BY EveryStep, EveryStepCountsBytes
<1> QED
  BY <1>1, <1>2, PTL DEF Spec

\* One packet more.
LEMMA BytesWith ==
  ASSUME Typed, InvOffsets, NEW U \in SUBSET Seqs, NEW n \in Seqs \ U
  PROVE  SumFunctionOnSet(Bytes, U \cup {n}) = Packet(n).len + SumFunctionOnSet(Bytes, U)
<1> DEFINE V == U \cup {n}
<1>1. V \in SUBSET Seqs /\ n \in V /\ V \ {n} = U
  OBVIOUS
<1> HIDE DEF V
<1>2. IsFiniteSet(V) /\ (\A s \in V : Bytes[s] \in Nat) /\ Bytes[n] = Packet(n).len
  BY <1>1, BytesSum
<1>3. SumFunctionOnSet(Bytes, V) = Bytes[n] + SumFunctionOnSet(Bytes, V \ {n})
  BY <1>1, <1>2, SumWithoutOne
<1> QED
  BY <1>1, <1>2, <1>3 DEF V

\* The bytes sent before packet n are at most those of the packets before it
\* that have arrived and those of the packets before it that have not.
Below(n) ==
  Offset(n) <= SumFunctionOnSet(Bytes, arrived \cap (0..(n - 1)))
                 + SumFunctionOnSet(Bytes, (0..(n - 1)) \ arrived)

LEMMA BytesBelow ==
  ASSUME Typed, InvOffsets, NEW p \in 0..Len(sent)
  PROVE  Below(p)
<1>1. /\ Len(sent) \in Nat /\ Seqs = 0..(Len(sent) - 1)
      /\ \A n \in 0..Len(sent) : Offset(n) \in Int
  BY Offsets
<1> DEFINE N == {n \in Nat : n <= Len(sent) => Below(n)}
<1>2. 0 \in N
  <2>1. arrived \cap (0..(0 - 1)) = {} /\ (0..(0 - 1)) \ arrived = {}
    OBVIOUS
  <2>2. SumFunctionOnSet(Bytes, {}) = 0
    <3>1. IsFiniteSet({})
      BY FS_EmptySet
    <3> QED
      BY <3>1, SumOfPick
  <2>3. Offset(0) = 0
    BY DEF InvOffsets
  <2> QED
    BY <2>1, <2>2, <2>3 DEF Below
<1>3. ASSUME NEW n \in N PROVE n + 1 \in N
  <2> SUFFICES ASSUME n + 1 <= Len(sent) PROVE Below(n + 1)
    OBVIOUS
  <2> DEFINE A == arrived \cap (0..(n - 1))
             M == (0..(n - 1)) \ arrived
  <2>1. /\ n \in Nat /\ n \in Seqs /\ n \notin A /\ n \notin M
        /\ A \in SUBSET Seqs /\ M \in SUBSET Seqs
        /\ n \in 0..Len(sent) /\ n + 1 \in 0..Len(sent)
    BY <1>1
  <2>2. Offset(n) <= SumFunctionOnSet(Bytes, A) + SumFunctionOnSet(Bytes, M)
    BY <1>1, <2>1 DEF Below
  <2>3. 0..((n + 1) - 1) = (0..(n - 1)) \cup {n}
    BY <2>1
  <2>4. /\ n \in arrived => /\ arrived \cap (0..((n + 1) - 1)) = A \cup {n}
                            /\ (0..((n + 1) - 1)) \ arrived = M
        /\ n \notin arrived => /\ arrived \cap (0..((n + 1) - 1)) = A
                               /\ (0..((n + 1) - 1)) \ arrived = M \cup {n}
    BY <2>3
  <2> HIDE DEF A, M, N
  <2>5. /\ SumFunctionOnSet(Bytes, A \cup {n})
             = Packet(n).len + SumFunctionOnSet(Bytes, A)
        /\ SumFunctionOnSet(Bytes, M \cup {n})
             = Packet(n).len + SumFunctionOnSet(Bytes, M)
    BY <2>1, BytesWith
  <2>6. SumFunctionOnSet(Bytes, A) \in Nat /\ SumFunctionOnSet(Bytes, M) \in Nat
    BY <2>1, BytesSum
  <2>7. /\ Packet(n).len \in Nat
        /\ Offset(n + 1) \in {Offset(n), Offset(n) + Packet(n).len}
        /\ Offset(n) \in Int
    BY <1>1, <2>1 DEF InvOffsets
  <2>8. Offset(n + 1) <= Packet(n).len + SumFunctionOnSet(Bytes, A)
                           + SumFunctionOnSet(Bytes, M)
    BY <2>2, <2>6, <2>7
  <2>9. CASE n \in arrived
    BY <2>4, <2>5, <2>6, <2>7, <2>8, <2>9 DEF Below
  <2>10. CASE n \notin arrived
    <3>1. Offset(n + 1) <= SumFunctionOnSet(Bytes, A)
                             + (Packet(n).len + SumFunctionOnSet(Bytes, M))
      BY <2>6, <2>7, <2>8
    <3> QED
      BY <2>4, <2>5, <2>10, <3>1 DEF Below
  <2> QED
    BY <2>9, <2>10
<1>4. N \in SUBSET Nat
  OBVIOUS
<1>5. N = Nat
  <2> HIDE DEF N
  <2> QED
    BY <1>2, <1>3, <1>4, Induction
<1> QED
  BY <1>1, <1>5

\* The sum of the bytes as the property writes it.
LenSums(h) ==
  h = [S \in SUBSET Seqs |->
         IF S = {} THEN 0
         ELSE Packet(CHOOSE x \in S : TRUE).len + h[S \ {CHOOSE x \in S : TRUE}]]

LEMMA LenSumsAreSums ==
  ASSUME Typed, InvOffsets, NEW lost \in SUBSET Seqs
  PROVE  (CHOOSE h : LenSums(h))[lost] = SumFunctionOnSet(Bytes, lost)
<1> DEFINE H == CHOOSE h : LenSums(h)
<1>1. /\ IsFiniteSet(Seqs) /\ (\A s \in Seqs : Bytes[s] \in Nat)
      /\ IsFiniteSet(lost) /\ (\A s \in lost : Bytes[s] \in Nat)
  BY BytesSum
<1>2. ASSUME NEW h PROVE LenSums(h) <=> SumsOn(h, SUBSET Seqs, Bytes)
  <2>1. ASSUME NEW S \in SUBSET Seqs, S # {}
        PROVE  Bytes[Pick(S)] = Packet(CHOOSE x \in S : TRUE).len
    <3>1. Pick(S) \in S
      BY <2>1 DEF Pick
    <3>2. Bytes[Pick(S)] = Packet(Pick(S)).len
      BY <3>1, BytesSum
    <3> QED
      BY <3>2 DEF Pick
  <2>2. \A S \in SUBSET Seqs :
          (IF S = {} THEN 0
           ELSE Packet(CHOOSE x \in S : TRUE).len + h[S \ {CHOOSE x \in S : TRUE}])
          = (IF S = {} THEN 0 ELSE Bytes[Pick(S)] + h[S \ {Pick(S)}])
    BY <2>1 DEF Pick
  <2> QED
    BY <2>2 DEF LenSums, SumsOn
<1>3. LenSums(H)
  <2>1. \E h : LenSums(h)
    BY <1>1, <1>2, SumsExist
  <2> QED
    BY <2>1
<1> HIDE DEF H
<1>4. SumsOn(H, SUBSET Seqs, Bytes)
  BY <1>2, <1>3
<1>5. PICK k \in [SUBSET lost -> Nat] :
        SumsOn(k, SUBSET lost, Bytes) /\ SumFunctionOnSet(Bytes, lost) = k[lost]
  BY <1>1, SumUnfolds
<1>6. Agree(SUBSET lost, H, k)
  <2>1. Agree(lost, Bytes, Bytes)
    BY DEF Agree
  <2> QED
    BY <1>1, <1>4, <1>5, <2>1, SumsAgree
<1> QED
  BY <1>5, <1>6 DEF Agree, H

\* No more bytes are counted as lost than the packets that are lost carried
\* (ByteLossIsReal), when frames are one packet and delays are below the timeout.
THEOREM ByteLossIsRealHolds ==
  ASSUME FewFrames
  PROVE  Spec => []ByteLossIsReal
<1>1. IInv /\ InvBytes => ByteLossIsReal
  <2> SUFFICES ASSUME IInv, InvBytes, MaxDelay < Timeout, SinglePackets
               PROVE  ByteLossIsReal
    BY DEF ByteLossIsReal, SinglePackets
  <2> DEFINE lost == (Seqs \ arrived) \ Coming
             p == next.packet
             A == arrived \cap (0..(p - 1))
             M == (0..(p - 1)) \ arrived
  <2>1. Typed /\ InvOffsets /\ p \in 0..Len(sent)
        /\ stats.lostBytes = Offset(p) - SumFunctionOnSet(Bytes, A)
    BY DEF IInv, Typed, InvBytes
  <2>2. Len(sent) \in Nat /\ Seqs = 0..(Len(sent) - 1) /\ Offset(p) \in Int
    BY <2>1, Offsets
  <2>3. lost \in SUBSET Seqs /\ A \in SUBSET Seqs
    BY <2>1 DEF Typed
  <2>4. M \in SUBSET lost
    <3>1. \A s \in Coming : s >= p
      BY DEF IInv, InvAhead, Coming
    <3>2. \A s \in M : s \in Seqs /\ ~(s >= p)
      BY <2>1, <2>2
    <3> QED
      BY <3>1, <3>2
  <2>5. Below(p)
    BY <2>1, BytesBelow
  <2> HIDE DEF lost, p
  <2>6. Offset(p) <= SumFunctionOnSet(Bytes, A) + SumFunctionOnSet(Bytes, M)
    BY <2>5 DEF Below
  <2> HIDE DEF A, M
  <2>7. /\ SumFunctionOnSet(Bytes, A) \in Nat /\ SumFunctionOnSet(Bytes, M) \in Nat
        /\ SumFunctionOnSet(Bytes, lost) \in Nat
        /\ SumFunctionOnSet(Bytes, M) <= SumFunctionOnSet(Bytes, lost)
    <3>1. IsFiniteSet(lost) /\ \A s \in lost : Bytes[s] \in Nat
      BY <2>1, <2>3, BytesSum
    <3>2. SumFunctionOnSet(Bytes, A) \in Nat
      BY <2>1, <2>3, BytesSum
    <3> QED
      BY <2>4, <3>1, <3>2, SumOfPart
  <2>8. stats.lostBytes <= SumFunctionOnSet(Bytes, lost)
    BY <2>1, <2>2, <2>6, <2>7
  <2>9. (CHOOSE h : LenSums(h))[lost] = SumFunctionOnSet(Bytes, lost)
    BY <2>1, <2>3, LenSumsAreSums
  <2>10. stats.lostBytes <= (CHOOSE h : LenSums(h))[lost]
    BY <2>8, <2>9
  <2> QED
    BY <2>10 DEF ByteLossIsReal, LenSums, lost
<1> QED
  BY <1>1, LossInvariant, BytesInvariant, PTL
===============================================================================
