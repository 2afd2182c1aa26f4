---------------------------- MODULE LossAccounting ----------------------------
(***************************************************************************)
(* One direction of a flow: the sender cuts frames into packets            *)
(* (transmitFrame() of transfer.cc), the network loses, delays, reorders   *)
(* and repeats packets, and the receiver's Defragmenter, driven by         *)
(* updateStatistics(), decides what was lost.                              *)
(*                                                                         *)
(* Time passes in ticks.  The sender hands the packets of a frame to the   *)
(* network within one tick; the network drops a packet that it has kept    *)
(* for more than MaxDelay ticks.                                           *)
(*                                                                         *)
(* A definition named after the next one and a fault is a wrong variant of *)
(* it, in no behaviour of Spec (see the README).                           *)
(***************************************************************************)
EXTENDS Integers, Sequences, FiniteSets, Folds

CONSTANTS
  MaxMsgSize,   \* MaxMsgSize of the flow
  HeaderSize,   \* sizeof(NetPerfMeterDataMessage)
  FrameIDs,     \* number of frame IDs: 2^32 in the program
  Settings      \* the flows and networks to look at

\* A setting is a flow and its network, with the bounds of its behaviours:
\* frameSizes (OutboundFrameSize: bytes of a frame), timeout
\* (DefragmentTimeout), maxDelay (a packet arrives within so many ticks, or
\* never), repeating (the network repeats packets), maxFrames (bound on the
\* frames sent) and maxTime (bound on the ticks).
ASSUME ConstantsAssumption ==
  /\ MaxMsgSize \in Nat \ {0} /\ HeaderSize \in Nat \ {0}
  /\ FrameIDs \in Nat \ {0}
  /\ \A s \in Settings :
       /\ DOMAIN s = {"frameSizes", "timeout", "maxDelay", "repeating",
                      "maxFrames", "maxTime"}
       /\ s.frameSizes \subseteq Nat \ {0}
       /\ s.timeout \in Nat \ {0}
       /\ {s.maxDelay, s.maxFrames, s.maxTime} \subseteq Nat
       /\ s.repeating \in BOOLEAN

VARIABLES
  setting,    \* the flow and network of this behaviour
  now,        \* the clock of both nodes
  sending,    \* the sender's thread has not left its loop
  outFrames,  \* frames begun: LastOutboundFrameID + 1, before it wraps
  outBytes,   \* TransmittedBytes
  sent,       \* packet with sequence number i is sent[i + 1]
  inFlight,   \* packets in the network, with the last tick they may arrive
  frames,     \* Defragmenter::FrameSet, by frame ID
  next,       \* NextFrameID, NextPacketSeqNumber, NextByteSeqNumber
  stats,      \* ReceivedPackets, ReceivedFrames and the Lost... counters
  arrived     \* history: sequence numbers received so far

senderVars   == <<sending, outFrames, outBytes, sent>>
receiverVars == <<frames, next, stats, arrived>>
vars == <<setting, now, senderVars, inFlight, receiverVars>>

FrameSizes == setting.frameSizes
Timeout    == setting.timeout
MaxDelay   == setting.maxDelay
Repeating  == setting.repeating
MaxFrames  == setting.maxFrames
MaxTime    == setting.maxTime

-----------------------------------------------------------------------------
(* Packets.                                                                *)

Packet(seq)  == sent[seq + 1]
FrameID(seq) == Packet(seq).frame % FrameIDs
Seqs         == 0..(Len(sent) - 1)

\* A message never is shorter than its header.
FullLength == IF MaxMsgSize < HeaderSize THEN HeaderSize ELSE MaxMsgSize

NumPackets(size) == (size + FullLength - 1) \div FullLength

PacketLength(size, i) ==
  LET rest == size - (i - 1) * FullLength
  IN IF rest > MaxMsgSize THEN FullLength
     ELSE IF rest < HeaderSize THEN HeaderSize ELSE rest

Init ==
  /\ setting \in Settings
  /\ now = 0
  /\ sending = TRUE /\ outFrames = 0 /\ outBytes = 0 /\ sent = <<>>
  /\ inFlight = {}
  /\ frames = <<>>
  /\ next = [frame |-> 0, packet |-> 0, byte |-> 0]
  /\ stats = [receivedPackets |-> 0, receivedFrames |-> 0,
              lostFrames |-> 0, lostPackets |-> 0, lostBytes |-> 0]
  /\ arrived = {}

-----------------------------------------------------------------------------
(* The sender.                                                             *)

\* transmitFrame() and sendNetPerfMeterData(): the packets of one frame.  All
\* carry the TransmittedBytes from before the frame.  A failed send ends the
\* frame; the sequence number drawn for it stays used.  After it the thread
\* leaves its loop, unless the flow uses UDP or is catching up with its rate.
TransmitFrame(size, failing) ==
  LET packets == [i \in 1..(IF failing = 0 THEN NumPackets(size) ELSE failing)
                    |-> [frame |-> outFrames, byteSeq |-> outBytes,
                         len |-> PacketLength(size, i)]]
      left    == {i \in DOMAIN packets : i # failing}
      bytes   == IF failing = 0
                 THEN (NumPackets(size) - 1) * FullLength
                      + PacketLength(size, NumPackets(size))
                 ELSE (failing - 1) * FullLength
  IN /\ sending
     /\ outFrames < MaxFrames
     /\ outFrames' = outFrames + 1
     /\ outBytes' = outBytes + bytes
     /\ sent' = sent \o packets
     /\ inFlight' = inFlight \cup
          {[seq |-> Len(sent) + i - 1, due |-> now + MaxDelay] : i \in left}
     /\ sending' = TRUE \/ (failing # 0 /\ sending' = FALSE)
     /\ UNCHANGED <<now, receiverVars>>

\* The frame IDs do not come round while a packet of the previous round is in
\* the network or in the Defragmenter: 2^32 frames take longer than that.
UnambiguousID ==
  \A seq \in {p.seq : p \in inFlight}
             \cup UNION {frames[id].fragments : id \in DOMAIN frames} :
    outFrames - Packet(seq).frame < FrameIDs

Send == /\ UnambiguousID
        /\ \E size \in FrameSizes : \E failing \in 0..NumPackets(size) :
             TransmitFrame(size, failing)

-----------------------------------------------------------------------------
(* The receiver.                                                           *)

\* addFragment(): a new frame notes when it was created; fragments that come
\* later do not change that.  A duplicate is dropped.
AddFragment(seq) ==
  LET id == FrameID(seq) IN
  [f \in DOMAIN frames \cup {id} |->
     IF f # id THEN frames[f]
     ELSE IF f \in DOMAIN frames
     THEN [frames[f] EXCEPT !.fragments = @ \cup {seq}]
     ELSE [created |-> now, fragments |-> {seq}]]

IsOld(frame) == frame.created + Timeout <= now

ExpiredSkippingYoung(set) == {id \in DOMAIN set : IsOld(set[id])}

ExpiredFirstOnly(set) ==
  {id \in DOMAIN set : IsOld(set[id]) /\ \A f \in DOMAIN set : f >= id}

\* purge() goes through the frames in the order of their IDs and stops at the
\* first one that is too young.
Expired(set) ==
  {id \in DOMAIN set : \A f \in DOMAIN set : f <= id => IsOld(set[f])}

\* The order in which purge() sees the fragments of the expired frames.
Before(x, y) == x[1] < y[1] \/ (x[1] = y[1] /\ x[2] < y[2])

Fragments(set) ==
  {x \in (DOMAIN set) \X Seqs : x[2] \in set[x[1]].fragments}

\* The number after the greatest one in S, if that is not below n.
After(S, n) == IF \E x \in S : x >= n
               THEN 1 + (CHOOSE x \in S : \A y \in S : y <= x)
               ELSE n

\* A fragment (and a frame) counts unless a later one has been counted.
CountedIgnoringOrder(ids) == ids

Counted(ids) == {id \in ids : id >= next.frame}

CountedPackets(S) ==
  {x \in S : x[2] >= next.packet /\ \A y \in S : Before(y, x) => y[2] < x[2]}

\* NextByteSeqNumber and LostBytes, one fragment after the other.
Latest(S) == CHOOSE x \in S : \A y \in S : y = x \/ Before(y, x)

ByteLossSkippingLength(S) ==
  MapThenFoldSet(LAMBDA x, acc :
                   IF Packet(x[2]).byteSeq < acc.next THEN acc
                   ELSE [next |-> Packet(x[2]).byteSeq + 1,
                         lost |-> acc.lost + Packet(x[2]).byteSeq - acc.next],
                 [next |-> next.byte, lost |-> 0], LAMBDA x : x, Latest, S)

ByteLoss(S) ==
  MapThenFoldSet(LAMBDA x, acc :
                   IF Packet(x[2]).byteSeq < acc.next THEN acc
                   ELSE [next |-> Packet(x[2]).byteSeq + Packet(x[2]).len,
                         lost |-> acc.lost + Packet(x[2]).byteSeq - acc.next],
                 [next |-> next.byte, lost |-> 0], LAMBDA x : x, Latest, S)

\* updateStatistics(): add the fragment, purge, and count.  NextFrameID is a
\* 32-bit number: after the last ID it is 0 again.
UpdateStatistics(seq) ==
  LET added      == AddFragment(seq)
      expired    == Expired(added)
      purged     == {x \in Fragments(added) : x[1] \in expired}
      nextFrame  == After(expired, next.frame)
      nextPacket == After({x[2] : x \in purged}, next.packet)
      bytes      == ByteLoss(purged)
  IN /\ frames' = [id \in DOMAIN added \ expired |-> added[id]]
     /\ next' = [frame  |-> IF nextFrame = FrameIDs THEN 0 ELSE nextFrame,
                 packet |-> nextPacket,
                 byte   |-> bytes.next]
     /\ stats' =
          [receivedPackets |-> stats.receivedPackets + 1,
           receivedFrames  |-> stats.receivedFrames
                               + Cardinality(Counted(expired)),
           lostFrames      |-> stats.lostFrames + nextFrame - next.frame
                               - Cardinality(Counted(expired)),
           lostPackets     |-> stats.lostPackets + nextPacket - next.packet
                               - Cardinality(CountedPackets(purged)),
           lostBytes       |-> stats.lostBytes + bytes.lost]

\* A packet arrives; if the network repeats packets, it may arrive again
\* (bound: once).
Receive(packet) ==
  /\ packet \in inFlight
  /\ \/ inFlight' = inFlight \ {packet}
     \/ Repeating /\ packet.seq \notin arrived /\ UNCHANGED inFlight
  /\ UpdateStatistics(packet.seq)
  /\ arrived' = arrived \cup {packet.seq}
  /\ UNCHANGED <<now, senderVars>>

-----------------------------------------------------------------------------
(* The network and the clock.                                              *)

\* A packet is given up in the last moment, since nothing tells before.
Lose(packet) ==
  /\ packet \in inFlight
  /\ packet.due = now
  /\ inFlight' = inFlight \ {packet}
  /\ UNCHANGED <<now, senderVars, receiverVars>>

Tick ==
  /\ now < MaxTime
  /\ \A packet \in inFlight : packet.due > now
  /\ now' = now + 1
  /\ UNCHANGED <<senderVars, inFlight, receiverVars>>

Next == /\ \/ Send
           \/ \E packet \in inFlight : Receive(packet) \/ Lose(packet)
           \/ Tick
        /\ UNCHANGED setting

Spec == Init /\ [][Next]_vars

-----------------------------------------------------------------------------
(* Properties.                                                             *)

Coming == {packet.seq : packet \in inFlight}

\* A packet is never counted as lost when it is there: whenever the next
\* expected sequence number moves on, exactly the packets that have not
\* arrived by then are counted.
ArrivedIsNotLost ==
  [][stats'.lostPackets - stats.lostPackets =
       Cardinality((next.packet..(next'.packet - 1)) \ arrived')]_vars

\* With delays below the timeout, the loss that is reported is the loss of
\* the network, neither more nor less, of packets and of frames, of which no
\* packet arrived: nothing counted as lost arrives later, however packets are
\* reordered and repeated.
LossIsExact ==
  MaxDelay < Timeout =>
    LET lost == (0..(next.packet - 1)) \ arrived
        Missing(f) == \A s \in arrived : Packet(s).frame # f
        lostFrames == {f \in 0..(next.frame - 1) : Missing(f)}
    IN /\ stats.lostPackets = Cardinality(lost) /\ lost \cap Coming = {}
       /\ stats.lostFrames = Cardinality(lostFrames)
       /\ \A s \in Coming : Packet(s).frame \notin lostFrames

\* A frame is counted as received at most once, although a packet that comes
\* after its frame has been purged makes the frame anew.
FramesCountedOnce ==
  stats.receivedFrames <= Cardinality({Packet(s).frame : s \in arrived})

\* The Defragmenter does not grow without bound: when a packet has been
\* handled, no frame older than the timeout and the delay is left, although
\* a young frame hides the older ones behind it.
BufferIsBounded ==
  [][stats' # stats =>
       \A id \in DOMAIN frames' :
         frames'[id].created + Timeout + MaxDelay > now]_vars

\* netperfmeter.1: "Messages not received within this timeout [...] are
\* accounted as lost": with frames of one packet, the bytes counted as lost are
\* bytes of packets that were sent and did not arrive.  (With frames of more
\* packets they are not: all packets of a frame carry the same number.)
ByteLossIsReal ==
  LET lost == (Seqs \ arrived) \ Coming
      Bytes[S \in SUBSET Seqs] ==
        IF S = {} THEN 0
        ELSE LET s == CHOOSE x \in S : TRUE
             IN Packet(s).len + Bytes[S \ {s}]
  IN MaxDelay < Timeout /\ (\A size \in FrameSizes : NumPackets(size) = 1)
       => stats.lostBytes <= Bytes[lost]
===============================================================================
