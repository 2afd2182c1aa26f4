------------------------ MODULE ResultsTransfer_proofs ------------------------
(***************************************************************************)
(* Proofs about ResultsTransfer for every size of the header, the chunks   *)
(* and the buffer, and every number of rows.                               *)
(*                                                                         *)
(* First what one receiveMessage() makes of a part of a message, then what *)
(* is on the way between the nodes (InvStream), then what the conversation *)
(* has come to (InvConversation).                                          *)
(***************************************************************************)
EXTENDS ResultsTransfer, Integers, SequenceTheorems, TLAPS

-----------------------------------------------------------------------------
(* One message and its reader.                                             *)

Unit(m, i) == [msg |-> m, pos |-> i, last |-> i = m.length]

Messages == {CommUp, StopMsg} \cup {Acknowledge(okay) : okay \in BOOLEAN}
            \cup {Results(rows, eof) : rows \in {s \in Seq(Nat) : Len(s) <= ChunkSize},
                                       eof \in BOOLEAN}

AllUnits == {Unit(m, i) : m \in Messages, i \in Nat}

IsNotification(m) == protocol = "SCTP" /\ m.type = Notification

\* How far a reader that knows which message it reads will read.
SizeOf(m) == IF IsNotification(m) THEN NotificationSize ELSE m.length

Readers == [status : {"WaitingForHeader", "PartialRead", "StreamError"},
            bytes : Seq(AllUnits), size : 0..MessageBufferSize]

\* Reader r after it has got more units, those of message m.
WithMore(r, units, m) == Sized([r EXCEPT !.bytes = @ \o units], IsNotification(m))

\* The reader holds the beginning of message m, and knows what it may know.
Holds(r, m) ==
  /\ Len(r.bytes) < m.length
  /\ \A i \in 1..Len(r.bytes) : r.bytes[i] = Unit(m, i)
  /\ \/ /\ r.status = "WaitingForHeader"
        /\ Len(r.bytes) < HeaderSize
        /\ IsNotification(m) => Len(r.bytes) = 0
     \/ /\ r.status = "PartialRead"
        /\ r.size = SizeOf(m)
        /\ Len(r.bytes) < r.size

LEMMA Constants ==
  /\ HeaderSize \in Nat \ {0} /\ MessageBufferSize \in Nat
  /\ NotificationSize \in 0..MessageBufferSize
  /\ ChunkSize \in Nat \ {0} /\ MaxRows \in Nat
  /\ HeaderSize + ChunkSize <= MessageBufferSize
  BY MessageReaderAssumption, ResultsTransferAssumption

LEMMA MessageFacts ==
  ASSUME NEW m \in Messages
  PROVE  /\ m.length \in Nat /\ HeaderSize <= m.length
         /\ m.length <= MessageBufferSize
         /\ IsNotification(m) => HeaderSize < m.length
<1> USE Constants
<1>1. CASE m = CommUp
  BY <1>1 DEF CommUp
<1>2. CASE m = StopMsg
  BY <1>2 DEF StopMsg
<1>3. ASSUME NEW okay \in BOOLEAN, m = Acknowledge(okay)
      PROVE  m.length = HeaderSize + 1
  BY <1>3 DEF Acknowledge
<1>4. ASSUME NEW rows \in Seq(Nat), Len(rows) <= ChunkSize, NEW eof \in BOOLEAN,
             m = Results(rows, eof)
      PROVE  /\ m.length = HeaderSize + Len(rows) /\ Len(rows) \in Nat
             /\ m.type = "Results"
  BY <1>4, LenProperties DEF Results
<1>5. CASE m \notin {CommUp, StopMsg} /\ m.length = HeaderSize + 1
  BY <1>5
<1>6. Notification # "Results"
  BY DEF Notification
<1> QED
  BY <1>1, <1>2, <1>3, <1>4, <1>5, <1>6 DEF Messages, IsNotification

LEMMA UnitFields ==
  ASSUME NEW m, NEW i
  PROVE  /\ Unit(m, i).msg = m
         /\ Unit(m, i).last = (i = m.length)
  BY DEF Unit

LEMMA UnitsOfMessage ==
  ASSUME NEW m \in Messages
  PROVE  /\ Units(m) \in Seq(AllUnits) /\ Len(Units(m)) = m.length
         /\ \A i \in 1..m.length : Units(m)[i] = Unit(m, i)
<1>1. Units(m) = [i \in 1..m.length |-> Unit(m, i)]
  BY DEF Units, Unit
<1>2. \A i \in Nat : Unit(m, i) \in AllUnits
  BY DEF AllUnits
<1>3. m.length \in Nat
  BY MessageFacts
<1> QED
  BY <1>1, <1>2, <1>3, IsASeq

LEMMA ReadOn ==
  ASSUME NEW m, NEW bytes \in Seq(AllUnits), NEW units \in Seq(AllUnits),
         \A i \in 1..Len(bytes) : bytes[i] = Unit(m, i),
         \A i \in 1..Len(units) : units[i] = Unit(m, Len(bytes) + i)
  PROVE  /\ bytes \o units \in Seq(AllUnits)
         /\ Len(bytes \o units) = Len(bytes) + Len(units)
         /\ \A i \in 1..(Len(bytes) + Len(units)) : (bytes \o units)[i] = Unit(m, i)
<1> DEFINE all == bytes \o units
<1>1. Len(bytes) \in Nat /\ Len(units) \in Nat
  BY LenProperties
<1>2. /\ all \in Seq(AllUnits) /\ Len(all) = Len(bytes) + Len(units)
      /\ \A i \in 1..(Len(bytes) + Len(units)) :
           all[i] = IF i <= Len(bytes) THEN bytes[i] ELSE units[i - Len(bytes)]
  BY ConcatProperties
<1> HIDE DEF all
<1>3. ASSUME NEW i \in 1..(Len(bytes) + Len(units)) PROVE all[i] = Unit(m, i)
  <2>1. CASE i <= Len(bytes)
    BY <1>1, <1>2, <2>1
  <2>2. CASE ~(i <= Len(bytes))
    <3>1. i - Len(bytes) \in 1..Len(units) /\ Len(bytes) + (i - Len(bytes)) = i
      BY <1>1, <2>2
    <3> QED
      BY <1>2, <2>2, <3>1
  <2> QED
    BY <2>1, <2>2
<1> QED
  BY <1>2, <1>3 DEF all

\* What the reader knows of the message when it has got the units so far.
LEMMA SizedStep ==
  ASSUME NEW m \in Messages, NEW start \in Readers,
         start.bytes # <<>>, start.bytes[1].msg = m,
         \/ start.status = "WaitingForHeader" /\ Len(start.bytes) <= HeaderSize
         \/ /\ start.status = "PartialRead" /\ start.size = SizeOf(m)
            /\ Len(start.bytes) <= start.size,
         NEW sized, sized = Sized(start, IsNotification(m))
  PROVE  \/ /\ sized = start /\ start.status = "WaitingForHeader"
            /\ Len(start.bytes) < HeaderSize /\ ~IsNotification(m)
         \/ /\ sized \in Readers /\ sized.bytes = start.bytes
            /\ sized.status = "PartialRead" /\ sized.size = SizeOf(m)
            /\ \/ Len(start.bytes) <= sized.size
               \/ IsNotification(m) /\ Len(start.bytes) <= HeaderSize
<1> DEFINE q == Len(start.bytes)
<1>1. /\ m.length \in HeaderSize..MessageBufferSize /\ m.length \in Nat
      /\ m.length \in 0..MessageBufferSize /\ q \in Nat
      /\ NotificationSize \in 0..MessageBufferSize
  BY Constants, MessageFacts, LenProperties DEF Readers
<1>2. CASE start.status = "PartialRead"
  BY <1>2 DEF Sized, SizeOf
<1>3. CASE start.status = "WaitingForHeader" /\ IsNotification(m)
  <2>1. sized = [start EXCEPT !.size = NotificationSize, !.status = "PartialRead"]
    BY <1>3 DEF Sized
  <2>2. /\ sized \in Readers /\ sized.bytes = start.bytes
        /\ sized.status = "PartialRead" /\ sized.size = NotificationSize
    BY <1>1, <2>1 DEF Readers
  <2> QED
    BY <1>3, <2>2 DEF SizeOf
<1>4. CASE start.status = "WaitingForHeader" /\ ~IsNotification(m) /\ q < HeaderSize
  BY <1>4 DEF Sized
<1>5. CASE start.status = "WaitingForHeader" /\ ~IsNotification(m) /\ ~(q < HeaderSize)
  <2>1. sized = [start EXCEPT !.size = m.length, !.status = "PartialRead"]
    BY <1>1, <1>5 DEF Sized
  <2>2. /\ sized \in Readers /\ sized.bytes = start.bytes
        /\ sized.status = "PartialRead" /\ sized.size = m.length
    BY <1>1, <2>1 DEF Readers
  <2>3. q <= m.length
    BY <1>1, <1>5, Constants
  <2> QED
    BY <1>5, <2>2, <2>3 DEF SizeOf
<1> QED
  BY <1>2, <1>3, <1>4, <1>5

\* What comes of it.
LEMMA OutcomeStep ==
  ASSUME NEW m \in Messages, NEW r, NEW units, NEW bufferSize,
         Resynchronized(protocol, r) = r,
         NEW sized \in Readers,
         sized = WithMore(r, units, m),
         Len(sized.bytes) <= m.length, units[1].msg = m,
         units[Len(units)] = Unit(m, Len(sized.bytes)),
         \/ sized.status = "WaitingForHeader" /\ Len(sized.bytes) < m.length
         \/ /\ sized.status = "PartialRead" /\ sized.size = SizeOf(m)
            /\ Len(sized.bytes) <= sized.size \/ Len(sized.bytes) < m.length,
         NEW received, received = ReceiveMessage(protocol, r, units, bufferSize)
  PROVE  \/ /\ received.result = "partial" /\ received.reader = sized
            /\ Len(sized.bytes) < m.length
            /\ sized.status = "PartialRead" => Len(sized.bytes) < sized.size
         \/ received.result = "error" /\ received.reader = Failed(sized)
         \/ /\ received.result = "message" /\ received.reader = NewReader
            /\ Len(sized.bytes) = m.length /\ received.bytes = sized.bytes
<1> DEFINE q == Len(sized.bytes)
           short == q < sized.size
           size == IF short THEN q ELSE sized.size
<1>1. received =
        CASE sized.status = "WaitingForHeader" ->
               [result |-> "partial", bytes |-> <<>>, reader |-> sized]
          [] sized.status = "StreamError" ->
               [result |-> "error", bytes |-> <<>>, reader |-> Failed(sized)]
          [] sized.status = "PartialRead" ->
               IF short /\ (protocol # "SCTP" \/ ~(q = m.length))
               THEN [result |-> "partial", bytes |-> <<>>, reader |-> sized]
               ELSE IF \/ short /\ ~IsNotification(m)
                       \/ size > bufferSize
                       \/ protocol = "SCTP" /\ ~(q = m.length)
               THEN [result |-> "error", bytes |-> <<>>, reader |-> Failed(sized)]
               ELSE [result |-> "message", bytes |-> SubSeq(sized.bytes, 1, size),
                     reader |-> NewReader]
  <2>1. units[Len(units)].last = (q = m.length)
    BY UnitFields
  <2> QED
    BY <2>1, Zenon DEF ReceiveMessage, IsNotification, WithMore
<1>2. /\ sized.size \in Nat /\ sized.bytes \in Seq(AllUnits) /\ q \in Nat
      /\ m.length \in Nat /\ q <= m.length
      /\ \/ sized.status = "WaitingForHeader" /\ q < m.length
         \/ /\ sized.status = "PartialRead" /\ sized.size = SizeOf(m)
            /\ q <= sized.size \/ q < m.length
  BY MessageFacts, LenProperties, Constants DEF Readers
<1> HIDE DEF short, size, q
<1>3. CASE sized.status = "WaitingForHeader"
  <2>1. received = [result |-> "partial", bytes |-> <<>>, reader |-> sized]
    BY <1>1, <1>3
  <2> QED
    BY <1>2, <1>3, <2>1 DEF q
<1>4. CASE sized.status = "PartialRead" /\ short /\ (protocol # "SCTP" \/ ~(q = m.length))
  <2>1. received = [result |-> "partial", bytes |-> <<>>, reader |-> sized]
    BY <1>1, <1>4
  <2>2. q < m.length
    BY <1>2, <1>4 DEF short, SizeOf, IsNotification
  <2> QED
    BY <1>4, <2>1, <2>2 DEF short, q
<1>5. CASE /\ sized.status = "PartialRead"
           /\ ~(short /\ (protocol # "SCTP" \/ ~(q = m.length)))
           /\ \/ short /\ ~IsNotification(m)
              \/ size > bufferSize
              \/ protocol = "SCTP" /\ ~(q = m.length)
  <2>1. received = [result |-> "error", bytes |-> <<>>, reader |-> Failed(sized)]
    BY <1>1, <1>5
  <2> QED
    BY <2>1
<1>6. CASE /\ sized.status = "PartialRead"
           /\ ~(short /\ (protocol # "SCTP" \/ ~(q = m.length)))
           /\ ~(short /\ ~IsNotification(m))
           /\ ~(size > bufferSize)
           /\ ~(protocol = "SCTP" /\ ~(q = m.length))
  <2>1. received = [result |-> "message", bytes |-> SubSeq(sized.bytes, 1, size),
                    reader |-> NewReader]
    BY <1>1, <1>6
  <2>2. q = m.length
    BY <1>2, <1>6 DEF short, SizeOf, IsNotification
  <2>3. size = q
    BY <1>2, <1>6, <2>2 DEF short, size
  <2>4. SubSeq(sized.bytes, 1, size) = sized.bytes
    BY <1>2, <2>3, SubSeqFull DEF q
  <2> QED
    BY <2>1, <2>2, <2>4 DEF q
<1> QED
  BY <1>2, <1>3, <1>4, <1>5, <1>6

\* A read of units of one message, none beyond its end, is right about the
\* message: it is complete when its last unit has come, and not before.
LEMMA ReceiveStep ==
  ASSUME NEW m \in Messages, NEW r \in Readers, Holds(r, m),
         NEW units \in Seq(AllUnits), units # <<>>,
         Len(r.bytes) + Len(units) <= m.length, Len(units) <= BytesToRead(r),
         \A i \in 1..Len(units) : units[i] = Unit(m, Len(r.bytes) + i),
         NEW bufferSize,
         NEW received, received = ReceiveMessage(protocol, r, units, bufferSize)
  PROVE  \/ /\ received.result = "partial"
            /\ received.reader \in Readers /\ Holds(received.reader, m)
            /\ Len(received.reader.bytes) = Len(r.bytes) + Len(units)
         \/ received.result = "error" /\ received.reader \in Readers
         \/ /\ received.result = "message" /\ received.reader = NewReader
            /\ Len(r.bytes) + Len(units) = m.length
            /\ received.bytes = Units(m)
<1> DEFINE p == Len(r.bytes)
           k == Len(units)
           q == p + k
           all == r.bytes \o units
           start == [r EXCEPT !.bytes = @ \o units]
           sized == Sized(start, IsNotification(m))
<1>1. /\ r.bytes \in Seq(AllUnits) /\ p \in Nat /\ m.length \in Nat
      /\ HeaderSize <= m.length /\ r.size \in Nat
      /\ r.status \in {"WaitingForHeader", "PartialRead"}
      /\ HeaderSize \in Nat
      /\ IsNotification(m) => HeaderSize < m.length
  BY LenProperties, MessageFacts, Constants DEF Readers, Holds
<1>2. k \in Nat \ {0}
  BY EmptySeq
<1>3. /\ all \in Seq(AllUnits) /\ Len(all) = q
      /\ \A i \in 1..q : all[i] = Unit(m, i)
  <2>1. \A i \in 1..Len(r.bytes) : r.bytes[i] = Unit(m, i)
    BY DEF Holds
  <2> QED
    BY <1>1, <2>1, ReadOn
<1>4. /\ start \in Readers /\ start.bytes = all
      /\ start.status = r.status /\ start.size = r.size
  BY <1>1, <1>3 DEF Readers
<1>5. q \in Nat \ {0} /\ 1 \in 1..q /\ 1 \in 1..k /\ k \in 1..k
  BY <1>1, <1>2
<1>6. start.bytes[1].msg = m
  <2>1. all[1] = Unit(m, 1)
    BY <1>3, <1>5, Zenon
  <2>2. start.bytes[1] = all[1]
    BY <1>4, Zenon
  <2> QED
    BY <2>1, <2>2, UnitFields
<1>7. units[1].msg = m /\ units[Len(units)] = Unit(m, q)
  <2>1. units[1] = Unit(m, p + 1) /\ units[k] = Unit(m, q)
    BY <1>5
  <2> QED
    BY <2>1, UnitFields
<1>8. \/ start.status = "WaitingForHeader" /\ q <= HeaderSize
      \/ /\ start.status = "PartialRead"
         /\ start.size = SizeOf(m)
         /\ q <= start.size
  <2>1. CASE r.status = "WaitingForHeader"
    BY <1>1, <1>2, <1>4, <2>1 DEF BytesToRead
  <2>2. CASE r.status = "PartialRead"
    <3>1. r.size = SizeOf(m)
      BY <2>2 DEF Holds
    <3> QED
      BY <1>1, <1>2, <1>4, <2>2, <3>1 DEF BytesToRead
  <2> QED
    BY <1>1, <2>1, <2>2
<1>9. Len(start.bytes) = q /\ start.bytes # <<>> /\ sized = Sized(start, IsNotification(m))
  BY <1>3, <1>4, <1>5, EmptySeq
<1> HIDE DEF start, q, all, sized
<1>10. \/ /\ sized = start /\ start.status = "WaitingForHeader"
          /\ q < HeaderSize /\ ~IsNotification(m)
       \/ /\ sized \in Readers /\ sized.bytes = start.bytes
          /\ sized.status = "PartialRead" /\ sized.size = SizeOf(m)
          /\ q <= sized.size \/ (IsNotification(m) /\ q <= HeaderSize)
  BY <1>4, <1>6, <1>8, <1>9, SizedStep
<1>11. sized \in Readers /\ sized.bytes = all /\ Len(sized.bytes) = q
  BY <1>4, <1>9, <1>10
<1>12. \/ sized.status = "WaitingForHeader" /\ q < m.length
       \/ /\ sized.status = "PartialRead" /\ sized.size = SizeOf(m)
          /\ q <= sized.size \/ q < m.length
  BY <1>1, <1>5, <1>10
<1>13. q <= m.length /\ sized = WithMore(r, units, m)
  BY <1>9 DEF q, start, WithMore
<1>14. Resynchronized(protocol, r) = r
  BY <1>1 DEF Resynchronized
<1>15. \/ /\ received.result = "partial" /\ received.reader = sized
          /\ q < m.length /\ (sized.status = "PartialRead" => q < sized.size)
       \/ received.result = "error" /\ received.reader = Failed(sized)
       \/ /\ received.result = "message" /\ received.reader = NewReader
          /\ q = m.length /\ received.bytes = sized.bytes
  <2>1. units[Len(units)] = Unit(m, Len(sized.bytes))
    BY <1>7, <1>11
  <2>2. /\ Len(sized.bytes) <= m.length
        /\ \/ sized.status = "WaitingForHeader" /\ Len(sized.bytes) < m.length
           \/ /\ sized.status = "PartialRead" /\ sized.size = SizeOf(m)
              /\ Len(sized.bytes) <= sized.size \/ Len(sized.bytes) < m.length
    BY <1>11, <1>12, <1>13
  <2> QED
    BY <1>7, <1>11, <1>13, <1>14, <2>1, <2>2, OutcomeStep
<1>16. ASSUME received.result = "partial", received.reader = sized,
              q < m.length, sized.status = "PartialRead" => q < sized.size
       PROVE  Holds(sized, m)
  BY <1>3, <1>9, <1>10, <1>11, <1>16 DEF Holds
<1>17. Failed(sized) \in Readers
  BY <1>11 DEF Failed, Readers
<1>18. ASSUME q = m.length PROVE all = Units(m)
  <2>1. /\ Units(m) \in Seq(AllUnits) /\ Len(Units(m)) = m.length
        /\ \A i \in 1..m.length : Units(m)[i] = Unit(m, i)
    BY UnitsOfMessage
  <2> QED
    BY <1>3, <1>18, <2>1, SeqEqual
<1> QED
  BY <1>11, <1>15, <1>16, <1>17, <1>18 DEF q

-----------------------------------------------------------------------------
(* What is on the way to a node.                                           *)

\* Of the messages s sent to it, a node has had d, and its reader has p units
\* of the next one: on the way are units of the messages after that, one after
\* the other.  The message d + j ends ends[j] units after the last one that the
\* node has had.
OnWay(ends, s, d, p, w) ==
  /\ ends \in [0..(Len(s) - d) -> Int] /\ ends[0] = 0
  /\ \A j \in 1..(Len(s) - d) : ends[j] = ends[j - 1] + s[d + j].length
  /\ \A j \in 0..(Len(s) - d) : ends[j] <= ends[Len(s) - d]
  /\ p + Len(w) <= ends[Len(s) - d]
  /\ \A j \in 1..(Len(s) - d) : \A i \in 1..s[d + j].length :
       ends[j - 1] + i - p \in 1..Len(w) =>
         w[ends[j - 1] + i - p] = Unit(s[d + j], i)

LEMMA PutOnWay ==
  ASSUME NEW s \in Seq(Messages), NEW d \in 0..Len(s), NEW p \in Nat,
         NEW w \in Seq(AllUnits), NEW ends, OnWay(ends, s, d, p, w),
         p + Len(w) = ends[Len(s) - d], NEW m \in Messages
  PROVE  \E new :
           /\ OnWay(new, Append(s, m), d, p, w \o Units(m))
           /\ p + Len(w \o Units(m)) = new[Len(Append(s, m)) - d]
<1> DEFINE k == Len(s) - d
           t == Append(s, m)
           v == w \o Units(m)
           new == [j \in 0..(k + 1) |-> IF j <= k THEN ends[j] ELSE ends[k] + m.length]
<1>1. /\ Len(s) \in Nat /\ d \in Nat /\ k \in Nat /\ Len(w) \in Nat
      /\ m.length \in Nat
  BY LenProperties, MessageFacts
<1>2. /\ Len(t) = Len(s) + 1
      /\ \A i \in 1..Len(s) : t[i] = s[i]
      /\ t[Len(s) + 1] = m
  BY AppendProperties
<1>3. /\ Len(Units(m)) = m.length /\ Units(m) \in Seq(AllUnits)
      /\ \A i \in 1..m.length : Units(m)[i] = Unit(m, i)
  BY UnitsOfMessage
<1> HIDE DEF k, t, new
<1>4. /\ Len(v) = Len(w) + m.length
      /\ \A i \in 1..(Len(w) + m.length) :
           v[i] = IF i <= Len(w) THEN w[i] ELSE Units(m)[i - Len(w)]
  <2>1. /\ Len(v) = Len(w) + Len(Units(m))
        /\ \A i \in 1..(Len(w) + Len(Units(m))) :
             v[i] = IF i <= Len(w) THEN w[i] ELSE Units(m)[i - Len(w)]
    <3>1. Units(m) \in Seq(AllUnits)
      BY <1>3
    <3> QED
      BY <3>1, ConcatProperties
  <2> HIDE DEF v
  <2> QED
    BY <1>3, <2>1
<1> HIDE DEF v
<1>5. /\ ends \in [0..k -> Int] /\ ends[0] = 0
      /\ \A j \in 1..k : ends[j] = ends[j - 1] + s[d + j].length
      /\ \A j \in 0..k : ends[j] <= ends[k]
      /\ \A j \in 1..k : \A i \in 1..s[d + j].length :
           ends[j - 1] + i - p \in 1..Len(w) =>
             w[ends[j - 1] + i - p] = Unit(s[d + j], i)
      /\ p + Len(w) = ends[k]
      /\ \A j \in 0..k : ends[j] \in Int
      /\ ends[k] \in Int
  <2>1. k \in 0..k
    BY <1>1
  <2> QED
    BY <2>1 DEF OnWay, k
<1>6. /\ new \in [0..(k + 1) -> Int] /\ new[k + 1] = ends[k] + m.length
      /\ \A j \in 0..k : new[j] = ends[j]
  BY <1>1, <1>5 DEF new
<1>7. Len(t) - d = k + 1
  BY <1>1, <1>2 DEF k
<1>8. \A j \in 1..k : t[d + j] = s[d + j] /\ s[d + j].length \in Nat
  <2>1. \A j \in 1..k : d + j \in 1..Len(s)
    BY <1>1 DEF k
  <2> QED
    BY <1>2, <2>1, MessageFacts
<1>9. t[d + (k + 1)] = m
  BY <1>1, <1>2 DEF k
<1>10. new[0] = 0 /\ \A j \in 1..(k + 1) : new[j] = new[j - 1] + t[d + j].length
  <2>1. ASSUME NEW j \in 1..(k + 1) PROVE new[j] = new[j - 1] + t[d + j].length
    <3>1. CASE j <= k
      <4>1. j \in 1..k /\ j \in 0..k /\ j - 1 \in 0..k
        BY <1>1, <3>1
      <4> QED
        BY <1>5, <1>6, <1>8, <4>1
    <3>2. CASE j = k + 1
      <4>1. j - 1 = k /\ k \in 0..k
        BY <1>1, <3>2
      <4> QED
        BY <1>6, <1>9, <3>2, <4>1
    <3> QED
      BY <1>1, <3>1, <3>2
  <2> QED
    BY <1>1, <1>5, <1>6, <2>1
<1>11. \A j \in 0..(k + 1) : new[j] <= new[k + 1]
  <2>1. ASSUME NEW j \in 0..k PROVE new[j] <= new[k + 1]
    <3>1. /\ ends[j] \in Int /\ ends[k] \in Int /\ ends[j] <= ends[k]
          /\ new[j] = ends[j]
      BY <1>1, <1>5, <1>6
    <3>2. new[k + 1] = ends[k] + m.length /\ m.length \in Nat
      BY <1>1, <1>6
    <3> QED
      BY <3>1, <3>2
  <2>2. new[k + 1] \in Int
    BY <1>1, <1>6
  <2>3. \A j \in 0..(k + 1) : j \in 0..k \/ j = k + 1
    BY <1>1
  <2> QED
    BY <2>1, <2>2, <2>3
<1>12. p + Len(v) = new[k + 1]
  <2>1. Len(v) = Len(w) + m.length /\ Len(w) \in Nat /\ m.length \in Nat
    BY <1>1, <1>4
  <2>2. p + Len(w) = ends[k] /\ new[k + 1] = ends[k] + m.length /\ ends[k] \in Int
    BY <1>5, <1>6
  <2> QED
    BY <2>1, <2>2
<1>13. ASSUME NEW j \in 1..(k + 1), NEW i \in 1..t[d + j].length,
              new[j - 1] + i - p \in 1..Len(v)
       PROVE  v[new[j - 1] + i - p] = Unit(t[d + j], i)
  <2>1. CASE j <= k
    <3>1. j \in 1..k /\ j - 1 \in 0..k /\ j \in 0..k /\ k \in 0..k
      BY <1>1, <2>1
    <3>2. /\ ends[j - 1] \in Int /\ ends[j] \in Int /\ ends[k] \in Int
          /\ new[j - 1] = ends[j - 1] /\ t[d + j] = s[d + j]
          /\ s[d + j].length \in Nat /\ ends[j] = ends[j - 1] + s[d + j].length
          /\ ends[j] <= ends[k]
      BY <1>5, <1>6, <1>8, <3>1
    <3>3. ends[j - 1] + i - p \in 1..Len(w)
      <4> DEFINE e == ends[j - 1]
      <4>1. e + i - p \in 1..Len(v)
        BY <1>13, <3>2
      <4>2. e + i <= p + Len(w)
        <5>1. e + i <= e + s[d + j].length /\ e + s[d + j].length <= ends[k]
          <6> DEFINE length == s[d + j].length
          <6>1. /\ e \in Int /\ i <= length /\ i \in Int /\ length \in Int
                /\ e + length <= ends[k]
            <7>1. length \in Nat /\ i \in 1..length
              BY <3>2
            <7>2. ends[j] = e + length
              BY <3>2
            <7> QED
              BY <3>2, <7>1, <7>2
          <6> HIDE DEF e, length
          <6>2. e + i <= e + length
            BY <6>1
          <6> QED
            BY <6>1, <6>2 DEF length
        <5>2. ends[k] = p + Len(w) /\ ends[k] \in Int /\ e + i \in Int
          BY <1>5, <3>2
        <5> QED
          BY <3>2, <5>1, <5>2
      <4>3. e \in Int /\ i \in Int /\ p \in Int
        BY <3>2
      <4> HIDE DEF e
      <4>4. e + i - p \in 1..Len(w)
        BY <1>1, <4>1, <4>2, <4>3
      <4> QED
        BY <4>4 DEF e
    <3>4. w[ends[j - 1] + i - p] = Unit(s[d + j], i)
      BY <1>5, <1>13, <3>1, <3>2, <3>3
    <3>5. \A x \in 1..Len(w) : v[x] = w[x]
      BY <1>1, <1>4, SMTT(20)
    <3> QED
      BY <3>2, <3>3, <3>4, <3>5
  <2>2. CASE j = k + 1
    <3>1. /\ new[j - 1] = ends[k] /\ t[d + j] = m /\ ends[k] \in Int
          /\ i \in 1..m.length
      BY <1>1, <1>5, <1>6, <1>9, <1>13, <2>2, SMTT(20)
    <3>2. new[j - 1] + i - p = Len(w) + i
      BY <1>1, <1>5, <3>1
    <3>3. v[Len(w) + i] = Units(m)[i]
      <4>1. /\ Len(w) + i \in 1..(Len(w) + m.length) /\ ~(Len(w) + i <= Len(w))
            /\ (Len(w) + i) - Len(w) = i
        <5> DEFINE a == Len(w)
                   l == m.length
        <5>1. a \in Nat /\ l \in Nat
          BY <1>1
        <5>2. i \in 1..l
          BY <3>1
        <5> HIDE DEF a, l
        <5>3. /\ a + i \in 1..(a + l) /\ ~(a + i <= a)
              /\ (a + i) - a = i
          BY <5>1, <5>2
        <5> QED
          BY <5>3 DEF a, l
      <4> QED
        BY <1>4, <4>1
    <3> QED
      BY <1>3, <3>1, <3>2, <3>3
  <2> QED
    BY <1>1, <2>1, <2>2
<1>14. OnWay(new, t, d, p, v)
  <2>1. p + Len(v) <= new[k + 1]
    BY <1>1, <1>4, <1>12
  <2> QED
    BY <1>6, <1>7, <1>10, <1>11, <1>13, <2>1 DEF OnWay
<1> QED
  BY <1>6, <1>7, <1>12, <1>14 DEF t, v

\* What comes next is of the message after those that the node has had.
LEMMA FirstOnWay ==
  ASSUME NEW s \in Seq(Messages), NEW d \in 0..Len(s), NEW p \in Nat,
         NEW w \in Seq(AllUnits), w # <<>>, NEW ends, OnWay(ends, s, d, p, w)
  PROVE  /\ d < Len(s) /\ s[d + 1] \in Messages /\ ends[1] = s[d + 1].length
         /\ \A x \in 1..Len(w) :
              p + x <= s[d + 1].length => w[x] = Unit(s[d + 1], p + x)
<1>1. Len(w) \in Nat \ {0} /\ Len(s) \in Nat /\ d \in Nat
  BY LenProperties, EmptySeq
<1>2. d < Len(s)
  <2>1. CASE d = Len(s)
    <3>1. Len(s) - d = 0 /\ ends[0] = 0 /\ p + Len(w) <= ends[Len(s) - d]
      BY <1>1, <2>1 DEF OnWay
    <3>2. p + Len(w) <= 0
      BY <3>1
    <3> QED
      BY <1>1, <3>2
  <2> QED
    BY <1>1, <2>1
<1>3. 1 \in 1..(Len(s) - d) /\ d + 1 \in 1..Len(s)
  BY <1>1, <1>2
<1>4. s[d + 1] \in Messages
  BY <1>3
<1>5. ends[0] = 0 /\ ends[1] = ends[0] + s[d + 1].length /\ s[d + 1].length \in Nat
  BY <1>3, <1>4, MessageFacts DEF OnWay
<1>6. ASSUME NEW x \in 1..Len(w), p + x <= s[d + 1].length
      PROVE  w[x] = Unit(s[d + 1], p + x)
  <2>1. /\ p + x \in 1..s[d + 1].length /\ 0 + (p + x) - p = x
        /\ 1 - 1 = 0
    BY <1>1, <1>5, <1>6
  <2>2. ends[1 - 1] + (p + x) - p \in 1..Len(w) =>
          w[ends[1 - 1] + (p + x) - p] = Unit(s[d + 1], p + x)
    BY <1>3, <2>1, Zenon DEF OnWay
  <2>3. ends[1 - 1] + (p + x) - p = x
    BY <1>5, <2>1
  <2> QED
    BY <2>2, <2>3
<1> QED
  BY <1>2, <1>4, <1>5, <1>6

\* A read takes units off.
LEMMA TakeOffWay ==
  ASSUME NEW s \in Seq(Messages), NEW d \in 0..Len(s), NEW p \in Nat,
         NEW w \in Seq(AllUnits), NEW ends, OnWay(ends, s, d, p, w),
         NEW n \in 0..Len(w)
  PROVE  /\ OnWay(ends, s, d, p + n, SubSeq(w, n + 1, Len(w)))
         /\ Len(SubSeq(w, n + 1, Len(w))) = Len(w) - n
         /\ SubSeq(w, n + 1, Len(w)) \in Seq(AllUnits)
<1> DEFINE v == SubSeq(w, n + 1, Len(w))
<1>1. Len(w) \in Nat /\ n \in Nat
  BY LenProperties
<1>2. /\ v \in Seq(AllUnits) /\ Len(v) = Len(w) - n
      /\ \A i \in 1..(Len(w) - n) : v[i] = w[i + n]
  <2>1. /\ v \in Seq(AllUnits)
        /\ Len(v) = IF n + 1 <= Len(w) THEN Len(w) - (n + 1) + 1 ELSE 0
        /\ \A i \in 1..(Len(w) - (n + 1) + 1) : v[i] = w[n + 1 + i - 1]
    <3>1. \A i \in (n + 1)..Len(w) : w[i] \in AllUnits
      <4>1. (n + 1)..Len(w) \subseteq 1..Len(w)
        BY <1>1
      <4> QED
        BY <4>1
    <3>2. n + 1 \in Int /\ Len(w) \in Int
      BY <1>1
    <3> QED
      BY <3>1, <3>2, SubSeqProperties
  <2> HIDE DEF v
  <2>2. Len(w) - (n + 1) + 1 = Len(w) - n
    BY <1>1
  <2>3. \A i \in 1..(Len(w) - n) : n + 1 + i - 1 = i + n
    BY <1>1
  <2>4. Len(v) = Len(w) - n
    BY <1>1, <2>1
  <2> QED
    BY <2>1, <2>2, <2>3, <2>4
<1> HIDE DEF v
<1>3. ASSUME NEW j \in 1..(Len(s) - d), NEW i \in 1..s[d + j].length,
             ends[j - 1] + i - (p + n) \in 1..Len(v)
      PROVE  v[ends[j - 1] + i - (p + n)] = Unit(s[d + j], i)
  <2>1. ends[j - 1] \in Int
    <3>1. j - 1 \in 0..(Len(s) - d)
      BY LenProperties
    <3> QED
      BY <3>1 DEF OnWay
  <2>2. s[d + j].length \in Nat
    <3>1. d + j \in 1..Len(s)
      BY LenProperties
    <3> QED
      BY <3>1, MessageFacts
  <2>3. /\ ends[j - 1] + i - p \in 1..Len(w)
        /\ (ends[j - 1] + i - (p + n)) + n = ends[j - 1] + i - p
    <3> DEFINE e == ends[j - 1]
    <3>1. e \in Int /\ i \in Int /\ e + i - (p + n) \in 1..(Len(w) - n)
      BY <1>2, <1>3, <2>1, <2>2
    <3> HIDE DEF e
    <3>2. e + i - p \in 1..Len(w) /\ (e + i - (p + n)) + n = e + i - p
      BY <1>1, <3>1
    <3> QED
      BY <3>2 DEF e
  <2>4. w[ends[j - 1] + i - p] = Unit(s[d + j], i)
    BY <2>3 DEF OnWay
  <2> QED
    BY <1>2, <1>3, <2>3, <2>4
<1>4. p + n + Len(v) <= ends[Len(s) - d]
  <2>1. p + n + Len(v) = p + Len(w)
    BY <1>1, <1>2
  <2> QED
    BY <2>1 DEF OnWay
<1> QED
  BY <1>2, <1>3, <1>4 DEF OnWay, v

\* The break of the connection leaves the beginning.
LEMMA CutOnWay ==
  ASSUME NEW s \in Seq(Messages), NEW d \in 0..Len(s), NEW p \in Nat,
         NEW w \in Seq(AllUnits), NEW ends, OnWay(ends, s, d, p, w),
         NEW n \in 0..Len(w)
  PROVE  /\ OnWay(ends, s, d, p, SubSeq(w, 1, n))
         /\ SubSeq(w, 1, n) \in Seq(AllUnits)
<1> DEFINE v == SubSeq(w, 1, n)
<1>1. Len(w) \in Nat /\ n \in Nat /\ Len(s) \in Nat
  BY LenProperties
<1>2. /\ v \in Seq(AllUnits) /\ Len(v) = n
      /\ \A i \in 1..n : v[i] = w[i]
  <2>1. /\ v \in Seq(AllUnits)
        /\ Len(v) = IF 1 <= n THEN n - 1 + 1 ELSE 0
        /\ \A i \in 1..(n - 1 + 1) : v[i] = w[1 + i - 1]
    <3>1. \A i \in 1..n : w[i] \in AllUnits
      BY <1>1
    <3> QED
      BY <1>1, <3>1, SubSeqProperties
  <2> HIDE DEF v
  <2> QED
    BY <1>1, <2>1
<1> HIDE DEF v
<1>3. ends[Len(s) - d] \in Int
  <2>1. Len(s) - d \in 0..(Len(s) - d)
    BY <1>1
  <2> QED
    BY <2>1 DEF OnWay
<1>4. p + Len(v) <= ends[Len(s) - d]
  <2>1. p + Len(w) <= ends[Len(s) - d]
    BY DEF OnWay
  <2> QED
    BY <1>1, <1>2, <1>3, <2>1
<1>5. 1..Len(v) \subseteq 1..Len(w)
  BY <1>1, <1>2
<1> QED
  BY <1>2, <1>4, <1>5 DEF OnWay, v

\* A message is complete.
LEMMA NextOnWay ==
  ASSUME NEW s \in Seq(Messages), NEW d \in 0..Len(s), d < Len(s),
         NEW w \in Seq(AllUnits), NEW ends,
         OnWay(ends, s, d, s[d + 1].length, w)
  PROVE  \E new :
           /\ OnWay(new, s, d + 1, 0, w)
           /\ new[Len(s) - (d + 1)] = ends[Len(s) - d] - s[d + 1].length
<1> DEFINE k == Len(s) - (d + 1)
           p == s[d + 1].length
           new == [j \in 0..k |-> ends[j + 1] - p]
<1>1. /\ Len(s) \in Nat /\ d \in Nat /\ k \in Nat /\ Len(s) - d = k + 1
      /\ Len(w) \in Nat /\ p \in Nat
  <2>1. d + 1 \in 1..Len(s)
    BY LenProperties
  <2> QED
    BY <2>1, LenProperties, MessageFacts
<1>2. /\ ends \in [0..(k + 1) -> Int] /\ ends[0] = 0
      /\ \A j \in 1..(k + 1) : ends[j] = ends[j - 1] + s[d + j].length
      /\ \A j \in 0..(k + 1) : ends[j] <= ends[k + 1]
      /\ p + Len(w) <= ends[k + 1]
      /\ \A j \in 1..(k + 1) : \A i \in 1..s[d + j].length :
           ends[j - 1] + i - p \in 1..Len(w) =>
             w[ends[j - 1] + i - p] = Unit(s[d + j], i)
  BY <1>1 DEF OnWay
<1> HIDE DEF k
<1>3. /\ new \in [0..k -> Int]
      /\ \A j \in 0..k : new[j] = ends[j + 1] - p /\ ends[j + 1] \in Int
  <2>1. \A j \in 0..k : j + 1 \in 0..(k + 1)
    BY <1>1
  <2>2. \A j \in 0..k : ends[j + 1] \in Int /\ ends[j + 1] - p \in Int
    BY <1>1, <1>2, <2>1, SMTT(20)
  <2> QED
    BY <2>2
<1> HIDE DEF new
<1>4. new[0] = 0
  <2>1. 0 \in 0..k /\ 1 \in 1..(k + 1)
    BY <1>1
  <2>2. ends[1] = ends[0] + s[d + 1].length
    BY <1>2, <2>1
  <2> QED
    BY <1>1, <1>2, <1>3, <2>1, <2>2
<1>5. /\ k \in 0..k /\ new[k] = ends[k + 1] - p /\ ends[k + 1] \in Int
  BY <1>1, <1>3
<1>6. ASSUME NEW j \in 1..k
      PROVE  /\ new[j] = new[j - 1] + s[d + 1 + j].length
             /\ new[j - 1] = ends[j] - p /\ ends[j] \in Int
  <2>1. /\ j - 1 \in 0..k /\ j \in 0..k /\ j + 1 \in 1..(k + 1)
        /\ j - 1 + 1 = j /\ j + 1 - 1 = j /\ d + (j + 1) = d + 1 + j
    BY <1>1
  <2>2. d + 1 + j \in 1..Len(s)
    BY <1>1 DEF k
  <2>3. s[d + 1 + j].length \in Nat
    BY <2>2, MessageFacts
  <2>4. new[j - 1] = ends[j] - p /\ ends[j] \in Int
    BY <1>3, <2>1
  <2>5. ends[j + 1] = ends[j] + s[d + 1 + j].length
    BY <1>2, <2>1
  <2>6. new[j] = ends[j + 1] - p
    BY <1>3, <2>1
  <2> DEFINE length == s[d + 1 + j].length
             end == ends[j]
  <2>7. /\ length \in Int /\ end \in Int /\ p \in Int
        /\ new[j] = end + length - p /\ new[j - 1] = end - p
    <3>1. length \in Int /\ end \in Int /\ p \in Int /\ new[j - 1] = end - p
      <4>1. length \in Int
        BY <2>3
      <4>2. end \in Int /\ new[j - 1] = end - p
        BY <2>4
      <4>3. p \in Int
        BY <1>1
      <4> QED
        BY <4>1, <4>2, <4>3
    <3>2. ends[j + 1] = end + length
      BY <2>5
    <3> HIDE DEF length, end
    <3> QED
      BY <2>6, <3>1, <3>2
  <2> HIDE DEF length, end
  <2>8. new[j] = new[j - 1] + length
    BY <2>7
  <2> QED
    BY <2>4, <2>8 DEF length
<1>7. \A j \in 0..k : new[j] <= new[k]
  <2>1. ASSUME NEW j \in 0..k PROVE new[j] <= new[k]
    <3>1. j + 1 \in 0..(k + 1)
      BY <1>1
    <3>2. ends[j + 1] <= ends[k + 1] /\ ends[j + 1] \in Int /\ new[j] = ends[j + 1] - p
      BY <1>2, <1>3, <3>1
    <3> QED
      BY <1>1, <1>5, <3>2
  <2> QED
    BY <2>1
<1>8. 0 + Len(w) <= new[k]
  BY <1>1, <1>2, <1>5
<1>9. ASSUME NEW j \in 1..k, NEW i \in 1..s[d + 1 + j].length,
             new[j - 1] + i - 0 \in 1..Len(w)
      PROVE  w[new[j - 1] + i - 0] = Unit(s[d + 1 + j], i)
  <2>1. /\ j + 1 \in 1..(k + 1) /\ j + 1 - 1 = j /\ d + (j + 1) = d + 1 + j
    BY <1>1
  <2>2. d + 1 + j \in 1..Len(s)
    BY <1>1, SMTT(20) DEF k
  <2>3. s[d + 1 + j].length \in Nat
    BY <2>2, MessageFacts
  <2>4. new[j - 1] + i - 0 = ends[j] + i - p
    <3>1. i \in Int /\ p \in Int
      BY <1>1, <2>3
    <3> QED
      BY <1>6, <3>1
  <2>5. ends[j] + i - p \in 1..Len(w) => w[ends[j] + i - p] = Unit(s[d + 1 + j], i)
    <3> DEFINE h == j + 1
    <3>1. h \in 1..(k + 1) /\ h - 1 = j /\ d + h = d + 1 + j
      BY <2>1
    <3> HIDE DEF h
    <3>2. i \in 1..s[d + h].length
      BY <3>1
    <3> QED
      BY <1>2, <3>1, <3>2
  <2> QED
    BY <1>9, <2>4, <2>5
<1>10. OnWay(new, s, d + 1, 0, w)
  BY <1>3, <1>4, <1>6, <1>7, <1>8, <1>9 DEF OnWay, k
<1> QED
  BY <1>1, <1>3, <1>5, <1>10 DEF k

-----------------------------------------------------------------------------
(* One read.                                                               *)

\* What a reader that is used has got of the message that comes next.
Reads(r, s, d) ==
  IF r.bytes = <<>> THEN r.status = "WaitingForHeader"
  ELSE d < Len(s) /\ Holds(r, s[d + 1])

\* The read gets units of one message.
LEMMA ReadableUnits ==
  ASSUME NEW m \in Messages, NEW r \in Readers, Holds(r, m),
         NEW w \in Seq(AllUnits),
         \A x \in 1..Len(w) :
           Len(r.bytes) + x <= m.length => w[x] = Unit(m, Len(r.bytes) + x),
         NEW k \in Readable(protocol, r, w)
  PROVE  /\ k \in 1..Len(w) /\ k <= BytesToRead(r)
         /\ Len(r.bytes) + k <= m.length
         /\ SubSeq(w, 1, k) \in Seq(AllUnits) /\ Len(SubSeq(w, 1, k)) = k
         /\ SubSeq(w, 1, k) # <<>>
         /\ \A i \in 1..k : SubSeq(w, 1, k)[i] = Unit(m, Len(r.bytes) + i)
<1> DEFINE p == Len(r.bytes)
           units == SubSeq(w, 1, k)
<1>1. /\ p \in Nat /\ m.length \in Nat /\ HeaderSize <= m.length
      /\ p < m.length /\ Len(w) \in Nat /\ r.size \in Nat /\ HeaderSize \in Nat
      /\ r.status \in {"WaitingForHeader", "PartialRead"}
  BY LenProperties, MessageFacts, Constants DEF Readers, Holds
<1>2. Resynchronized(protocol, r) = r
  BY <1>1 DEF Resynchronized
<1>3. /\ k \in 1..BytesToRead(r) /\ k <= Len(w)
      /\ protocol = "SCTP" => \A i \in 1..(k - 1) : ~w[i].last
  BY <1>2 DEF Readable
<1>4. BytesToRead(r) \in Int
  BY <1>1 DEF BytesToRead
<1>5. k \in Nat /\ 1 <= k /\ k <= BytesToRead(r) /\ k \in 1..Len(w)
  BY <1>1, <1>3, <1>4
<1>6. p + k <= m.length
  <2>1. CASE r.status = "WaitingForHeader"
    BY <1>1, <1>5, <2>1 DEF BytesToRead
  <2>2. CASE r.status = "PartialRead" /\ ~IsNotification(m)
    <3>1. r.size = m.length
      BY <2>2 DEF Holds, SizeOf
    <3> QED
      BY <1>1, <1>5, <2>2, <3>1 DEF BytesToRead
  <2>3. CASE IsNotification(m)
    <3> SUFFICES ASSUME ~(p + k <= m.length) PROVE FALSE
      OBVIOUS
    <3> DEFINE x == m.length - p
    <3>1. /\ x \in 1..(k - 1) /\ x \in 1..Len(w) /\ p + x = m.length
          /\ p + x <= m.length
      BY <1>1, <1>5
    <3> HIDE DEF x
    <3>2. w[x] = Unit(m, p + x)
      BY <3>1
    <3>3. w[x].last
      <4>1. w[x] = Unit(m, m.length)
        BY <3>1, <3>2
      <4>2. Unit(m, m.length).last
        BY DEF Unit
      <4> QED
        BY <4>1, <4>2
    <3> QED
      BY <1>3, <2>3, <3>1, <3>3 DEF IsNotification
  <2> QED
    BY <1>1, <2>1, <2>2, <2>3
<1>7. /\ units \in Seq(AllUnits) /\ Len(units) = k
      /\ \A i \in 1..k : units[i] = w[i]
  <2>1. /\ units \in Seq(AllUnits)
        /\ Len(units) = IF 1 <= k THEN k - 1 + 1 ELSE 0
        /\ \A i \in 1..(k - 1 + 1) : units[i] = w[1 + i - 1]
    <3>1. \A i \in 1..k : w[i] \in AllUnits
      BY <1>1, <1>5
    <3>2. k \in Int
      BY <1>5
    <3> QED
      BY <3>1, <3>2, SubSeqProperties
  <2> HIDE DEF units
  <2> QED
    BY <1>5, <2>1
<1> HIDE DEF units
<1>8. units # <<>>
  BY <1>5, <1>7, EmptySeq
<1>9. \A i \in 1..k : units[i] = Unit(m, p + i)
  <2>1. ASSUME NEW i \in 1..k PROVE i \in 1..Len(w) /\ p + i <= m.length
    BY <1>1, <1>5, <1>6
  <2> QED
    BY <1>7, <2>1
<1> QED
  BY <1>5, <1>6, <1>7, <1>8, <1>9 DEF units

\* The message is told from its units.
LEMMA MessageOfUnits ==
  ASSUME NEW m \in Messages
  PROVE  Message(Units(m)) = m
<1>1. 1 \in 1..m.length
  BY MessageFacts, Constants
<1>2. Units(m)[1].msg = m
  BY <1>1, UnitsOfMessage, UnitFields
<1> QED
  BY <1>2 DEF Message

\* The reader goes on, or it has an error, or it returns the next message,
\* whole.
Outcome(r, s, d, w, ends, received, rest) ==
  /\ d < Len(s) /\ received.reader \in Readers /\ rest \in Seq(AllUnits)
  /\ \/ /\ received.result = "partial"
        /\ Reads(received.reader, s, d)
        /\ OnWay(ends, s, d, Len(received.reader.bytes), rest)
        /\ Len(received.reader.bytes) + Len(rest) = Len(r.bytes) + Len(w)
     \/ received.result = "error"
     \/ /\ received.result = "message" /\ received.reader = NewReader
        /\ Message(received.bytes) = s[d + 1]
        /\ \E new :
             /\ OnWay(new, s, d + 1, 0, rest)
             /\ Len(r.bytes) + Len(w) = ends[Len(s) - d] =>
                  0 + Len(rest) = new[Len(s) - (d + 1)]

LEMMA ReadOnWay ==
  ASSUME NEW s \in Seq(Messages), NEW d \in 0..Len(s), NEW r \in Readers,
         Reads(r, s, d), NEW w \in Seq(AllUnits),
         NEW ends, OnWay(ends, s, d, Len(r.bytes), w),
         NEW k \in Readable(protocol, r, w), NEW bufferSize,
         NEW received,
         received = ReceiveMessage(protocol, r, SubSeq(w, 1, k), bufferSize),
         NEW rest, rest = SubSeq(w, k + 1, Len(w))
  PROVE  Outcome(r, s, d, w, ends, received, rest)
<1> DEFINE p == Len(r.bytes)
           m == s[d + 1]
           units == SubSeq(w, 1, k)
<1>1. /\ p \in Nat /\ Len(w) \in Nat /\ Len(s) \in Nat /\ d \in Nat
  BY LenProperties DEF Readers
<1>2. w # <<>>
  <2>1. k \in 1..BytesToRead(Resynchronized(protocol, r)) /\ k <= Len(w)
    BY DEF Readable
  <2>2. 1 <= k /\ k \in Int
    BY <2>1
  <2>3. Len(w) # 0
    BY <1>1, <2>1, <2>2
  <2> QED
    BY <2>3, EmptySeq
<1>3. /\ d < Len(s) /\ m \in Messages
      /\ \A x \in 1..Len(w) : p + x <= m.length => w[x] = Unit(m, p + x)
  BY <1>1, <1>2, FirstOnWay
<1> HIDE DEF m
<1>4. Holds(r, m)
  <2>1. CASE r.bytes = <<>>
    <3>1. r.status = "WaitingForHeader" /\ Len(r.bytes) = 0
      BY <2>1, EmptySeq DEF Reads
    <3>2. 0 < HeaderSize /\ 0 < m.length
      BY <1>3, MessageFacts, Constants
    <3> QED
      BY <3>1, <3>2 DEF Holds
  <2>2. CASE r.bytes # <<>>
    BY <2>2 DEF Reads, m
  <2> QED
    BY <2>1, <2>2
<1>5. /\ k \in 1..Len(w) /\ k <= BytesToRead(r) /\ p + k <= m.length
      /\ units \in Seq(AllUnits) /\ Len(units) = k /\ units # <<>>
      /\ \A i \in 1..k : units[i] = Unit(m, p + i)
  BY <1>3, <1>4, ReadableUnits, SMTT(20)
<1>6. \/ /\ received.result = "partial"
         /\ received.reader \in Readers /\ Holds(received.reader, m)
         /\ Len(received.reader.bytes) = p + k
      \/ received.result = "error" /\ received.reader \in Readers
      \/ /\ received.result = "message" /\ received.reader = NewReader
         /\ p + k = m.length /\ received.bytes = Units(m)
  <2>1. received = ReceiveMessage(protocol, r, units, bufferSize)
    OBVIOUS
  <2>2. /\ Len(r.bytes) + Len(units) <= m.length
        /\ Len(units) <= BytesToRead(r) /\ Len(units) = k
        /\ \A i \in 1..Len(units) : units[i] = Unit(m, Len(r.bytes) + i)
    BY <1>5
  <2> HIDE DEF units
  <2>3. \/ /\ received.result = "partial"
           /\ received.reader \in Readers /\ Holds(received.reader, m)
           /\ Len(received.reader.bytes) = Len(r.bytes) + Len(units)
        \/ received.result = "error" /\ received.reader \in Readers
        \/ /\ received.result = "message" /\ received.reader = NewReader
           /\ Len(r.bytes) + Len(units) = m.length
           /\ received.bytes = Units(m)
    <3>1. units \in Seq(AllUnits) /\ units # <<>>
      BY <1>5
    <3> QED
      BY <1>3, <1>4, <2>1, <2>2, <3>1, ReceiveStep, ZenonT(30)
  <2> QED
    BY <2>2, <2>3
<1>7. NewReader \in Readers
  BY EmptySeq, Constants DEF NewReader, Readers
<1>8. k \in 0..Len(w) /\ k \in Nat
  BY <1>1, <1>5
<1>9. /\ OnWay(ends, s, d, p + k, rest) /\ Len(rest) = Len(w) - k
      /\ rest \in Seq(AllUnits)
  BY <1>1, <1>8, TakeOffWay
<1>10. CASE received.result = "partial"
  <2>1. /\ received.reader \in Readers /\ Holds(received.reader, m)
        /\ Len(received.reader.bytes) = p + k
    BY <1>6, <1>10
  <2>2. received.reader.bytes # <<>>
    <3>1. p + k # 0
      BY <1>1, <1>5
    <3> QED
      BY <2>1, <3>1, EmptySeq
  <2>3. Reads(received.reader, s, d)
    BY <1>3, <2>1, <2>2 DEF Reads, m
  <2>4. Len(received.reader.bytes) + Len(rest) = p + Len(w)
    <3> HIDE DEF p
    <3>1. (p + k) + (Len(w) - k) = p + Len(w)
      BY <1>1, <1>8
    <3> QED
      BY <1>9, <2>1, <3>1
  <2> QED
    BY <1>3, <1>9, <1>10, <2>1, <2>3, <2>4 DEF Outcome
<1>11. CASE received.result = "message"
  <2>1. /\ received.reader = NewReader
        /\ p + k = m.length /\ received.bytes = Units(m)
    BY <1>6, <1>11
  <2>2. Message(received.bytes) = m
    BY <1>3, <2>1, MessageOfUnits
  <2>3. PICK new :
          /\ OnWay(new, s, d + 1, 0, rest)
          /\ new[Len(s) - (d + 1)] = ends[Len(s) - d] - (p + k)
    <3>1. p + k = s[d + 1].length
      BY <2>1 DEF m
    <3>2. OnWay(ends, s, d, s[d + 1].length, rest)
      BY <1>9, <3>1
    <3>3. \E new :
            /\ OnWay(new, s, d + 1, 0, rest)
            /\ new[Len(s) - (d + 1)] = ends[Len(s) - d] - s[d + 1].length
      BY <1>3, <1>9, <3>2, NextOnWay
    <3> QED
      BY <3>1, <3>3
  <2>4. ASSUME p + Len(w) = ends[Len(s) - d]
        PROVE  0 + Len(rest) = new[Len(s) - (d + 1)]
    <3> HIDE DEF p
    <3>1. (p + Len(w)) - (p + k) = Len(w) - k /\ 0 + (Len(w) - k) = Len(w) - k
      BY <1>1, <1>8
    <3> QED
      BY <1>9, <2>3, <2>4, <3>1
  <2> QED
    BY <1>3, <1>7, <1>9, <1>11, <2>1, <2>2, <2>3, <2>4 DEF m, Outcome
<1>12. CASE received.result = "error"
  BY <1>3, <1>6, <1>9, <1>12 DEF Outcome
<1> QED
  BY <1>6, <1>10, <1>11, <1>12

-----------------------------------------------------------------------------
(* The streams to both nodes.                                              *)

Files == [format : Formats, open : BOOLEAN, packing : BOOLEAN,
          rows : Seq(Nat), failed : BOOLEAN, writeError : BOOLEAN]

PassiveAt == {"control", "Stop", "returned", "gone"} \cup FileNames
ActiveAt == {"measuring", "acknowledge", "done", "failed"} \cup FileNames

InvTypes ==
  /\ protocol \in {"TCP", "SCTP"} /\ closed \in BOOLEAN
  /\ files \in [FileNames -> Files] /\ written \in [FileNames -> Nat]
  /\ position \in Nat /\ got \in [FileNames -> Seq(Nat)]
  /\ pc \in [Nodes -> PassiveAt \cup ActiveAt]
  /\ pc.passive \in PassiveAt /\ pc.active \in ActiveAt
  /\ reader \in [Nodes -> Readers] /\ wire \in [Nodes -> Seq(AllUnits)]
  /\ sent \in [Nodes -> Seq(Messages)] /\ delivered \in [Nodes -> Seq(Messages)]

\* Node n may still read.
Live(n) ==
  IF n = "passive" THEN pc.passive = "control"
  ELSE pc.active \in {"measuring", "acknowledge"} \cup FileNames

\* Nothing is missing between what node n has had and what is on the way to
\* it; while the connection is open, nothing is missing at the end either.
Stream(n) ==
  /\ Len(delivered[n]) <= Len(sent[n])
  /\ Reads(reader[n], sent[n], Len(delivered[n]))
  /\ \E ends :
       /\ OnWay(ends, sent[n], Len(delivered[n]), Len(reader[n].bytes), wire[n])
       /\ ~closed => Len(reader[n].bytes) + Len(wire[n]) =
                       ends[Len(sent[n]) - Len(delivered[n])]

InvStream == \A n \in Nodes : Live(n) => Stream(n)

\* Each node has had the messages sent to it, in their order.
InvPrefix ==
  \A n \in Nodes : /\ Len(delivered[n]) <= Len(sent[n])
                   /\ \A i \in 1..Len(delivered[n]) : delivered[n][i] = sent[n][i]

SInv == InvTypes /\ InvStream /\ InvPrefix

LEMMA StreamAfter ==
  ASSUME protocol' = protocol, NEW n \in Nodes,
         Len(delivered'[n]) <= Len(sent'[n]),
         Reads(reader'[n], sent'[n], Len(delivered'[n])),
         NEW ends,
         OnWay(ends, sent'[n], Len(delivered'[n]), Len(reader'[n].bytes), wire'[n]),
         ~closed' => Len(reader'[n].bytes) + Len(wire'[n]) =
                       ends[Len(sent'[n]) - Len(delivered'[n])]
  PROVE  Stream(n)'
<1>1. Reads(reader[n], sent[n], Len(delivered[n]))'
  BY DEF Reads, Holds, IsNotification, SizeOf
<1> QED
  BY <1>1 DEF Stream

\* What does not touch the stream leaves it; the connection may be closed.
LEMMA SameStream ==
  ASSUME protocol' = protocol, NEW n \in Nodes, Stream(n),
         reader'[n] = reader[n], wire'[n] = wire[n], sent'[n] = sent[n],
         delivered'[n] = delivered[n], closed => closed'
  PROVE  Stream(n)'
<1>1. PICK ends :
        /\ OnWay(ends, sent[n], Len(delivered[n]), Len(reader[n].bytes), wire[n])
        /\ ~closed => Len(reader[n].bytes) + Len(wire[n]) =
                        ends[Len(sent[n]) - Len(delivered[n])]
  BY DEF Stream
<1>2. /\ Len(delivered[n]) <= Len(sent[n])
      /\ Reads(reader[n], sent[n], Len(delivered[n]))
  BY DEF Stream
<1>3. Reads(reader'[n], sent'[n], Len(delivered'[n]))
  BY <1>2
<1>4. OnWay(ends, sent'[n], Len(delivered'[n]), Len(reader'[n].bytes), wire'[n])
  BY <1>1
<1>5. ~closed' => Len(reader'[n].bytes) + Len(wire'[n]) =
                    ends[Len(sent'[n]) - Len(delivered'[n])]
  BY <1>1
<1>6. Len(delivered'[n]) <= Len(sent'[n])
  BY <1>2
<1> QED
  BY <1>3, <1>4, <1>5, <1>6, StreamAfter

\* A message that is sent goes behind the others.
LEMMA PutStream ==
  ASSUME InvTypes, protocol' = protocol, NEW n \in Nodes, Stream(n),
         NEW m \in Messages, Put(n, m), ~closed,
         reader'[n] = reader[n], delivered'[n] = delivered[n]
  PROVE  Stream(n)'
<1> DEFINE s == sent[n]
           w == wire[n]
           d == Len(delivered[n])
           p == Len(reader[n].bytes)
<1>1. PICK ends : OnWay(ends, s, d, p, w) /\ p + Len(w) = ends[Len(s) - d]
  BY DEF Stream
<1>2. d <= Len(s) /\ Reads(reader[n], s, d)
  BY DEF Stream
<1>3. /\ s \in Seq(Messages) /\ w \in Seq(AllUnits) /\ p \in Nat /\ d \in Nat
      /\ Len(s) \in Nat /\ d \in 0..Len(s)
  BY <1>2, LenProperties DEF InvTypes, Readers
<1>4. wire'[n] = w \o Units(m) /\ sent'[n] = Append(s, m)
  BY DEF Put, InvTypes
<1>5. PICK new : /\ OnWay(new, Append(s, m), d, p, w \o Units(m))
                 /\ p + Len(w \o Units(m)) = new[Len(Append(s, m)) - d]
  <2> HIDE DEF s, w, d, p
  <2> QED
    BY <1>1, <1>3, PutOnWay
<1>6. /\ Len(Append(s, m)) = Len(s) + 1
      /\ \A i \in 1..Len(s) : Append(s, m)[i] = s[i]
  BY <1>3, AppendProperties
<1>7. Len(delivered'[n]) <= Len(sent'[n])
  BY <1>2, <1>3, <1>4, <1>6
<1>8. Reads(reader[n], Append(s, m), d)
  <2>1. CASE reader[n].bytes = <<>>
    BY <1>2, <2>1 DEF Reads
  <2>2. CASE reader[n].bytes # <<>>
    <3>1. d < Len(s) /\ Holds(reader[n], s[d + 1])
      BY <1>2, <2>2 DEF Reads
    <3>2. d + 1 \in 1..Len(s) /\ d < Len(s) + 1
      BY <1>3, <3>1
    <3>3. Append(s, m)[d + 1] = s[d + 1]
      BY <1>6, <3>2
    <3> QED
      BY <1>6, <2>2, <3>1, <3>2, <3>3 DEF Reads
  <2> QED
    BY <2>1, <2>2
<1> QED
  BY <1>4, <1>5, <1>7, <1>8, StreamAfter

\* A read gives node n nothing yet, or an error, or the next message.
NextIsRead(n, received) ==
  /\ reader' \in [Nodes -> Readers] /\ wire' \in [Nodes -> Seq(AllUnits)]
  /\ \A o \in Nodes \ {n} : /\ reader'[o] = reader[o] /\ wire'[o] = wire[o]
                            /\ delivered'[o] = delivered[o]
  /\ Len(delivered[n]) < Len(sent[n])
  /\ sent[n][Len(delivered[n]) + 1] \in Messages
  /\ \/ received.result = "partial" /\ delivered' = delivered /\ Stream(n)'
     \/ received.result = "error" /\ delivered' = delivered
     \/ /\ received.result = "message"
        /\ Message(received.bytes) = sent[n][Len(delivered[n]) + 1]
        /\ delivered' = [delivered EXCEPT ![n] =
                           Append(@, sent[n][Len(delivered[n]) + 1])]
        /\ Stream(n)'

LEMMA ReadStream ==
  ASSUME InvTypes, NEW n \in Nodes, Stream(n),
         NEW k \in Readable(protocol, reader[n], wire[n]), NEW bufferSize,
         NEW received, received = Receive(n, k, bufferSize),
         Received(n, k, received), closed => closed'
  PROVE  NextIsRead(n, received)
<1> DEFINE s == sent[n]
           w == wire[n]
           r == reader[n]
           d == Len(delivered[n])
           rest == SubSeq(w, k + 1, Len(w))
<1>1. PICK ends :
        /\ OnWay(ends, s, d, Len(r.bytes), w)
        /\ ~closed => Len(r.bytes) + Len(w) = ends[Len(s) - d]
  BY DEF Stream
<1>2. d <= Len(s) /\ Reads(r, s, d)
  BY DEF Stream
<1>3. /\ s \in Seq(Messages) /\ w \in Seq(AllUnits) /\ r \in Readers
      /\ d \in Nat /\ Len(s) \in Nat /\ d \in 0..Len(s)
      /\ delivered[n] \in Seq(Messages)
  BY <1>2, LenProperties DEF InvTypes
<1>4. /\ reader'[n] = received.reader /\ wire'[n] = rest
      /\ \A o \in Nodes \ {n} : /\ reader'[o] = reader[o] /\ wire'[o] = wire[o]
                                /\ delivered'[o] = delivered[o]
      /\ received.result # "message" => delivered' = delivered
      /\ received.result = "message" =>
           delivered' = [delivered EXCEPT ![n] = Append(@, Message(received.bytes))]
      /\ protocol' = protocol /\ sent' = sent
  BY DEF Received, InvTypes
<1>5. received = ReceiveMessage(protocol, r, SubSeq(w, 1, k), bufferSize)
  BY DEF Receive
<1> HIDE DEF s, w, r, d, rest
<1>6. k \in Readable(protocol, r, w)
  BY DEF r, w
<1>7. Outcome(r, s, d, w, ends, received, rest)
  <2>1. rest = SubSeq(w, k + 1, Len(w))
    BY DEF rest
  <2>2. OnWay(ends, s, d, Len(r.bytes), w)
    BY <1>1
  <2> HIDE DEF rest
  <2> QED
    BY <1>2, <1>3, <1>5, <1>6, <2>1, <2>2, ReadOnWay
<1>8. s[d + 1] \in Messages
  <2>1. d + 1 \in 1..Len(s)
    BY <1>3, <1>7 DEF Outcome
  <2> QED
    BY <1>3, <2>1, ElementOfSeq
<1>9. /\ reader' \in [Nodes -> Readers] /\ wire' \in [Nodes -> Seq(AllUnits)]
  <2>1. /\ reader' = [reader EXCEPT ![n] = received.reader]
        /\ wire' = [wire EXCEPT ![n] = rest]
    BY DEF Received, rest, w
  <2> QED
    BY <1>7, <2>1 DEF InvTypes, Outcome
<1>10. CASE received.result = "partial"
  <2>1. /\ Reads(received.reader, s, d)
        /\ OnWay(ends, s, d, Len(received.reader.bytes), rest)
        /\ Len(received.reader.bytes) + Len(rest) = Len(r.bytes) + Len(w)
    BY <1>7, <1>10 DEF Outcome
  <2>2. delivered'[n] = delivered[n] /\ delivered' = delivered
    BY <1>4, <1>10
  <2>3. ~closed' => Len(received.reader.bytes) + Len(rest) = ends[Len(s) - d]
    BY <1>1, <2>1
  <2>4. /\ Len(delivered'[n]) <= Len(sent'[n])
        /\ Reads(reader'[n], sent'[n], Len(delivered'[n]))
        /\ OnWay(ends, sent'[n], Len(delivered'[n]), Len(reader'[n].bytes), wire'[n])
        /\ ~closed' => Len(reader'[n].bytes) + Len(wire'[n]) =
                         ends[Len(sent'[n]) - Len(delivered'[n])]
    BY <1>2, <1>4, <2>1, <2>2, <2>3 DEF s, d, Outcome, NextIsRead
  <2>5. Stream(n)'
    BY <1>4, <2>4, StreamAfter
  <2> QED
    BY <1>4, <1>7, <1>8, <1>9, <1>10, <2>2, <2>5 DEF s, d, Outcome, NextIsRead
<1>11. CASE received.result = "message"
  <2>1. received.reader = NewReader /\ Message(received.bytes) = s[d + 1]
    BY <1>7, <1>11 DEF Outcome
  <2>2. PICK new :
          /\ OnWay(new, s, d + 1, 0, rest)
          /\ Len(r.bytes) + Len(w) = ends[Len(s) - d] =>
               0 + Len(rest) = new[Len(s) - (d + 1)]
    BY <1>7, <1>11 DEF Outcome
  <2>3. delivered' = [delivered EXCEPT ![n] = Append(@, s[d + 1])]
    BY <1>4, <1>11, <2>1
  <2>4. delivered'[n] = Append(delivered[n], s[d + 1])
    BY <2>3 DEF InvTypes
  <2>5. Len(delivered'[n]) = d + 1
    BY <1>3, <1>8, <2>4, AppendProperties DEF d
  <2>6. Len(reader'[n].bytes) = 0 /\ Reads(reader'[n], s, d + 1)
    BY <1>4, <2>1, EmptySeq DEF NewReader, Reads
  <2>7. ~closed' => 0 + Len(rest) = new[Len(s) - (d + 1)]
    BY <1>1, <2>2
  <2>8. d + 1 <= Len(s)
    BY <1>3, <1>7 DEF Outcome
  <2>9. /\ Len(delivered'[n]) <= Len(sent'[n])
        /\ Reads(reader'[n], sent'[n], Len(delivered'[n]))
        /\ OnWay(new, sent'[n], Len(delivered'[n]), Len(reader'[n].bytes), wire'[n])
        /\ ~closed' => Len(reader'[n].bytes) + Len(wire'[n]) =
                         new[Len(sent'[n]) - Len(delivered'[n])]
    BY <1>4, <2>2, <2>5, <2>6, <2>7, <2>8 DEF s
  <2>10. Stream(n)'
    BY <1>4, <2>9, StreamAfter
  <2> QED
    BY <1>4, <1>7, <1>8, <1>9, <1>11, <2>1, <2>3, <2>10 DEF s, d, Outcome, NextIsRead
<1>12. CASE received.result = "error"
  BY <1>4, <1>7, <1>8, <1>9, <1>12 DEF s, d, Outcome, NextIsRead
<1> QED
  BY <1>7, <1>10, <1>11, <1>12 DEF Outcome

-----------------------------------------------------------------------------
(* What the steps do to the streams.                                       *)

LEMMA QuietStep ==
  ASSUME SInv, protocol' = protocol, reader' = reader, wire' = wire,
         sent' = sent, delivered' = delivered, closed => closed',
         \A n \in Nodes : Live(n)' => Live(n)
  PROVE  InvStream' /\ InvPrefix'
<1>1. ASSUME NEW n \in Nodes, Live(n)' PROVE Stream(n)'
  <2>1. Stream(n)
    BY <1>1 DEF SInv, InvStream
  <2>2. /\ reader'[n] = reader[n] /\ wire'[n] = wire[n] /\ sent'[n] = sent[n]
        /\ delivered'[n] = delivered[n]
    OBVIOUS
  <2> QED
    BY <2>1, <2>2, SameStream
<1>2. InvPrefix'
  BY DEF SInv, InvPrefix
<1> QED
  BY <1>1, <1>2 DEF InvStream

LEMMA PutStep ==
  ASSUME SInv, protocol' = protocol, reader' = reader, delivered' = delivered,
         NEW n \in Nodes, NEW m \in Messages, Put(n, m), ~closed, closed' = closed,
         \A o \in Nodes : Live(o)' => Live(o)
  PROVE  /\ wire' \in [Nodes -> Seq(AllUnits)] /\ sent' \in [Nodes -> Seq(Messages)]
         /\ InvStream' /\ InvPrefix' /\ C!Send
<1>1. InvTypes
  BY DEF SInv
<1>2. /\ Units(m) \in Seq(AllUnits)
      /\ sent[n] \in Seq(Messages) /\ wire[n] \in Seq(AllUnits)
  BY <1>1, UnitsOfMessage DEF InvTypes
<1>3. /\ wire[n] \o Units(m) \in Seq(AllUnits)
      /\ Append(sent[n], m) \in Seq(Messages)
      /\ Len(Append(sent[n], m)) = Len(sent[n]) + 1
      /\ \A i \in 1..Len(sent[n]) : Append(sent[n], m)[i] = sent[n][i]
  BY <1>2, ConcatProperties, AppendProperties
<1>4. /\ wire' = [wire EXCEPT ![n] = @ \o Units(m)]
      /\ sent' = [sent EXCEPT ![n] = Append(@, m)]
  BY DEF Put
<1>5. /\ sent'[n] = Append(sent[n], m)
      /\ \A o \in Nodes \ {n} : wire'[o] = wire[o] /\ sent'[o] = sent[o]
  BY <1>1, <1>4 DEF InvTypes
<1>6. ASSUME NEW o \in Nodes, Live(o)' PROVE Stream(o)'
  <2>1. Stream(o)
    BY <1>6 DEF SInv, InvStream
  <2>2. CASE o = n
    BY <1>1, <2>1, <2>2, PutStream
  <2>3. CASE o # n
    <3>1. /\ reader'[o] = reader[o] /\ wire'[o] = wire[o] /\ sent'[o] = sent[o]
          /\ delivered'[o] = delivered[o] /\ (closed => closed')
      BY <1>5, <2>3
    <3> QED
      BY <2>1, <3>1, SameStream
  <2> QED
    BY <2>2, <2>3
<1>7. InvPrefix'
  <2>1. ASSUME NEW o \in Nodes
        PROVE  /\ Len(delivered[o]) <= Len(sent'[o])
               /\ \A i \in 1..Len(delivered[o]) : delivered[o][i] = sent'[o][i]
    <3>1. /\ Len(delivered[o]) <= Len(sent[o])
          /\ \A i \in 1..Len(delivered[o]) : delivered[o][i] = sent[o][i]
      BY DEF SInv, InvPrefix
    <3>2. Len(sent[o]) \in Nat /\ Len(delivered[o]) \in Nat
      BY <1>1, LenProperties DEF InvTypes
    <3>3. CASE o = n
      <4>1. Len(delivered[o]) <= Len(sent'[o])
        BY <1>3, <1>5, <3>1, <3>2, <3>3
      <4>2. \A i \in 1..Len(delivered[o]) : i \in 1..Len(sent[o])
        BY <3>1, <3>2
      <4> QED
        BY <1>3, <1>5, <3>1, <3>3, <4>1, <4>2
    <3>4. CASE o # n
      BY <1>5, <3>1, <3>4
    <3> QED
      BY <3>3, <3>4
  <2> QED
    BY <2>1 DEF InvPrefix
<1>8. C!Send
  <2>1. Len(sent'[n]) = Len(sent[n]) + 1
    BY <1>3, <1>5
  <2>2. SubSeq(sent'[n], 1, Len(sent[n])) = sent[n]
    <3> DEFINE s == sent[n]
               t == sent'[n]
               u == SubSeq(t, 1, Len(s))
    <3>1. /\ s \in Seq(Messages) /\ Len(s) \in Nat
          /\ \A i \in 1..Len(s) : t[i] = s[i] /\ s[i] \in Messages
      BY <1>2, <1>3, <1>5, LenProperties, ElementOfSeq
    <3> HIDE DEF s, t
    <3>2. /\ u \in Seq(Messages)
          /\ Len(u) = IF 1 <= Len(s) THEN Len(s) - 1 + 1 ELSE 0
          /\ \A i \in 1..(Len(s) - 1 + 1) : u[i] = t[1 + i - 1]
      <4>1. \A i \in 1..Len(s) : t[i] \in Messages
        BY <3>1
      <4>2. Len(s) \in Int /\ 1 \in Int
        BY <3>1
      <4> QED
        BY <4>1, <4>2, SubSeqProperties
    <3> HIDE DEF u
    <3>3. Len(u) = Len(s)
      BY <3>1, <3>2
    <3>4. \A i \in 1..Len(s) : u[i] = t[i]
      BY <3>1, <3>2
    <3>5. \A i \in 1..Len(u) : u[i] = s[i]
      BY <3>1, <3>3, <3>4
    <3>6. u = s
      BY <3>1, <3>2, <3>3, <3>5, SeqEqual
    <3> QED
      BY <3>6 DEF u, s, t
  <2> QED
    BY <1>5, <2>1, <2>2 DEF C!Send
<1> QED
  BY <1>3, <1>4, <1>6, <1>7, <1>8 DEF InvTypes, InvStream, SInv

\* What is so after a read.
AfterRead(n, received) ==
  /\ reader' \in [Nodes -> Readers] /\ wire' \in [Nodes -> Seq(AllUnits)]
  /\ delivered' \in [Nodes -> Seq(Messages)]
  /\ InvStream' /\ InvPrefix'
  /\ UNCHANGED <<sent, delivered>> \/ C!Deliver
  /\ Len(delivered[n]) < Len(sent[n])
  /\ \/ received.result \in {"partial", "error"} /\ delivered' = delivered
     \/ /\ received.result = "message"
        /\ Message(received.bytes) = sent[n][Len(delivered[n]) + 1]
        /\ delivered' = [delivered EXCEPT ![n] =
                           Append(@, sent[n][Len(delivered[n]) + 1])]

LEMMA ReadStep ==
  ASSUME SInv, NEW n \in Nodes, Live(n),
         NEW k \in Readable(protocol, reader[n], wire[n]), NEW bufferSize,
         NEW received, received = Receive(n, k, bufferSize),
         Received(n, k, received), closed => closed',
         \A o \in Nodes : Live(o)' => Live(o),
         received.result = "error" => ~Live(n)'
  PROVE  AfterRead(n, received)
<1> DEFINE m == sent[n][Len(delivered[n]) + 1]
<1>1. InvTypes /\ Stream(n)
  BY DEF SInv, InvStream
<1>2. /\ reader' \in [Nodes -> Readers] /\ wire' \in [Nodes -> Seq(AllUnits)]
      /\ \A o \in Nodes \ {n} : /\ reader'[o] = reader[o] /\ wire'[o] = wire[o]
                                /\ delivered'[o] = delivered[o]
      /\ Len(delivered[n]) < Len(sent[n])
      /\ m \in Messages
      /\ \/ received.result = "partial" /\ delivered' = delivered /\ Stream(n)'
         \/ received.result = "error" /\ delivered' = delivered
         \/ /\ received.result = "message"
            /\ Message(received.bytes) = m
            /\ delivered' = [delivered EXCEPT ![n] = Append(@, m)]
            /\ Stream(n)'
  <2>1. NextIsRead(n, received)
    BY <1>1, ReadStream
  <2> QED
    BY <2>1 DEF NextIsRead
<1> HIDE DEF m
<1>3. protocol' = protocol /\ sent' = sent
  BY DEF Received
<1>4. ASSUME NEW o \in Nodes, Live(o)' PROVE Stream(o)'
  <2>1. CASE o = n
    BY <1>2, <1>4, <2>1
  <2>2. CASE o # n
    <3>1. Stream(o)
      BY <1>4 DEF SInv, InvStream
    <3>2. /\ reader'[o] = reader[o] /\ wire'[o] = wire[o] /\ sent'[o] = sent[o]
          /\ delivered'[o] = delivered[o]
      BY <1>2, <1>3, <2>2
    <3> QED
      BY <1>3, <3>1, <3>2, SameStream
  <2> QED
    BY <2>1, <2>2
<1>5. CASE delivered' = delivered
  <2>1. InvPrefix'
    BY <1>3, <1>5 DEF SInv, InvPrefix
  <2> QED
    BY <1>1, <1>2, <1>3, <1>4, <1>5, <2>1 DEF InvStream, InvTypes, m, AfterRead
<1>6. CASE received.result = "message" /\ delivered' = [delivered EXCEPT ![n] = Append(@, m)]
  <2>1. delivered[n] \in Seq(Messages) /\ sent[n] \in Seq(Messages)
    BY <1>1 DEF InvTypes
  <2>2. /\ Append(delivered[n], m) \in Seq(Messages)
        /\ Len(Append(delivered[n], m)) = Len(delivered[n]) + 1
        /\ \A i \in 1..Len(delivered[n]) : Append(delivered[n], m)[i] = delivered[n][i]
        /\ Append(delivered[n], m)[Len(delivered[n]) + 1] = m
    BY <1>2, <2>1, AppendProperties
  <2>3. delivered' \in [Nodes -> Seq(Messages)] /\ delivered'[n] = Append(delivered[n], m)
    BY <1>1, <1>6, <2>2 DEF InvTypes
  <2>4. ASSUME NEW o \in Nodes
        PROVE  /\ Len(delivered'[o]) <= Len(sent[o])
               /\ \A i \in 1..Len(delivered'[o]) : delivered'[o][i] = sent[o][i]
    <3>1. /\ Len(delivered[o]) <= Len(sent[o])
          /\ \A i \in 1..Len(delivered[o]) : delivered[o][i] = sent[o][i]
      BY DEF SInv, InvPrefix
    <3>2. CASE o # n
      BY <1>2, <3>1, <3>2
    <3>3. CASE o = n
      <4> DEFINE d == Len(delivered[n])
      <4>1. d \in Nat /\ Len(sent[n]) \in Nat /\ d < Len(sent[n])
        BY <1>2, <2>1, LenProperties
      <4>2. Len(delivered'[n]) = d + 1
        BY <2>2, <2>3
      <4>3. ASSUME NEW i \in 1..(d + 1) PROVE delivered'[n][i] = sent[n][i]
        <5>1. CASE i = d + 1
          BY <2>2, <2>3, <5>1 DEF m
        <5>2. CASE i # d + 1
          <6>1. i \in 1..d
            BY <4>1, <5>2
          <6> QED
            BY <2>2, <2>3, <3>1, <3>3, <6>1
        <5> QED
          BY <5>1, <5>2
      <4>4. d + 1 <= Len(sent[n])
        BY <4>1
      <4> HIDE DEF d
      <4> QED
        BY <3>3, <4>2, <4>3, <4>4
    <3> QED
      BY <3>2, <3>3
  <2>5. InvPrefix'
    BY <1>3, <2>4 DEF InvPrefix
  <2>6. C!Deliver
    BY <1>2, <1>3, <1>6 DEF C!Deliver, m
  <2> QED
    BY <1>2, <1>4, <1>6, <2>3, <2>5, <2>6 DEF InvStream, m, AfterRead
<1> QED
  BY <1>2, <1>5, <1>6

-----------------------------------------------------------------------------
(* The types.                                                              *)

LEMMA GotoPassive ==
  ASSUME InvTypes, NEW step \in PassiveAt, Goto("passive", step)
  PROVE  /\ pc' \in [Nodes -> PassiveAt \cup ActiveAt]
         /\ pc'.passive = step /\ pc'.active = pc.active
<1>1. pc' = [pc EXCEPT !["passive"] = step]
  BY DEF Goto
<1> QED
  BY <1>1 DEF InvTypes, Nodes

LEMMA GotoActive ==
  ASSUME InvTypes, NEW step \in ActiveAt, Goto("active", step)
  PROVE  /\ pc' \in [Nodes -> PassiveAt \cup ActiveAt]
         /\ pc'.active = step /\ pc'.passive = pc.passive
<1>1. pc' = [pc EXCEPT !["active"] = step]
  BY DEF Goto
<1> QED
  BY <1>1 DEF InvTypes, Nodes

LEMMA FileTypes ==
  ASSUME NEW file \in Files, NEW row \in Nat, NEW okay \in BOOLEAN
  PROVE  /\ Write(file, row, okay) \in Files
         /\ Finish(file, FALSE) \in Files
<1>1. Append(file.rows, row) \in Seq(Nat)
  BY AppendProperties DEF Files
<1>2. Write(file, row, okay) \in Files
  <2>1. [file EXCEPT !.rows = Append(@, row)] \in Files
    BY <1>1 DEF Files
  <2>2. [file EXCEPT !.failed = TRUE] \in Files
    BY DEF Files
  <2> QED
    BY <2>1, <2>2 DEF Write
<1>3. Finish(file, FALSE) \in Files
  BY DEF Finish, Files
<1> QED
  BY <1>2, <1>3

\* What uploadOutputFile() reads of a file.
Rows(file, pos) ==
  SubSeq(file.rows, pos + 1, IF pos + ChunkSize < Len(file.rows)
                             THEN pos + ChunkSize ELSE Len(file.rows))

LEMMA RowsRead ==
  ASSUME NEW file \in Files, NEW pos \in Nat
  PROVE  /\ Rows(file, pos) \in Seq(Nat) /\ Len(Rows(file, pos)) <= ChunkSize
         /\ \A i \in 1..Len(Rows(file, pos)) :
              Rows(file, pos)[i] = file.rows[pos + i]
         /\ ~AtEnd(file, pos) => Len(Rows(file, pos)) = ChunkSize
         /\ AtEnd(file, pos) /\ pos <= Len(file.rows) =>
              pos + Len(Rows(file, pos)) = Len(file.rows)
         /\ pos <= Len(file.rows) => pos + Len(Rows(file, pos)) <= Len(file.rows)
<1> DEFINE size == Len(file.rows)
           last == IF pos + ChunkSize < size THEN pos + ChunkSize ELSE size
           rows == Rows(file, pos)
<1>1. file.rows \in Seq(Nat) /\ size \in Nat /\ ChunkSize \in Nat \ {0}
  BY Constants, LenProperties DEF Files
<1>2. rows = SubSeq(file.rows, pos + 1, last)
  BY DEF Rows
<1> HIDE DEF size, rows
<1>3. last \in Int /\ last <= size /\ last <= pos + ChunkSize
  BY <1>1
<1>4. \A i \in (pos + 1)..last : file.rows[i] \in Nat
  <2>1. (pos + 1)..last \subseteq 1..Len(file.rows)
    BY <1>1, <1>3 DEF size
  <2> QED
    BY <1>1, <2>1, ElementOfSeq
<1>5. AtEnd(file, pos) <=> pos + ChunkSize > size
  BY DEF AtEnd, size
<1>6. (pos + ChunkSize <= size => last = pos + ChunkSize)
      /\ (pos + ChunkSize > size => last = size)
  BY <1>1
<1> HIDE DEF last
<1>7. /\ rows \in Seq(Nat)
      /\ Len(rows) = IF pos + 1 <= last THEN last - (pos + 1) + 1 ELSE 0
      /\ \A i \in 1..(last - (pos + 1) + 1) : rows[i] = file.rows[pos + 1 + i - 1]
  <2>1. pos + 1 \in Int
    OBVIOUS
  <2> QED
    BY <1>2, <1>3, <1>4, <2>1, SubSeqProperties
<1>8. /\ pos < last => Len(rows) = last - pos
      /\ ~(pos < last) => Len(rows) = 0
  BY <1>3, <1>7
<1>9. \A i \in 1..Len(rows) : rows[i] = file.rows[pos + i]
  <2>1. ASSUME NEW i \in 1..Len(rows)
        PROVE  i \in 1..(last - (pos + 1) + 1) /\ pos + 1 + i - 1 = pos + i
    BY <1>3, <1>7
  <2> QED
    BY <1>7, <2>1
<1>10. Len(rows) <= ChunkSize
  BY <1>1, <1>3, <1>8
<1>11. ASSUME ~AtEnd(file, pos) PROVE Len(rows) = ChunkSize
  BY <1>1, <1>3, <1>5, <1>6, <1>8, <1>11
<1>12. ASSUME AtEnd(file, pos), pos <= size PROVE pos + Len(rows) = size
  BY <1>1, <1>3, <1>5, <1>6, <1>8, <1>12
<1>13. ASSUME pos <= size PROVE pos + Len(rows) <= size
  BY <1>1, <1>3, <1>8, <1>13
<1> QED
  BY <1>7, <1>9, <1>10, <1>11, <1>12, <1>13 DEF size, rows

LEMMA MessagesSent ==
  /\ CommUp \in Messages /\ StopMsg \in Messages
  /\ \A okay \in BOOLEAN : Acknowledge(okay) \in Messages
  /\ \A file \in Files, pos \in Nat :
       Results(Rows(file, pos), AtEnd(file, pos)) \in Messages
<1>1. /\ CommUp \in Messages /\ StopMsg \in Messages
      /\ \A okay \in BOOLEAN : Acknowledge(okay) \in Messages
      /\ \A rows \in {s \in Seq(Nat) : Len(s) <= ChunkSize}, eof \in BOOLEAN :
           Results(rows, eof) \in Messages
  BY DEF Messages
<1>2. ASSUME NEW file \in Files, NEW pos \in Nat
      PROVE  Results(Rows(file, pos), AtEnd(file, pos)) \in Messages
  <2>1. Rows(file, pos) \in {s \in Seq(Nat) : Len(s) <= ChunkSize}
    BY RowsRead
  <2>2. AtEnd(file, pos) \in BOOLEAN
    BY DEF AtEnd
  <2> QED
    BY <1>1, <2>1, <2>2, Zenon
<1> QED
  BY <1>1, <1>2

-----------------------------------------------------------------------------
(* Every step keeps the streams, and is a step of the Channel or none.     *)

Kept == SInv' /\ (C!Send \/ C!Deliver \/ UNCHANGED <<sent, delivered>>)

\* Steps that leave the connection alone, but may close it.
LEMMA QuietSteps ==
  ASSUME SInv, \/ WriteRow \/ UploadFails \/ PassiveLeaves \/ SendStopFails
               \/ ActiveGivesUp \/ ActiveExits \/ UNCHANGED vars
  PROVE  Kept
<1>1. InvTypes
  BY DEF SInv
<1>2. /\ protocol' = protocol /\ reader' = reader /\ wire' = wire /\ sent' = sent
      /\ delivered' = delivered /\ (closed => closed') /\ closed' \in BOOLEAN
  BY <1>1 DEF WriteRow, UploadFails, PassiveLeaves, SendStopFails, ActiveGivesUp,
     ActiveExits, vars, transport, InvTypes
<1>3. CASE WriteRow
  <2>1. files' \in [FileNames -> Files]
    <3>1. files.vector \in Files /\ written.vector + 1 \in Nat
      BY <1>1 DEF InvTypes, FileNames
    <3>2. PICK okay \in BOOLEAN :
            files' = [files EXCEPT !.vector = Write(@, written.vector + 1, okay)]
      BY <1>3 DEF WriteRow
    <3>3. Write(files.vector, written.vector + 1, okay) \in Files
      BY <3>1, FileTypes
    <3> QED
      BY <1>1, <3>2, <3>3 DEF InvTypes, FileNames
  <2>2. written' \in [FileNames -> Nat]
    <3>1. written' = [written EXCEPT !["vector"] = @ + 1]
      BY <1>3 DEF WriteRow
    <3>2. written["vector"] + 1 \in Nat
      BY <1>1 DEF InvTypes, FileNames
    <3> QED
      BY <1>1, <3>1, <3>2 DEF InvTypes, FileNames
  <2>3. UNCHANGED <<position, got, pc>>
    BY <1>3 DEF WriteRow
  <2>4. InvTypes' /\ \A n \in Nodes : Live(n)' => Live(n)
    BY <1>1, <1>2, <2>1, <2>2, <2>3 DEF InvTypes, Live
  <2> QED
    BY <1>2, <2>4, QuietStep DEF Kept, SInv
<1>4. CASE UploadFails \/ PassiveLeaves
  <2>1. PICK step \in PassiveAt : Goto("passive", step) /\ step # "control"
    BY <1>4 DEF UploadFails, PassiveLeaves, NextUpload, PassiveAt, FileNames
  <2>2. /\ pc' \in [Nodes -> PassiveAt \cup ActiveAt]
        /\ pc'.passive = step /\ pc'.active = pc.active
    BY <1>1, <2>1, GotoPassive
  <2>3. files' = files /\ written' = written /\ position' \in Nat /\ got' = got
    BY <1>1, <1>4 DEF UploadFails, PassiveLeaves, InvTypes
  <2>4. InvTypes'
    BY <1>1, <1>2, <2>2, <2>3 DEF InvTypes
  <2>5. \A n \in Nodes : Live(n)' => Live(n)
    BY <2>1, <2>2 DEF Live
  <2> QED
    BY <1>2, <2>4, <2>5, QuietStep DEF Kept, SInv
<1>5. CASE SendStopFails \/ ActiveGivesUp
  <2>1. Goto("active", "failed") /\ "failed" \in ActiveAt
    BY <1>5 DEF SendStopFails, ActiveGivesUp, ActiveAt
  <2>2. /\ pc' \in [Nodes -> PassiveAt \cup ActiveAt]
        /\ pc'.active = "failed" /\ pc'.passive = pc.passive
    BY <1>1, <2>1, GotoActive
  <2>3. UNCHANGED <<files, written, position, got>>
    BY <1>5 DEF SendStopFails, ActiveGivesUp
  <2>4. InvTypes'
    BY <1>1, <1>2, <2>1, <2>2, <2>3 DEF InvTypes
  <2>5. \A n \in Nodes : Live(n)' => Live(n)
    BY <2>2 DEF Live, FileNames
  <2> QED
    BY <1>2, <2>4, <2>5, QuietStep DEF Kept, SInv
<1>6. CASE ActiveExits \/ UNCHANGED vars
  <2>1. UNCHANGED <<files, written, position, got, pc>>
    BY <1>6 DEF ActiveExits, vars
  <2>2. InvTypes' /\ \A n \in Nodes : Live(n)' => Live(n)
    BY <1>1, <1>2, <2>1 DEF InvTypes, Live
  <2> QED
    BY <1>2, <2>2, QuietStep DEF Kept, SInv
<1> QED
  BY <1>3, <1>4, <1>5, <1>6

\* The connection breaks.
LEMMA BreakStep ==
  ASSUME SInv, Break
  PROVE  Kept
<1>1. InvTypes
  BY DEF SInv
<1>2. PICK toActive \in 0..Len(wire.active), toPassive \in 0..Len(wire.passive) :
        wire' = [active  |-> SubSeq(wire.active, 1, toActive),
                 passive |-> SubSeq(wire.passive, 1, toPassive)]
  BY DEF Break
<1>3. /\ closed' = TRUE
      /\ UNCHANGED <<protocol, files, written, position, got, pc, reader, sent,
                     delivered>>
  BY DEF Break
<1>4. ASSUME NEW n \in Nodes
      PROVE  \E k \in 0..Len(wire[n]) : wire'[n] = SubSeq(wire[n], 1, k)
  <2>1. CASE n = "active"
    <3>1. wire[n] = wire.active /\ wire'[n] = SubSeq(wire.active, 1, toActive)
      BY <1>2, <2>1
    <3> QED
      BY <3>1
  <2>2. CASE n = "passive"
    <3>1. wire[n] = wire.passive /\ wire'[n] = SubSeq(wire.passive, 1, toPassive)
      BY <1>2, <2>2
    <3> QED
      BY <3>1
  <2> QED
    BY <2>1, <2>2 DEF Nodes
<1>5. ASSUME NEW n \in Nodes PROVE wire'[n] \in Seq(AllUnits)
  <2>1. PICK k \in 0..Len(wire[n]) : wire'[n] = SubSeq(wire[n], 1, k)
    BY <1>4
  <2>2. wire[n] \in Seq(AllUnits)
    BY <1>1 DEF InvTypes
  <2>3. \A i \in 1..k : wire[n][i] \in AllUnits
    BY <2>2, LenProperties, ElementOfSeq
  <2>4. k \in Int /\ 1 \in Int
    BY <2>2, LenProperties
  <2> QED
    BY <2>1, <2>3, <2>4, SubSeqProperties
<1>6. wire' \in [Nodes -> Seq(AllUnits)]
  <2>1. wire' = [n \in Nodes |-> wire'[n]]
    BY <1>2 DEF Nodes
  <2> QED
    BY <1>5, <2>1
<1>7. ASSUME NEW n \in Nodes, Live(n)' PROVE Stream(n)'
  <2>1. Live(n)
    BY <1>3, <1>7 DEF Live
  <2>2. Stream(n)
    BY <2>1 DEF SInv, InvStream
  <2> DEFINE s == sent[n]
             w == wire[n]
             d == Len(delivered[n])
             p == Len(reader[n].bytes)
  <2>3. PICK ends : OnWay(ends, s, d, p, w)
    BY <2>2 DEF Stream
  <2>4. d <= Len(s) /\ Reads(reader[n], s, d)
    BY <2>2 DEF Stream
  <2>5. /\ s \in Seq(Messages) /\ w \in Seq(AllUnits) /\ p \in Nat /\ d \in Nat
        /\ Len(s) \in Nat /\ d \in 0..Len(s)
    BY <1>1, <2>4, LenProperties DEF InvTypes, Readers
  <2>6. PICK k \in 0..Len(w) : wire'[n] = SubSeq(w, 1, k)
    BY <1>4
  <2>7. OnWay(ends, s, d, p, SubSeq(w, 1, k))
    <3> HIDE DEF s, w, d, p
    <3> QED
      BY <2>3, <2>5, CutOnWay
  <2> QED
    BY <1>3, <2>4, <2>6, <2>7, StreamAfter
<1>8. InvTypes'
  BY <1>1, <1>3, <1>6 DEF InvTypes
<1>9. InvPrefix'
  BY <1>3 DEF InvPrefix, SInv
<1> QED
  BY <1>3, <1>7, <1>8, <1>9 DEF Kept, SInv, InvStream
\* Steps that send a message, or lose it when the connection is closed.
LEMMA PutOrLoseStep ==
  ASSUME SInv, protocol' = protocol, reader' = reader, delivered' = delivered,
         closed' = closed, NEW n \in Nodes, NEW m \in Messages, PutOrLose(n, m),
         \A o \in Nodes : Live(o)' => Live(o),
         files' \in [FileNames -> Files], written' \in [FileNames -> Nat],
         position' \in Nat, got' \in [FileNames -> Seq(Nat)],
         pc' \in [Nodes -> PassiveAt \cup ActiveAt],
         pc'.passive \in PassiveAt, pc'.active \in ActiveAt
  PROVE  Kept
<1>1. InvTypes
  BY DEF SInv
<1>2. CASE closed
  <2>1. wire' = wire /\ sent' = sent
    BY <1>2 DEF PutOrLose, transport
  <2>2. InvStream' /\ InvPrefix'
    BY <2>1, QuietStep
  <2>3. InvTypes'
    BY <1>1, <2>1 DEF InvTypes
  <2> QED
    BY <2>1, <2>2, <2>3 DEF Kept, SInv
<1>3. CASE ~closed
  <2>1. Put(n, m)
    BY <1>3 DEF PutOrLose
  <2>2. /\ wire' \in [Nodes -> Seq(AllUnits)] /\ sent' \in [Nodes -> Seq(Messages)]
        /\ InvStream' /\ InvPrefix' /\ C!Send
    BY <1>3, <2>1, PutStep
  <2>3. InvTypes'
    BY <1>1, <2>2 DEF InvTypes
  <2> QED
    BY <2>2, <2>3 DEF Kept, SInv
<1> QED
  BY <1>2, <1>3

LEMMA SendSteps ==
  ASSUME SInv, Established \/ SendStop \/ HandleStop \/ UploadChunk
  PROVE  Kept
<1>1. InvTypes
  BY DEF SInv
<1>2. CASE Established
  <2>1. /\ PutOrLose("passive", CommUp)
        /\ UNCHANGED <<protocol, files, written, position, got, pc, reader, closed,
                       delivered>>
    BY <1>2 DEF Established, PutOrLose
  <2>2. "passive" \in Nodes /\ \A o \in Nodes : Live(o)' => Live(o)
    BY <2>1 DEF Nodes, Live
  <2> QED
    BY <1>1, <2>1, <2>2, MessagesSent, PutOrLoseStep DEF InvTypes
<1>3. CASE SendStop
  <2>1. /\ PutOrLose("passive", StopMsg) /\ Goto("active", "acknowledge")
        /\ UNCHANGED <<protocol, files, written, position, got, reader, closed,
                       delivered>>
        /\ pc.active = "measuring"
    BY <1>3 DEF SendStop
  <2>2. /\ pc' \in [Nodes -> PassiveAt \cup ActiveAt]
        /\ pc'.active = "acknowledge" /\ pc'.passive = pc.passive
        /\ "acknowledge" \in ActiveAt
    BY <1>1, <2>1, GotoActive DEF ActiveAt
  <2>3. "passive" \in Nodes /\ \A o \in Nodes : Live(o)' => Live(o)
    BY <2>1, <2>2 DEF Nodes, Live
  <2> QED
    BY <1>1, <2>1, <2>2, <2>3, MessagesSent, PutOrLoseStep DEF InvTypes
<1>4. CASE HandleStop
  <2>1. PICK okay \in BOOLEAN :
          LET finished ==
                [vector |-> Finish(files.vector, FALSE),
                 scalar |-> Finish(Write(files.scalar, 1, okay), FALSE)]
              success == \A f \in FileNames : ~finished[f].writeError
          IN /\ files' = finished
             /\ PutOrLose("active", Acknowledge(success))
             /\ Goto("passive", IF success THEN FirstUpload(finished)
                                ELSE "returned")
    BY <1>4, Zenon DEF HandleStop
  <2> DEFINE finished == [vector |-> Finish(files.vector, FALSE),
                          scalar |-> Finish(Write(files.scalar, 1, okay), FALSE)]
             success == \A f \in FileNames : ~finished[f].writeError
             step == IF success THEN FirstUpload(finished) ELSE "returned"
  <2>2. /\ files' = finished /\ PutOrLose("active", Acknowledge(success))
        /\ Goto("passive", step)
    BY <2>1
  <2>3. files' \in [FileNames -> Files]
    <3>1. files.vector \in Files /\ files.scalar \in Files /\ 1 \in Nat
      BY <1>1 DEF InvTypes, FileNames
    <3>2. /\ Finish(files.vector, FALSE) \in Files
          /\ Finish(Write(files.scalar, 1, okay), FALSE) \in Files
      BY <3>1, FileTypes
    <3>3. \A a, b \in Files : [vector |-> a, scalar |-> b] \in [FileNames -> Files]
      BY DEF FileNames
    <3> QED
      BY <2>2, <3>2, <3>3, Zenon
  <2>4. Acknowledge(success) \in Messages
    <3>1. success \in BOOLEAN
      OBVIOUS
    <3> HIDE DEF success
    <3> QED
      BY <3>1, MessagesSent, Zenon
  <2>5. step \in PassiveAt \ {"control"}
    BY DEF FirstUpload, PassiveAt, FileNames
  <2> HIDE DEF success, finished, step
  <2>6. /\ pc' \in [Nodes -> PassiveAt \cup ActiveAt]
        /\ pc'.passive = step /\ pc'.active = pc.active
    BY <1>1, <2>2, <2>5, GotoPassive
  <2>7. written' \in [FileNames -> Nat]
    <3>1. written' = [written EXCEPT !["scalar"] = IF Exists(files.scalar) THEN 1 ELSE 0]
      BY <1>4 DEF HandleStop
    <3> QED
      BY <1>1, <3>1 DEF InvTypes, FileNames
  <2>8. /\ position' = 0 /\ UNCHANGED <<protocol, got, reader, closed, delivered>>
    BY <1>4 DEF HandleStop
  <2>9. "active" \in Nodes /\ \A o \in Nodes : Live(o)' => Live(o)
    BY <2>5, <2>6 DEF Nodes, Live
  <2>10. position' \in Nat /\ got' \in [FileNames -> Seq(Nat)] /\ pc'.active \in ActiveAt
    BY <1>1, <2>6, <2>8 DEF InvTypes
  <2> QED
    BY <2>2, <2>3, <2>4, <2>5, <2>6, <2>7, <2>8, <2>9, <2>10, PutOrLoseStep
<1>5. CASE UploadChunk
  <2> DEFINE file == files[pc.passive]
             eof == AtEnd(file, position)
             step == IF eof THEN NextUpload ELSE pc.passive
  <2>1. /\ pc.passive \in FileNames
        /\ PutOrLose("active", Results(Rows(file, position), eof))
        /\ position' = IF eof THEN 0 ELSE position + Len(Rows(file, position))
        /\ Goto("passive", step)
        /\ UNCHANGED <<protocol, files, written, got, reader, closed, delivered>>
    BY <1>5 DEF UploadChunk, Rows
  <2>2. file \in Files /\ position \in Nat
    BY <1>1, <2>1 DEF InvTypes
  <2>3. Results(Rows(file, position), eof) \in Messages
    BY <2>2, MessagesSent
  <2>4. position' \in Nat
    <3>1. Len(Rows(file, position)) \in Nat
      BY <2>2, RowsRead, LenProperties
    <3> QED
      BY <2>1, <2>2, <3>1
  <2>5. step \in PassiveAt \ {"control"}
    BY <2>1 DEF NextUpload, PassiveAt, FileNames
  <2> HIDE DEF step
  <2>6. /\ pc' \in [Nodes -> PassiveAt \cup ActiveAt]
        /\ pc'.passive = step /\ pc'.active = pc.active
    BY <1>1, <2>1, <2>5, GotoPassive
  <2>7. "active" \in Nodes /\ \A o \in Nodes : Live(o)' => Live(o)
    BY <2>5, <2>6 DEF Nodes, Live
  <2>8. /\ files' \in [FileNames -> Files] /\ written' \in [FileNames -> Nat]
        /\ got' \in [FileNames -> Seq(Nat)] /\ pc'.active \in ActiveAt
        /\ pc'.passive \in PassiveAt
    BY <1>1, <2>1, <2>5, <2>6 DEF InvTypes
  <2> QED
    BY <2>1, <2>3, <2>4, <2>6, <2>7, <2>8, PutOrLoseStep
<1> QED
  BY <1>2, <1>3, <1>4, <1>5

LEMMA MessageRows ==
  ASSUME NEW m \in Messages, m.type = "Results"
  PROVE  m.rows \in Seq(Nat)
<1>1. CommUp.type # "Results" /\ StopMsg.type # "Results"
  BY DEF CommUp, StopMsg, Notification
<1>2. \A okay \in BOOLEAN : Acknowledge(okay).type # "Results"
  BY DEF Acknowledge
<1>3. \A rows \in Seq(Nat), eof \in BOOLEAN : Results(rows, eof).rows = rows
  BY DEF Results
<1> QED
  BY <1>1, <1>2, <1>3 DEF Messages

LEMMA PassiveReads ==
  ASSUME SInv, PassiveReceives
  PROVE  Kept
<1>1. InvTypes
  BY DEF SInv
<1>2. PICK k \in Readable(protocol, reader.passive, wire.passive) :
        LET received == Receive("passive", k, MessageBufferSize)
            broken   == \/ received.result = "error"
                        \/ /\ received.result = "message"
                           /\ Message(received.bytes) = Garbage
        IN /\ Received("passive", k, received)
           /\ closed' = (closed \/ broken)
           /\ Goto("passive",
                   IF broken THEN "gone"
                   ELSE IF /\ received.result = "message"
                           /\ Message(received.bytes).type = "Stop"
                   THEN "Stop" ELSE "control")
           /\ UNCHANGED got
  BY Zenon DEF PassiveReceives
<1> DEFINE received == Receive("passive", k, MessageBufferSize)
           broken == \/ received.result = "error"
                     \/ /\ received.result = "message"
                        /\ Message(received.bytes) = Garbage
           step == IF broken THEN "gone"
                   ELSE IF /\ received.result = "message"
                           /\ Message(received.bytes).type = "Stop"
                   THEN "Stop" ELSE "control"
<1>3. /\ Received("passive", k, received)
      /\ closed' = (closed \/ broken) /\ Goto("passive", step) /\ UNCHANGED got
  BY <1>2
<1>4. step \in PassiveAt /\ (received.result = "error" => step # "control")
  BY DEF PassiveAt
<1>5. closed' \in BOOLEAN /\ (closed => closed')
  BY <1>3
<1> HIDE DEF received, broken, step
<1>6. /\ pc' \in [Nodes -> PassiveAt \cup ActiveAt]
      /\ pc'.passive = step /\ pc'.active = pc.active
  BY <1>1, <1>3, <1>4, GotoPassive
<1>7. /\ "passive" \in Nodes /\ Live("passive")
      /\ \A o \in Nodes : Live(o)' => Live(o)
      /\ received.result = "error" => ~Live("passive")'
  BY <1>4, <1>6 DEF Nodes, Live, PassiveReceives
<1>8. received = Receive("passive", k, MessageBufferSize)
  BY DEF received
<1>9. AfterRead("passive", received)
  BY <1>3, <1>5, <1>7, <1>8, ReadStep
<1>10. UNCHANGED <<protocol, files, written, position, sent>>
  BY <1>3 DEF Received
<1>11. InvTypes'
  BY <1>1, <1>3, <1>4, <1>5, <1>6, <1>9, <1>10 DEF InvTypes, AfterRead
<1> QED
  BY <1>9, <1>11 DEF AfterRead, Kept, SInv

\* What the active node makes of what it reads.
ActiveGets ==
  /\ UNCHANGED <<protocol, files, written, position, sent, closed>>
  /\ pc'.passive = pc.passive /\ pc.active \in {"acknowledge"} \cup FileNames
  /\ \/ delivered' = delivered /\ got' = got /\ pc'.active \in {pc.active, "failed"}
     \/ LET msg == sent["active"][Len(delivered["active"]) + 1] IN
        /\ Len(delivered["active"]) < Len(sent["active"])
        /\ delivered' = [delivered EXCEPT !["active"] = Append(@, msg)]
        /\ pc.active = "acknowledge" =>
             pc'.active = AfterAcknowledge(msg) /\ got' = got
        /\ pc.active \in FileNames =>
             \E okay \in BOOLEAN :
               /\ pc'.active = AfterResults(msg, okay)
               /\ got' = IF pc'.active = "failed" THEN got
                         ELSE [got EXCEPT ![pc.active] = @ \o msg.rows]

LEMMA ActiveReads ==
  ASSUME SInv, ActiveReceives
  PROVE  Kept /\ ActiveGets
<1>1. InvTypes
  BY DEF SInv
<1>2. PICK k \in Readable(protocol, reader.active, wire.active), okay \in BOOLEAN :
        LET received == Receive("active", k,
                          IF pc.active = "acknowledge" THEN HeaderSize + 1
                          ELSE HeaderSize + ChunkSize)
            msg == Message(received.bytes)
            next == IF received.result = "partial" THEN pc.active
                    ELSE IF received.result = "error" THEN "failed"
                    ELSE IF pc.active = "acknowledge" THEN AfterAcknowledge(msg)
                    ELSE AfterResults(msg, okay)
        IN /\ Received("active", k, received)
           /\ Goto("active", next)
           /\ got' = IF /\ received.result = "message" /\ next # "failed"
                        /\ pc.active \in FileNames
                     THEN [got EXCEPT ![pc.active] = @ \o msg.rows] ELSE got
           /\ UNCHANGED closed
  BY Zenon DEF ActiveReceives
<1> DEFINE size == IF pc.active = "acknowledge" THEN HeaderSize + 1
                   ELSE HeaderSize + ChunkSize
           received == Receive("active", k, size)
           msg == Message(received.bytes)
           next == IF received.result = "partial" THEN pc.active
                   ELSE IF received.result = "error" THEN "failed"
                   ELSE IF pc.active = "acknowledge" THEN AfterAcknowledge(msg)
                   ELSE AfterResults(msg, okay)
<1>3. /\ Received("active", k, received) /\ Goto("active", next)
      /\ got' = IF /\ received.result = "message" /\ next # "failed"
                   /\ pc.active \in FileNames
                THEN [got EXCEPT ![pc.active] = @ \o msg.rows] ELSE got
      /\ closed' = closed /\ pc.active \in {"acknowledge"} \cup FileNames
  BY <1>2, Zenon DEF ActiveReceives
<1>4. received = Receive("active", k, size)
  OBVIOUS
<1> HIDE DEF received, size
<1>5. NextDownload \in ActiveAt
  BY DEF NextDownload, ActiveAt, FileNames
<1>6. /\ next \in ActiveAt
      /\ received.result = "error" => next = "failed"
  BY <1>3, <1>5 DEF AfterAcknowledge, AfterResults, ActiveAt
<1>7. /\ received.result = "message" /\ next # "failed" /\ pc.active \in FileNames
           => msg.type = "Results"
  BY DEF AfterResults, FileNames
<1> HIDE DEF next
<1>8. /\ pc' \in [Nodes -> PassiveAt \cup ActiveAt]
      /\ pc'.active = next /\ pc'.passive = pc.passive
  BY <1>1, <1>3, <1>6, GotoActive
<1>9. /\ "active" \in Nodes /\ Live("active")
      /\ \A o \in Nodes : Live(o)' => Live(o)
      /\ received.result = "error" => ~Live("active")'
  BY <1>3, <1>6, <1>8 DEF Nodes, Live, FileNames
<1>10. AfterRead("active", received)
  BY <1>3, <1>4, <1>9, ReadStep
<1>11. UNCHANGED <<protocol, files, written, position, sent>>
  BY <1>3 DEF Received
<1>12. got' \in [FileNames -> Seq(Nat)]
  <2>1. CASE ~(/\ received.result = "message" /\ next # "failed"
               /\ pc.active \in FileNames)
    BY <1>1, <1>3, <2>1 DEF InvTypes
  <2>2. CASE /\ received.result = "message" /\ next # "failed"
             /\ pc.active \in FileNames
    <3>1. /\ msg = sent["active"][Len(delivered["active"]) + 1]
          /\ Len(delivered["active"]) < Len(sent["active"])
      BY <1>10, <2>2 DEF AfterRead
    <3>2. sent["active"] \in Seq(Messages) /\ delivered["active"] \in Seq(Messages)
      BY <1>1 DEF InvTypes, Nodes
    <3>3. Len(delivered["active"]) + 1 \in 1..Len(sent["active"])
      BY <3>1, <3>2, LenProperties
    <3>4. msg \in Messages /\ msg.type = "Results"
      BY <1>7, <2>2, <3>1, <3>2, <3>3, ElementOfSeq
    <3>5. msg.rows \in Seq(Nat)
      BY <3>4, MessageRows
    <3>6. got[pc.active] \o msg.rows \in Seq(Nat)
      BY <1>1, <2>2, <3>5, ConcatProperties DEF InvTypes
    <3> QED
      BY <1>1, <1>3, <2>2, <3>6 DEF InvTypes
  <2> QED
    BY <2>1, <2>2
<1>13. InvTypes'
  BY <1>1, <1>3, <1>6, <1>8, <1>10, <1>11, <1>12 DEF InvTypes, AfterRead
<1>14. ActiveGets
  <2>1. /\ UNCHANGED <<protocol, files, written, position, sent, closed>>
        /\ pc'.passive = pc.passive /\ pc.active \in {"acknowledge"} \cup FileNames
    BY <1>3, <1>8, <1>11
  <2>2. CASE received.result \in {"partial", "error"} /\ delivered' = delivered
    <3>1. got' = got /\ pc'.active \in {pc.active, "failed"}
      BY <1>3, <1>8, <2>2 DEF next
    <3> QED
      BY <2>1, <2>2, <3>1 DEF ActiveGets
  <2>3. CASE /\ received.result = "message"
             /\ msg = sent["active"][Len(delivered["active"]) + 1]
             /\ delivered' = [delivered EXCEPT !["active"] =
                                Append(@, sent["active"][Len(delivered["active"]) + 1])]
    <3>1. /\ pc.active = "acknowledge" => pc'.active = AfterAcknowledge(msg) /\ got' = got
          /\ pc.active \in FileNames =>
               /\ pc'.active = AfterResults(msg, okay)
               /\ got' = IF pc'.active = "failed" THEN got
                         ELSE [got EXCEPT ![pc.active] = @ \o msg.rows]
      BY <1>3, <1>8, <2>3 DEF next, FileNames
    <3>2. Len(delivered["active"]) < Len(sent["active"])
      BY <1>10 DEF AfterRead
    <3> HIDE DEF msg
    <3> QED
      BY <2>1, <2>3, <3>1, <3>2 DEF ActiveGets
  <2> QED
    BY <1>10, <2>2, <2>3 DEF AfterRead
<1> QED
  BY <1>10, <1>13, <1>14 DEF AfterRead, Kept, SInv

LEMMA EveryStepKept ==
  ASSUME SInv, [Next]_vars
  PROVE  Kept
<1>1. CASE \/ WriteRow \/ UploadFails \/ PassiveLeaves \/ SendStopFails
           \/ ActiveGivesUp \/ ActiveExits \/ UNCHANGED vars
  BY <1>1, QuietSteps
<1>2. CASE Break
  BY <1>2, BreakStep
<1>3. CASE Established \/ SendStop \/ HandleStop \/ UploadChunk
  BY <1>3, SendSteps
<1>4. CASE PassiveReceives \/ ActiveReceives
  BY <1>4, PassiveReads, ActiveReads
<1> QED
  BY <1>1, <1>2, <1>3, <1>4, Zenon DEF Next, PassiveSteps, ActiveSteps

LEMMA InitialStreams ==
  ASSUME Init
  PROVE  SInv /\ C!Init
<1>1. /\ \A n \in Nodes : /\ reader[n] = NewReader /\ wire[n] = <<>>
                          /\ sent[n] = <<>> /\ delivered[n] = <<>>
      /\ reader = [n \in Nodes |-> NewReader] /\ wire = [n \in Nodes |-> <<>>]
      /\ sent = [n \in Nodes |-> <<>>] /\ delivered = [n \in Nodes |-> <<>>]
      /\ closed = FALSE
  BY DEF Init
<1>2. NewReader \in Readers /\ NewReader.bytes = <<>>
      /\ NewReader.status = "WaitingForHeader"
  BY EmptySeq, Constants DEF NewReader, Readers
<1>3. /\ <<>> \in Seq(Messages) /\ <<>> \in Seq(AllUnits) /\ <<>> \in Seq(Nat)
      /\ Len(<<>>) = 0
  BY EmptySeq
<1>4. files \in [FileNames -> Files]
  <2>1. \A format \in Formats : NewFile(format) \in Files
    BY <1>3 DEF NewFile, Files
  <2>2. PICK format \in [FileNames -> Formats] :
          files = [f \in FileNames |-> NewFile(format[f])]
    BY DEF Init
  <2> QED
    BY <2>1, <2>2
<1>5. InvTypes
  <2>1. /\ pc = [active |-> "measuring", passive |-> "control"]
        /\ protocol \in {"TCP", "SCTP"} /\ position = 0
        /\ written = [f \in FileNames |-> 0] /\ got = [f \in FileNames |-> <<>>]
    BY DEF Init
  <2>2. /\ pc \in [Nodes -> PassiveAt \cup ActiveAt]
        /\ pc.passive \in PassiveAt /\ pc.active \in ActiveAt
    BY <2>1 DEF Nodes, PassiveAt, ActiveAt
  <2> QED
    BY <1>1, <1>2, <1>3, <1>4, <2>1, <2>2 DEF InvTypes
<1>6. ASSUME NEW n \in Nodes PROVE Stream(n)
  <2> DEFINE ends == [j \in 0..0 |-> 0]
  <2>1. OnWay(ends, <<>>, 0, 0, <<>>)
    <3>1. Len(<<>>) - 0 = 0
      BY <1>3
    <3>2. ends \in [0..0 -> Int] /\ ends[0] = 0 /\ \A j \in 0..0 : ends[j] <= ends[0]
      OBVIOUS
    <3> HIDE DEF ends
    <3>3. 0 + Len(<<>>) <= ends[0] /\ 1..0 = {}
      BY <1>3, <3>2
    <3> QED
      BY <3>1, <3>2, <3>3 DEF OnWay
  <2>2. 0 + Len(<<>>) = ends[Len(<<>>) - 0]
    BY <1>3
  <2> HIDE DEF ends
  <2>3. Reads(NewReader, <<>>, 0)
    BY <1>2 DEF Reads
  <2> QED
    BY <1>1, <1>2, <1>3, <2>1, <2>2, <2>3 DEF Stream
<1>7. InvPrefix
  BY <1>1, <1>3 DEF InvPrefix
<1>8. C!Init
  BY <1>1 DEF C!Init
<1> QED
  BY <1>5, <1>6, <1>7, <1>8 DEF SInv, InvStream

\* Nothing is missing on the way to either node: the reader of a node that may
\* still read has the beginning of the next message, and the rest of it and
\* the messages after it follow in their order.
THEOREM StreamsInvariant == Spec => []SInv
<1>1. Init => SInv
  BY InitialStreams
<1>2. SInv /\ [Next]_vars => SInv'
  BY EveryStepKept DEF Kept
<1> QED
  BY <1>1, <1>2, PTL DEF Spec

\* What receiveMessage() of both nodes promises (ImplementsChannel): each
\* message is received whole, once and in order, for every size of the header,
\* the buffer and the messages, and however the reads cut them.
THEOREM ChannelImplemented == Spec => ImplementsChannel
<1>1. Init => C!Init
  BY InitialStreams
<1>2. SInv /\ [Next]_vars => [C!Send \/ C!Deliver]_<<sent, delivered>>
  BY EveryStepKept DEF Kept
<1> QED
  BY <1>1, <1>2, StreamsInvariant, PTL DEF Spec, ImplementsChannel, C!Spec

-----------------------------------------------------------------------------
(* The conversation: what the messages to the active node say.             *)

Ended == pc.passive \in {"returned"} \cup FileNames \/ sent["active"] # <<>>

\* Nothing is missing in a file that is packed and has no error.
InvFiles ==
  /\ \A f \in FileNames :
       /\ files[f].open <=> files[f].format # "None"
       /\ ~files[f].open => files[f].rows = <<>>
       /\ files[f].packing => files[f].format = "BZip2"
       /\ pc.passive \in {"control", "Stop"} =>
            /\ files[f].packing <=> files[f].format = "BZip2"
            /\ ~files[f].writeError
       /\ Ended => ~files[f].packing
       /\ Len(files[f].rows) <= written[f]
       /\ /\ files[f].format = "BZip2" /\ ~files[f].writeError
          /\ ~(files[f].packing /\ files[f].failed)
          => Len(files[f].rows) = written[f]
  /\ pc.passive \in {"control", "Stop"} =>
       /\ sent["active"] = <<>>
       /\ written["scalar"] = 0 /\ files["scalar"].rows = <<>>

\* The active node has the beginnings of the files.
InvGot ==
  \A f \in FileNames :
    /\ Len(got[f]) <= Len(files[f].rows)
    /\ \A i \in 1..Len(got[f]) : got[f][i] = files[f].rows[i]

Success(fs) == \A f \in FileNames : ~fs[f].writeError

\* The file that follows a file.
After(f, fs) == IF f = "vector" /\ Exists(fs["scalar"]) THEN "scalar" ELSE "returned"

\* After the i-th of the messages s the passive node is at pos[i] in the file
\* at[i] of fs, and the next message has what it reads there.
Said(s, fs, at, pos) ==
  /\ at \in [1..Len(s) -> FileNames \cup {"returned"}] /\ pos \in [1..Len(s) -> Nat]
  /\ s # <<>> => /\ s[1].type = "Acknowledge" /\ (s[1].okay <=> Success(fs))
                 /\ at[1] = IF Success(fs) THEN FirstUpload(fs) ELSE "returned"
                 /\ pos[1] = 0
  /\ \A i \in 1..(Len(s) - 1) :
       /\ at[i] \in FileNames
       /\ s[i + 1].type = "Results"
       /\ s[i + 1].rows = Rows(fs[at[i]], pos[i])
       /\ s[i + 1].eof <=> AtEnd(fs[at[i]], pos[i])
       /\ at[i + 1] = IF AtEnd(fs[at[i]], pos[i]) THEN After(at[i], fs) ELSE at[i]
       /\ pos[i + 1] = IF AtEnd(fs[at[i]], pos[i]) THEN 0
                       ELSE pos[i] + Len(Rows(fs[at[i]], pos[i]))

\* Both nodes are where the messages have brought them.
Conversation(at, pos) ==
  /\ Said(sent["active"], files, at, pos)
  /\ ~closed /\ sent["active"] # <<>> =>
       /\ pc.passive = at[Len(sent["active"])]
       /\ position = pos[Len(sent["active"])]
  /\ pc.active \in FileNames => /\ at[Len(delivered["active"])] = pc.active
                                /\ pos[Len(delivered["active"])] = Len(got[pc.active])

InvConversation ==
  /\ \E at, pos : Conversation(at, pos)
  /\ pc.passive \in {"returned"} \cup FileNames /\ ~closed => sent["active"] # <<>>

\* What the active node has done so far.
InvActive ==
  /\ pc.active \in {"measuring", "acknowledge"} =>
       /\ delivered["active"] = <<>>
       /\ \A f \in FileNames : got[f] = <<>>
  /\ pc.active = "vector" => Wanted("vector") /\ got["scalar"] = <<>>
  /\ pc.active = "scalar" => Wanted("scalar") /\ got["vector"] = files["vector"].rows
  /\ pc.active = "done" => \A f \in FileNames : got[f] = files[f].rows
  /\ pc.active \in {"done"} \cup FileNames => delivered["active"] # <<>> /\ Success(files)

CInv == SInv /\ InvFiles /\ InvGot /\ InvConversation /\ InvActive

\* Steps that leave the files, what is sent to the active node, and what it
\* has had.
LEMMA OtherStep ==
  ASSUME CInv, files' = files, written' = written, got' = got,
         sent'["active"] = sent["active"],
         delivered'["active"] = delivered["active"], closed => closed',
         \/ pc'.active \in {pc.active, "failed"}
         \/ pc.active = "measuring" /\ pc'.active = "acknowledge",
         pc'.passive \in {"control", "Stop"} => pc.passive \in {"control", "Stop"},
         pc'.passive \in {"returned"} \cup FileNames =>
           pc.passive \in {"returned"} \cup FileNames,
         ~closed' /\ sent["active"] # <<>> =>
           pc'.passive = pc.passive /\ position' = position
  PROVE  InvFiles' /\ InvGot' /\ InvConversation' /\ InvActive'
<1>1. InvFiles'
  BY DEF CInv, InvFiles, Ended
<1>2. InvGot'
  BY DEF CInv, InvGot
<1>3. InvConversation'
  <2>1. PICK at, pos : Conversation(at, pos)
    BY DEF CInv, InvConversation
  <2>2. Conversation(at, pos)'
    <3>1. Said(sent'["active"], files', at, pos)
      BY <2>1 DEF Conversation
    <3>2. ~closed' /\ sent'["active"] # <<>> =>
            /\ pc'.passive = at[Len(sent'["active"])]
            /\ position' = pos[Len(sent'["active"])]
      BY <2>1 DEF Conversation
    <3>3. pc'.active \in FileNames =>
            /\ at[Len(delivered'["active"])] = pc'.active
            /\ pos[Len(delivered'["active"])] = Len(got'[pc'.active])
      BY <2>1 DEF Conversation, FileNames
    <3>4. Said(sent["active"], files, at, pos)'
      BY <3>1 DEF Said, Success, FirstUpload, After, Rows, AtEnd
    <3> QED
      BY <3>2, <3>3, <3>4 DEF Conversation
  <2> QED
    BY <2>2 DEF CInv, InvConversation
<1>4. InvActive'
  BY DEF CInv, InvActive, Wanted, Success, FileNames
<1> QED
  BY <1>1, <1>2, <1>3, <1>4

LEMMA OtherSteps ==
  ASSUME CInv,
         \/ Established \/ Break \/ UploadFails \/ PassiveReceives \/ PassiveLeaves
         \/ SendStop \/ SendStopFails \/ ActiveGivesUp \/ ActiveExits
         \/ UNCHANGED vars
  PROVE  InvFiles' /\ InvGot' /\ InvConversation' /\ InvActive'
<1>1. InvTypes /\ (pc.passive \in {"control", "Stop"} => sent["active"] = <<>>)
  BY DEF CInv, SInv, InvFiles
<1>2. /\ files' = files /\ written' = written /\ got' = got
      /\ delivered'["active"] = delivered["active"]
      /\ closed => closed'
  BY <1>1 DEF Established, Break, UploadFails, PassiveReceives, PassiveLeaves,
     SendStop, SendStopFails, ActiveGivesUp, ActiveExits, vars, Received, InvTypes,
     Nodes
<1>3. sent'["active"] = sent["active"]
  BY <1>1 DEF Established, Break, UploadFails, PassiveReceives, PassiveLeaves,
     SendStop, SendStopFails, ActiveGivesUp, ActiveExits, vars, Received, InvTypes,
     Nodes, PutOrLose, Put, transport
<1>4. /\ \/ pc'.active \in {pc.active, "failed"}
         \/ pc.active = "measuring" /\ pc'.active = "acknowledge"
      /\ pc'.passive \in {"control", "Stop"} => pc.passive \in {"control", "Stop"}
      /\ pc'.passive \in {"returned"} \cup FileNames =>
           pc.passive \in {"returned"} \cup FileNames
      /\ ~closed' /\ sent["active"] # <<>> =>
           pc'.passive = pc.passive /\ position' = position
  <2>1. CASE Established \/ Break \/ ActiveExits \/ UNCHANGED vars
    BY <2>1 DEF Established, Break, ActiveExits, vars
  <2>2. CASE SendStop \/ SendStopFails \/ ActiveGivesUp
    <3>1. PICK step \in ActiveAt : Goto("active", step)
            /\ step \in {"acknowledge", "failed"}
            /\ (step = "acknowledge" => pc.active = "measuring")
      BY <2>2 DEF SendStop, SendStopFails, ActiveGivesUp, ActiveAt
    <3>2. pc'.active = step /\ pc'.passive = pc.passive
      BY <1>1, <3>1, GotoActive
    <3>3. position' = position
      BY <2>2 DEF SendStop, SendStopFails, ActiveGivesUp
    <3> QED
      BY <3>1, <3>2, <3>3
  <2>3. CASE UploadFails
    <3>1. Goto("passive", NextUpload) /\ closed' = TRUE /\ pc.passive \in FileNames
      BY <2>3 DEF UploadFails
    <3>2. NextUpload \in {"scalar", "returned"} /\ NextUpload \in PassiveAt
      BY DEF NextUpload, PassiveAt, FileNames
    <3>3. pc'.passive = NextUpload /\ pc'.active = pc.active
      BY <1>1, <3>1, <3>2, GotoPassive
    <3> QED
      BY <3>1, <3>2, <3>3
  <2>4. CASE PassiveLeaves
    <3>1. Goto("passive", "gone") /\ closed' = closed /\ closed /\ "gone" \in PassiveAt
      BY <2>4 DEF PassiveLeaves, NothingComes, PassiveAt
    <3>2. pc'.passive = "gone" /\ pc'.active = pc.active
      BY <1>1, <3>1, GotoPassive
    <3> QED
      BY <3>1, <3>2 DEF FileNames
  <2>5. CASE PassiveReceives
    <3>1. PICK step \in {"gone", "Stop", "control"} : Goto("passive", step)
      BY <2>5 DEF PassiveReceives
    <3>2. step \in PassiveAt
      BY DEF PassiveAt
    <3>3. pc'.passive = step /\ pc'.active = pc.active
      BY <1>1, <3>1, <3>2, GotoPassive
    <3>4. pc.passive = "control" /\ sent["active"] = <<>>
      BY <1>1, <2>5 DEF PassiveReceives
    <3> QED
      BY <3>3, <3>4 DEF FileNames
  <2> QED
    BY <2>1, <2>2, <2>3, <2>4, <2>5
<1> QED
  BY <1>2, <1>3, <1>4, OtherStep
\* Nothing is sent to the active node while the files are written.
LEMMA BeforeTheEnd ==
  ASSUME CInv, sent["active"] = <<>>
  PROVE  pc.active \notin {"done"} \cup FileNames
<1>1. Len(delivered["active"]) <= Len(sent["active"]) /\ Len(sent["active"]) = 0
  BY EmptySeq DEF CInv, SInv, InvPrefix, Nodes
<1>2. delivered["active"] \in Seq(Messages)
  BY DEF CInv, SInv, InvTypes, Nodes
<1>3. delivered["active"] = <<>>
  BY <1>1, <1>2, LenProperties, EmptySeq
<1> QED
  BY <1>3 DEF CInv, InvActive

LEMMA NothingSaid ==
  ASSUME NEW fs
  PROVE  \E at, pos : Said(<<>>, fs, at, pos)
<1> DEFINE at == [i \in 1..0 |-> "returned"]
           pos == [i \in 1..0 |-> 0]
<1>1. Len(<<>>) = 0 /\ 1..0 = {} /\ 1..(0 - 1) = {}
  BY EmptySeq
<1>2. /\ at \in [1..0 -> FileNames \cup {"returned"}] /\ pos \in [1..0 -> Nat]
  OBVIOUS
<1> HIDE DEF at, pos
<1>3. Said(<<>>, fs, at, pos)
  BY <1>1, <1>2 DEF Said
<1> QED
  BY <1>3

LEMMA WriteRowStep ==
  ASSUME CInv, WriteRow
  PROVE  InvFiles' /\ InvGot' /\ InvConversation' /\ InvActive'
<1> DEFINE file == files["vector"]
           row == written["vector"] + 1
<1>1. InvTypes /\ file \in Files /\ written["vector"] \in Nat /\ row \in Nat
      /\ file.rows \in Seq(Nat)
  <2>1. InvTypes
    BY DEF CInv, SInv
  <2>2. /\ files \in [FileNames -> Files] /\ written \in [FileNames -> Nat]
        /\ "vector" \in FileNames
    BY <2>1 DEF InvTypes, FileNames
  <2>3. file \in Files /\ written["vector"] \in Nat
    BY <2>2
  <2>4. file.rows \in Seq(Nat)
    BY <2>3 DEF Files
  <2> QED
    BY <2>1, <2>3, <2>4
<1>2. PICK okay \in BOOLEAN :
        files' = [files EXCEPT !["vector"] = Write(file, row, okay)]
  BY Zenon DEF WriteRow
<1>3. /\ pc.passive = "control" /\ file.open
      /\ written' = [written EXCEPT !["vector"] = @ + 1]
      /\ UNCHANGED <<protocol, position, got, pc, reader, wire, closed, sent,
                     delivered>>
  BY DEF WriteRow, Exists
<1>4. sent["active"] = <<>> /\ pc.active \notin {"done"} \cup FileNames
  BY <1>3, BeforeTheEnd DEF CInv, InvFiles
<1>5. /\ files'["vector"] = Write(file, row, okay)
      /\ files'["scalar"] = files["scalar"]
      /\ written'["vector"] = row /\ written'["scalar"] = written["scalar"]
  BY <1>1, <1>2, <1>3 DEF InvTypes, FileNames
<1>6. /\ Append(file.rows, row) \in Seq(Nat)
      /\ Len(Append(file.rows, row)) = Len(file.rows) + 1
      /\ \A i \in 1..Len(file.rows) : Append(file.rows, row)[i] = file.rows[i]
      /\ Len(file.rows) \in Nat
  BY <1>1, AppendProperties, LenProperties
<1>7. \/ /\ files'["vector"] = [file EXCEPT !.rows = Append(@, row)]
         /\ ~(file.packing /\ file.failed)
      \/ files'["vector"] = [file EXCEPT !.failed = TRUE]
  BY <1>3, <1>5 DEF Write, Exists
<1>8. InvFiles'
  <2>1. /\ file.format # "None"
        /\ (file.packing => file.format = "BZip2")
        /\ (file.format = "BZip2" => file.packing)
        /\ ~file.writeError /\ Len(file.rows) <= written["vector"]
        /\ /\ file.format = "BZip2" /\ ~file.writeError
           /\ ~(file.packing /\ file.failed)
           => Len(file.rows) = written["vector"]
    <3>1. /\ file.open <=> file.format # "None"
          /\ file.packing => file.format = "BZip2"
          /\ pc.passive \in {"control", "Stop"} =>
               /\ file.packing <=> file.format = "BZip2"
               /\ ~file.writeError
          /\ Len(file.rows) <= written["vector"]
          /\ /\ file.format = "BZip2" /\ ~file.writeError
             /\ ~(file.packing /\ file.failed)
             => Len(file.rows) = written["vector"]
      <4>1. "vector" \in FileNames
        BY DEF FileNames
      <4> QED
        BY <4>1, Zenon DEF CInv, InvFiles
    <3>2. pc.passive \in {"control", "Stop"} /\ file.open
      BY <1>3
    <3> HIDE DEF file
    <3> QED
      BY <3>1, <3>2
  <2>2. ~Ended'
    BY <1>3, <1>4 DEF Ended, FileNames
  <2>3. LET f == files'["vector"] IN
        /\ f.open /\ f.format = file.format /\ ~f.writeError
        /\ f.packing <=> file.packing
        /\ Len(f.rows) <= row
        /\ f.format = "BZip2" /\ ~f.failed => Len(f.rows) = row
        /\ f.format = "BZip2" /\ f.failed => f.packing
    <3>1. CASE /\ files'["vector"] = [file EXCEPT !.rows = Append(@, row)]
               /\ ~(file.packing /\ file.failed)
      BY <1>1, <1>3, <1>6, <2>1, <3>1 DEF Files
    <3>2. CASE files'["vector"] = [file EXCEPT !.failed = TRUE]
      BY <1>1, <1>3, <1>6, <2>1, <3>2 DEF Files
    <3> QED
      BY <1>7, <3>1, <3>2
  <2>4. ASSUME NEW f \in FileNames
        PROVE  /\ files'[f].open <=> files'[f].format # "None"
               /\ ~files'[f].open => files'[f].rows = <<>>
               /\ files'[f].packing => files'[f].format = "BZip2"
               /\ files'[f].packing <=> files'[f].format = "BZip2"
               /\ ~files'[f].writeError
               /\ Len(files'[f].rows) <= written'[f]
               /\ /\ files'[f].format = "BZip2" /\ ~files'[f].writeError
                  /\ ~(files'[f].packing /\ files'[f].failed)
                  => Len(files'[f].rows) = written'[f]
    <3>1. CASE f = "vector"
      BY <1>5, <2>1, <2>3, <3>1
    <3>2. CASE f = "scalar"
      BY <1>3, <1>5, <3>2 DEF CInv, InvFiles, FileNames
    <3> QED
      BY <3>1, <3>2 DEF FileNames
  <2>5. /\ sent'["active"] = <<>>
        /\ written'["scalar"] = 0 /\ files'["scalar"].rows = <<>>
    BY <1>3, <1>4, <1>5 DEF CInv, InvFiles
  <2> QED
    BY <2>2, <2>4, <2>5 DEF InvFiles
<1>9. InvGot'
  <2>1. ASSUME NEW f \in FileNames
        PROVE  /\ Len(got[f]) <= Len(files'[f].rows)
               /\ \A i \in 1..Len(got[f]) : got[f][i] = files'[f].rows[i]
    <3>1. /\ Len(got[f]) <= Len(files[f].rows) /\ Len(got[f]) \in Nat
          /\ \A i \in 1..Len(got[f]) : got[f][i] = files[f].rows[i]
      BY <1>1, LenProperties DEF CInv, InvGot, InvTypes
    <3>2. CASE f = "scalar"
      BY <1>5, <3>1, <3>2
    <3>3. CASE f = "vector"
      <4>1. \A i \in 1..Len(got[f]) : i \in 1..Len(file.rows)
        BY <1>6, <3>1, <3>3
      <4>2. \/ files'[f].rows = Append(file.rows, row)
            \/ files'[f].rows = file.rows
        BY <1>1, <1>7, <3>3 DEF Files
      <4>3. \A i \in 1..Len(got[f]) : got[f][i] = file.rows[i]
        BY <3>1, <3>3
      <4>4. Len(got[f]) <= Len(file.rows)
        BY <3>1, <3>3
      <4> HIDE DEF file, row
      <4>5. CASE files'[f].rows = file.rows
        BY <4>3, <4>4, <4>5
      <4>6. CASE files'[f].rows = Append(file.rows, row)
        <5>1. Len(got[f]) <= Len(file.rows) + 1
          BY <1>6, <3>1, <4>4
        <5> QED
          BY <1>6, <4>1, <4>3, <4>6, <5>1
      <4> QED
        BY <4>2, <4>5, <4>6
    <3> QED
      BY <3>2, <3>3 DEF FileNames
  <2> QED
    BY <1>3, <2>1 DEF InvGot
<1>10. InvConversation'
  <2>1. PICK at, pos : Said(<<>>, files', at, pos)
    BY NothingSaid
  <2>2. Conversation(at, pos)'
    BY <1>3, <1>4, <2>1 DEF Conversation, Said, Success, FirstUpload, After, Rows,
       AtEnd
  <2> QED
    BY <1>3, <2>2 DEF InvConversation, FileNames
<1>11. InvActive'
  BY <1>3, <1>4 DEF CInv, InvActive, FileNames
<1> QED
  BY <1>8, <1>9, <1>10, <1>11

\* f is the file when it has been finished.
FinishOf(f, file) ==
  /\ f \in Files /\ f.open = file.open
  /\ f.format = file.format /\ f.rows = file.rows /\ f.packing = FALSE
  /\ f.writeError = (file.writeError \/ (file.packing /\ file.failed))

LEMMA FinishFacts ==
  ASSUME NEW file \in Files
  PROVE  FinishOf(Finish(file, FALSE), file)
<1> DEFINE f == Finish(file, FALSE)
<1>1. f \in Files
  BY FileTypes
<1>2. /\ f.open = file.open /\ f.format = file.format /\ f.rows = file.rows
      /\ f.packing = FALSE
      /\ f.writeError = (file.writeError \/ (file.packing /\ file.failed))
  BY DEF Finish, Files
<1> HIDE DEF f
<1>3. FinishOf(f, file)
  BY <1>1, <1>2 DEF FinishOf
<1> QED
  BY <1>3 DEF f

\* f is the empty scalar file after its one row has been written to it, or lost.
FirstOf(f, file) ==
  /\ f \in Files /\ f.open = file.open /\ f.format = file.format
  /\ f.writeError = file.writeError
  /\ file.open => Len(f.rows) <= 1
  /\ ~file.open => f.rows = <<>>
  /\ file.open /\ f.packing /\ ~f.failed => Len(f.rows) = 1
  /\ f.packing = file.packing

\* The scalar file has its one row, or it has an error if it is packed.
LEMMA WriteFirst ==
  ASSUME NEW file \in Files, file.rows = <<>>, NEW okay \in BOOLEAN
  PROVE  FirstOf(Write(file, 1, okay), file)
<1> DEFINE f == Write(file, 1, okay)
<1>1. Append(<<>>, 1) \in Seq(Nat) /\ Len(Append(<<>>, 1)) = 1 /\ Len(<<>>) = 0
  <2>1. <<>> \in Seq(Nat) /\ 1 \in Nat /\ Len(<<>>) = 0
    BY EmptySeq
  <2>2. Append(<<>>, 1) \in Seq(Nat) /\ Len(Append(<<>>, 1)) = 0 + 1
    BY <2>1, AppendProperties
  <2> QED
    BY <2>1, <2>2
<1>2. CASE ~file.open
  <2>1. f = file
    BY <1>2 DEF Write, Exists
  <2> HIDE DEF f
  <2>2. FirstOf(f, file)
    BY <1>2, <2>1 DEF FirstOf
  <2> QED
    BY <2>2 DEF f
<1>3. CASE file.open /\ okay /\ ~(file.packing /\ file.failed)
  <2>1. f = [file EXCEPT !.rows = Append(@, 1)]
    BY <1>3 DEF Write, Exists
  <2> HIDE DEF f
  <2>2. /\ f.open = file.open /\ f.format = file.format
        /\ f.writeError = file.writeError /\ f.packing = file.packing
        /\ f.rows = Append(<<>>, 1)
    BY <2>1 DEF Files
  <2>3. f \in Files
    BY <1>1, <2>1 DEF Files
  <2>4. Len(f.rows) = 1
    BY <1>1, <2>2
  <2>5. Len(f.rows) <= 1
    BY <2>4
  <2>6. FirstOf(f, file)
    BY <1>3, <2>2, <2>3, <2>4, <2>5, Zenon DEF FirstOf
  <2> QED
    BY <2>6 DEF f
<1>4. CASE file.open /\ ~(okay /\ ~(file.packing /\ file.failed))
  <2>1. f = [file EXCEPT !.failed = TRUE]
    BY <1>4 DEF Write, Exists
  <2> HIDE DEF f
  <2>2. /\ f.open = file.open /\ f.format = file.format /\ f.rows = <<>>
        /\ f.writeError = file.writeError /\ f.packing = file.packing
        /\ f.failed = TRUE
    BY <2>1 DEF Files
  <2>3. f \in Files
    BY <2>1 DEF Files
  <2>4. Len(f.rows) <= 1
    BY <1>1, <2>2
  <2>5. FirstOf(f, file)
    BY <1>4, <2>2, <2>3, <2>4, Zenon DEF FirstOf
  <2> QED
    BY <2>5 DEF f
<1> QED
  BY <1>2, <1>3, <1>4

LEMMA AcknowledgeFields ==
  ASSUME NEW okay \in BOOLEAN
  PROVE  Acknowledge(okay).type = "Acknowledge" /\ (Acknowledge(okay).okay <=> okay)
  BY DEF Acknowledge

LEMMA HandleStopStep ==
  ASSUME CInv, HandleStop
  PROVE  InvFiles' /\ InvGot' /\ InvConversation' /\ InvActive'
<1>1. /\ InvTypes /\ files["vector"] \in Files /\ files["scalar"] \in Files
      /\ "vector" \in FileNames /\ "scalar" \in FileNames
  BY DEF CInv, SInv, InvTypes, FileNames
<1>2. PICK okay \in BOOLEAN :
        /\ files' = [vector |-> Finish(files.vector, FALSE),
                     scalar |-> Finish(Write(files.scalar, 1, okay), FALSE)]
        /\ PutOrLose("active", Acknowledge(Success(files')))
        /\ Goto("passive", IF Success(files') THEN FirstUpload(files')
                           ELSE "returned")
  BY Zenon DEF HandleStop, Success
<1>3. /\ pc.passive = "Stop"
      /\ written' = [written EXCEPT !["scalar"] =
                       IF Exists(files["scalar"]) THEN 1 ELSE 0]
      /\ position' = 0 /\ UNCHANGED <<protocol, got, reader, closed, delivered>>
  BY DEF HandleStop
<1>4. /\ sent["active"] = <<>> /\ pc.active \notin {"done"} \cup FileNames
      /\ written["scalar"] = 0 /\ files["scalar"].rows = <<>>
  BY <1>3, BeforeTheEnd DEF CInv, InvFiles
<1> DEFINE first == IF Success(files') THEN FirstUpload(files') ELSE "returned"
           scalar == Write(files["scalar"], 1, okay)
<1>5. /\ files'["vector"] = Finish(files["vector"], FALSE)
      /\ files'["scalar"] = Finish(scalar, FALSE)
      /\ written'["vector"] = written["vector"]
      /\ written'["scalar"] = IF files["scalar"].open THEN 1 ELSE 0
  <2>1. /\ files'["vector"] = Finish(files["vector"], FALSE)
        /\ files'["scalar"] = Finish(scalar, FALSE)
    BY <1>2
  <2>2. /\ written'["vector"] = written["vector"]
        /\ written'["scalar"] = IF files["scalar"].open THEN 1 ELSE 0
    BY <1>1, <1>3 DEF InvTypes, FileNames, Exists
  <2> QED
    BY <2>1, <2>2
<1>6. first \in {"returned"} \cup FileNames /\ first \in PassiveAt
  BY DEF FirstUpload, PassiveAt, FileNames
<1> HIDE DEF first, scalar
<1>7. pc'.passive = first /\ pc'.active = pc.active
  <2>1. Goto("passive", first)
    BY <1>2 DEF first
  <2> QED
    BY <1>1, <1>6, <2>1, GotoPassive
<1>8. scalar \in Files
  BY <1>1, FileTypes DEF scalar
<1>9. ASSUME NEW f \in FileNames
      PROVE  /\ files[f].open <=> files[f].format # "None"
             /\ files[f].packing <=> files[f].format = "BZip2"
             /\ ~files[f].writeError
             /\ ~files[f].open => files[f].rows = <<>>
             /\ Len(files[f].rows) <= written[f]
             /\ /\ files[f].format = "BZip2" /\ ~files[f].writeError
                /\ ~(files[f].packing /\ files[f].failed)
                => Len(files[f].rows) = written[f]
  <2>1. pc.passive \in {"control", "Stop"}
    BY <1>3
  <2> QED
    BY <2>1, Zenon DEF CInv, InvFiles
<1>10. /\ FirstOf(scalar, files["scalar"])
       /\ FinishOf(files'["scalar"], scalar)
       /\ FinishOf(files'["vector"], files["vector"])
  <2>1. FirstOf(scalar, files["scalar"])
    BY <1>1, <1>4, WriteFirst, Zenon DEF scalar
  <2>2. FinishOf(files'["scalar"], scalar)
    BY <1>5, <1>8, FinishFacts
  <2>3. FinishOf(files'["vector"], files["vector"])
    BY <1>1, <1>5, FinishFacts
  <2> QED
    BY <2>1, <2>2, <2>3
<1>11. InvFiles'
  <2>1. ASSUME NEW f \in FileNames
        PROVE  /\ files'[f].open <=> files'[f].format # "None"
               /\ ~files'[f].open => files'[f].rows = <<>>
               /\ ~files'[f].packing
               /\ Len(files'[f].rows) <= written'[f]
               /\ files'[f].format = "BZip2" /\ ~files'[f].writeError
                  => Len(files'[f].rows) = written'[f]
    <3> DEFINE g == files'[f]
    <3>1. CASE f = "vector"
      <4> DEFINE h == files["vector"]
      <4>1. /\ h.open <=> h.format # "None"
            /\ h.packing <=> h.format = "BZip2"
            /\ ~h.open => h.rows = <<>>
            /\ Len(h.rows) <= written["vector"]
            /\ /\ h.format = "BZip2" /\ ~h.writeError
               /\ ~(h.packing /\ h.failed)
               => Len(h.rows) = written["vector"]
        BY <1>1, <1>9
      <4>2. FinishOf(g, h) /\ written'[f] = written["vector"]
        BY <1>5, <1>10, <3>1
      <4> HIDE DEF g, h
      <4>3. /\ g.open <=> g.format # "None"
            /\ ~g.open => g.rows = <<>>
            /\ ~g.packing
            /\ Len(g.rows) <= written'[f]
            /\ g.format = "BZip2" /\ ~g.writeError
               => Len(g.rows) = written'[f]
        BY <4>1, <4>2 DEF FinishOf
      <4> QED
        BY <4>3 DEF g
    <3>2. CASE f = "scalar"
      <4> DEFINE h == files["scalar"]
      <4>1. (h.open <=> h.format # "None") /\ (h.packing <=> h.format = "BZip2")
        BY <1>1, <1>9
      <4>2. /\ FinishOf(g, scalar) /\ FirstOf(scalar, h)
            /\ written'[f] = IF h.open THEN 1 ELSE 0
            /\ Len(<<>>) = 0
        BY <1>5, <1>10, <3>2, EmptySeq
      <4> HIDE DEF g, h
      <4>3. /\ g.open <=> g.format # "None"
            /\ ~g.open => g.rows = <<>>
            /\ ~g.packing
        BY <4>1, <4>2 DEF FinishOf, FirstOf
      <4>4. Len(g.rows) <= written'[f]
        BY <4>1, <4>2 DEF FinishOf, FirstOf
      <4>5. ASSUME g.format = "BZip2", ~g.writeError
            PROVE  Len(g.rows) = written'[f]
        <5>1. h.format = "BZip2" /\ h.open /\ h.packing
          BY <4>1, <4>2, <4>5 DEF FinishOf, FirstOf
        <5>2. scalar.packing /\ ~scalar.failed
          BY <4>2, <4>5, <5>1 DEF FinishOf, FirstOf
        <5> QED
          BY <4>2, <5>1, <5>2 DEF FinishOf, FirstOf
      <4> QED
        BY <4>3, <4>4, <4>5 DEF g
    <3> QED
      BY <3>1, <3>2 DEF FileNames
  <2>2. pc'.passive \notin {"control", "Stop"}
    BY <1>6, <1>7 DEF FileNames
  <2> QED
    BY <2>1, <2>2 DEF InvFiles
<1>12. InvGot'
  <2>1. ASSUME NEW f \in FileNames
        PROVE  /\ Len(got[f]) <= Len(files'[f].rows)
               /\ \A i \in 1..Len(got[f]) : got[f][i] = files'[f].rows[i]
    <3>1. /\ Len(got[f]) <= Len(files[f].rows) /\ Len(got[f]) \in Nat
          /\ \A i \in 1..Len(got[f]) : got[f][i] = files[f].rows[i]
      BY <1>1, LenProperties DEF CInv, InvGot, InvTypes
    <3>2. CASE f = "vector"
      BY <1>10, <3>1, <3>2 DEF FinishOf
    <3>3. CASE f = "scalar"
      <4>1. Len(got[f]) = 0 /\ 1..0 = {}
        BY <1>4, <3>1, <3>3, EmptySeq
      <4>2. Len(files'[f].rows) \in Nat
        <5>1. files'[f] \in Files
          BY <1>5, <1>8, <3>3, FileTypes
        <5> QED
          BY <5>1, LenProperties DEF Files
      <4> QED
        BY <4>1, <4>2
    <3> QED
      BY <3>2, <3>3 DEF FileNames
  <2> QED
    BY <1>3, <2>1 DEF InvGot
<1>13. InvConversation'
  <2>1. CASE closed
    <3>1. sent' = sent
      BY <1>2, <2>1 DEF PutOrLose, transport
    <3>2. PICK at, pos : Said(<<>>, files', at, pos)
      BY NothingSaid
    <3>3. Said(sent["active"], files, at, pos)'
      BY <1>4, <3>1, <3>2 DEF Said, Success, FirstUpload, After, Rows, AtEnd
    <3>4. Conversation(at, pos)'
      BY <1>3, <1>4, <1>7, <2>1, <3>3 DEF Conversation
    <3> QED
      BY <1>3, <2>1, <3>4 DEF InvConversation
  <2>2. CASE ~closed
    <3> DEFINE ok == Success(files')
               s == Append(<<>>, Acknowledge(ok))
    <3>1. sent'["active"] = s
      <4>1. sent' = [sent EXCEPT !["active"] = Append(@, Acknowledge(ok))]
        BY <1>2, <2>2 DEF PutOrLose, Put
      <4> QED
        BY <1>1, <1>4, <4>1 DEF InvTypes, Nodes
    <3>2. ok \in BOOLEAN
      BY DEF Success
    <3> HIDE DEF ok
    <3>3. /\ Acknowledge(ok).type = "Acknowledge" /\ (Acknowledge(ok).okay <=> ok)
          /\ Acknowledge(ok) \in Messages
      BY <3>2, AcknowledgeFields, MessagesSent, Zenon
    <3> DEFINE m == Acknowledge(ok)
    <3>4. Len(s) = 1 /\ s[1] = m /\ s # <<>>
      <4>1. <<>> \in Seq(Messages) /\ m \in Messages
        BY <3>3, EmptySeq
      <4>2. Len(<<>>) = 0 /\ 0 + 1 = 1
        BY EmptySeq
      <4> HIDE DEF m
      <4>3. Len(s) = Len(<<>>) + 1 /\ s[Len(<<>>) + 1] = m /\ s # <<>>
        BY <4>1, AppendProperties DEF m
      <4> QED
        BY <4>2, <4>3
    <3> HIDE DEF s, m
    <3>5. PICK at, pos :
            /\ at \in [1..1 -> FileNames \cup {"returned"}] /\ pos \in [1..1 -> Nat]
            /\ at[1] = first /\ pos[1] = 0 /\ 1..(1 - 1) = {}
      <4>1. /\ [i \in 1..1 |-> first] \in [1..1 -> FileNames \cup {"returned"}]
            /\ [i \in 1..1 |-> 0] \in [1..1 -> Nat]
            /\ [i \in 1..1 |-> first][1] = first /\ [i \in 1..1 |-> 0][1] = 0
            /\ 1..(1 - 1) = {}
        BY <1>6
      <4> QED
        BY <4>1, Zenon
    <3>6. m.type = "Acknowledge" /\ (m.okay <=> Success(files'))
      BY <3>3 DEF m, ok
    <3>7. Said(s, files', at, pos)
      BY <3>4, <3>5, <3>6 DEF Said, first
    <3>8. Said(sent'["active"], files', at, pos)
      BY <3>1, <3>7
    <3>9. Said(sent["active"], files, at, pos)'
      BY <3>8 DEF Said, Success, FirstUpload, After, Rows, AtEnd
    <3>10. /\ pc'.passive = at[Len(sent'["active"])]
           /\ position' = pos[Len(sent'["active"])]
      BY <1>3, <1>7, <3>1, <3>4, <3>5
    <3>11. pc'.active \notin FileNames
      BY <1>4, <1>7
    <3>12. Conversation(at, pos)'
      BY <3>9, <3>10, <3>11 DEF Conversation
    <3> QED
      BY <3>1, <3>4, <3>12 DEF InvConversation
  <2> QED
    BY <2>1, <2>2
<1>14. InvActive'
  BY <1>3, <1>4, <1>7 DEF CInv, InvActive, FileNames
<1> QED
  BY <1>11, <1>12, <1>13, <1>14
LEMMA ResultsFields ==
  ASSUME NEW rows, NEW eof \in BOOLEAN
  PROVE  /\ Results(rows, eof).type = "Results" /\ Results(rows, eof).rows = rows
         /\ Results(rows, eof).eof <=> eof
  BY DEF Results

\* at and pos go on for one more message.
SaidMore(s, m, fs, at, pos, a, p) ==
  \E at2, pos2 :
    /\ Said(Append(s, m), fs, at2, pos2)
    /\ \A i \in 1..Len(s) : at2[i] = at[i] /\ pos2[i] = pos[i]
    /\ at2[Len(s) + 1] = a /\ pos2[Len(s) + 1] = p

\* m is what the passive node sends at pos in its file f of fs.
IsChunk(m, f, fs, pos) ==
  m.type = "Results" /\ m.rows = Rows(fs[f], pos) /\ (m.eof <=> AtEnd(fs[f], pos))

LEMMA OneMore ==
  ASSUME NEW s \in Seq(Messages), s # <<>>, NEW m \in Messages, NEW fs,
         NEW at, NEW pos, Said(s, fs, at, pos), at[Len(s)] \in FileNames,
         IsChunk(m, at[Len(s)], fs, pos[Len(s)]),
         NEW a \in FileNames \cup {"returned"}, NEW p \in Nat,
         a = IF AtEnd(fs[at[Len(s)]], pos[Len(s)]) THEN After(at[Len(s)], fs)
             ELSE at[Len(s)],
         p = IF AtEnd(fs[at[Len(s)]], pos[Len(s)]) THEN 0
             ELSE pos[Len(s)] + Len(Rows(fs[at[Len(s)]], pos[Len(s)]))
  PROVE  SaidMore(s, m, fs, at, pos, a, p)
<1> DEFINE n == Len(s)
           t == Append(s, m)
           at2 == [i \in 1..(n + 1) |-> IF i <= n THEN at[i] ELSE a]
           pos2 == [i \in 1..(n + 1) |-> IF i <= n THEN pos[i] ELSE p]
<1>1. n \in Nat /\ n >= 1
  BY LenProperties, EmptySeq
<1>2. /\ t \in Seq(Messages) /\ Len(t) = n + 1 /\ t[n + 1] = m
      /\ \A i \in 1..n : t[i] = s[i]
  BY AppendProperties
<1>3. t # <<>>
  BY <1>1, <1>2, EmptySeq
<1> HIDE DEF n, t
<1>4. /\ at \in [1..n -> FileNames \cup {"returned"}] /\ pos \in [1..n -> Nat]
      /\ s[1].type = "Acknowledge" /\ (s[1].okay <=> Success(fs))
      /\ at[1] = IF Success(fs) THEN FirstUpload(fs) ELSE "returned"
      /\ pos[1] = 0
  BY DEF Said, n
<1>5. \A i \in 1..(n - 1) :
        /\ at[i] \in FileNames
        /\ s[i + 1].type = "Results"
        /\ s[i + 1].rows = Rows(fs[at[i]], pos[i])
        /\ s[i + 1].eof <=> AtEnd(fs[at[i]], pos[i])
        /\ at[i + 1] = IF AtEnd(fs[at[i]], pos[i]) THEN After(at[i], fs) ELSE at[i]
        /\ pos[i + 1] = IF AtEnd(fs[at[i]], pos[i]) THEN 0
                        ELSE pos[i] + Len(Rows(fs[at[i]], pos[i]))
  BY DEF Said, n
<1>6. /\ \A i \in 1..n : at2[i] = at[i] /\ pos2[i] = pos[i]
      /\ at2[n + 1] = a /\ pos2[n + 1] = p
  BY <1>1
<1>7. /\ at2 \in [1..(n + 1) -> FileNames \cup {"returned"}]
      /\ pos2 \in [1..(n + 1) -> Nat]
  BY <1>1, <1>4
<1> HIDE DEF at2, pos2
<1>8. 1 \in 1..n
  BY <1>1
<1>9. ASSUME NEW i \in 1..n
      PROVE  /\ at2[i] \in FileNames
             /\ t[i + 1].type = "Results"
             /\ t[i + 1].rows = Rows(fs[at2[i]], pos2[i])
             /\ t[i + 1].eof <=> AtEnd(fs[at2[i]], pos2[i])
             /\ at2[i + 1] = IF AtEnd(fs[at2[i]], pos2[i]) THEN After(at2[i], fs)
                             ELSE at2[i]
             /\ pos2[i + 1] = IF AtEnd(fs[at2[i]], pos2[i]) THEN 0
                              ELSE pos2[i] + Len(Rows(fs[at2[i]], pos2[i]))
  <2>1. at2[i] = at[i] /\ pos2[i] = pos[i]
    BY <1>6
  <2>2. CASE i = n
    <3>1. /\ at[i] \in FileNames /\ IsChunk(m, at[i], fs, pos[i])
          /\ t[i + 1] = m /\ at2[i + 1] = a /\ pos2[i + 1] = p
      BY <1>2, <1>6, <2>2 DEF n
    <3>2. /\ a = IF AtEnd(fs[at[i]], pos[i]) THEN After(at[i], fs) ELSE at[i]
          /\ p = IF AtEnd(fs[at[i]], pos[i]) THEN 0
                 ELSE pos[i] + Len(Rows(fs[at[i]], pos[i]))
      BY <2>2 DEF n
    <3> QED
      BY <2>1, <3>1, <3>2, Zenon DEF IsChunk
  <2>3. CASE i # n
    <3>1. i \in 1..(n - 1) /\ i + 1 \in 1..n
      BY <1>1, <2>3
    <3>2. t[i + 1] = s[i + 1] /\ at2[i + 1] = at[i + 1] /\ pos2[i + 1] = pos[i + 1]
      BY <1>2, <1>6, <3>1
    <3> QED
      BY <1>5, <2>1, <3>1, <3>2
  <2> QED
    BY <2>2, <2>3
<1>10. Said(t, fs, at2, pos2)
  <2>1. t[1] = s[1] /\ at2[1] = at[1] /\ pos2[1] = pos[1]
    BY <1>2, <1>6, <1>8
  <2>2. Len(t) - 1 = n
    BY <1>1, <1>2
  <2>3. /\ t # <<>> => /\ t[1].type = "Acknowledge" /\ (t[1].okay <=> Success(fs))
                       /\ at2[1] = IF Success(fs) THEN FirstUpload(fs) ELSE "returned"
                       /\ pos2[1] = 0
        /\ at2 \in [1..Len(t) -> FileNames \cup {"returned"}]
        /\ pos2 \in [1..Len(t) -> Nat]
    BY <1>2, <1>4, <1>7, <2>1
  <2> QED
    BY <1>9, <2>2, <2>3 DEF Said
<1>11. /\ \A i \in 1..Len(s) : at2[i] = at[i] /\ pos2[i] = pos[i]
       /\ at2[Len(s) + 1] = a /\ pos2[Len(s) + 1] = p
       /\ Said(Append(s, m), fs, at2, pos2)
  BY <1>6, <1>10 DEF n, t
<1> QED
  BY <1>11, Zenon DEF SaidMore
LEMMA UploadChunkStep ==
  ASSUME CInv, UploadChunk
  PROVE  InvFiles' /\ InvGot' /\ InvConversation' /\ InvActive'
<1> DEFINE f == pc.passive
           file == files[f]
           eof == AtEnd(file, position)
           m == Results(Rows(file, position), eof)
           a == IF eof THEN After(f, files) ELSE f
           p == IF eof THEN 0 ELSE position + Len(Rows(file, position))
           s == sent["active"]
<1>1. /\ InvTypes /\ f \in FileNames /\ file \in Files /\ position \in Nat
      /\ s \in Seq(Messages) /\ eof \in BOOLEAN
  BY DEF CInv, SInv, InvTypes, UploadChunk, Nodes, AtEnd
<1>2. /\ PutOrLose("active", m) /\ Goto("passive", a) /\ position' = p
      /\ UNCHANGED <<protocol, files, written, got, reader, closed, delivered>>
  BY DEF UploadChunk, Rows, After, NextUpload
<1>3. a \in {"returned"} \cup FileNames /\ a \in PassiveAt /\ p \in Nat
  <2>1. Len(Rows(file, position)) \in Nat
    BY <1>1, RowsRead, LenProperties
  <2> QED
    BY <1>1, <2>1 DEF After, PassiveAt, FileNames
<1> HIDE DEF a, p
<1>4. pc'.passive = a /\ pc'.active = pc.active
  BY <1>1, <1>2, <1>3, GotoPassive
<1>5. CASE closed
  <2>1. sent'["active"] = sent["active"]
    BY <1>2, <1>5 DEF PutOrLose, transport
  <2>2. pc'.passive \notin {"control", "Stop"}
    BY <1>3, <1>4 DEF FileNames
  <2>3. /\ files' = files /\ written' = written /\ got' = got
        /\ delivered'["active"] = delivered["active"] /\ closed' = closed
    BY <1>2
  <2> QED
    BY <1>1, <1>4, <1>5, <2>1, <2>2, <2>3, OtherStep
<1>6. CASE ~closed
  <2>1. s # <<>>
    BY <1>1, <1>6 DEF CInv, InvConversation
  <2>2. PICK at, pos : Conversation(at, pos)
    BY DEF CInv, InvConversation
  <2>3. /\ Said(s, files, at, pos) /\ f = at[Len(s)] /\ position = pos[Len(s)]
    BY <1>6, <2>1, <2>2 DEF Conversation
  <2>4. m \in Messages /\ IsChunk(m, f, files, position)
    <3>1. /\ m.type = "Results" /\ m.rows = Rows(file, position)
          /\ (m.eof <=> eof)
      BY <1>1, ResultsFields, Zenon
    <3>2. m \in Messages
      BY <1>1, MessagesSent
    <3> QED
      BY <3>1, <3>2 DEF IsChunk
  <2> HIDE DEF m
  <2>5. SaidMore(s, m, files, at, pos, a, p)
    <3>1. /\ a = IF AtEnd(files[at[Len(s)]], pos[Len(s)])
                 THEN After(at[Len(s)], files) ELSE at[Len(s)]
          /\ p = IF AtEnd(files[at[Len(s)]], pos[Len(s)]) THEN 0
                 ELSE pos[Len(s)] + Len(Rows(files[at[Len(s)]], pos[Len(s)]))
      BY <2>3 DEF a, p
    <3>2. at[Len(s)] \in FileNames /\ IsChunk(m, at[Len(s)], files, pos[Len(s)])
      BY <1>1, <2>3, <2>4
    <3> HIDE DEF s, f
    <3> QED
      BY <1>1, <1>3, <2>1, <2>3, <2>4, <3>1, <3>2, OneMore
  <2>6. PICK at2, pos2 :
          /\ Said(Append(s, m), files, at2, pos2)
          /\ \A i \in 1..Len(s) : at2[i] = at[i] /\ pos2[i] = pos[i]
          /\ at2[Len(s) + 1] = a /\ pos2[Len(s) + 1] = p
    BY <2>5 DEF SaidMore
  <2>7. sent'["active"] = Append(s, m)
    BY <1>1, <1>2, <1>6 DEF PutOrLose, Put, InvTypes, Nodes
  <2>8. Len(Append(s, m)) = Len(s) + 1 /\ Append(s, m) # <<>> /\ Len(s) \in Nat
    BY <1>1, <2>4, AppendProperties, LenProperties
  <2>9. Said(sent["active"], files, at2, pos2)'
    <3>1. Said(sent'["active"], files', at2, pos2)
      BY <1>2, <2>6, <2>7
    <3> QED
      BY <3>1 DEF Said, Success, FirstUpload, After, Rows, AtEnd
  <2>10. /\ pc'.passive = at2[Len(sent'["active"])]
         /\ position' = pos2[Len(sent'["active"])]
    BY <1>2, <1>4, <2>6, <2>7, <2>8
  <2>11. ASSUME pc'.active \in FileNames
         PROVE  /\ at2[Len(delivered'["active"])] = pc'.active
                /\ pos2[Len(delivered'["active"])] = Len(got'[pc'.active])
    <3>1. pc.active \in FileNames /\ delivered'["active"] = delivered["active"]
          /\ got' = got
      BY <1>2, <1>4, <2>11
    <3>2. /\ at[Len(delivered["active"])] = pc.active
          /\ pos[Len(delivered["active"])] = Len(got[pc.active])
      BY <2>2, <3>1 DEF Conversation
    <3>3. Len(delivered["active"]) \in 1..Len(s)
      <4>1. delivered["active"] \in Seq(Messages) /\ delivered["active"] # <<>>
        BY <1>1, <3>1 DEF CInv, InvActive, InvTypes, Nodes
      <4>2. Len(delivered["active"]) <= Len(s)
        BY DEF CInv, SInv, InvPrefix, Nodes
      <4>3. Len(delivered["active"]) \in Nat \ {0}
        BY <4>1, LenProperties, EmptySeq
      <4> QED
        BY <2>8, <4>2, <4>3
    <3> QED
      BY <1>4, <2>6, <3>1, <3>2, <3>3
  <2>12. InvConversation'
    <3>1. Conversation(at2, pos2)'
      BY <2>9, <2>10, <2>11 DEF Conversation
    <3> QED
      BY <2>7, <2>8, <3>1 DEF InvConversation
  <2>13. InvFiles'
    <3>1. Ended /\ files' = files /\ written' = written
      BY <1>1, <1>2 DEF Ended
    <3>2. pc'.passive \notin {"control", "Stop"}
      BY <1>3, <1>4 DEF FileNames
    <3> QED
      BY <3>1, <3>2 DEF CInv, InvFiles
  <2>14. InvGot'
    BY <1>2 DEF CInv, InvGot
  <2>15. InvActive'
    BY <1>2, <1>4 DEF CInv, InvActive, Wanted, Success, FileNames
  <2> QED
    BY <2>12, <2>13, <2>14, <2>15
<1> QED
  BY <1>5, <1>6
\* h is what the active node has of the file after one more read.
GotOf(h, g, file) ==
  /\ Len(h) = Len(g) + Len(Rows(file, Len(g))) /\ Len(h) <= Len(file.rows)
  /\ \A i \in 1..Len(h) : h[i] = file.rows[i]
  /\ AtEnd(file, Len(g)) => h = file.rows

LEMMA GotMore ==
  ASSUME NEW file \in Files, NEW g \in Seq(Nat), Len(g) <= Len(file.rows),
         \A i \in 1..Len(g) : g[i] = file.rows[i]
  PROVE  GotOf(g \o Rows(file, Len(g)), g, file)
<1> DEFINE n == Len(g)
           r == Rows(file, n)
           h == g \o r
           size == Len(file.rows)
<1>1. n \in Nat /\ size \in Nat /\ file.rows \in Seq(Nat) /\ n <= size
  BY LenProperties DEF Files
<1>2. /\ r \in Seq(Nat) /\ Len(r) \in Nat
      /\ \A i \in 1..Len(r) : r[i] = file.rows[n + i]
      /\ n + Len(r) <= size
      /\ AtEnd(file, n) => n + Len(r) = size
  BY <1>1, RowsRead, LenProperties
<1> HIDE DEF n, r, size
<1>3. /\ h \in Seq(Nat) /\ Len(h) = n + Len(r)
      /\ \A i \in 1..(n + Len(r)) : h[i] = IF i <= n THEN g[i] ELSE r[i - n]
  BY <1>2, ConcatProperties DEF n
<1> HIDE DEF h
<1>4. ASSUME NEW i \in 1..Len(h)
      PROVE  h[i] = file.rows[i]
  <2>1. CASE i <= n
    <3>1. i \in 1..n
      BY <1>1, <2>1
    <3> QED
      BY <1>3, <2>1, <3>1 DEF n
  <2>2. CASE i > n
    <3>1. i - n \in 1..Len(r) /\ n + (i - n) = i /\ ~(i <= n) /\ i \in 1..(n + Len(r))
      BY <1>1, <1>2, <1>3, <2>2
    <3>2. h[i] = r[i - n]
      BY <1>3, <3>1
    <3>3. r[i - n] = file.rows[n + (i - n)]
      BY <1>2, <3>1
    <3> QED
      BY <3>1, <3>2, <3>3
  <2> QED
    BY <1>1, <2>1, <2>2
<1>5. Len(h) <= size
  BY <1>2, <1>3
<1>6. ASSUME AtEnd(file, n) PROVE h = file.rows
  <2>1. Len(h) = Len(file.rows)
    BY <1>2, <1>3, <1>6 DEF size
  <2> QED
    BY <1>1, <1>3, <1>4, <2>1, SeqEqual
<1>7. GotOf(h, g, file)
  BY <1>3, <1>4, <1>5, <1>6 DEF GotOf, n, r, size
<1> QED
  BY <1>7 DEF h, n, r

\* The active node goes to the file that the passive node goes to.
LEMMA NextFile ==
  ASSUME InvFiles
  PROVE  /\ pc.active = "acknowledge" =>
              NextDownload = IF FirstUpload(files) = "returned" THEN "done"
                             ELSE FirstUpload(files)
         /\ pc.active \in FileNames =>
              NextDownload = IF After(pc.active, files) = "returned" THEN "done"
                             ELSE After(pc.active, files)
<1>1. /\ files.vector.open <=> files.vector.format # "None"
      /\ files.scalar.open <=> files.scalar.format # "None"
  BY DEF InvFiles, FileNames
<1> QED
  BY <1>1 DEF NextDownload, FirstUpload, After, Wanted, Exists, FileNames

\* What a step of the active node leaves alone.
LEMMA GetsSame ==
  ASSUME CInv, ActiveGets
  PROVE  /\ InvFiles'
         /\ \A at, pos : Conversation(at, pos) =>
              /\ Said(sent["active"], files, at, pos)'
              /\ ~closed' /\ sent'["active"] # <<>> =>
                   /\ pc'.passive = at[Len(sent'["active"])]
                   /\ position' = pos[Len(sent'["active"])]
         /\ pc'.passive \in {"returned"} \cup FileNames /\ ~closed'
            => sent'["active"] # <<>>
<1>1. /\ UNCHANGED <<protocol, files, written, position, sent, closed>>
      /\ pc'.passive = pc.passive
  BY DEF ActiveGets
<1>2. InvFiles'
  BY <1>1 DEF CInv, InvFiles, Ended
<1>3. ASSUME NEW at, NEW pos, Conversation(at, pos)
      PROVE  /\ Said(sent["active"], files, at, pos)'
             /\ ~closed' /\ sent'["active"] # <<>> =>
                  /\ pc'.passive = at[Len(sent'["active"])]
                  /\ position' = pos[Len(sent'["active"])]
  <2>1. Said(sent["active"], files, at, pos)
    BY <1>3 DEF Conversation
  <2>2. Said(sent["active"], files, at, pos)'
    <3>1. Said(sent'["active"], files', at, pos)
      BY <1>1, <2>1
    <3> QED
      BY <3>1 DEF Said, Success, FirstUpload, After, Rows, AtEnd
  <2>3. ~closed' /\ sent'["active"] # <<>> =>
          /\ pc'.passive = at[Len(sent'["active"])]
          /\ position' = pos[Len(sent'["active"])]
    BY <1>1, <1>3 DEF Conversation
  <2> QED
    BY <2>2, <2>3
<1>4. pc'.passive \in {"returned"} \cup FileNames /\ ~closed' => sent'["active"] # <<>>
  BY <1>1 DEF CInv, InvConversation
<1> QED
  BY <1>2, <1>3, <1>4
LEMMA AcknowledgeStep ==
  ASSUME CInv, ActiveGets, pc.active = "acknowledge",
         delivered'["active"] = Append(delivered["active"],
                                  sent["active"][Len(delivered["active"]) + 1]),
         Len(delivered["active"]) < Len(sent["active"]),
         pc'.active = AfterAcknowledge(sent["active"][Len(delivered["active"]) + 1]),
         got' = got
  PROVE  InvGot' /\ InvConversation' /\ InvActive'
<1> DEFINE s == sent["active"]
           msg == s[Len(delivered["active"]) + 1]
<1>1. /\ InvTypes /\ InvFiles /\ files' = files
      /\ \A f \in FileNames : got[f] = <<>>
      /\ delivered["active"] = <<>> /\ s \in Seq(Messages)
  BY DEF CInv, SInv, InvTypes, InvActive, ActiveGets, Nodes
<1>2. /\ Len(<<>>) = 0 /\ 0 + 1 = 1 /\ msg = s[1] /\ Len(s) > 0 /\ s # <<>>
  BY <1>1, EmptySeq
<1>3. Len(delivered'["active"]) = 1 /\ delivered'["active"] # <<>>
  <2>1. msg \in Messages
    <3>1. 1 \in 1..Len(s)
      BY <1>1, <1>2, LenProperties
    <3> QED
      BY <1>1, <1>2, <3>1, ElementOfSeq
  <2> HIDE DEF msg
  <2>2. <<>> \in Seq(Messages) /\ delivered'["active"] = Append(<<>>, msg)
    BY <1>1, EmptySeq DEF msg
  <2> QED
    BY <1>2, <2>1, <2>2, AppendProperties
<1>4. PICK at, pos : Conversation(at, pos)
  BY DEF CInv, InvConversation
<1>5. /\ s[1].type = "Acknowledge" /\ (s[1].okay <=> Success(files))
      /\ at[1] = IF Success(files) THEN FirstUpload(files) ELSE "returned"
      /\ pos[1] = 0
  BY <1>2, <1>4 DEF Conversation, Said
<1> DEFINE first == FirstUpload(files)
<1>6. pc'.active = IF Success(files)
                   THEN IF first = "returned" THEN "done" ELSE first
                   ELSE "failed"
  <2>1. pc'.active = IF Success(files) THEN NextDownload ELSE "failed"
    BY <1>2, <1>5 DEF AfterAcknowledge
  <2> QED
    BY <1>1, <2>1, NextFile
<1>7. InvGot'
  BY <1>1 DEF CInv, InvGot
<1>8. InvConversation'
  <2>1. Conversation(at, pos)'
    <3>1. ASSUME pc'.active \in FileNames
          PROVE  /\ at[Len(delivered'["active"])] = pc'.active
                 /\ pos[Len(delivered'["active"])] = Len(got'[pc'.active])
      <4>1. Success(files) /\ first = pc'.active
        BY <1>6, <3>1 DEF FileNames
      <4>2. got'[pc'.active] = <<>>
        BY <1>1, <3>1
      <4> QED
        BY <1>2, <1>3, <1>5, <4>1, <4>2
    <3> QED
      BY <1>4, <3>1, GetsSame DEF Conversation
  <2> QED
    BY <2>1, GetsSame DEF InvConversation
<1>9. InvActive'
  <2>1. \A f \in FileNames :
          /\ files[f].open <=> files[f].format # "None"
          /\ ~files[f].open => files[f].rows = <<>>
    BY <1>1 DEF InvFiles
  <2>2. /\ first = "vector" => Wanted("vector")
        /\ first = "scalar" => Wanted("scalar") /\ files["vector"].rows = <<>>
        /\ first = "returned" => \A f \in FileNames : files[f].rows = <<>>
        /\ first \in {"returned"} \cup FileNames
    BY <2>1 DEF FirstUpload, Wanted, Exists, FileNames
  <2>3. pc'.active \in {"done"} \cup FileNames => Success(files')
    BY <1>1, <1>6 DEF FileNames
  <2> HIDE DEF first
  <2>4. /\ pc'.active \notin {"measuring", "acknowledge"}
        /\ pc'.active = "vector" => first = "vector"
        /\ pc'.active = "scalar" => first = "scalar"
        /\ pc'.active = "done" => first = "returned"
    BY <1>6, <2>2 DEF FileNames
  <2> QED
    BY <1>1, <1>3, <2>2, <2>3, <2>4 DEF InvActive, Wanted, Success, FileNames
<1> QED
  BY <1>7, <1>8, <1>9
LEMMA ResultsStep ==
  ASSUME CInv, ActiveGets, pc.active \in FileNames, NEW okay \in BOOLEAN,
         delivered'["active"] = Append(delivered["active"],
                                  sent["active"][Len(delivered["active"]) + 1]),
         Len(delivered["active"]) < Len(sent["active"]),
         pc'.active = AfterResults(sent["active"][Len(delivered["active"]) + 1], okay),
         got' = IF pc'.active = "failed" THEN got
                ELSE [got EXCEPT ![pc.active] =
                        @ \o sent["active"][Len(delivered["active"]) + 1].rows]
  PROVE  InvGot' /\ InvConversation' /\ InvActive'
<1> DEFINE s == sent["active"]
           d == Len(delivered["active"])
           msg == s[d + 1]
           f == pc.active
           g == got[f]
           file == files[f]
           eof == AtEnd(file, Len(g))
           next == IF eof THEN After(f, files) ELSE f
<1>1. /\ InvTypes /\ InvFiles /\ files' = files /\ file \in Files
      /\ g \in Seq(Nat) /\ s \in Seq(Messages)
      /\ delivered["active"] \in Seq(Messages) /\ delivered["active"] # <<>>
  BY DEF CInv, SInv, InvTypes, InvActive, ActiveGets, Nodes
<1>2. d \in 1..(Len(s) - 1) /\ d \in Nat /\ d + 1 \in 1..Len(s)
  <2>1. d \in Nat \ {0} /\ Len(s) \in Nat
    BY <1>1, LenProperties, EmptySeq
  <2> HIDE DEF d
  <2>2. d < Len(s)
    BY DEF d
  <2> QED
    BY <2>1, <2>2
<1>3. msg \in Messages
  BY <1>1, <1>2, ElementOfSeq
<1>4. PICK at, pos : Conversation(at, pos)
  BY DEF CInv, InvConversation
<1>5. at[d] = f /\ pos[d] = Len(g)
  BY <1>4 DEF Conversation
<1>6. /\ msg.type = "Results" /\ msg.rows = Rows(file, Len(g)) /\ (msg.eof <=> eof)
      /\ at[d + 1] = next
      /\ pos[d + 1] = IF eof THEN 0 ELSE Len(g) + Len(Rows(file, Len(g)))
  <2>1. /\ s[d + 1].type = "Results"
        /\ s[d + 1].rows = Rows(files[at[d]], pos[d])
        /\ s[d + 1].eof <=> AtEnd(files[at[d]], pos[d])
        /\ at[d + 1] = IF AtEnd(files[at[d]], pos[d]) THEN After(at[d], files) ELSE at[d]
        /\ pos[d + 1] = IF AtEnd(files[at[d]], pos[d]) THEN 0
                        ELSE pos[d] + Len(Rows(files[at[d]], pos[d]))
    BY <1>2, <1>4 DEF Conversation, Said
  <2> QED
    BY <1>5, <2>1
<1> DEFINE h == g \o Rows(file, Len(g))
<1>7. GotOf(h, g, file)
  BY <1>1, GotMore DEF CInv, InvGot
<1> HIDE DEF msg, d, s
<1>8. delivered'["active"] # <<>> /\ Len(delivered'["active"]) = d + 1
  <2>1. delivered'["active"] = Append(delivered["active"], msg)
    BY DEF msg, d, s
  <2> QED
    BY <1>1, <1>3, <2>1, AppendProperties DEF d
<1>9. pc'.active = IF ~okay THEN "failed" ELSE IF eof THEN NextDownload ELSE f
  <2>1. pc'.active = AfterResults(msg, okay)
    BY DEF msg, d, s
  <2> QED
    BY <1>6, <2>1 DEF AfterResults
<1>10. pc'.active = IF ~okay THEN "failed"
                    ELSE IF next = "returned" THEN "done" ELSE next
  BY <1>1, <1>9, NextFile DEF FileNames
<1>11. pc'.active = "failed" \/ okay
  BY <1>10
<1>12. got' = IF pc'.active = "failed" THEN got ELSE [got EXCEPT ![f] = h]
  <2>1. got' = IF pc'.active = "failed" THEN got
               ELSE [got EXCEPT ![pc.active] = @ \o msg.rows]
    BY DEF msg, d, s
  <2> QED
    BY <1>6, <2>1
<1>13. InvGot'
  <2>1. ASSUME NEW n \in FileNames
        PROVE  /\ Len(got'[n]) <= Len(files[n].rows)
               /\ \A i \in 1..Len(got'[n]) : got'[n][i] = files[n].rows[i]
    <3>1. CASE got'[n] = got[n]
      BY <3>1 DEF CInv, InvGot
    <3>2. CASE n = f /\ got'[n] = h
      BY <1>7, <3>2, Zenon DEF GotOf
    <3>3. \/ got'[n] = got[n]
          \/ n = f /\ got'[n] = h
      <4> HIDE DEF h
      <4> QED
        BY <1>1, <1>12 DEF InvTypes
    <3> QED
      BY <3>1, <3>2, <3>3
  <2>2. files' = files
    BY <1>1
  <2> HIDE DEF f, g, file, eof, next, h
  <2>3. \A n \in FileNames :
          /\ Len(got'[n]) <= Len(files'[n].rows)
          /\ \A i \in 1..Len(got'[n]) : got'[n][i] = files'[n].rows[i]
    <3>1. ASSUME NEW n \in FileNames
          PROVE  /\ Len(got'[n]) <= Len(files'[n].rows)
                 /\ \A i \in 1..Len(got'[n]) : got'[n][i] = files'[n].rows[i]
      <4>1. files'[n] = files[n]
        BY <2>2
      <4>2. /\ Len(got'[n]) <= Len(files[n].rows)
            /\ \A i \in 1..Len(got'[n]) : got'[n][i] = files[n].rows[i]
        BY <2>1, Zenon
      <4> QED
        BY <4>1, <4>2, Zenon
    <3> QED
      BY <3>1, Zenon
  <2> QED
    BY <2>3 DEF InvGot
<1>14. InvConversation'
  <2>1. Conversation(at, pos)'
    <3>1. ASSUME pc'.active \in FileNames
          PROVE  /\ at[Len(delivered'["active"])] = pc'.active
                 /\ pos[Len(delivered'["active"])] = Len(got'[pc'.active])
      <4>1. next = pc'.active /\ pc'.active # "failed"
        BY <1>10, <3>1 DEF FileNames
      <4>2. at[Len(delivered'["active"])] = pc'.active
        BY <1>6, <1>8, <4>1
      <4>3. CASE ~eof
        <5>1. pc'.active = f
          BY <4>1, <4>3
        <5>2. got'[f] = h
          <6> HIDE DEF h
          <6> QED
            BY <1>1, <1>12, <4>1 DEF InvTypes
        <5>3. Len(h) = Len(g) + Len(Rows(file, Len(g)))
          BY <1>7, Zenon DEF GotOf
        <5> QED
          BY <1>6, <1>8, <4>2, <4>3, <5>1, <5>2, <5>3
      <4>4. CASE eof
        <5>1. f = "vector" /\ pc'.active = "scalar"
          BY <3>1, <4>1, <4>4 DEF After, FileNames
        <5>2. got'["scalar"] = got["scalar"]
          BY <1>1, <1>12, <5>1 DEF InvTypes
        <5>3. got["scalar"] = <<>>
          BY <5>1 DEF CInv, InvActive
        <5>4. pos[Len(delivered'["active"])] = 0 /\ Len(<<>>) = 0
          BY <1>6, <1>8, <4>4, EmptySeq
        <5> QED
          BY <4>2, <5>1, <5>2, <5>3, <5>4
      <4> QED
        BY <4>3, <4>4
    <3> QED
      BY <1>4, <3>1, GetsSame DEF Conversation
  <2> QED
    BY <2>1, GetsSame DEF InvConversation
<1>15. InvActive'
  <2>1. \A n \in FileNames :
          /\ files[n].open <=> files[n].format # "None"
          /\ ~files[n].open => files[n].rows = <<>>
    BY <1>1 DEF InvFiles
  <2>2. /\ f = "vector" => Wanted("vector") /\ got["scalar"] = <<>>
        /\ f = "scalar" => Wanted("scalar") /\ got["vector"] = files["vector"].rows
        /\ Success(files)
    BY DEF CInv, InvActive, FileNames
  <2>3. eof => h = file.rows
    BY <1>7 DEF GotOf
  <2>4. CASE pc'.active = "failed"
    BY <2>4 DEF InvActive, FileNames
  <2>5. CASE pc'.active # "failed"
    <3>1. got' = [got EXCEPT ![f] = h]
      BY <1>12, <2>5
    <3>2. got'[f] = h /\ \A n \in FileNames : n # f => got'[n] = got[n]
      <4> HIDE DEF h
      <4> QED
        BY <1>1, <3>1 DEF InvTypes
    <3>3. pc'.active = IF next = "returned" THEN "done" ELSE next
      BY <1>10, <2>5
    <3> HIDE DEF h, eof
    <3>4. CASE f = "vector"
      <4>1. /\ pc'.active \in {"vector", "scalar", "done"}
            /\ pc'.active # "vector" => got'["vector"] = files["vector"].rows
            /\ got'["scalar"] = <<>>
            /\ pc'.active = "scalar" => files["scalar"].open
            /\ pc'.active = "done" => ~files["scalar"].open
        BY <2>2, <2>3, <3>2, <3>3, <3>4 DEF After, Exists, FileNames
      <4> QED
        BY <1>1, <1>8, <2>1, <2>2, <3>4, <4>1 DEF InvActive, Wanted, Success, FileNames
    <3>5. CASE f = "scalar"
      <4>1. /\ pc'.active \in {"scalar", "done"}
            /\ pc'.active # "scalar" => got'["scalar"] = files["scalar"].rows
            /\ got'["vector"] = files["vector"].rows
        BY <2>2, <2>3, <3>2, <3>3, <3>5 DEF After, Exists, FileNames
      <4> QED
        BY <1>1, <1>8, <2>1, <2>2, <3>5, <4>1 DEF InvActive, Wanted, Success, FileNames
    <3> QED
      BY <3>4, <3>5 DEF FileNames
  <2> QED
    BY <2>4, <2>5
<1> QED
  BY <1>13, <1>14, <1>15
LEMMA ActiveReceivesStep ==
  ASSUME CInv, ActiveReceives
  PROVE  InvFiles' /\ InvGot' /\ InvConversation' /\ InvActive'
<1> DEFINE msg == sent["active"][Len(delivered["active"]) + 1]
<1>1. ActiveGets /\ InvTypes
  BY ActiveReads DEF CInv, SInv
<1>2. /\ UNCHANGED <<protocol, files, written, position, sent, closed>>
      /\ pc'.passive = pc.passive /\ pc.active \in {"acknowledge"} \cup FileNames
  BY <1>1 DEF ActiveGets
<1>3. InvFiles'
  BY <1>1, GetsSame
<1>4. CASE delivered' = delivered /\ got' = got /\ pc'.active \in {pc.active, "failed"}
  BY <1>2, <1>4, OtherStep
<1>5. CASE /\ Len(delivered["active"]) < Len(sent["active"])
           /\ delivered' = [delivered EXCEPT !["active"] = Append(@, msg)]
           /\ pc.active = "acknowledge" =>
                pc'.active = AfterAcknowledge(msg) /\ got' = got
           /\ pc.active \in FileNames =>
                \E okay \in BOOLEAN :
                  /\ pc'.active = AfterResults(msg, okay)
                  /\ got' = IF pc'.active = "failed" THEN got
                            ELSE [got EXCEPT ![pc.active] = @ \o msg.rows]
  <2>1. delivered'["active"] = Append(delivered["active"], msg)
    BY <1>1, <1>5 DEF InvTypes, Nodes
  <2>2. CASE pc.active = "acknowledge"
    BY <1>1, <1>3, <1>5, <2>1, <2>2, AcknowledgeStep
  <2>3. CASE pc.active \in FileNames
    <3>1. PICK okay \in BOOLEAN :
            /\ pc'.active = AfterResults(msg, okay)
            /\ got' = IF pc'.active = "failed" THEN got
                      ELSE [got EXCEPT ![pc.active] = @ \o msg.rows]
      BY <1>5, <2>3
    <3> QED
      BY <1>1, <1>3, <1>5, <2>1, <2>3, <3>1, ResultsStep
  <2> QED
    BY <1>2, <2>2, <2>3
<1> QED
  BY <1>1, <1>4, <1>5 DEF ActiveGets

LEMMA EveryStepOfConversation ==
  ASSUME CInv, [Next]_vars
  PROVE  CInv'
<1>1. SInv'
  BY EveryStepKept DEF CInv, Kept
<1>2. CASE \/ Established \/ Break \/ UploadFails \/ PassiveReceives \/ PassiveLeaves
           \/ SendStop \/ SendStopFails \/ ActiveGivesUp \/ ActiveExits
           \/ UNCHANGED vars
  BY <1>1, <1>2, OtherSteps DEF CInv
<1>3. CASE WriteRow
  BY <1>1, <1>3, WriteRowStep DEF CInv
<1>4. CASE HandleStop
  BY <1>1, <1>4, HandleStopStep DEF CInv
<1>5. CASE UploadChunk
  BY <1>1, <1>5, UploadChunkStep DEF CInv
<1>6. CASE ActiveReceives
  BY <1>1, <1>6, ActiveReceivesStep DEF CInv
<1> QED
  BY <1>2, <1>3, <1>4, <1>5, <1>6, Zenon DEF Next, PassiveSteps, ActiveSteps

LEMMA InitialConversation ==
  ASSUME Init
  PROVE  CInv
<1>1. SInv
  BY InitialStreams
<1>2. /\ pc.active = "measuring" /\ pc.passive = "control"
      /\ \A f \in FileNames : got[f] = <<>> /\ written[f] = 0
      /\ sent["active"] = <<>> /\ delivered["active"] = <<>>
      /\ Len(<<>>) = 0
  BY EmptySeq DEF Init, Nodes
<1>3. PICK format \in [FileNames -> Formats] :
        files = [f \in FileNames |-> NewFile(format[f])]
  BY DEF Init
<1>4. ASSUME NEW f \in FileNames
      PROVE  /\ files[f].open <=> files[f].format # "None"
             /\ files[f].rows = <<>> /\ ~files[f].writeError
             /\ files[f].packing <=> files[f].format = "BZip2"
  BY <1>3 DEF NewFile
<1>5. InvFiles
  <2>1. "scalar" \in FileNames
    BY DEF FileNames
  <2> QED
    BY <1>2, <1>4, <2>1 DEF InvFiles, Ended, FileNames
<1>6. InvGot
  BY <1>2, <1>4 DEF InvGot
<1>7. InvConversation
  <2>1. PICK at, pos : Said(<<>>, files, at, pos)
    BY NothingSaid
  <2>2. Conversation(at, pos)
    BY <1>2, <2>1 DEF Conversation, FileNames
  <2> QED
    BY <1>2, <2>2 DEF InvConversation, FileNames
<1>8. InvActive
  BY <1>2 DEF InvActive, FileNames
<1> QED
  BY <1>1, <1>5, <1>6, <1>7, <1>8 DEF CInv

\* The messages to the active node are the acknowledgement and, file by file
\* and without a gap, what the passive node has read; the active node has the
\* rows of those that it has had.
THEOREM ConversationInvariant == Spec => []CInv
<1>1. Init => CInv
  BY InitialConversation
<1>2. CInv /\ [Next]_vars => CInv'
  BY EveryStepOfConversation
<1> QED
  BY <1>1, <1>2, PTL DEF Spec

\* The types of the variables, the bounds of the readers' buffers among them
\* (TypeOK): no read can go beyond the buffer of a MessageReader.
THEOREM TypesOK == Spec => []TypeOK
<1>1. CInv => TypeOK
  <2> SUFFICES ASSUME CInv PROVE TypeOK
    OBVIOUS
  <2>1. InvTypes /\ InvFiles /\ InvGot /\ InvPrefix
    BY DEF CInv, SInv
  <2>2. ASSUME NEW f \in FileNames
        PROVE  /\ files[f].format \in Formats
               /\ Len(files[f].rows) <= written[f]
               /\ Len(got[f]) <= written[f]
    <3>1. /\ files[f].format \in Formats /\ Len(files[f].rows) \in Nat
          /\ Len(got[f]) \in Nat /\ written[f] \in Nat
      BY <2>1, LenProperties DEF InvTypes, Files
    <3>2. Len(files[f].rows) <= written[f] /\ Len(got[f]) <= Len(files[f].rows)
      BY <2>1 DEF InvFiles, InvGot
    <3> QED
      BY <3>1, <3>2
  <2>3. ASSUME NEW n \in Nodes
        PROVE  /\ reader[n].status \in {"WaitingForHeader", "PartialRead", "StreamError"}
               /\ Len(reader[n].bytes) + BytesToRead(reader[n]) <= MessageBufferSize
               /\ Len(delivered[n]) <= Len(sent[n])
    <3>1. reader[n] \in Readers
      BY <2>1 DEF InvTypes
    <3>2. Len(reader[n].bytes) \in Nat
      BY <3>1, LenProperties DEF Readers
    <3>3. /\ reader[n].status \in {"WaitingForHeader", "PartialRead", "StreamError"}
          /\ reader[n].size \in 0..MessageBufferSize
      BY <3>1 DEF Readers
    <3>4. Len(delivered[n]) <= Len(sent[n])
      BY <2>1 DEF InvPrefix
    <3> QED
      BY <3>2, <3>3, <3>4, Constants DEF BytesToRead
  <2> QED
    BY <2>1, <2>2, <2>3 DEF TypeOK, InvTypes, PassiveAt, ActiveAt
<1> QED
  BY <1>1, ConversationInvariant, PTL

\* A download that succeeds has brought every row of the passive node's files,
\* and of a compressed file every row that was ever written (ResultsAreWhole),
\* for every size of the files and of the chunks, however the connection cuts
\* the messages and wherever it breaks.
THEOREM ResultsAreWholeHolds == Spec => []ResultsAreWhole
<1>1. CInv => ResultsAreWhole
  <2> SUFFICES ASSUME CInv, pc.active = "done", NEW f \in FileNames
               PROVE  /\ got[f] = files[f].rows
                      /\ files[f].format = "BZip2" => Len(got[f]) = written[f]
    BY DEF ResultsAreWhole
  <2>1. got[f] = files[f].rows /\ Success(files) /\ delivered["active"] # <<>>
    BY DEF CInv, InvActive
  <2>2. Ended
    <3>1. sent["active"] # <<>>
      BY BeforeTheEnd
    <3> QED
      BY <3>1 DEF Ended
  <2>3. ~files[f].packing /\ ~files[f].writeError
    BY <2>1, <2>2 DEF CInv, InvFiles, Success
  <2> QED
    BY <2>1, <2>3 DEF CInv, InvFiles
<1> QED
  BY <1>1, ConversationInvariant, PTL
===============================================================================
