----------------------------- MODULE MessageReader -----------------------------
(***************************************************************************)
(* receiveMessage() of messagereader.cc: messages are put together from    *)
(* what single reads of a socket return.  A byte is a unit: the message it *)
(* belongs to, its position, and whether it is the last one.  A TCP read   *)
(* returns any number of units, an SCTP read never goes beyond the end of  *)
(* a message (MSG_EOR).                                                    *)
(*                                                                         *)
(* A reader is the state that MessageReader keeps of a socket.  The        *)
(* registration of sockets is part of FlowManager.                         *)
(***************************************************************************)
EXTENDS Naturals, Sequences

CONSTANTS
  HeaderSize,        \* sizeof(TLVHeader)
  MessageBufferSize, \* of the socket
  NotificationSize   \* sizeof(sctp_notification): the longest one

ASSUME MessageReaderAssumption ==
  /\ HeaderSize \in Nat \ {0}
  /\ MessageBufferSize \in Nat /\ NotificationSize \in Nat

Notification == "notification"

\* The units of a message.  A notification has no header; its length is not
\* known before its end.
Units(msg) ==
  [i \in 1..msg.length |-> [msg |-> msg, pos |-> i, last |-> i = msg.length]]

NewReader == [status |-> "WaitingForHeader", bytes |-> <<>>, size |-> 0]

Failed(r) == [r EXCEPT !.status = "StreamError"]

\* An SCTP socket starts anew after an error, the others never do.
Resynchronized(protocol, r) ==
  IF r.status = "StreamError" /\ protocol = "SCTP"
  THEN [r EXCEPT !.status = "WaitingForHeader", !.bytes = <<>>] ELSE r

BytesToReadOfMessage(r) ==
  IF r.status = "WaitingForHeader" THEN HeaderSize ELSE r.size

\* How much is asked for: never beyond the end of the message.
BytesToRead(r) ==
  IF r.status = "WaitingForHeader" THEN HeaderSize - Len(r.bytes)
  ELSE r.size - Len(r.bytes)

\* What one read of the socket may return: the numbers of units.
Readable(protocol, r, wire) ==
  {k \in 1..BytesToRead(Resynchronized(protocol, r)) :
     /\ k <= Len(wire)
     /\ protocol = "SCTP" => \A i \in 1..(k - 1) : ~wire[i].last}

\* The header tells the length, unless it is not complete or makes no sense.
Sized(r, isNotification) ==
  IF r.status # "WaitingForHeader" THEN r
  ELSE IF isNotification
  THEN [r EXCEPT !.size = NotificationSize, !.status = "PartialRead"]
  ELSE IF Len(r.bytes) < HeaderSize THEN r
  ELSE IF r.bytes[1].msg.length \in HeaderSize..MessageBufferSize
  THEN [r EXCEPT !.size = r.bytes[1].msg.length, !.status = "PartialRead"]
  ELSE [Failed(r) EXCEPT !.size = r.bytes[1].msg.length]

\* What receiveMessage() makes of the units that a read has returned: the
\* result, the message's bytes, and the reader afterwards.
ReceiveMessage(protocol, reader, units, bufferSize) ==
  LET isNotification == protocol = "SCTP" /\ units[1].msg.type = Notification
      eor   == units[Len(units)].last
      start == Resynchronized(protocol, reader)
      r     == Sized([start EXCEPT !.bytes = @ \o units], isNotification)
      short == Len(r.bytes) < r.size
      size  == IF short THEN Len(r.bytes) ELSE r.size
      partial == [result |-> "partial", bytes |-> <<>>, reader |-> r]
      error   == [result |-> "error", bytes |-> <<>>, reader |-> Failed(r)]
      message == [result |-> "message", bytes |-> SubSeq(r.bytes, 1, size),
                  reader |-> NewReader]
  IN CASE r.status = "WaitingForHeader" -> partial
       [] r.status = "StreamError" -> error
       [] r.status = "PartialRead" ->
            IF short /\ (protocol # "SCTP" \/ ~eor) THEN partial
            ELSE IF \/ short /\ ~isNotification
                    \/ size > bufferSize
                    \/ protocol = "SCTP" /\ ~eor
            THEN error
            ELSE message
================================================================================
