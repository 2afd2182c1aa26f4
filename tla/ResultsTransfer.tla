---------------------------- MODULE ResultsTransfer ----------------------------
(***************************************************************************)
(* The end of a measurement on the control connection: the active node     *)
(* sends Stop, the passive node finishes the results files of the          *)
(* measurement, acknowledges, and uploads them in chunks.  Both nodes read *)
(* through a MessageReader, so that every message may come in pieces, and  *)
(* the connection may break at any point.                                  *)
(*                                                                         *)
(* A row of a results file is a unit of the connection.                    *)
(***************************************************************************)
EXTENDS MessageReader, OutputFile

CONSTANTS
  ChunkSize,   \* NETPERFMETER_RESULTS_MAX_DATA_LENGTH
  MaxRows      \* bound: vector rows that the passive node writes

\* The buffer, of 65535 bytes, has room for every message and notification.
ASSUME ResultsTransferAssumption ==
  /\ ChunkSize \in Nat \ {0} /\ MaxRows \in Nat
  /\ HeaderSize + ChunkSize <= MessageBufferSize
  /\ NotificationSize <= MessageBufferSize

VARIABLES
  protocol,    \* of the control connection
  files,       \* the OutputFiles of the passive node's Measurement
  written,     \* history: the rows that the passive node wrote, or tried to
  position,    \* of the passive node in the file that it uploads
  got,         \* the files that the active node has downloaded
  pc,          \* what each node does
  reader,      \* each node's MessageReader
  wire,        \* what is on the way to each node
  closed,      \* nothing more is sent on the connection
  sent,        \* history: the messages sent to each node
  delivered    \* history: what each node's receiveMessage() has returned

vars == <<protocol, files, written, position, got, pc, reader, wire, closed,
          sent, delivered>>
transport == <<wire, sent>>

Nodes == {"active", "passive"}
Peer(n) == CHOOSE m \in Nodes : m # n
FileNames == {"vector", "scalar"}

StopMsg == [type |-> "Stop", length |-> HeaderSize + 1]
CommUp == [type |-> Notification, length |-> HeaderSize + 1]
Acknowledge(okay) ==
  [type |-> "Acknowledge", length |-> HeaderSize + 1, okay |-> okay]
Results(rows, eof) ==
  [type |-> "Results", length |-> HeaderSize + Len(rows), rows |-> rows,
   eof |-> eof]
Garbage == [type |-> "garbage"]

\* The message that these bytes are, if they are one.
Message(bytes) ==
  IF bytes = Units(bytes[1].msg) THEN bytes[1].msg ELSE Garbage

TypeOK ==
  /\ protocol \in {"TCP", "SCTP"} /\ closed \in BOOLEAN
  /\ \A f \in FileNames :
       /\ files[f].format \in Formats
       /\ Len(files[f].rows) <= written[f]
       /\ Len(got[f]) <= written[f]
  /\ pc.passive \in {"control", "Stop", "returned", "gone"} \cup FileNames
  /\ pc.active \in {"measuring", "acknowledge", "done", "failed"} \cup FileNames
  /\ \A n \in Nodes :
       /\ reader[n].status \in {"WaitingForHeader", "PartialRead", "StreamError"}
       /\ Len(reader[n].bytes) + BytesToRead(reader[n]) <= MessageBufferSize
       /\ Len(delivered[n]) <= Len(sent[n])

Init ==
  /\ protocol \in {"TCP", "SCTP"}
  /\ \E format \in [FileNames -> Formats] :
       files = [f \in FileNames |-> NewFile(format[f])]
  /\ written = [f \in FileNames |-> 0] /\ position = 0
  /\ got = [f \in FileNames |-> <<>>]
  /\ pc = [active |-> "measuring", passive |-> "control"]
  /\ reader = [n \in Nodes |-> NewReader]
  /\ wire = [n \in Nodes |-> <<>>] /\ closed = FALSE
  /\ sent = [n \in Nodes |-> <<>>] /\ delivered = [n \in Nodes |-> <<>>]

Goto(n, step) == pc' = [pc EXCEPT ![n] = step]

(***************************************************************************)
(* The connection.  ext_send() puts a whole message on the way; on a       *)
(* connection that is closed it fails, or the message is lost.             *)
(***************************************************************************)
Put(n, msg) ==
  /\ wire' = [wire EXCEPT ![n] = @ \o Units(msg)]
  /\ sent' = [sent EXCEPT ![n] = Append(@, msg)]

PutOrLose(n, msg) == IF closed THEN UNCHANGED transport ELSE Put(n, msg)

\* The control socket of the passive node subscribes to the events of an
\* association; its first message is SCTP_COMM_UP.
Established ==
  /\ protocol = "SCTP" /\ sent.passive = <<>> /\ ~closed
  /\ Put("passive", CommUp)
  /\ UNCHANGED <<protocol, files, written, position, got, pc, reader, closed,
                 delivered>>

\* Some of what is on the way still arrives.
Break ==
  /\ ~closed /\ closed' = TRUE
  /\ \E toActive \in 0..Len(wire.active), toPassive \in 0..Len(wire.passive) :
       wire' = [active  |-> SubSeq(wire.active, 1, toActive),
                passive |-> SubSeq(wire.passive, 1, toPassive)]
  /\ UNCHANGED <<protocol, files, written, position, got, pc, reader, sent,
                 delivered>>

\* One receiveMessage() of node n that reads k units.
Receive(n, k, bufferSize) ==
  ReceiveMessage(protocol, reader[n], SubSeq(wire[n], 1, k), bufferSize)

Received(n, k, received) ==
  /\ reader' = [reader EXCEPT ![n] = received.reader]
  /\ wire' = [wire EXCEPT ![n] = SubSeq(@, k + 1, Len(@))]
  /\ delivered' = IF received.result # "message" THEN delivered
                  ELSE [delivered EXCEPT ![n] =
                          Append(@, Message(received.bytes))]
  /\ UNCHANGED <<protocol, files, written, position, sent>>

\* The read returns 0 or an error.
NothingComes(n) == closed /\ wire[n] = <<>>

(***************************************************************************)
(* The passive node                                                        *)
(***************************************************************************)

\* writeVectorStatistics(): rows of the measurement; a write may fail.
WriteRow ==
  /\ pc.passive = "control" /\ Exists(files.vector) /\ written.vector < MaxRows
  /\ \E okay \in BOOLEAN :
       files' = [files EXCEPT !.vector = Write(@, written.vector + 1, okay)]
  /\ written' = [written EXCEPT !.vector = @ + 1]
  /\ UNCHANGED <<protocol, position, got, pc, reader, wire, closed, sent,
                 delivered>>

\* handleNetPerfMeterControlMessage(): a notification is not the end of the
\* association, so there is nothing to do for it.
PassiveReceives ==
  /\ pc.passive = "control"
  /\ \E k \in Readable(protocol, reader.passive, wire.passive) :
       LET received == Receive("passive", k, MessageBufferSize)
           broken   == \/ received.result = "error"
                       \/ /\ received.result = "message"
                          /\ Message(received.bytes) = Garbage
       IN /\ Received("passive", k, received)
          /\ closed' = (closed \/ broken)
          /\ Goto("passive",
                  IF broken THEN "gone"
                  ELSE IF /\ received.result = "message"
                          /\ Message(received.bytes).type = "Stop"
                  THEN "Stop" ELSE "control")
          /\ UNCHANGED got

PassiveLeaves ==
  /\ pc.passive \in {"control", "returned"} /\ NothingComes("passive")
  /\ Goto("passive", "gone")
  /\ UNCHANGED <<protocol, files, written, position, got, reader, transport,
                 closed, delivered>>

\* uploadOutputFile() is called for the files that exist.
FirstUpload(fs) ==
  IF Exists(fs.vector) THEN "vector"
  ELSE IF Exists(fs.scalar) THEN "scalar" ELSE "returned"

NextUploadOfOne == "returned"

NextUpload == IF pc.passive = "vector" /\ Exists(files.scalar)
              THEN "scalar" ELSE "returned"

\* handleNetPerfMeterStop() until the acknowledgement; the scalars are one row.
HandleStop ==
  /\ pc.passive = "Stop"
  /\ \E okay \in BOOLEAN :
       LET finished ==
             [vector |-> Finish(files.vector, FALSE),
              scalar |-> Finish(Write(files.scalar, 1, okay), FALSE)]
           success == \A f \in FileNames : ~finished[f].writeError
       IN /\ files' = finished
          /\ PutOrLose("active", Acknowledge(success))
          /\ Goto("passive", IF success THEN FirstUpload(finished)
                             ELSE "returned")
  /\ written' = [written EXCEPT !.scalar =
                   IF Exists(files.scalar) THEN 1 ELSE 0]
  /\ position' = 0
  /\ UNCHANGED <<protocol, got, reader, closed, delivered>>

\* fread() reports the end of the file when it returns less than asked for.
AtEnd(file, pos) == pos + ChunkSize > Len(file.rows)

\* A round of the loop in uploadOutputFile().  What it returns is ignored: the
\* other file is tried as well.
UploadChunk ==
  /\ pc.passive \in FileNames
  /\ LET file  == files[pc.passive]
         chunk == SubSeq(file.rows, position + 1,
                         IF position + ChunkSize < Len(file.rows)
                         THEN position + ChunkSize ELSE Len(file.rows))
         eof   == AtEnd(file, position)
     IN /\ PutOrLose("active", Results(chunk, eof))
        /\ position' = IF eof THEN 0 ELSE position + Len(chunk)
        /\ Goto("passive", IF eof THEN NextUpload ELSE pc.passive)
  /\ UNCHANGED <<protocol, files, written, got, reader, closed, delivered>>

\* fread() or ext_send() fails: ext_shutdown().
UploadFails ==
  /\ pc.passive \in FileNames
  /\ closed' = TRUE /\ position' = 0
  /\ Goto("passive", NextUpload)
  /\ UNCHANGED <<protocol, files, written, got, reader, transport, delivered>>

(***************************************************************************)
(* The active node: performNetPerfMeterStop()                              *)
(***************************************************************************)
SendStop ==
  /\ pc.active = "measuring"
  /\ protocol = "SCTP" => sent.passive # <<>> \/ closed
  /\ PutOrLose("passive", StopMsg)
  /\ Goto("active", "acknowledge")
  /\ UNCHANGED <<protocol, files, written, position, got, reader, closed,
                 delivered>>

SendStopFails ==
  /\ pc.active = "measuring" /\ closed
  /\ Goto("active", "failed")
  /\ UNCHANGED <<protocol, files, written, position, got, reader, transport,
                 closed, delivered>>

\* A file is downloaded if it has a name pattern, which is when the passive
\* node was told to write it.
Wanted(f) == files[f].format # "None"

NextDownload ==
  CASE pc.active = "acknowledge" /\ Wanted("vector") -> "vector"
    [] pc.active # "scalar" /\ Wanted("scalar")
         /\ ~(pc.active = "acknowledge" /\ Wanted("vector")) -> "scalar"
    [] OTHER -> "done"

\* awaitNetPerfMeterAcknowledge()
AfterAcknowledge(msg) ==
  IF msg.type = "Acknowledge" /\ msg.okay THEN NextDownload ELSE "failed"

\* downloadOutputFile(): fwrite() may fail.
AfterResults(msg, okay) ==
  IF msg.type # "Results" \/ ~okay THEN "failed"
  ELSE IF msg.eof THEN NextDownload ELSE pc.active

ActiveReceives ==
  /\ pc.active \in {"acknowledge"} \cup FileNames
  /\ \E k \in Readable(protocol, reader.active, wire.active), okay \in BOOLEAN :
       LET received == Receive("active", k,
                         IF pc.active = "acknowledge" THEN HeaderSize + 1
                         ELSE HeaderSize + ChunkSize)
           msg == Message(received.bytes)
           next == IF received.result = "partial" THEN pc.active
                   ELSE IF received.result = "error" THEN "failed"
                   ELSE IF pc.active = "acknowledge" THEN AfterAcknowledge(msg)
                   ELSE AfterResults(msg, okay)
       IN /\ Received("active", k, received)
          /\ Goto("active", next)
          /\ got' = IF /\ received.result = "message" /\ next # "failed"
                       /\ pc.active \in FileNames
                    THEN [got EXCEPT ![pc.active] = @ \o msg.rows] ELSE got
          /\ UNCHANGED closed

ActiveGivesUp ==
  /\ pc.active \in {"acknowledge"} \cup FileNames /\ NothingComes("active")
  /\ Goto("active", "failed")
  /\ UNCHANGED <<protocol, files, written, position, got, reader, transport,
                 closed, delivered>>

\* The program ends.
ActiveExits ==
  /\ pc.active = "failed" /\ ~closed /\ closed' = TRUE
  /\ UNCHANGED <<protocol, files, written, position, got, pc, reader, transport,
                 delivered>>

PassiveSteps == PassiveReceives \/ PassiveLeaves \/ HandleStop \/ UploadChunk
ActiveSteps == \/ SendStop \/ SendStopFails \/ ActiveReceives \/ ActiveGivesUp
               \/ ActiveExits

Next == \/ Established \/ Break \/ WriteRow \/ UploadFails
        \/ PassiveSteps \/ ActiveSteps

Spec == /\ Init /\ [][Next]_vars
        /\ WF_vars(Established) /\ WF_vars(PassiveSteps) /\ WF_vars(ActiveSteps)

(***************************************************************************)
(* Properties                                                              *)
(***************************************************************************)

\* A download that succeeds has brought every row that the passive node's files
\* hold, however the messages were cut; of a compressed file, every row that
\* was ever written, because an error of its stream is found before the
\* acknowledgement.  (A plain file may have lost rows without a trace: rewind()
\* clears the error of the stream before anyone looks at it.)
ResultsAreWhole ==
  pc.active = "done" =>
    \A f \in FileNames :
      /\ got[f] = files[f].rows
      /\ files[f].format = "BZip2" => Len(got[f]) = written[f]

\* receiveMessage() gives each node whole messages, each once and in order, on a
\* stream that cuts and joins them and on one that keeps them, with
\* notifications in between.
C == INSTANCE Channel
ImplementsChannel == C!Spec

\* The active node's Stop always comes to an end: the passive node always
\* answers, its last chunk always says so, or the connection is gone.
TransferEnds == <>(pc.active \in {"done", "failed"})
================================================================================
