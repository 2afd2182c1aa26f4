------------------------ MODULE ControlProtocol_proofs ------------------------
(***************************************************************************)
(* Proofs about ControlProtocol for every number of flows, trials and      *)
(* chunks and every set of faults.                                         *)
(*                                                                         *)
(* IInv is inductive: an action finds it true and leaves it true (Lemma    *)
(* NextIInv, one lemma for each group of actions).  Type correctness and   *)
(* the safety of the conversation follow from it, and so does that the     *)
(* protocol implements Session.                                            *)
(*                                                                         *)
(* RInv, in the second part, is inductive together with IInv: what the     *)
(* chunks in flight say, what the active node has of them, and which flows *)
(* are still to go.  The results reach the files they belong to, and an    *)
(* active node that is done has them all, while the passive node has       *)
(* forgotten the flows.                                                    *)
(***************************************************************************)
EXTENDS ControlProtocol, SequenceTheorems, TLAPS

\* Expanded in every proof below.
USE DEF FailedPhases

-----------------------------------------------------------------------------
(* Sequences of messages.                                                  *)

\* The first message of a queue is taken off it.
LEMMA TakeHead ==
  ASSUME NEW S, NEW s \in Seq(S), s # <<>>
  PROVE  /\ Head(s) \in S
         /\ Tail(s) \in Seq(S)
         /\ Head(s) = s[1]
         /\ Len(s) \in Nat \ {0}
         /\ Len(Tail(s)) = Len(s) - 1
         /\ \A i \in 1..Len(Tail(s)) : Tail(s)[i] = s[i + 1] /\ i + 1 \in 1..Len(s)
         /\ Len(s) <= 1 => Tail(s) = <<>> /\ s = <<Head(s)>>
<1>1. /\ Head(s) \in S
      /\ Tail(s) \in Seq(S)
      /\ Len(Tail(s)) = Len(s) - 1
      /\ \A i \in 1..Len(Tail(s)) : Tail(s)[i] = s[i + 1]
  BY HeadTailProperties
<1>2. Len(s) \in Nat \ {0}
  BY EmptySeq
<1>3. Head(s) = s[1]
  BY SMT
<1>4. ASSUME Len(s) <= 1 PROVE Tail(s) = <<>> /\ s = <<Head(s)>>
  <2>1. Len(s) = 1 /\ Len(Tail(s)) = 0
    BY <1>1, <1>2, <1>4
  <2>2. Tail(s) = <<>>
    BY <1>1, <2>1, EmptySeq
  <2>3. <<Head(s)>> \in Seq(S) /\ Len(<<Head(s)>>) = 1
        /\ <<Head(s)>>[1] = s[1]
    BY <1>1, <1>3
  <2>4. s = <<Head(s)>>
    BY <2>1, <2>3, SeqEqual
  <2> QED
    BY <2>2, <2>4
<1> QED
  BY <1>1, <1>2, <1>3, <1>4

\* What a break of the association leaves of a queue is a prefix of it.
LEMMA Prefix ==
  ASSUME NEW S, NEW s \in Seq(S), NEW i \in 0..Len(s)
  PROVE  /\ SubSeq(s, 1, i) \in Seq(S)
         /\ Len(SubSeq(s, 1, i)) = i
         /\ \A j \in 1..i : SubSeq(s, 1, i)[j] = s[j] /\ j \in 1..Len(s)
         /\ i = 0 => SubSeq(s, 1, i) = <<>>
         /\ Len(s) <= 1 => SubSeq(s, 1, i) \in {<<>>, s}
<1>1. Len(s) \in Nat /\ \A j \in 1..i : s[j] \in S /\ j \in 1..Len(s)
  BY LenProperties, ElementOfSeq
<1>2. /\ SubSeq(s, 1, i) \in Seq(S)
      /\ Len(SubSeq(s, 1, i)) = i
      /\ \A j \in 1..i : SubSeq(s, 1, i)[j] = s[j]
  <2>1. /\ SubSeq(s, 1, i) \in Seq(S)
        /\ Len(SubSeq(s, 1, i)) = IF 1 <= i THEN i - 1 + 1 ELSE 0
        /\ \A j \in 1..(i - 1 + 1) : SubSeq(s, 1, i)[j] = s[1 + j - 1]
    BY <1>1, SubSeqProperties
  <2> QED
    BY <1>1, <2>1
<1>3. i = 0 => SubSeq(s, 1, i) = <<>>
  BY <1>2, EmptySeq
<1>4. Len(s) <= 1 => SubSeq(s, 1, i) \in {<<>>, s}
  <2>1. CASE i = 0
    BY <1>3, <2>1
  <2>2. CASE i = Len(s)
    BY <1>1, <2>2, SubSeqFull
  <2> QED
    BY <1>1, <2>1, <2>2
<1> QED
  BY <1>1, <1>2, <1>3, <1>4

\* A message is put at the end of a queue.
LEMMA PutLast ==
  ASSUME NEW S, NEW s \in Seq(S), NEW m \in S
  PROVE  /\ Append(s, m) \in Seq(S)
         /\ Len(Append(s, m)) = Len(s) + 1
         /\ \A i \in 1..Len(s) : Append(s, m)[i] = s[i]
         /\ Append(s, m)[Len(s) + 1] = m
         /\ s = <<>> => Append(s, m) = <<m>>
<1>1. s = <<>> => Append(s, m) = <<m>>
  OBVIOUS
<1> QED
  BY <1>1, AppendProperties

\* Messages are put at the end of a queue; one message on an empty queue.
LEMMA PutAll ==
  ASSUME NEW S, NEW s \in Seq(S), NEW t \in Seq(S)
  PROVE  /\ s \o t \in Seq(S)
         /\ s = <<>> => s \o t = t
  BY ConcatProperties, ConcatEmptySeq

LEMMA Singleton == ASSUME NEW S, NEW m \in S PROVE <<m>> \in Seq(S)
  OBVIOUS

-----------------------------------------------------------------------------
(* Messages.                                                               *)

LEMMA MessageTypes ==
  /\ \A f \in Flows : AddFlow(f) \in Requests /\ RemoveFlow(f) \in Requests
  /\ Start \in Requests /\ Stop \in Requests
  /\ \A f \in 0..NumFlows, ok \in BOOLEAN : Ack(f, ok) \in Acks
  /\ \A x \in FileNames, e \in BOOLEAN : Results(x, e) \in Chunks
  BY ConstantsAssumption
     DEF AddFlow, RemoveFlow, Start, Stop, Ack, Results, Requests, Acks,
         Chunks, Flows

LEMMA FlowOfRequest ==
  ASSUME NEW m \in Requests, m.type \in {"ADD_FLOW", "REMOVE_FLOW"}
  PROVE  /\ m.flow \in Flows /\ m.flow \in 0..NumFlows
         /\ m = IF m.type = "ADD_FLOW" THEN AddFlow(m.flow)
                                       ELSE RemoveFlow(m.flow)
  BY ConstantsAssumption
     DEF Requests, Start, Stop, Flows, AddFlow, RemoveFlow

LEMMA UploadTypes ==
  ASSUME NEW x \in FileNames
  PROVE  /\ \A s \in Upload(x) : s \in Seq(Acks \cup Chunks)
         /\ \A s \in BrokenUpload(x) : s \in Seq(Acks \cup Chunks)
<1>1. ASSUME NEW s \in Upload(x) PROVE s \in Seq(Acks \cup Chunks)
  <2>1. PICK n \in 1..MaxChunks : s = [i \in 1..n |-> Results(x, i = n)]
    BY <1>1 DEF Upload
  <2>2. n \in Nat
    BY ConstantsAssumption
  <2>3. \A i \in 1..n : Results(x, i = n) \in Acks \cup Chunks
    BY MessageTypes
  <2>4. s \in [1..n -> Acks \cup Chunks]
    BY <2>1, <2>3
  <2> QED
    BY <2>2, <2>4, SeqDef, Zenon
<1>2. ASSUME NEW s \in BrokenUpload(x) PROVE s \in Seq(Acks \cup Chunks)
  <2>1. PICK n \in 0..MaxChunks : s = [i \in 1..n |-> Results(x, FALSE)]
    BY <1>2 DEF BrokenUpload
  <2>2. n \in Nat
    BY ConstantsAssumption
  <2>3. s \in [1..n -> Acks \cup Chunks]
    BY <2>1, MessageTypes
  <2> QED
    BY <2>2, <2>3, SeqDef, Zenon
<1> QED
  BY <1>1, <1>2

LEMMA FileTypes ==
  /\ VectorFile \in FileNames /\ ScalarFile \in FileNames
  /\ \A f \in Flows : FlowVector(f) \in FileNames
  BY DEF FileNames

LEMMA StopUploadTypes ==
  \A s \in StopUploads \cup BrokenStopUploads : s \in Seq(Acks \cup Chunks)
<1> DEFINE Answers == Seq(Acks \cup Chunks)
<1>1. <<>> \in Answers
  BY EmptySeq
<1>2. \A v \in Answers, s \in Answers : v \o s \in Answers
  BY ConcatProperties
<1>3. /\ Upload(VectorFile) \subseteq Answers
      /\ Upload(ScalarFile) \subseteq Answers
      /\ BrokenUpload(VectorFile) \subseteq Answers
      /\ BrokenUpload(ScalarFile) \subseteq Answers
  BY UploadTypes, FileTypes
<1>4. VectorUploads \subseteq Answers /\ ScalarUploads \subseteq Answers
  BY <1>1, <1>3, Zenon DEF VectorUploads, ScalarUploads
<1> HIDE DEF Answers
<1>5. ASSUME NEW s \in StopUploads PROVE s \in Answers
  <2>1. PICK v \in VectorUploads, t \in ScalarUploads : s = v \o t
    BY <1>5, SMT DEF StopUploads
  <2> QED
    BY <1>2, <1>4, <2>1, Zenon
<1>6. ASSUME NEW s \in BrokenStopUploads PROVE s \in Answers
  <2>1. \/ s \in BrokenUpload(VectorFile)
        \/ \E v \in VectorUploads, t \in BrokenUpload(ScalarFile) : s = v \o t
    BY <1>6, SMT DEF BrokenStopUploads
  <2> QED
    BY <1>2, <1>3, <1>4, <2>1, Zenon
<1> QED
  BY <1>5, <1>6, Zenon DEF Answers

-----------------------------------------------------------------------------
(* Type correctness.                                                       *)

LEMMA InitTypes == Init => TypeOK
<1> SUFFICES ASSUME Init PROVE TypeOK
  OBVIOUS
<1>1. cur \in Flows /\ trial \in 1..MaxTrials /\ phase \in Phases
  BY ConstantsAssumption DEF Init, Flows, Phases, SetupPhases
<1>2. request \in Seq(Requests) /\ answer \in Seq(Acks \cup Chunks)
  BY EmptySeq DEF Init
<1>3. /\ flow \in [Flows -> {"absent", "added", "bound", "running", "stopped"}]
      /\ hasFile \in [Flows -> BOOLEAN]
  BY DEF Init
<1> QED
  BY <1>1, <1>2, <1>3 DEF Init, TypeOK

\* The steps that every action takes on the two queues.
LEMMA SendRequestStep ==
  ASSUME request \in Seq(Requests), NEW m \in Requests, SendRequest(m)
  PROVE  /\ request' \in Seq(Requests)
         /\ request = <<>> => request' \in {<<>>, <<m>>}
         /\ request = <<>> /\ ~passiveOpen => request' = <<>>
         /\ \A i \in 1..Len(request') :
              (i \in 1..Len(request) /\ request'[i] = request[i]) \/ request'[i] = m
<1>1. CASE request' = request
  BY <1>1
<1>2. CASE passiveOpen /\ linkUp /\ request' = Append(request, m)
  <2>1. Len(request) \in Nat
    BY LenProperties
  <2>2. /\ request' \in Seq(Requests)
        /\ Len(request') = Len(request) + 1
        /\ \A i \in 1..Len(request) : request'[i] = request[i]
        /\ request'[Len(request) + 1] = m
        /\ request = <<>> => request' = <<m>>
    BY <1>2, PutLast
  <2>3. ASSUME NEW i \in 1..Len(request')
        PROVE  (i \in 1..Len(request) /\ request'[i] = request[i]) \/ request'[i] = m
    BY <2>1, <2>2
  <2> QED
    BY <1>2, <2>2, <2>3
<1> QED
  BY <1>1, <1>2 DEF SendRequest

LEMMA ReceivesStep ==
  ASSUME request \in Seq(Requests), NEW type, Receives(type)
  PROVE  /\ passiveOpen
         /\ Head(request) \in Requests
         /\ Head(request).type = type
         /\ Head(request) = request[1]
         /\ Len(request) \in Nat \ {0}
         /\ request' \in Seq(Requests)
         /\ \A i \in 1..Len(request') : request'[i] = request[i + 1]
                                        /\ i + 1 \in 1..Len(request)
         /\ Len(request) <= 1 => request' = <<>> /\ request = <<Head(request)>>
  BY TakeHead DEF Receives

LEMMA SendAnswersStep ==
  ASSUME answer \in Seq(Acks \cup Chunks),
         NEW s \in Seq(Acks \cup Chunks), SendAnswers(s)
  PROVE  /\ answer' \in Seq(Acks \cup Chunks)
         /\ answer = <<>> => answer' \in {<<>>, s}
  BY PutAll DEF SendAnswers

LEMMA SendOneStep ==
  ASSUME answer \in Seq(Acks \cup Chunks),
         NEW m \in Acks \cup Chunks, SendAnswers(<<m>>)
  PROVE  /\ answer' \in Seq(Acks \cup Chunks)
         /\ answer = <<>> => answer' \in {<<>>, <<m>>} /\ Len(answer') <= 1
<1>1. <<m>> \in Seq(Acks \cup Chunks)
  OBVIOUS
<1>2. Len(<<m>>) <= 1 /\ Len(<<>>) <= 1
  OBVIOUS
<1>3. /\ answer' \in Seq(Acks \cup Chunks)
      /\ answer = <<>> => answer' \in {<<>>, <<m>>}
  BY <1>1, SendAnswersStep
<1> QED
  BY <1>2, <1>3, Zenon

\* What the active node may conclude from a lone Acknowledge.
LEMMA SendAckStep ==
  ASSUME answer \in Seq(Acks \cup Chunks),
         NEW f \in 0..NumFlows, NEW ok \in BOOLEAN, SendAnswers(<<Ack(f, ok)>>)
  PROVE  /\ answer' \in Seq(Acks \cup Chunks)
         /\ answer = <<>> => /\ Len(answer') <= 1
                             /\ \A g : answer' = <<Ack(g, TRUE)>> => ok
<1>1. Ack(f, ok) \in Acks \cup Chunks
  BY MessageTypes, Zenon
<1>2. /\ answer' \in Seq(Acks \cup Chunks)
      /\ answer = <<>> => answer' \in {<<>>, <<Ack(f, ok)>>} /\ Len(answer') <= 1
  BY <1>1, SendOneStep, Zenon
<1>3. ASSUME answer = <<>>, NEW g, answer' = <<Ack(g, TRUE)>> PROVE ok
  <2>1. <<Ack(g, TRUE)>> \in {<<>>, <<Ack(f, ok)>>}
    BY <1>2, <1>3, Zenon
  <2>2. Ack(g, TRUE).okay = Ack(f, ok).okay
    BY <2>1
  <2> QED
    BY <2>2 DEF Ack
<1> QED
  BY <1>2, <1>3, Zenon

LEMMA TakeAnswerStep ==
  ASSUME answer \in Seq(Acks \cup Chunks), answer # <<>>
  PROVE  /\ Head(answer) \in Acks \cup Chunks
         /\ Tail(answer) \in Seq(Acks \cup Chunks)
         /\ Len(answer) <= 1 => Tail(answer) = <<>> /\ answer = <<Head(answer)>>
  BY TakeHead

LEMMA ActiveTypes ==
  ASSUME TypeOK, Active PROVE TypeOK'
<1> USE ConstantsAssumption DEF TypeOK, vars, activeVars, passiveVars, netVars
<1>1. /\ AddFlow(cur) \in Requests /\ RemoveFlow(cur) \in Requests
      /\ Start \in Requests /\ Stop \in Requests
  BY MessageTypes
<1>2. phase' \in Phases /\ activeOpen' \in BOOLEAN /\ cur' \in Flows
  <2> USE DEF Phases, SetupPhases, DownloadPhases, CollectPhases, Flows, Fail
  <2>1. CASE IdentifyFails
    BY <2>1 DEF IdentifyFails, IdentifyRetry
  <2>2. CASE DownloadChunk
    <3>1. CASE phase' = phase /\ cur' = cur
      BY <2>2, <3>1 DEF DownloadChunk
    <3>2. CASE phase' = AfterVector /\ cur' = cur
      BY <2>2, <3>2 DEF DownloadChunk, AfterVector
    <3>3. CASE phase' = "remove" /\ cur' = cur
      BY <2>2, <3>3 DEF DownloadChunk
    <3>4. CASE NextRemoval
      BY <2>2, <3>4 DEF DownloadChunk, NextRemoval
    <3> QED
      BY <2>2, <3>1, <3>2, <3>3, <3>4 DEF DownloadChunk
  <2>3. CASE SendRemoveFlow
    BY <2>3 DEF SendRemoveFlow, NextRemoval
  <2>4. CASE IdentifyAcknowledged \/ StopAcknowledged
    BY <2>4 DEF IdentifyAcknowledged, StopAcknowledged, AfterStop
  <2>5. CASE \/ SendAddFlow \/ AddAcknowledged \/ SendIdentify
             \/ SendStart \/ StartAcknowledged \/ BeginFails
    BY <2>5 DEF SendAddFlow, AddAcknowledged, SendIdentify, SendStart,
                StartAcknowledged, BeginFails
  <2>6. CASE \/ SendStop \/ RemoveAcknowledged \/ DownloadFails \/ Cleanup
             \/ StopTimeReached \/ Aborted \/ AckFails \/ SendFails \/ Exit
    BY <2>6 DEF SendStop, RemoveAcknowledged, DownloadFails, Cleanup,
                StopTimeReached, Aborted, AckFails, SendFails, Exit, End
  <2> QED
    BY <2>1, <2>2, <2>3, <2>4, <2>5, <2>6
       DEF Active, Setup, Running, Stopping, Waiting
<1>3. request' \in Seq(Requests)
  <2>1. CASE UNCHANGED request
    BY <2>1
  <2>2. CASE \E m \in Requests : SendRequest(m)
    BY <2>2, SendRequestStep
  <2> QED
    BY <1>1, <2>1, <2>2, Zenon
       DEF Active, Setup, Running, Stopping, Waiting,
           SendAddFlow, AddAcknowledged, SendIdentify, IdentifyAcknowledged,
           IdentifyFails, SendStart, StartAcknowledged, BeginFails,
           StopTimeReached, Aborted, SendStop, StopAcknowledged,
           SendRemoveFlow, RemoveAcknowledged, DownloadChunk, DownloadFails,
           Cleanup, AckFails, SendFails, Exit, End
<1>4. answer' \in Seq(Acks \cup Chunks)
  <2>1. CASE UNCHANGED answer
    BY <2>1
  <2>2. CASE answer # <<>> /\ answer' = Tail(answer)
    BY <2>2, TakeAnswerStep
  <2> QED
    BY <2>1, <2>2, Zenon
       DEF Active, Setup, Running, Stopping, Waiting, Acknowledged,
           NotAcknowledged,
           SendAddFlow, AddAcknowledged, SendIdentify, IdentifyAcknowledged,
           IdentifyFails, SendStart, StartAcknowledged, BeginFails,
           StopTimeReached, Aborted, SendStop, StopAcknowledged,
           SendRemoveFlow, RemoveAcknowledged, DownloadChunk, DownloadFails,
           Cleanup, AckFails, SendFails, Exit, End
<1>5. trial' \in 1..MaxTrials
  <2>1. CASE IdentifyFails
    BY <2>1 DEF IdentifyFails, IdentifyRetry, MaxTrialsOf, Fail
  <2>2. CASE AddAcknowledged
    BY <2>2 DEF AddAcknowledged
  <2>3. CASE Active /\ ~IdentifyFails /\ ~AddAcknowledged
    BY <2>3, Zenon
       DEF Active, Setup, Running, Stopping, Waiting,
           SendAddFlow, SendIdentify, IdentifyAcknowledged,
           SendStart, StartAcknowledged, BeginFails,
           StopTimeReached, Aborted, SendStop, StopAcknowledged,
           SendRemoveFlow, RemoveAcknowledged, DownloadChunk, DownloadFails,
           Cleanup, AckFails, SendFails, Exit, End
  <2> QED
    BY <2>1, <2>2, <2>3
<1>6. saved' \subseteq FileNames \X FileNames /\ complete' \subseteq FileNames
  <2>1. CASE DownloadChunk
    <3>1. Target \in FileNames
      BY FileTypes DEF Target
    <3>2. Head(answer).file \in FileNames
      BY <2>1, TakeAnswerStep DEF DownloadChunk, Acks, Chunks
    <3> QED
      BY <2>1, <3>1, <3>2 DEF DownloadChunk
  <2>2. CASE Active /\ ~DownloadChunk
    BY <2>2
       DEF Active, Setup, Running, Stopping, Waiting,
           SendAddFlow, AddAcknowledged, SendIdentify, IdentifyAcknowledged,
           IdentifyFails, SendStart, StartAcknowledged, BeginFails,
           StopTimeReached, Aborted, SendStop, StopAcknowledged,
           SendRemoveFlow, RemoveAcknowledged, DownloadFails,
           Cleanup, AckFails, SendFails, Exit, End
  <2> QED
    BY <2>1, <2>2
<1>7. /\ wanted' = wanted /\ identify' \subseteq Flows /\ linkUp' \in BOOLEAN
      /\ UNCHANGED passiveVars
  BY DEF Active, Setup, Running, Stopping, Waiting,
         SendAddFlow, AddAcknowledged, SendIdentify, IdentifyAcknowledged,
         IdentifyFails, SendStart, StartAcknowledged, BeginFails,
         StopTimeReached, Aborted, SendStop, StopAcknowledged,
         SendRemoveFlow, RemoveAcknowledged, DownloadChunk, DownloadFails,
         Cleanup, AckFails, SendFails, Exit, End
<1> QED
  BY <1>2, <1>3, <1>4, <1>5, <1>6, <1>7

\* The Acknowledge and the uploads after it are answers.
LEMMA UploadAnswers ==
  ASSUME NEW f \in 0..NumFlows, NEW s \in Seq(Acks \cup Chunks)
  PROVE  <<Ack(f, TRUE)>> \o s \in Seq(Acks \cup Chunks)
<1>1. Ack(f, TRUE) \in Acks \cup Chunks
  BY MessageTypes, Zenon
<1>2. <<Ack(f, TRUE)>> \in Seq(Acks \cup Chunks)
  BY <1>1, Singleton, Zenon
<1> QED
  BY <1>2, PutAll, Zenon

LEMMA PassiveTypes ==
  ASSUME TypeOK, Passive PROVE TypeOK'
<1> USE ConstantsAssumption DEF TypeOK, vars, activeVars, passiveVars, netVars
<1>1. ASSUME HandleAddFlow PROVE TypeOK'
  <2> DEFINE f == Head(request).flow
  <2>1. request' \in Seq(Requests) /\ f \in 0..NumFlows
    BY <1>1, ReceivesStep, FlowOfRequest DEF HandleAddFlow
  <2>2. answer' \in Seq(Acks \cup Chunks)
    BY <1>1, <2>1, SendAckStep DEF HandleAddFlow
  <2> QED
    BY <1>1, <2>1, <2>2 DEF HandleAddFlow
<1>2. ASSUME NEW f \in Flows, HandleIdentify(f) PROVE TypeOK'
  <2>1. f \in 0..NumFlows
    BY DEF Flows
  <2>2. answer' \in Seq(Acks \cup Chunks)
    BY <1>2, <2>1, SendAckStep DEF HandleIdentify
  <2>3. identify' \subseteq Flows
    BY <1>2 DEF HandleIdentify, IdentifyArrives
  <2> QED
    BY <1>2, <2>2, <2>3 DEF HandleIdentify
<1>3. ASSUME HandleStart PROVE TypeOK'
  <2>1. request' \in Seq(Requests)
    BY <1>3, ReceivesStep DEF HandleStart
  <2>2. answer' \in Seq(Acks \cup Chunks)
    <3>1. PICK ok \in BOOLEAN : SendAnswers(<<Ack(0, ok)>>)
      BY <1>3, Zenon DEF HandleStart
    <3>2. 0 \in 0..NumFlows
      OBVIOUS
    <3> QED
      BY <3>1, <3>2, SendAckStep, Zenon
  <2> QED
    BY <1>3, <2>1, <2>2 DEF HandleStart
<1>4. ASSUME HandleStop PROVE TypeOK'
  <2>0. 0 \in 0..NumFlows
    OBVIOUS
  <2>1. request' \in Seq(Requests)
    BY <1>4, ReceivesStep DEF HandleStop
  <2>2. \/ \E s \in StopUploads \cup BrokenStopUploads :
             SendAnswers(<<Ack(0, TRUE)>> \o s)
        \/ SendAnswers(<<Ack(0, FALSE)>>)
    BY <1>4, Zenon DEF HandleStop
  <2>3. answer' \in Seq(Acks \cup Chunks)
    <3>1. CASE SendAnswers(<<Ack(0, FALSE)>>)
      BY <3>1, <2>0, SendAckStep, Zenon
    <3>2. ASSUME NEW s \in StopUploads \cup BrokenStopUploads,
                 SendAnswers(<<Ack(0, TRUE)>> \o s)
          PROVE  answer' \in Seq(Acks \cup Chunks)
      <4>1. s \in Seq(Acks \cup Chunks)
        BY StopUploadTypes
      <4>2. <<Ack(0, TRUE)>> \o s \in Seq(Acks \cup Chunks)
        BY <4>1, <2>0, UploadAnswers, Zenon
      <4> QED
        BY <3>2, <4>2, SendAnswersStep
    <3> QED
      BY <2>2, <3>1, <3>2
  <2> QED
    BY <1>4, <2>1, <2>3 DEF HandleStop, StoppedFlows
<1>5. ASSUME HandleRemoveFlow PROVE TypeOK'
  <2> DEFINE f == Head(request).flow
  <2>1. request' \in Seq(Requests) /\ f \in Flows /\ f \in 0..NumFlows
    BY <1>5, ReceivesStep, FlowOfRequest DEF HandleRemoveFlow
  <2>2. answer' \in Seq(Acks \cup Chunks)
    <3>1. \/ UNCHANGED answer
          \/ SendAnswers(<<Ack(f, FALSE)>>)
          \/ \E s \in Upload(FlowVector(f)) \cup BrokenUpload(FlowVector(f)) :
               SendAnswers(<<Ack(f, TRUE)>> \o s)
      BY <1>5, Zenon DEF HandleRemoveFlow
    <3>2. \A s \in Upload(FlowVector(f)) \cup BrokenUpload(FlowVector(f)) :
            s \in Seq(Acks \cup Chunks)
      BY <2>1, UploadTypes, FileTypes
    <3> QED
      BY <2>1, <3>1, <3>2, UploadAnswers, SendAnswersStep, SendAckStep
  <2> QED
    BY <1>5, <2>1, <2>2 DEF HandleRemoveFlow
<1>6. ASSUME HandleControlAssocShutdown PROVE TypeOK'
  BY <1>6, EmptySeq DEF HandleControlAssocShutdown, Forget
<1> QED
  BY <1>1, <1>2, <1>3, <1>4, <1>5, <1>6 DEF Passive

LEMMA NetworkTypes ==
  ASSUME TypeOK, Network \/ Crashes PROVE TypeOK'
<1> USE DEF TypeOK, vars, activeVars, passiveVars, netVars
<1>1. ASSUME LinkLost PROVE TypeOK'
  <2>1. request' \in Seq(Requests) /\ answer' \in Seq(Acks \cup Chunks)
    BY <1>1, Prefix DEF LinkLost
  <2> QED
    BY <1>1, <2>1 DEF LinkLost
<1>2. ASSUME NEW f \in Flows, IdentifyLost(f) PROVE TypeOK'
  BY <1>2 DEF IdentifyLost
<1>3. ASSUME ActiveCrash PROVE TypeOK'
  BY <1>3 DEF ActiveCrash, End, Phases
<1>4. ASSUME PassiveCrash PROVE TypeOK'
  BY <1>4, EmptySeq DEF PassiveCrash, Forget
<1> QED
  BY <1>1, <1>2, <1>3, <1>4 DEF Network, Crashes

LEMMA NextTypes ==
  ASSUME TypeOK, [Next]_vars PROVE TypeOK'
<1>1. CASE UNCHANGED vars
  BY <1>1 DEF TypeOK, vars, activeVars, passiveVars, netVars
<1> QED
  BY <1>1, ActiveTypes, PassiveTypes, NetworkTypes DEF Next, Ended

\* TypeOK for any number of flows.
THEOREM TypeCorrect == Spec => []TypeOK
<1> QED
  BY InitTypes, NextTypes, PTL DEF Spec

-----------------------------------------------------------------------------
(* The inductive invariant.                                                *)

LEMMA InitIInv == Init => IInv
<1> SUFFICES ASSUME Init PROVE IInv
  OBVIOUS
<1>1. TypeOK
  BY InitTypes
<1>2. InvPending
  BY EmptySeq DEF Init, InvPending
<1>3. InvGone /\ InvConversation
  BY DEF Init, InvGone, InvConversation
<1>4. InvBinding
  BY ConstantsAssumption DEF Init, InvBinding, BindPhases, Flows
<1>5. InvMeasuring
  BY DEF Init, InvMeasuring, BindPhases, CollectPhases, DownloadPhases
<1> QED
  BY <1>1, <1>2, <1>3, <1>4, <1>5 DEF IInv

\* The active node gives up: all that IInv says of its phase is off.
LEMMA FailIInv ==
  ASSUME IInv, TypeOK', phase' \in FailedPhases,
         UNCHANGED <<wanted, request, passiveVars>>
  PROVE  IInv'
<1> USE DEF IInv, passiveVars
<1>1. InvPending'
  BY DEF InvPending
<1>2. InvGone'
  BY DEF InvGone
<1>3. InvConversation'
  BY DEF InvConversation
<1>4. InvBinding'
  BY DEF InvBinding, BindPhases
<1>5. InvMeasuring'
  BY DEF InvMeasuring, BindPhases, CollectPhases, DownloadPhases
<1> QED
  BY <1>1, <1>2, <1>3, <1>4, <1>5

\* The active node sets up a flow or the measurement.
LEMMA SetupIInv ==
  ASSUME IInv, TypeOK', Setup PROVE IInv'
<1> USE DEF IInv, activeVars, passiveVars, netVars
<1>1. ASSUME SendAddFlow PROVE IInv'
  <2>1. /\ phase = "add" /\ request = <<>> /\ answer' = <<>>
        /\ phase' = "addAck" /\ request' \in {<<>>, <<AddFlow(cur)>>}
        /\ ~passiveOpen => request' = <<>>
        /\ UNCHANGED <<wanted, cur, identify, passiveVars>>
    BY <1>1, SendRequestStep, MessageTypes
       DEF SendAddFlow, InvConversation, TypeOK
  <2>2. InvPending'
    BY <2>1 DEF InvPending, AddFlow
  <2>3. InvGone' /\ InvConversation'
    BY <2>1 DEF InvGone, InvConversation, OneExchange
  <2>4. InvBinding'
    BY <2>1 DEF InvBinding, BindPhases, Ready
  <2>5. InvMeasuring'
    BY <2>1 DEF InvMeasuring, BindPhases, CollectPhases, DownloadPhases
  <2> QED
    BY <2>2, <2>3, <2>4, <2>5
<1>2. ASSUME AddAcknowledged PROVE IInv'
  <2>1. /\ phase = "addAck" /\ request' = <<>> /\ answer # <<>> /\ answer' = <<>>
        /\ phase' = "identify"
        /\ UNCHANGED <<wanted, cur, identify, passiveVars>>
    BY <1>2, TakeAnswerStep
       DEF AddAcknowledged, Acknowledged, InvConversation, OneExchange, TypeOK
  <2>2. InvPending'
    BY <2>1 DEF InvPending
  <2>3. InvGone' /\ InvConversation'
    BY <2>1 DEF InvGone, InvConversation
  <2>4. InvBinding'
    BY <2>1 DEF InvBinding, BindPhases, Ready
  <2>5. InvMeasuring'
    BY <2>1 DEF InvMeasuring, BindPhases, CollectPhases, DownloadPhases
  <2> QED
    BY <2>2, <2>3, <2>4, <2>5
<1>3. ASSUME SendIdentify PROVE IInv'
  <2>1. /\ phase = "identify" /\ phase' = "identifyAck" /\ request' = <<>>
        /\ identify' = identify \cup {cur} /\ cur \in Flows
        /\ UNCHANGED <<wanted, cur, answer, passiveVars>>
    BY <1>3 DEF SendIdentify, InvConversation, TypeOK
  <2>2. InvPending'
    BY <2>1 DEF InvPending
  <2>3. InvGone' /\ InvConversation'
    BY <2>1 DEF InvGone, InvConversation
  <2>4. InvBinding'
    <3>1. \A f \in identify' : f <= cur
      BY <2>1, ConstantsAssumption DEF InvBinding, BindPhases, Flows
    <3> QED
      BY <2>1, <3>1 DEF InvBinding, BindPhases, Ready
  <2>5. InvMeasuring'
    BY <2>1 DEF InvMeasuring, BindPhases, CollectPhases, DownloadPhases
  <2> QED
    BY <2>2, <2>3, <2>4, <2>5
<1>4. ASSUME IdentifyAcknowledged PROVE IInv'
  <2>1. /\ phase = "identifyAck" /\ request' = <<>> /\ cur \in Flows
        /\ answer = <<Ack(cur, TRUE)>> /\ answer' = <<>>
        /\ UNCHANGED <<wanted, identify, passiveVars>>
    BY <1>4, TakeAnswerStep
       DEF IdentifyAcknowledged, Acknowledged, AwaitedFlow, InvConversation,
           TypeOK
  <2>2. InvPending'
    BY <2>1 DEF InvPending
  <2>3. /\ passiveOpen => \A f \in Flows : f <= cur => Ready(f, "bound")
        /\ \A f \in Flows : f > cur => flow[f] = "absent"
        /\ \A f \in identify : f <= cur /\ f \in Flows
        /\ ~measuring
    <3>1. passiveOpen => Ready(cur, "bound")
      BY <2>1 DEF InvBinding
    <3> QED
      BY <2>1, <3>1, ConstantsAssumption
         DEF InvBinding, InvMeasuring, BindPhases, Flows, TypeOK
  <2>4. CASE cur < NumFlows
    <3>1. phase' = "add" /\ cur' = cur + 1 /\ cur' \in Flows
      BY <1>4, <2>1, <2>4, ConstantsAssumption
         DEF IdentifyAcknowledged, Flows
    <3>2. InvBinding'
      BY <2>1, <2>3, <3>1, ConstantsAssumption
         DEF InvBinding, BindPhases, Ready, Flows
    <3>3. InvGone' /\ InvConversation' /\ InvMeasuring'
      BY <2>1, <2>3, <3>1 DEF InvGone, InvConversation, InvMeasuring,
         BindPhases, CollectPhases, DownloadPhases
    <3> QED
      BY <2>2, <3>2, <3>3
  <2>5. CASE cur = NumFlows
    <3>1. phase' = "start"
      BY <1>4, <2>1, <2>5, ConstantsAssumption DEF IdentifyAcknowledged
    <3>2. passiveOpen => \A f \in Flows : Ready(f, "bound")
      BY <2>3, <2>5, ConstantsAssumption DEF Flows
    <3>3. InvBinding'
      BY <2>1, <3>1, <3>2 DEF InvBinding, BindPhases, Ready, InvGone
    <3>4. InvGone' /\ InvConversation' /\ InvMeasuring'
      BY <2>1, <2>3, <3>1, <3>2 DEF InvGone, InvConversation, InvMeasuring,
         BindPhases, CollectPhases, DownloadPhases, Ready
    <3> QED
      BY <2>2, <3>3, <3>4
  <2> QED
    BY <2>1, <2>4, <2>5, ConstantsAssumption DEF Flows
<1>5. ASSUME IdentifyFails PROVE IInv'
  <2>1. CASE phase' \in FailedPhases
    BY <1>5, <2>1, FailIInv DEF IdentifyFails
  <2>2. CASE phase' = "identify"
    <3>1. /\ phase = "identifyAck" /\ request' = <<>> /\ answer' = <<>>
          /\ UNCHANGED <<wanted, cur, identify, passiveVars>>
      BY <1>5, TakeAnswerStep
         DEF IdentifyFails, NotAcknowledged, EndOfAnswers, InvConversation,
             TypeOK
    <3>2. InvPending'
      BY <3>1 DEF InvPending
    <3>3. InvGone' /\ InvConversation'
      BY <2>2, <3>1 DEF InvGone, InvConversation
    <3>4. InvBinding'
      BY <2>2, <3>1 DEF InvBinding, BindPhases, Ready
    <3>5. InvMeasuring'
      BY <2>2, <3>1 DEF InvMeasuring, BindPhases, CollectPhases, DownloadPhases
    <3> QED
      BY <3>2, <3>3, <3>4, <3>5
  <2> QED
    BY <1>5, <2>1, <2>2 DEF IdentifyFails, IdentifyRetry, Fail
<1>6. ASSUME SendStart PROVE IInv'
  <2>1. /\ phase = "start" /\ request = <<>> /\ answer' = <<>>
        /\ phase' = "startAck" /\ request' \in {<<>>, <<Start>>}
        /\ ~passiveOpen => request' = <<>>
        /\ UNCHANGED <<wanted, cur, identify, passiveVars>>
    BY <1>6, SendRequestStep, MessageTypes
       DEF SendStart, InvConversation, TypeOK
  <2>2. ~measuring
    BY <2>1 DEF InvMeasuring
  <2>3. InvPending'
    BY <2>1, <2>2 DEF InvPending, Start
  <2>4. InvGone' /\ InvConversation'
    BY <2>1 DEF InvGone, InvConversation, OneExchange
  <2>5. InvBinding'
    BY <2>1 DEF InvBinding, BindPhases
  <2>6. answer' # <<Ack(0, TRUE)>>
    BY <2>1
  <2>7. InvMeasuring'
    BY <2>1, <2>2, <2>6 DEF InvMeasuring, BindPhases, CollectPhases,
       DownloadPhases, Ready
  <2> QED
    BY <2>3, <2>4, <2>5, <2>7
<1>7. ASSUME StartAcknowledged PROVE IInv'
  <2>1. /\ phase = "startAck" /\ request' = <<>>
        /\ answer = <<Ack(0, TRUE)>> /\ answer' = <<>> /\ phase' = "running"
        /\ UNCHANGED <<wanted, cur, identify, passiveVars>>
    BY <1>7, TakeAnswerStep
       DEF StartAcknowledged, Acknowledged, AwaitedFlow, InvConversation,
           OneExchange, TypeOK
  <2>2. InvPending'
    BY <2>1 DEF InvPending
  <2>3. InvGone' /\ InvConversation' /\ InvBinding'
    BY <2>1 DEF InvGone, InvConversation, InvBinding, BindPhases
  <2>4. InvMeasuring'
    BY <2>1 DEF InvMeasuring, BindPhases, CollectPhases, DownloadPhases, Ready
  <2> QED
    BY <2>2, <2>3, <2>4
<1>8. ASSUME BeginFails PROVE IInv'
  BY <1>8, FailIInv DEF BeginFails, Fail
<1> QED
  BY <1>1, <1>2, <1>3, <1>4, <1>5, <1>6, <1>7, <1>8 DEF Setup

\* The measurement runs on the active node and comes to its end.
LEMMA RunningIInv ==
  ASSUME IInv, TypeOK', Running PROVE IInv'
<1> USE DEF IInv, activeVars, passiveVars, netVars
<1>1. ASSUME StopTimeReached PROVE IInv'
  <2>1. /\ phase = "running" /\ phase' = "stop" /\ request' = <<>>
        /\ answer' = <<>> /\ UNCHANGED <<wanted, cur, identify, passiveVars>>
    BY <1>1 DEF StopTimeReached, InvConversation
  <2>2. InvPending' /\ InvGone' /\ InvConversation'
    BY <2>1 DEF InvPending, InvGone, InvConversation
  <2>3. InvBinding'
    BY <2>1 DEF InvBinding, BindPhases
  <2>4. InvMeasuring'
    BY <2>1 DEF InvMeasuring, BindPhases, CollectPhases, DownloadPhases, Ready
  <2> QED
    BY <2>2, <2>3, <2>4
<1>2. ASSUME Aborted PROVE IInv'
  <2>1. /\ phase = "running" /\ phase' = "stop" /\ request' = <<>>
        /\ answer' = <<>> /\ UNCHANGED <<wanted, cur, identify, passiveVars>>
    BY <1>2 DEF Aborted, InvConversation
  <2>2. InvPending' /\ InvGone' /\ InvConversation'
    BY <2>1 DEF InvPending, InvGone, InvConversation
  <2>3. InvBinding'
    BY <2>1 DEF InvBinding, BindPhases
  <2>4. InvMeasuring'
    BY <2>1 DEF InvMeasuring, BindPhases, CollectPhases, DownloadPhases, Ready
  <2> QED
    BY <2>2, <2>3, <2>4
<1> QED
  BY <1>1, <1>2 DEF Running

\* The active node stops the measurement and collects the results: from the
\* acknowledged Stop on, no flow is half set up and nothing is measured.
LEMMA StoppingIInv ==
  ASSUME IInv, TypeOK', Stopping PROVE IInv'
<1> USE DEF IInv, activeVars, passiveVars, netVars
<1>1. ASSUME SendStop PROVE IInv'
  <2>1. /\ phase = "stop" /\ request = <<>> /\ answer' = <<>>
        /\ phase' = "stopAck" /\ request' \in {<<>>, <<Stop>>}
        /\ ~passiveOpen => request' = <<>>
        /\ UNCHANGED <<wanted, cur, identify, passiveVars>>
    BY <1>1, SendRequestStep, MessageTypes
       DEF SendStop, InvConversation, TypeOK
  <2>2. InvPending'
    BY <2>1 DEF InvPending, Stop
  <2>3. InvGone' /\ InvConversation'
    BY <2>1 DEF InvGone, InvConversation
  <2>4. InvBinding' /\ InvMeasuring'
    BY <2>1 DEF InvBinding, InvMeasuring, BindPhases, CollectPhases,
       DownloadPhases
  <2> QED
    BY <2>2, <2>3, <2>4
<1>2. ASSUME Stopping, phase \in CollectPhases \cup {"done"},
             phase' \in CollectPhases \cup {"done"},
             UNCHANGED <<wanted, passiveVars>>,
             UNCHANGED request \/ SendRequest(RemoveFlow(cur))
      PROVE  IInv'
  <2>1. /\ \A i \in 1..Len(request') :
             \/ i \in 1..Len(request) /\ request'[i] = request[i]
             \/ request'[i] = RemoveFlow(cur)
        /\ ~passiveOpen => request' = <<>>
    <3>1. CASE UNCHANGED request
      BY <3>1 DEF InvGone
    <3>2. CASE SendRequest(RemoveFlow(cur))
      BY <3>2, SendRequestStep, MessageTypes DEF InvGone, TypeOK
    <3> QED
      BY <1>2, <3>1, <3>2
  <2>2. InvPending'
    <3>1. \A i \in 1..Len(request) : request[i].type \notin {"ADD_FLOW", "START", "STOP"}
      BY <1>2 DEF InvPending, CollectPhases, DownloadPhases
    <3> QED
      BY <2>1, <3>1 DEF InvPending, RemoveFlow
  <2>3. InvGone' /\ InvConversation'
    BY <1>2, <2>1 DEF InvGone, InvConversation, CollectPhases, DownloadPhases
  <2>4. InvBinding' /\ InvMeasuring'
    BY <1>2 DEF InvBinding, InvMeasuring, BindPhases, CollectPhases,
       DownloadPhases
  <2> QED
    BY <2>2, <2>3, <2>4
<1>3. ASSUME StopAcknowledged PROVE IInv'
  <2>1. /\ phase = "stopAck" /\ answer # <<>> /\ request' = <<>>
        /\ phase' \in {"vector", "scalar", "remove"}
        /\ UNCHANGED <<wanted, passiveVars>>
    BY <1>3 DEF StopAcknowledged, Acknowledged, AfterStop, InvConversation
  <2>2. InvPending' /\ InvGone'
    BY <2>1 DEF InvPending, InvGone
  <2>3. InvConversation'
    BY <2>1 DEF InvConversation
  <2>4. InvBinding' /\ InvMeasuring'
    BY <2>1 DEF InvBinding, InvMeasuring, BindPhases, CollectPhases,
       DownloadPhases
  <2> QED
    BY <2>2, <2>3, <2>4
<1>4. ASSUME SendRemoveFlow PROVE IInv'
  BY <1>2, <1>4 DEF SendRemoveFlow, NextRemoval, Stopping, CollectPhases
<1>5. ASSUME RemoveAcknowledged PROVE IInv'
  BY <1>2, <1>5 DEF RemoveAcknowledged, Stopping, CollectPhases,
     DownloadPhases
<1>6. ASSUME DownloadChunk PROVE IInv'
  BY <1>2, <1>6 DEF DownloadChunk, AfterVector, NextRemoval, Stopping,
     CollectPhases, DownloadPhases
<1>7. ASSUME DownloadFails PROVE IInv'
  BY <1>7, FailIInv DEF DownloadFails, Fail
<1>8. ASSUME Cleanup PROVE IInv'
  BY <1>2, <1>8 DEF Cleanup, Stopping, CollectPhases
<1> QED
  BY <1>1, <1>3, <1>4, <1>5, <1>6, <1>7, <1>8 DEF Stopping

LEMMA ActiveIInv ==
  ASSUME IInv, TypeOK', Active PROVE IInv'
<1>1. ASSUME Waiting PROVE IInv'
  BY <1>1, FailIInv DEF Waiting, AckFails, SendFails, Fail, activeVars,
     passiveVars, netVars
<1>2. ASSUME Exit PROVE IInv'
  BY <1>2, FailIInv DEF Exit, End, netVars
<1> QED
  BY <1>1, <1>2, SetupIInv, RunningIInv, StoppingIInv DEF Active

\* What is still pending after a request was read was pending before, and no
\* Start is.
LEMMA ReceivesPending ==
  ASSUME IInv, NEW type, Receives(type), phase' = phase
  PROVE  InvPending'
<1>1. \A i \in 1..Len(request') : /\ request'[i] = request[i + 1]
                                  /\ i + 1 \in 1..Len(request)
                                  /\ Len(request) # 1
  BY ReceivesStep, LenProperties DEF IInv, TypeOK
<1> QED
  BY <1>1 DEF IInv, InvPending

\* In the phases that are neither those of a flow being set up nor those of a
\* measurement, a handler cannot disturb what IInv says of flows.
LEMMA HandlerIInv ==
  ASSUME IInv, TypeOK', passiveOpen, passiveOpen', phase' = phase,
         phase \in CollectPhases \cup {"done"} \cup FailedPhases,
         InvPending',
         \A f \in Flows : flow[f] # "added" => flow'[f] # "added",
         phase \in FailedPhases \/ ~measuring'
  PROVE  IInv'
<1>1. InvGone' /\ InvConversation'
  BY DEF InvGone, InvConversation, CollectPhases, DownloadPhases
<1>2. InvBinding' /\ InvMeasuring'
  BY DEF IInv, InvBinding, InvMeasuring, BindPhases, CollectPhases,
         DownloadPhases
<1> QED
  BY <1>1, <1>2 DEF IInv

LEMMA HandleAddFlowIInv ==
  ASSUME IInv, TypeOK', HandleAddFlow PROVE IInv'
<1> USE DEF IInv, activeVars, passiveVars, netVars
<1> DEFINE f == Head(request).flow
<1>1. /\ passiveOpen /\ passiveOpen'
      /\ phase \in {"addAck"} \cup FailedPhases /\ phase' = phase
      /\ InvPending'
      /\ UNCHANGED <<wanted, cur, identify, hasFile, measuring>>
  <2>1. Receives("ADD_FLOW") /\ UNCHANGED <<activeVars, identify, passiveOpen,
                                            hasFile, measuring>>
    BY DEF HandleAddFlow
  <2>2. passiveOpen /\ request[1].type = "ADD_FLOW" /\ 1 \in 1..Len(request)
    BY <2>1, ReceivesStep DEF TypeOK
  <2>3. phase \in {"addAck"} \cup FailedPhases
    BY <2>2 DEF InvPending
  <2> QED
    BY <2>1, <2>2, <2>3, ReceivesPending
<1>2. CASE phase \in FailedPhases
  BY <1>1, <1>2, HandlerIInv DEF HandleAddFlow, TypeOK, InvGone,
     InvConversation, InvBinding, InvMeasuring, BindPhases, CollectPhases,
     DownloadPhases
<1>3. CASE phase = "addAck"
  <2>1. request = <<AddFlow(cur)>> /\ answer = <<>>
    BY <1>1, <1>3, ReceivesStep
       DEF HandleAddFlow, InvConversation, OneExchange, TypeOK
  <2>2. f = cur /\ request' = <<>> /\ cur \in Flows /\ cur \in 0..NumFlows
    BY <2>1, ReceivesStep, ConstantsAssumption
       DEF HandleAddFlow, AddFlow, TypeOK, Flows
  <2>3. flow[cur] = "absent"
    BY <1>1, <1>3, <2>1 DEF InvBinding
  <2>4. flow' = [flow EXCEPT ![cur] = "added"]
    BY <2>2, <2>3 DEF HandleAddFlow
  <2>5. Len(answer') <= 1
    <3>1. PICK ok \in BOOLEAN : SendAnswers(<<Ack(cur, ok)>>)
      BY <2>2, Zenon DEF HandleAddFlow
    <3> QED
      BY <2>1, <2>2, <3>1, SendAckStep, Zenon DEF TypeOK
  <2>6. InvGone' /\ InvConversation'
    BY <1>1, <1>3, <2>2, <2>5 DEF InvGone, InvConversation, OneExchange
  <2>7. InvBinding'
    BY <1>1, <1>3, <2>2, <2>4, ConstantsAssumption
       DEF InvBinding, BindPhases, Ready, TypeOK, Flows
  <2>8. InvMeasuring'
    BY <1>1, <1>3 DEF InvMeasuring, BindPhases, CollectPhases, DownloadPhases
  <2> QED
    BY <1>1, <2>6, <2>7, <2>8
<1> QED
  BY <1>1, <1>2, <1>3

LEMMA HandleIdentifyIInv ==
  ASSUME IInv, TypeOK', NEW f \in Flows, HandleIdentify(f) PROVE IInv'
<1> USE DEF IInv, activeVars, passiveVars, netVars
<1>1. /\ f \in identify /\ identify' \subseteq identify
      /\ UNCHANGED <<wanted, phase, cur, request, passiveOpen, measuring>>
  <2>1. IdentifyArrives(f) /\ UNCHANGED <<activeVars, request, passiveOpen,
                                          measuring>>
    BY DEF HandleIdentify
  <2> QED
    BY <2>1 DEF IdentifyArrives
<1>2. InvPending'
  BY <1>1 DEF InvPending
<1>3. CASE flow[f] # "added"
  <2>1. UNCHANGED <<flow, hasFile, answer>>
    BY <1>3 DEF HandleIdentify
  <2>2. InvGone' /\ InvConversation'
    BY <1>1, <2>1 DEF InvGone, InvConversation, OneExchange
  <2>3. InvBinding'
    BY <1>1, <2>1 DEF InvBinding, BindPhases, Ready
  <2>4. InvMeasuring'
    BY <1>1, <2>1 DEF InvMeasuring, BindPhases, CollectPhases, DownloadPhases,
       Ready
  <2> QED
    BY <1>2, <2>2, <2>3, <2>4
<1>4. ASSUME flow[f] = "added" PROVE passiveOpen /\ InvGone'
  BY <1>1, <1>4 DEF InvGone
<1>5. CASE flow[f] = "added" /\ phase \in FailedPhases
  BY <1>1, <1>2, <1>4, <1>5
     DEF InvConversation, InvBinding, InvMeasuring, BindPhases,
         CollectPhases, DownloadPhases
<1>6. CASE flow[f] = "added" /\ phase \notin FailedPhases
  <2>1. phase \in {"identify", "identifyAck"} /\ f = cur
    <3>1. phase \in BindPhases
      BY <1>6 DEF InvBinding
    <3>2. f <= cur
      BY <1>1, <3>1 DEF InvBinding
    <3>3. ~(f < cur)
      BY <1>1, <1>4, <1>6, <3>1 DEF InvBinding, Ready
    <3>4. f = cur
      BY <3>2, <3>3, ConstantsAssumption DEF TypeOK, Flows
    <3> QED
      BY <1>1, <3>1, <3>4 DEF InvBinding, BindPhases
  <2>2. answer = <<>> /\ request = <<>> /\ cur \in 0..NumFlows
    <3>1. answer = <<>> /\ request = <<>>
      BY <1>1, <1>4, <1>6, <2>1 DEF InvBinding, InvConversation
    <3> QED
      BY <2>1, <3>1, ConstantsAssumption DEF Flows
  <2>3. PICK ok \in BOOLEAN :
          /\ flow' = [flow EXCEPT ![cur] = "bound"]
          /\ hasFile' = [hasFile EXCEPT ![cur] = ok /\ "vector" \in wanted]
          /\ SendAnswers(<<Ack(cur, ok)>>)
    BY <1>6, <2>1, Zenon DEF HandleIdentify
  <2>4. Len(answer') <= 1 /\ (answer' = <<Ack(cur, TRUE)>> => ok)
    BY <2>2, <2>3, SendAckStep, Zenon DEF TypeOK
  <2>5. InvConversation'
    BY <1>1, <2>1, <2>2, <2>4 DEF InvConversation
  <2>7. answer' = <<Ack(cur, TRUE)>> => ("vector" \in wanted => hasFile'[cur])
    BY <2>1, <2>3, <2>4 DEF TypeOK
  <2>8. InvBinding'
    <3>1. /\ \A g \in Flows : g # cur => flow'[g] = flow[g]
                                         /\ hasFile'[g] = hasFile[g]
          /\ flow'[cur] = "bound" /\ cur \in Flows
      BY <2>1, <2>3 DEF TypeOK
    <3>2. \A g \in Flows : (g < cur => g # cur) /\ (g > cur => g # cur)
      BY ConstantsAssumption DEF TypeOK, Flows
    <3> QED
      BY <1>1, <2>1, <2>7, <3>1, <3>2 DEF InvBinding, BindPhases, Ready
  <2>9. InvMeasuring'
    BY <1>1, <2>1 DEF InvMeasuring, BindPhases, CollectPhases, DownloadPhases
  <2> QED
    BY <1>2, <1>4, <1>6, <2>5, <2>8, <2>9
<1> QED
  BY <1>3, <1>5, <1>6

LEMMA HandleStartIInv ==
  ASSUME IInv, TypeOK', HandleStart PROVE IInv'
<1> USE DEF IInv, activeVars, passiveVars, netVars
<1>1. /\ passiveOpen /\ passiveOpen' /\ phase' = phase
      /\ phase \in {"startAck"} \cup FailedPhases /\ request # <<>> /\ request' = <<>>
      /\ ~measuring
      /\ UNCHANGED <<wanted, cur, identify, hasFile>>
  BY ReceivesStep DEF HandleStart, InvPending, TypeOK
<1>2. InvPending' /\ InvGone'
  BY <1>1 DEF InvPending, InvGone
<1>3. CASE phase \in FailedPhases
  BY <1>1, <1>2, <1>3
     DEF InvConversation, InvBinding, InvMeasuring, BindPhases,
         CollectPhases, DownloadPhases
<1>4. CASE phase = "startAck"
  <2>1. answer = <<>>
    BY <1>1, <1>4 DEF InvConversation, OneExchange
  <2>2. PICK ok \in BOOLEAN :
          /\ measuring' = ok
          /\ flow' = [f \in Flows |-> IF ok /\ flow[f] = "bound"
                                      THEN "running" ELSE flow[f]]
          /\ SendAnswers(<<Ack(0, ok)>>)
    BY Zenon DEF HandleStart
  <2>3. Len(answer') <= 1 /\ (answer' = <<Ack(0, TRUE)>> => ok)
    <3>1. 0 \in 0..NumFlows
      BY ConstantsAssumption
    <3> QED
      BY <2>1, <2>2, <3>1, SendAckStep, Zenon DEF TypeOK
  <2>4. InvConversation'
    BY <1>1, <1>4, <2>3 DEF InvConversation, OneExchange
  <2>6. \A f \in Flows : flow[f] = "bound" /\ ("vector" \in wanted => hasFile[f])
    BY <1>1, <1>4 DEF InvMeasuring, Ready
  <2>7. \A f \in Flows : flow'[f] = IF ok THEN "running" ELSE "bound"
    BY <2>2, <2>6
  <2>8. InvBinding'
    BY <1>1, <1>4, <2>7 DEF InvBinding, BindPhases
  <2>9. InvMeasuring'
    BY <1>1, <1>4, <2>2, <2>3, <2>6, <2>7
       DEF InvMeasuring, BindPhases, CollectPhases, DownloadPhases, Ready
  <2> QED
    BY <1>2, <2>4, <2>8, <2>9
<1> QED
  BY <1>1, <1>3, <1>4

LEMMA HandleStopIInv ==
  ASSUME IInv, TypeOK', HandleStop PROVE IInv'
<1> USE DEF IInv, activeVars, passiveVars, netVars
<1>1. /\ passiveOpen /\ passiveOpen' /\ phase' = phase
      /\ phase \in {"stopAck"} \cup FailedPhases /\ ~measuring'
      /\ InvPending'
      /\ UNCHANGED <<wanted, cur, identify, hasFile>>
  BY ReceivesStep, ReceivesPending DEF HandleStop, InvPending, TypeOK
<1>2. \A f \in Flows : flow[f] # "added" => flow'[f] # "added"
  BY DEF HandleStop, StoppedFlows
<1>3. CASE phase \in FailedPhases
  BY <1>1, <1>2, <1>3, HandlerIInv
<1>4. CASE phase = "stopAck"
  <2>1. request' = <<>>
    BY <1>4, ReceivesStep DEF HandleStop, InvConversation, TypeOK
  <2>2. InvGone' /\ InvConversation'
    BY <1>1, <1>4, <2>1 DEF InvGone, InvConversation
  <2>3. InvBinding' /\ InvMeasuring'
    BY <1>1, <1>2, <1>4 DEF InvBinding, InvMeasuring, BindPhases,
       CollectPhases, DownloadPhases
  <2> QED
    BY <1>1, <2>2, <2>3
<1> QED
  BY <1>1, <1>3, <1>4

LEMMA HandleRemoveFlowIInv ==
  ASSUME IInv, TypeOK', HandleRemoveFlow PROVE IInv'
<1> USE DEF IInv, activeVars, passiveVars, netVars
<1>1. /\ passiveOpen /\ passiveOpen' /\ phase' = phase
      /\ InvPending' /\ measuring' = measuring
      /\ request # <<>> /\ request[1].type = "REMOVE_FLOW"
  BY ReceivesStep, ReceivesPending DEF HandleRemoveFlow, Receives, TypeOK
<1>2. phase \in CollectPhases \cup {"done"} \cup FailedPhases
  <2>1. request \notin {<<AddFlow(cur)>>, <<Start>>, <<Stop>>}
    BY <1>1 DEF AddFlow, Start, Stop
  <2> QED
    BY <1>1, <2>1
       DEF InvConversation, OneExchange, TypeOK, Phases, SetupPhases,
           CollectPhases
<1>3. \A f \in Flows : flow[f] # "added" => flow'[f] # "added"
  BY DEF HandleRemoveFlow, TypeOK
<1>4. phase \in FailedPhases \/ ~measuring
  BY <1>2 DEF InvMeasuring
<1> QED
  BY <1>1, <1>2, <1>3, <1>4, HandlerIInv

\* The passive node forgets the session, in a shutdown or a crash.
LEMMA ForgetIInv ==
  ASSUME IInv, TypeOK', Forget, UNCHANGED <<activeVars, answer, identify>>
  PROVE  IInv'
<1> USE DEF IInv, Forget, activeVars
<1>1. InvPending' /\ InvGone'
  BY DEF InvPending, InvGone
<1>2. InvConversation'
  BY DEF InvConversation, OneExchange
<1>3. InvBinding'
  BY DEF InvBinding, BindPhases, TypeOK
<1>4. InvMeasuring'
  BY DEF InvMeasuring
<1> QED
  BY <1>1, <1>2, <1>3, <1>4

LEMMA PassiveIInv ==
  ASSUME IInv, TypeOK', Passive PROVE IInv'
  BY HandleAddFlowIInv, HandleIdentifyIInv, HandleStartIInv, HandleStopIInv,
     HandleRemoveFlowIInv, ForgetIInv
     DEF Passive, HandleControlAssocShutdown

LEMMA LinkLostIInv ==
  ASSUME IInv, TypeOK', LinkLost PROVE IInv'
<1> USE DEF IInv, activeVars, passiveVars
<1>1. /\ UNCHANGED <<wanted, phase, cur, identify, passiveVars>>
      /\ \A i \in 1..Len(request') : /\ request'[i] = request[i]
                                     /\ i \in 1..Len(request)
      /\ Len(request') <= Len(request)
      /\ Len(request) <= 1 => request' \in {<<>>, request}
      /\ request = <<>> => request' = <<>>
      /\ Len(answer) <= 1 => answer' \in {<<>>, answer}
      /\ answer = <<>> => answer' = <<>>
  <2>1. UNCHANGED <<wanted, phase, cur, identify, passiveVars>>
    BY DEF LinkLost
  <2>2. PICK i \in 0..Len(request) : request' = SubSeq(request, 1, i)
    BY DEF LinkLost
  <2>3. PICK j \in 0..Len(answer) : answer' = SubSeq(answer, 1, j)
    BY DEF LinkLost
  <2>4. /\ \A k \in 1..Len(request') : /\ request'[k] = request[k]
                                       /\ k \in 1..Len(request)
        /\ Len(request') <= Len(request)
        /\ Len(request) <= 1 => request' \in {<<>>, request}
    BY <2>2, Prefix, LenProperties DEF TypeOK
  <2>5. Len(answer) <= 1 => answer' \in {<<>>, answer}
    BY <2>3, Prefix DEF TypeOK
  <2>6. Len(<<>>) <= 1
    OBVIOUS
  <2> QED
    BY <2>1, <2>4, <2>5, <2>6, Zenon
<1>2. InvPending'
  <2>1. \A i \in 1..Len(request') : Len(request) = 1 => Len(request') = 1
    BY <1>1, LenProperties DEF TypeOK
  <2> QED
    BY <1>1, <2>1 DEF InvPending
<1>3. InvGone'
  BY <1>1 DEF InvGone
<1>4. \A m : OneExchange(m) => OneExchange(m)'
  <2>1. SUFFICES ASSUME NEW m, OneExchange(m) PROVE OneExchange(m)'
    OBVIOUS
  <2>2. Len(<<m>>) = 1 /\ Len(<<>>) = 0
    OBVIOUS
  <2>3. CASE request = <<m>> /\ answer = <<>>
    BY <1>1, <2>2, <2>3 DEF OneExchange
  <2>4. CASE request = <<>> /\ Len(answer) <= 1
    BY <1>1, <2>2, <2>4 DEF OneExchange
  <2> QED
    BY <2>1, <2>3, <2>4 DEF OneExchange
<1>5. InvConversation'
  BY <1>1, <1>4 DEF InvConversation
<1>6. /\ request' # <<>> => request # <<>>
      /\ answer' # <<>> => answer # <<>>
      /\ phase \in {"identify", "identifyAck", "startAck"} =>
           \A m : answer' = <<m>> => answer = <<m>>
  <2>1. ASSUME phase \in {"identify", "identifyAck", "startAck"}
        PROVE  answer' \in {<<>>, answer}
    <3>1. Len(answer) <= 1
      BY <2>1, EmptySeq DEF InvConversation, OneExchange
    <3> QED
      BY <1>1, <3>1
  <2>2. \A m : <<m>> # <<>>
    OBVIOUS
  <2> QED
    BY <1>1, <2>1, <2>2, Zenon
<1>7. InvBinding'
  BY <1>1, <1>6 DEF InvBinding, BindPhases, Ready
<1>8. InvMeasuring'
  BY <1>1, <1>6 DEF InvMeasuring, BindPhases, CollectPhases, DownloadPhases,
     Ready
<1> QED
  BY <1>2, <1>3, <1>5, <1>7, <1>8

LEMMA NetworkIInv ==
  ASSUME IInv, TypeOK', Network \/ Crashes PROVE IInv'
<1> USE DEF activeVars, passiveVars
<1>1. ASSUME NEW f \in Flows, IdentifyLost(f) PROVE IInv'
  <2>1. /\ identify' \subseteq identify
        /\ UNCHANGED <<wanted, phase, cur, request, answer, passiveVars>>
    BY <1>1 DEF IdentifyLost
  <2>2. InvPending' /\ InvGone' /\ InvConversation'
    BY <2>1 DEF IInv, InvPending, InvGone, InvConversation, OneExchange
  <2>3. InvBinding' /\ InvMeasuring'
    BY <2>1 DEF IInv, InvBinding, InvMeasuring, BindPhases, Ready
  <2> QED
    BY <2>2, <2>3 DEF IInv
<1>2. ASSUME ActiveCrash PROVE IInv'
  BY <1>2, FailIInv DEF ActiveCrash, End, netVars
<1>3. ASSUME PassiveCrash PROVE IInv'
  BY <1>3, ForgetIInv DEF PassiveCrash
<1> QED
  BY <1>1, <1>2, <1>3, LinkLostIInv DEF Network, Crashes

LEMMA NextIInv ==
  ASSUME IInv, [Next]_vars PROVE IInv'
<1>1. TypeOK'
  BY NextTypes DEF IInv
<1>2. CASE UNCHANGED vars
  <2>1. UNCHANGED activeVars /\ UNCHANGED passiveVars /\ UNCHANGED netVars
    BY <1>2, Zenon DEF vars
  <2> USE <2>1 DEF activeVars, passiveVars, netVars
  <2>2. InvPending' /\ InvGone'
    BY DEF IInv, InvPending, InvGone
  <2>3. InvConversation'
    BY DEF IInv, InvConversation, OneExchange
  <2>4. InvBinding'
    BY ZenonT(40) DEF IInv, InvBinding, Ready
  <2>5. InvMeasuring'
    BY DEF IInv, InvMeasuring, Ready
  <2> QED
    BY <1>1, <2>2, <2>3, <2>4, <2>5 DEF IInv
<1> QED
  BY <1>1, <1>2, ActiveIInv, PassiveIInv, NetworkIInv DEF Next, Ended

\* IInv holds in every reachable state.
THEOREM InductiveInvariant == Spec => []IInv
<1> QED
  BY InitIInv, NextIInv, PTL DEF Spec

\* NoStrayAnswer: whatever the network repeats, loses or reorders between the
\* data sockets and the control association, no Acknowledge is left over for
\* the active node to take as the answer to another request.
THEOREM NoStrayAnswerHolds == Spec => []NoStrayAnswer
<1>1. IInv => NoStrayAnswer
  BY DEF IInv, InvConversation, NoStrayAnswer
<1> QED
  BY <1>1, InductiveInvariant, PTL

\* DataHasReceiver: every flow that transmits is bound on a passive node that
\* still knows the session.
THEOREM DataHasReceiverHolds == Spec => []DataHasReceiver
<1>1. IInv => DataHasReceiver
  BY DEF IInv, InvMeasuring, DataHasReceiver, Ready
<1> QED
  BY <1>1, InductiveInvariant, PTL

\* MeasurementReady: the active node measures only together with a passive
\* node all of whose flows run and have the files asked for.
THEOREM MeasurementReadyHolds == Spec => []MeasurementReady
<1>1. IInv => MeasurementReady
  BY DEF IInv, InvMeasuring, MeasurementReady, Ready
<1> QED
  BY <1>1, InductiveInvariant, PTL

-----------------------------------------------------------------------------
(* The session that the protocol implements.                               *)

LEMMA ActiveRefines ==
  ASSUME IInv, IInv', Active
  PROVE  Abstract!Next \/ UNCHANGED Abstract!vars
<1> DEFINE Same == UNCHANGED Abstract!vars
<1> USE DEF Abstract!Next, Abstract!vars, SessionActive, SetupPhases,
            CollectPhases, DownloadPhases
<1>1. UNCHANGED passiveVars /\ UNCHANGED SessionPassive
  <2>1. UNCHANGED passiveVars
    BY Zenon
       DEF Active, Setup, Running, Stopping, Waiting,
           SendAddFlow, AddAcknowledged, SendIdentify, IdentifyAcknowledged,
           IdentifyFails, SendStart, StartAcknowledged, BeginFails,
           StopTimeReached, Aborted, SendStop, StopAcknowledged,
           SendRemoveFlow, RemoveAcknowledged, DownloadChunk, DownloadFails,
           Cleanup, AckFails, SendFails, Exit, End
  <2> QED
    BY <2>1 DEF passiveVars, SessionPassive
<1>2. ASSUME phase \notin {"done"} \cup FailedPhases, phase' \in FailedPhases
      PROVE  Abstract!Fail
  BY <1>1, <1>2 DEF Abstract!Fail, IInv, TypeOK, Phases
<1>3. ASSUME StartAcknowledged PROVE Abstract!Confirm
  <2>1. phase = "startAck" /\ phase' = "running"
    BY <1>3 DEF StartAcknowledged
  <2>2. passiveOpen => measuring
    BY <1>1, <2>1 DEF IInv, InvMeasuring, passiveVars
  <2>3. SessionPassive # "idle"
    BY <2>2 DEF SessionPassive
  <2> QED
    BY <1>1, <2>1, <2>3 DEF Abstract!Confirm
<1>4. ASSUME Running PROVE Abstract!Leave
  BY <1>1, <1>4 DEF Running, StopTimeReached, Aborted, Abstract!Leave
<1>5. ASSUME StopAcknowledged PROVE Abstract!Collect
  <2>1. phase = "stopAck" /\ phase' \in {"vector", "scalar", "remove"}
        /\ answer # <<>>
    BY <1>5 DEF StopAcknowledged, Acknowledged, AfterStop
  <2>2. ~measuring
    BY <2>1 DEF IInv, InvMeasuring
  <2>3. SessionPassive # "measuring"
    BY <2>2 DEF SessionPassive
  <2> QED
    BY <1>1, <2>1, <2>3 DEF Abstract!Collect
<1>6. ASSUME Cleanup PROVE Abstract!Finish
  <2>1. phase = "cleanup" /\ phase' = "done"
    BY <1>6 DEF Cleanup
  <2>2. SessionPassive # "measuring"
    BY <2>1 DEF IInv, InvMeasuring, SessionPassive
  <2> QED
    BY <1>1, <2>1, <2>2 DEF Abstract!Finish
<1>7. ASSUME \/ phase \in SetupPhases /\ phase' \in SetupPhases
             \/ phase \in {"stop", "stopAck"} /\ phase' \in {"stop", "stopAck"}
             \/ phase \in CollectPhases /\ phase' \in CollectPhases
      PROVE  Same
  BY <1>1, <1>7
<1>8. CASE Setup
  BY <1>2, <1>3, <1>7, <1>8
     DEF Setup, SendAddFlow, AddAcknowledged, SendIdentify,
         IdentifyAcknowledged, IdentifyFails, IdentifyRetry, SendStart,
         BeginFails, Fail
<1>9. CASE Stopping
  BY <1>2, <1>5, <1>6, <1>7, <1>9
     DEF Stopping, SendStop, SendRemoveFlow, NextRemoval, RemoveAcknowledged,
         DownloadChunk, AfterVector, DownloadFails, Fail
<1>10. CASE Waiting
  BY <1>2, <1>10 DEF Waiting, AckFails, SendFails, Fail
<1>11. CASE Exit
  BY <1>1, <1>11 DEF Exit, End
<1> QED
  BY <1>4, <1>8, <1>9, <1>10, <1>11 DEF Active

LEMMA PassiveRefines ==
  ASSUME IInv, IInv', Passive \/ Network \/ Crashes
  PROVE  Abstract!Next \/ UNCHANGED Abstract!vars
<1> USE DEF Abstract!Next, Abstract!vars
<1>1. ASSUME Forget, passiveOpen, UNCHANGED phase PROVE Abstract!Vanish
  BY <1>1 DEF Forget, Abstract!Vanish, SessionActive, SessionPassive
<1>2. ASSUME UNCHANGED <<phase, passiveOpen, measuring>>
      PROVE  UNCHANGED Abstract!vars
  BY <1>2 DEF SessionActive, SessionPassive
<1>3. ASSUME HandleStart PROVE Abstract!Begin \/ UNCHANGED Abstract!vars
  <2>1. /\ passiveOpen /\ passiveOpen' /\ UNCHANGED phase /\ ~measuring
        /\ phase \in {"startAck"} \cup FailedPhases
    <3>1. Receives("START") /\ UNCHANGED <<activeVars, passiveOpen>>
      BY <1>3 DEF HandleStart
    <3>2. passiveOpen /\ request[1].type = "START" /\ 1 \in 1..Len(request)
      BY <3>1, ReceivesStep DEF IInv, TypeOK
    <3> QED
      BY <3>1, <3>2 DEF activeVars, IInv, InvPending
  <2>2. CASE measuring'
    <3>1. SessionActive \in {"preparing", "failed"} /\ UNCHANGED SessionActive
      BY <2>1 DEF SessionActive, SetupPhases, CollectPhases, DownloadPhases
    <3> QED
      BY <2>1, <2>2, <3>1 DEF Abstract!Begin, SessionPassive
  <2>3. CASE ~measuring'
    BY <2>1, <2>3 DEF SessionActive, SessionPassive
  <2> QED
    BY <2>2, <2>3
<1>4. ASSUME HandleStop PROVE Abstract!End \/ UNCHANGED Abstract!vars
  <2>1. /\ passiveOpen /\ passiveOpen' /\ UNCHANGED phase /\ ~measuring'
        /\ phase \in {"stopAck"} \cup FailedPhases
    BY <1>4, ReceivesStep
       DEF HandleStop, activeVars, IInv, InvPending, TypeOK
  <2>2. CASE measuring
    <3>1. SessionActive \in {"stopping", "failed"} /\ UNCHANGED SessionActive
      BY <2>1 DEF SessionActive, SetupPhases, CollectPhases, DownloadPhases
    <3> QED
      BY <2>1, <2>2, <3>1 DEF Abstract!End, SessionPassive
  <2>3. CASE ~measuring
    BY <2>1, <2>3 DEF SessionActive, SessionPassive
  <2> QED
    BY <2>2, <2>3
<1>5. ASSUME ActiveCrash PROVE Abstract!Fail \/ UNCHANGED Abstract!vars
  <2>1. /\ phase' = "failed" /\ UNCHANGED SessionPassive
        /\ phase \in Phases \ {"done", "failed"}
    BY <1>5 DEF ActiveCrash, End, SessionPassive, passiveVars, IInv, TypeOK
  <2>2. CASE phase \in {"exit", "exitLocked"}
    BY <2>1, <2>2 DEF SessionActive, SetupPhases, CollectPhases, DownloadPhases
  <2>3. CASE phase \notin FailedPhases
    BY <2>1, <2>3 DEF Abstract!Fail, SessionActive, SetupPhases, CollectPhases,
       DownloadPhases, Phases
  <2> QED
    BY <2>1, <2>2, <2>3
<1>6. CASE Passive
  BY <1>1, <1>2, <1>3, <1>4, <1>6
     DEF Passive, HandleAddFlow, HandleIdentify, HandleRemoveFlow,
         HandleControlAssocShutdown, activeVars
<1>7. CASE Network
  BY <1>2, <1>7 DEF Network, IdentifyLost, LinkLost, activeVars, passiveVars
<1>8. CASE Crashes
  BY <1>1, <1>5, <1>8 DEF Crashes, PassiveCrash, activeVars
<1> QED
  BY <1>6, <1>7, <1>8

\* ImplementsSession: the nodes agree on when the measurement runs, whatever
\* the number of flows and whatever goes wrong.
THEOREM SessionImplemented == Spec => ImplementsSession
<1>1. Init => Abstract!Init
  BY DEF Init, Abstract!Init, SessionActive, SessionPassive, SetupPhases,
         CollectPhases, DownloadPhases
<1>2. IInv /\ IInv' /\ [Next]_vars => [Abstract!Next]_Abstract!vars
  <2> SUFFICES ASSUME IInv, IInv', [Next]_vars
               PROVE  Abstract!Next \/ UNCHANGED Abstract!vars
    OBVIOUS
  <2>1. CASE UNCHANGED vars
    BY <2>1 DEF vars, activeVars, passiveVars, Abstract!vars, SessionActive,
       SessionPassive
  <2> QED
    BY <2>1, ActiveRefines, PassiveRefines DEF Next, Ended
<1> QED
  BY <1>1, <1>2, InductiveInvariant, PTL
     DEF Spec, ImplementsSession, Abstract!Spec

-----------------------------------------------------------------------------
(* The end of a session, from the Stop on.                                 *)

\* Chunks in the order of the uploads: only the last chunk of a file says
\* NPMRF_EOF, and only the vector file is followed by another one.
Orderly(a) ==
  \A i \in 1..Len(a) :
    /\ a[i] \in Chunks
    /\ i < Len(a) =>
         IF a[i].eof THEN /\ a[i].file = VectorFile /\ "scalar" \in wanted
                          /\ a[i + 1].file = ScalarFile
                     ELSE a[i + 1].file = a[i].file

\* The chunks in a, if there are any, begin with some of file x.
Brings(a, x) == Orderly(a) /\ (a # <<>> => a[1].file = x)

FirstFile == IF "vector" \in wanted THEN VectorFile ELSE ScalarFile

\* What the active node finds next is what it looks for.
InvAnswers ==
  /\ phase = "stopAck" /\ answer # <<>> => Brings(Tail(answer), FirstFile)
  /\ phase \in DownloadPhases => request = <<>> /\ Brings(answer, Target)
  /\ phase = "remove" /\ "vector" \in wanted => request = <<>> /\ answer = <<>>
  /\ phase = "removeAck" =>
       \/ request = <<RemoveFlow(cur)>> /\ answer = <<>>
       \/ request = <<>> /\ (answer # <<>> => Brings(Tail(answer), FlowVector(cur)))
  /\ phase \in {"vector", "removeAck", "flowVector"} => "vector" \in wanted
  /\ phase = "scalar" => "scalar" \in wanted

\* The files the active node has in full, by how far it has got.
InvComplete ==
  /\ phase \in SetupPhases \cup {"running", "stop", "stopAck", "vector"} =>
       complete = {}
  /\ phase = "scalar" =>
       complete = IF "vector" \in wanted THEN {VectorFile} ELSE {}
  /\ phase \in {"vector", "scalar"} => cur = 1
  /\ phase \in {"remove", "removeAck", "flowVector"} =>
       complete = Expected \ {FlowVector(f) : f \in cur..NumFlows}
  /\ phase \in {"cleanup", "done"} => complete = Expected /\ cur = NumFlows

\* A flow that was removed is gone, or its Remove Flow is on the way.
InvRemoved ==
  passiveOpen /\ linkUp /\ phase \in CollectPhases \cup {"done"} =>
    \A f \in Flows :
      \/ flow[f] = "absent" \/ f > cur
      \/ f = cur /\ phase \in {"vector", "scalar", "remove"}
      \/ \E i \in 1..Len(request) : request[i] = RemoveFlow(f)

RInv == ResultsInRightFile /\ InvAnswers /\ InvComplete /\ InvRemoved

-----------------------------------------------------------------------------
(* Chunks in order.                                                        *)

Answers == Seq(Acks \cup Chunks)

\* The first chunk is taken off; the last one of a file is followed by none, or
\* after the vector file by the scalar file.
LEMMA TakeChunk ==
  ASSUME NEW a \in Answers, NEW x, Brings(a, x), a # <<>>
  PROVE  /\ Head(a) \in Chunks /\ Head(a).file = x
         /\ Orderly(Tail(a))
         /\ ~Head(a).eof => Brings(Tail(a), x)
         /\ Head(a).eof /\ Tail(a) # <<>> =>
              x = VectorFile /\ "scalar" \in wanted /\ Tail(a)[1].file = ScalarFile
<1> DEFINE t == Tail(a)
<1>1. /\ t \in Answers /\ Len(a) \in Nat \ {0} /\ Len(t) = Len(a) - 1
      /\ \A i \in 1..Len(t) : t[i] = a[i + 1] /\ i + 1 \in 1..Len(a)
      /\ Head(a) = a[1]
  BY TakeHead DEF Answers
<1>2. t # <<>> => Len(t) # 0
  BY <1>1, EmptySeq DEF Answers
<1> HIDE DEF t
<1>3. a[1] \in Chunks /\ a[1].file = x
  BY <1>1 DEF Brings, Orderly
<1>4. Orderly(t)
  BY <1>1, SMTT(20) DEF Brings, Orderly
<1>5. t # <<>> => /\ t[1] = a[2]
                  /\ IF a[1].eof THEN /\ a[1].file = VectorFile
                                      /\ "scalar" \in wanted
                                      /\ t[1].file = ScalarFile
                                 ELSE t[1].file = a[1].file
  BY <1>1, <1>2 DEF Brings, Orderly
<1> QED
  BY <1>1, <1>3, <1>4, <1>5 DEF t, Brings

\* What the break of the association leaves of them still is in order.
LEMMA PrefixInOrder ==
  ASSUME NEW a \in Answers, NEW x, Brings(a, x), NEW n \in 0..Len(a)
  PROVE  Brings(SubSeq(a, 1, n), x)
<1> DEFINE p == SubSeq(a, 1, n)
<1>1. /\ Len(p) = n /\ p \in Answers
      /\ \A i \in 1..n : p[i] = a[i] /\ i \in 1..Len(a)
      /\ Len(a) \in Nat
  BY Prefix, LenProperties DEF Answers
<1>2. p # <<>> => n # 0
  BY Prefix DEF Answers
<1>3. a # <<>> => a[1].file = x
  BY DEF Brings
<1>4. p # <<>> => a # <<>>
  BY <1>1, <1>2, EmptySeq DEF Answers
<1> HIDE DEF p
<1>5. Orderly(p)
  BY <1>1 DEF Brings, Orderly
<1>6. p # <<>> => p[1] = a[1]
  BY <1>1, <1>2
<1> QED
  BY <1>3, <1>4, <1>5, <1>6 DEF p, Brings

LEMMA PrefixOfTail ==
  ASSUME NEW a \in Answers, NEW n \in 1..Len(a)
  PROVE  /\ Tail(SubSeq(a, 1, n)) = SubSeq(Tail(a), 1, n - 1)
         /\ n - 1 \in 0..Len(Tail(a)) /\ Tail(a) \in Answers
<1> DEFINE p == SubSeq(a, 1, n)
           q == SubSeq(Tail(a), 1, n - 1)
<1>1. Len(a) \in Nat /\ n \in 0..Len(a) /\ a # <<>>
  BY LenProperties, EmptySeq DEF Answers
<1>2. /\ p \in Answers /\ Len(p) = n
      /\ \A i \in 1..n : p[i] = a[i]
  BY <1>1, Prefix DEF Answers
<1>3. /\ Tail(a) \in Answers /\ Len(Tail(a)) = Len(a) - 1
      /\ \A i \in 1..Len(Tail(a)) : Tail(a)[i] = a[i + 1]
  BY <1>1, TakeHead DEF Answers
<1>4. /\ q \in Answers /\ Len(q) = n - 1
      /\ \A i \in 1..(n - 1) : q[i] = Tail(a)[i]
  BY <1>1, <1>3, Prefix DEF Answers
<1>5. p # <<>>
  BY <1>2, EmptySeq DEF Answers
<1>6. /\ Tail(p) \in Answers /\ Len(Tail(p)) = n - 1
      /\ \A i \in 1..Len(Tail(p)) : Tail(p)[i] = p[i + 1]
  BY <1>2, <1>5, TakeHead DEF Answers
<1> HIDE DEF p, q
<1>7. \A i \in 1..Len(Tail(p)) : Tail(p)[i] = q[i]
  BY <1>1, <1>2, <1>3, <1>4, <1>6
<1>8. Tail(p) = q
  BY <1>4, <1>6, <1>7, SeqEqual DEF Answers
<1> QED
  BY <1>1, <1>3, <1>8 DEF p, q

LEMMA TailOfAnswer ==
  ASSUME NEW m \in Acks \cup Chunks, NEW s \in Answers
  PROVE  /\ <<m>> \o s \in Answers /\ <<m>> \o s # <<>>
         /\ Tail(<<m>> \o s) = s
<1> DEFINE a == <<m>> \o s
<1>1. <<m>> \in Answers /\ Len(<<m>>) = 1 /\ Len(s) \in Nat
  BY LenProperties DEF Answers
<1>2. /\ a \in Answers /\ Len(a) = 1 + Len(s)
      /\ \A i \in 1..Len(a) : a[i] = IF i <= 1 THEN <<m>>[i] ELSE s[i - 1]
  BY <1>1, ConcatProperties DEF Answers
<1>3. a # <<>>
  BY <1>1, <1>2, EmptySeq DEF Answers
<1>4. /\ Tail(a) \in Answers /\ Len(Tail(a)) = Len(a) - 1
      /\ \A i \in 1..Len(Tail(a)) : Tail(a)[i] = a[i + 1]
  BY <1>2, <1>3, TakeHead DEF Answers
<1> HIDE DEF a
<1>5. \A i \in 1..Len(Tail(a)) : Tail(a)[i] = s[i]
  BY <1>1, <1>2, <1>4
<1>6. Tail(a) = s
  BY <1>1, <1>2, <1>4, <1>5, SeqEqual DEF Answers
<1> QED
  BY <1>2, <1>3, <1>6 DEF a

\* uploadOutputFile(), whether it comes to its end or not.
LEMMA UploadInOrder ==
  ASSUME NEW x \in FileNames
  PROVE  /\ \A s \in Upload(x) : /\ s \in Answers /\ Brings(s, x)
                                 /\ Len(s) \in Nat \ {0}
                                 /\ \A i \in 1..Len(s) :
                                      s[i].file = x /\ (s[i].eof <=> i = Len(s))
         /\ \A s \in BrokenUpload(x) : s \in Answers /\ Brings(s, x)
<1>1. ASSUME NEW s \in Upload(x)
      PROVE  /\ Brings(s, x) /\ Len(s) \in Nat \ {0}
             /\ \A i \in 1..Len(s) : s[i].file = x /\ (s[i].eof <=> i = Len(s))
  <2>1. PICK n \in 1..MaxChunks : s = [i \in 1..n |-> Results(x, i = n)]
    BY <1>1 DEF Upload
  <2>2. n \in Nat \ {0} /\ Len(s) = n
    BY <2>1, ConstantsAssumption
  <2>3. \A i \in 1..n : s[i] \in Chunks /\ s[i].file = x /\ (s[i].eof <=> i = n)
    BY <2>1, MessageTypes DEF Results
  <2> QED
    BY <2>1, <2>2, <2>3 DEF Brings, Orderly
<1>2. ASSUME NEW s \in BrokenUpload(x) PROVE Brings(s, x)
  <2>1. PICK n \in 0..MaxChunks : s = [i \in 1..n |-> Results(x, FALSE)]
    BY <1>2 DEF BrokenUpload
  <2>2. n \in Nat /\ Len(s) = n
    BY <2>1, ConstantsAssumption
  <2>4. s # <<>> => n # 0
    BY <1>2, <2>2, UploadTypes, EmptySeq
  <2>3. \A i \in 1..n : s[i] \in Chunks /\ s[i].file = x /\ ~s[i].eof
    BY <2>1, MessageTypes DEF Results
  <2> QED
    BY <2>2, <2>3, <2>4 DEF Brings, Orderly
<1> QED
  BY <1>1, <1>2, UploadTypes DEF Answers

\* handleNetPerfMeterStop() uploads the vector file before the scalar file.
LEMMA StopUploadInOrder ==
  ASSUME NEW s \in StopUploads \cup BrokenStopUploads
  PROVE  s \in Answers /\ Brings(s, FirstFile)
<1>1. s \in Answers
  BY StopUploadTypes DEF Answers
<1>2. ASSUME NEW v \in Upload(VectorFile), NEW t \in Answers,
             Brings(t, ScalarFile), "scalar" \in wanted, s = v \o t
      PROVE  Brings(s, VectorFile)
  <2>1. /\ v \in Answers /\ Brings(v, VectorFile) /\ Len(v) \in Nat \ {0}
        /\ \A i \in 1..Len(v) : v[i].file = VectorFile /\ (v[i].eof <=> i = Len(v))
        /\ v # <<>>
    BY UploadInOrder, FileTypes, EmptySeq
  <2>2. /\ Len(s) = Len(v) + Len(t) /\ Len(t) \in Nat
        /\ \A i \in 1..Len(s) : s[i] = IF i <= Len(v) THEN v[i] ELSE t[i - Len(v)]
    BY <1>2, <2>1, ConcatProperties, LenProperties DEF Answers
  <2>3. ASSUME NEW i \in 1..Len(s)
        PROVE  /\ s[i] \in Chunks
               /\ i < Len(s) =>
                    IF s[i].eof THEN /\ s[i].file = VectorFile
                                     /\ "scalar" \in wanted
                                     /\ s[i + 1].file = ScalarFile
                                ELSE s[i + 1].file = s[i].file
    <3>1. CASE i < Len(v)
      <4>1. /\ s[i] = v[i] /\ s[i + 1] = v[i + 1] /\ i \in 1..Len(v)
            /\ i + 1 \in 1..Len(v)
        BY <2>1, <2>2, <3>1
      <4> QED
        BY <2>1, <3>1, <4>1 DEF Brings, Orderly
    <3>2. CASE i = Len(v)
      <4>1. s[i] = v[i] /\ v[i].eof /\ i \in 1..Len(v)
        BY <2>1, <2>2, <3>2
      <4>2. s[i] \in Chunks /\ s[i].eof /\ s[i].file = VectorFile
        BY <2>1, <4>1 DEF Brings, Orderly
      <4>3. i < Len(s) => s[i + 1].file = ScalarFile
        <5>1. i < Len(s) => s[i + 1] = t[1] /\ t # <<>>
          BY <2>1, <2>2, <3>2, EmptySeq
        <5> QED
          BY <1>2, <5>1 DEF Brings
      <4> QED
        BY <1>2, <4>2, <4>3
    <3>3. CASE i > Len(v)
      <4>1. PICK j \in 1..Len(t) : j = i - Len(v)
        BY <2>1, <2>2, <3>3
      <4>2. s[i] = t[j] /\ (i < Len(s) => j < Len(t) /\ s[i + 1] = t[j + 1])
        BY <2>1, <2>2, <3>3, <4>1
      <4> QED
        BY <1>2, <4>2 DEF Brings, Orderly
    <3> QED
      BY <2>1, <3>1, <3>2, <3>3
  <2>4. s[1].file = VectorFile
    <3>1. s[1] = v[1]
      BY <2>1, <2>2
    <3> QED
      BY <2>1, <3>1 DEF Brings
  <2> QED
    BY <2>3, <2>4 DEF Brings, Orderly
<1>3. <<>> \in Answers /\ Brings(<<>>, ScalarFile) /\ Brings(<<>>, VectorFile)
  BY EmptySeq DEF Brings, Orderly, Answers
<1>4. \A t \in Answers : <<>> \o t = t /\ t \o <<>> = t
  BY ConcatEmptySeq DEF Answers
<1>5. /\ \A t \in ScalarUploads : t \in Answers /\ Brings(t, ScalarFile)
                               /\ ("scalar" \in wanted \/ t = <<>>)
      /\ \A t \in BrokenUpload(ScalarFile) : t \in Answers /\ Brings(t, ScalarFile)
      /\ \A v \in Upload(VectorFile) \cup BrokenUpload(VectorFile) :
           v \in Answers /\ Brings(v, VectorFile)
  <2>1. /\ \A t \in Upload(ScalarFile) \cup BrokenUpload(ScalarFile) :
             t \in Answers /\ Brings(t, ScalarFile)
        /\ \A v \in Upload(VectorFile) \cup BrokenUpload(VectorFile) :
             v \in Answers /\ Brings(v, VectorFile)
    <3>1. ScalarFile \in FileNames /\ VectorFile \in FileNames
      BY FileTypes
    <3> QED
      BY <3>1, UploadInOrder, Zenon
  <2>2. ASSUME NEW t \in ScalarUploads
        PROVE  /\ t \in Answers /\ Brings(t, ScalarFile)
               /\ ("scalar" \in wanted \/ t = <<>>)
    <3>1. CASE "scalar" \in wanted
      BY <2>1, <3>1 DEF ScalarUploads
    <3>2. CASE "scalar" \notin wanted
      BY <1>3, <3>2 DEF ScalarUploads
    <3> QED
      BY <3>1, <3>2
  <2> QED
    BY <2>1, <2>2
<1>6. \/ s \in BrokenUpload(VectorFile) /\ "vector" \in wanted
      \/ \E v \in VectorUploads, t \in ScalarUploads : s = v \o t
      \/ /\ "scalar" \in wanted
         /\ \E v \in VectorUploads, t \in BrokenUpload(ScalarFile) : s = v \o t
  BY SMT DEF StopUploads, BrokenStopUploads
<1>7. CASE s \in BrokenUpload(VectorFile) /\ "vector" \in wanted
  BY <1>1, <1>5, <1>7 DEF FirstFile
<1>8. ASSUME NEW v \in VectorUploads, NEW t \in Answers, Brings(t, ScalarFile),
             "scalar" \in wanted \/ t = <<>>, s = v \o t
      PROVE  Brings(s, FirstFile)
  <2>1. CASE "vector" \in wanted
    <3>1. v \in Upload(VectorFile)
      BY <2>1 DEF VectorUploads
    <3>2. Brings(s, VectorFile)
      <4>1. CASE "scalar" \in wanted
        BY <1>2, <1>8, <3>1, <4>1
      <4>2. CASE t = <<>>
        BY <1>4, <1>5, <1>8, <3>1, <4>2
      <4> QED
        BY <1>8, <4>1, <4>2
    <3> QED
      BY <2>1, <3>2 DEF FirstFile
  <2>2. CASE "vector" \notin wanted
    BY <1>4, <1>8, <2>2 DEF FirstFile, VectorUploads
  <2> QED
    BY <2>1, <2>2
<1> QED
  BY <1>1, <1>5, <1>6, <1>7, <1>8

-----------------------------------------------------------------------------
(* The steps.                                                              *)

EarlyPhases == SetupPhases \cup {"running", "stop"}

LEMMA PhaseGroups ==
  /\ DownloadPhases = {"vector", "scalar", "flowVector"}
  /\ CollectPhases = {"vector", "scalar", "flowVector", "remove", "removeAck",
                      "cleanup"}
  /\ EarlyPhases = {"add", "addAck", "identify", "identifyAck", "start",
                    "startAck", "running", "stop"}
BY DEF DownloadPhases, CollectPhases, EarlyPhases, SetupPhases

LEMMA InitRInv == Init => RInv
<1> SUFFICES ASSUME Init PROVE RInv
  OBVIOUS
<1>1. phase = "add" /\ saved = {} /\ complete = {}
  BY DEF Init
<1> QED
  BY <1>1, PhaseGroups
     DEF RInv, ResultsInRightFile, InvAnswers, InvComplete, InvRemoved

\* Until the Stop is sent nothing is downloaded, and nothing once the active
\* node has failed.
LEMMA EarlyRInv ==
  ASSUME RInv, UNCHANGED saved,
         \/ phase' \in FailedPhases
         \/ {phase, phase'} \subseteq EarlyPhases /\ UNCHANGED complete
  PROVE  RInv'
<1>1. phase' \in FailedPhases \/ (phase' \in EarlyPhases /\ complete' = {})
  BY DEF RInv, InvComplete, EarlyPhases
<1>2. ResultsInRightFile'
  BY DEF RInv, ResultsInRightFile
<1>3. InvAnswers' /\ InvRemoved'
  BY <1>1, PhaseGroups DEF InvAnswers, InvRemoved
<1>4. InvComplete'
  BY <1>1, PhaseGroups DEF InvComplete, EarlyPhases
<1> QED
  BY <1>2, <1>3, <1>4 DEF RInv

LEMMA SendStopRInv ==
  ASSUME IInv, RInv, SendStop
  PROVE  RInv'
<1>1. /\ phase = "stop" /\ phase' = "stopAck" /\ answer' = <<>>
      /\ UNCHANGED <<saved, complete>>
  BY DEF SendStop, IInv, InvConversation
<1>2. complete' = {}
  BY <1>1 DEF RInv, InvComplete
<1> QED
  BY <1>1, <1>2, PhaseGroups
     DEF RInv, ResultsInRightFile, InvAnswers, InvComplete, InvRemoved,
         SetupPhases

LEMMA StopAcknowledgedRInv ==
  ASSUME IInv, RInv, StopAcknowledged
  PROVE  RInv'
<1>1. /\ phase = "stopAck" /\ phase' = AfterStop /\ cur' = 1
      /\ answer # <<>> /\ answer' = Tail(answer) /\ request' = <<>>
      /\ UNCHANGED <<wanted, saved, complete, linkUp, passiveVars>>
      /\ complete = {} /\ Brings(answer', FirstFile)
  BY DEF StopAcknowledged, Acknowledged, IInv, InvConversation, RInv,
         InvAnswers, InvComplete
<1>2. \/ phase' = "vector" /\ "vector" \in wanted
      \/ phase' = "scalar" /\ "scalar" \in wanted /\ "vector" \notin wanted
      \/ phase' = "remove" /\ "scalar" \notin wanted /\ "vector" \notin wanted
  BY <1>1 DEF AfterStop
<1>3. phase' \in DownloadPhases => Target' = FirstFile
  BY <1>1, <1>2, PhaseGroups DEF Target, FirstFile
<1>4. InvAnswers'
  BY <1>1, <1>2, <1>3, PhaseGroups DEF InvAnswers, Brings, Orderly
<1>5. InvComplete'
  BY <1>1, <1>2, PhaseGroups DEF InvComplete, SetupPhases, Expected
<1>6. InvRemoved'
  <2>1. \A f \in Flows : f = 1 \/ f > 1
    BY ConstantsAssumption DEF Flows
  <2> QED
    BY <1>1, <1>2, <2>1 DEF InvRemoved
<1>7. ResultsInRightFile'
  BY <1>1 DEF RInv, ResultsInRightFile
<1> QED
  BY <1>4, <1>5, <1>6, <1>7 DEF RInv

\* What the loop over the flows takes for granted when it goes on: the current
\* flow is removed and its file, if there is one, complete.
LEMMA NextRemovalRInv ==
  ASSUME IInv, RInv, NextRemoval, phase \in {"remove", "flowVector"},
         UNCHANGED <<wanted, saved, linkUp, passiveVars>> \/
           (UNCHANGED <<wanted, linkUp, passiveVars>> /\ ResultsInRightFile'),
         "vector" \in wanted => request' = <<>> /\ answer' = <<>>,
         complete' = IF "vector" \in wanted THEN complete \cup {FlowVector(cur)}
                                            ELSE complete,
         passiveOpen /\ linkUp =>
           /\ \A i \in 1..Len(request) :
                i \in 1..Len(request') /\ request'[i] = request[i]
           /\ \/ flow[cur] = "absent"
              \/ \E i \in 1..Len(request') : request'[i] = RemoveFlow(cur)
  PROVE  RInv'
<1>1. \/ phase' = "remove" /\ cur < NumFlows /\ cur' = cur + 1
      \/ phase' = "cleanup" /\ cur = NumFlows /\ cur' = cur
  BY ConstantsAssumption DEF NextRemoval, IInv, TypeOK, Flows
<1>2. cur \in Flows /\ cur \in Nat /\ NumFlows \in Nat
  BY ConstantsAssumption DEF IInv, TypeOK, Flows
<1>3. ResultsInRightFile'
  BY DEF RInv, ResultsInRightFile
<1>4. InvAnswers'
  BY <1>1, PhaseGroups DEF InvAnswers
<1>5. InvComplete'
  <2>1. complete = Expected \ {FlowVector(f) : f \in cur..NumFlows}
    BY DEF RInv, InvComplete
  <2>2. complete' = Expected \ {FlowVector(f) : f \in (cur + 1)..NumFlows}
    <3>1. CASE "vector" \in wanted
      <4>1. \A f, g \in Flows : FlowVector(f) = FlowVector(g) => f = g
        BY DEF FlowVector
      <4>2. /\ FlowVector(cur) \in Expected
            /\ cur..NumFlows = (cur + 1)..NumFlows \cup {cur}
            /\ cur..NumFlows \subseteq Flows /\ cur \notin (cur + 1)..NumFlows
        BY <1>2, <3>1 DEF Expected, Flows
      <4>3. \A f \in (cur + 1)..NumFlows : FlowVector(f) # FlowVector(cur)
        BY <1>2, <4>1, <4>2
      <4> QED
        BY <2>1, <3>1, <4>2, <4>3
    <3>2. CASE "vector" \notin wanted
      <4>1. \A f \in Int : FlowVector(f) \notin Expected
        BY <3>2 DEF Expected, FlowVector, ScalarFile
      <4> QED
        BY <1>2, <2>1, <3>2, <4>1
    <3> QED
      BY <3>1, <3>2
  <2>3. Expected' = Expected
    BY DEF Expected
  <2>4. cur = NumFlows => {FlowVector(f) : f \in (cur + 1)..NumFlows} = {}
    BY <1>2
  <2>5. /\ phase' = "remove" => cur' = cur + 1
        /\ phase' = "cleanup" => cur' = NumFlows /\ cur = NumFlows
        /\ phase' \in {"remove", "cleanup"}
    BY <1>1
  <2> QED
    BY <2>2, <2>3, <2>4, <2>5, PhaseGroups DEF InvComplete, SetupPhases
<1>6. InvRemoved'
  <2>1. SUFFICES ASSUME passiveOpen, linkUp, NEW f \in Flows, f <= cur
                 PROVE  \/ flow[f] = "absent"
                        \/ \E i \in 1..Len(request') : request'[i] = RemoveFlow(f)
    <3>1. \A f \in Flows : f <= cur \/ f > cur' \/ (f = cur' /\ phase' = "remove")
      BY <1>1, <1>2 DEF Flows
    <3> QED
      BY <1>1, <3>1 DEF InvRemoved, passiveVars
  <2>2. CASE f = cur
    BY <2>1, <2>2
  <2>3. CASE f < cur
    <3>1. \/ flow[f] = "absent"
          \/ \E i \in 1..Len(request) : request[i] = RemoveFlow(f)
      <4>1. ~(f > cur) /\ f # cur
        BY <1>2, <2>3 DEF Flows
      <4> QED
        BY <2>1, <4>1, PhaseGroups DEF RInv, InvRemoved
    <3> QED
      BY <2>1, <3>1
  <2> QED
    BY <1>2, <2>1, <2>2, <2>3 DEF Flows
<1> QED
  BY <1>3, <1>4, <1>5, <1>6 DEF RInv

\* Sending a Remove Flow.
LEMMA RequestRemoval ==
  ASSUME IInv, SendRequest(RemoveFlow(cur))
  PROVE  /\ \A i \in 1..Len(request) :
              i \in 1..Len(request') /\ request'[i] = request[i]
         /\ passiveOpen /\ linkUp =>
              \E i \in 1..Len(request') : request'[i] = RemoveFlow(cur)
<1>1. request \in Seq(Requests) /\ Len(request) \in Nat
      /\ RemoveFlow(cur) \in Requests
  BY LenProperties, MessageTypes DEF IInv, TypeOK
<1>2. CASE passiveOpen /\ linkUp
  <2>1. request' = Append(request, RemoveFlow(cur))
    BY <1>2 DEF SendRequest
  <2>2. /\ Len(request') = Len(request) + 1
        /\ \A i \in 1..Len(request) : request'[i] = request[i]
        /\ request'[Len(request) + 1] = RemoveFlow(cur)
    BY <1>1, <2>1, PutLast
  <2> QED
    BY <1>1, <2>2
<1>3. CASE ~(passiveOpen /\ linkUp)
  BY <1>3 DEF SendRequest
<1> QED
  BY <1>2, <1>3

LEMMA SendRemoveFlowRInv ==
  ASSUME IInv, RInv, SendRemoveFlow
  PROVE  RInv'
<1>1. /\ phase = "remove" /\ SendRequest(RemoveFlow(cur))
      /\ UNCHANGED <<wanted, saved, complete, answer, linkUp, passiveVars>>
  BY DEF SendRemoveFlow
<1>2. CASE "vector" \notin wanted
  <2>1. NextRemoval
    BY <1>2 DEF SendRemoveFlow
  <2> QED
    BY <1>1, <1>2, <2>1, RequestRemoval, NextRemovalRInv
<1>3. CASE "vector" \in wanted
  <2>1. phase' = "removeAck" /\ cur' = cur
    BY <1>3 DEF SendRemoveFlow
  <2>2. request = <<>> /\ answer = <<>>
    BY <1>1, <1>3 DEF RInv, InvAnswers
  <2>3. request' \in {<<>>, <<RemoveFlow(cur)>>}
    BY <1>1, <2>2, SendRequestStep, MessageTypes DEF IInv, TypeOK
  <2>4. InvAnswers'
    BY <1>1, <1>3, <2>1, <2>2, <2>3, PhaseGroups DEF InvAnswers
  <2>5. InvComplete'
    BY <1>1, <2>1, PhaseGroups DEF RInv, InvComplete, SetupPhases, Expected
  <2>6. InvRemoved'
    <3>1. ASSUME passiveOpen, linkUp, NEW f \in Flows, ~(f > cur)
          PROVE  \/ flow[f] = "absent"
                 \/ \E i \in 1..Len(request') : request'[i] = RemoveFlow(f)
      <4>1. CASE f = cur
        BY <1>1, <3>1, <4>1, RequestRemoval
      <4>2. CASE f # cur
        <5>1. \/ flow[f] = "absent"
              \/ \E i \in 1..Len(request) : request[i] = RemoveFlow(f)
          BY <1>1, <3>1, <4>2, PhaseGroups DEF RInv, InvRemoved
        <5> QED
          BY <1>1, <5>1, RequestRemoval
      <4> QED
        BY <4>1, <4>2
    <3> QED
      BY <1>1, <2>1, <3>1 DEF InvRemoved, passiveVars
  <2>7. ResultsInRightFile'
    BY <1>1 DEF RInv, ResultsInRightFile
  <2> QED
    BY <2>4, <2>5, <2>6, <2>7 DEF RInv
<1> QED
  BY <1>2, <1>3

LEMMA RemoveAcknowledgedRInv ==
  ASSUME IInv, RInv, RemoveAcknowledged
  PROVE  RInv'
<1>1. /\ phase = "removeAck" /\ phase' = "flowVector"
      /\ answer # <<>> /\ answer' = Tail(answer)
      /\ UNCHANGED <<wanted, cur, saved, complete, request, linkUp, passiveVars>>
  BY DEF RemoveAcknowledged, Acknowledged
<1>2. /\ request = <<>> /\ Brings(answer', FlowVector(cur)) /\ "vector" \in wanted
  BY <1>1 DEF RInv, InvAnswers
<1>3. Target' = FlowVector(cur)
  BY <1>1 DEF Target
<1>4. InvAnswers'
  BY <1>1, <1>2, <1>3, PhaseGroups DEF InvAnswers, Brings, Orderly
<1>5. InvComplete'
  BY <1>1, PhaseGroups DEF RInv, InvComplete, SetupPhases, Expected
<1>6. InvRemoved'
  BY <1>1, PhaseGroups DEF RInv, InvRemoved, passiveVars
<1>7. ResultsInRightFile'
  BY <1>1 DEF RInv, ResultsInRightFile
<1> QED
  BY <1>4, <1>5, <1>6, <1>7 DEF RInv

\* downloadOutputFile(): the chunk belongs to the file that is written, and
\* after the last chunk of a file there is nothing or the file that comes next.
LEMMA DownloadChunkRInv ==
  ASSUME IInv, RInv, DownloadChunk
  PROVE  RInv'
<1> DEFINE h == Head(answer)
<1>1. /\ phase \in DownloadPhases /\ answer # <<>> /\ answer' = Tail(answer)
      /\ saved' = saved \cup {<<Target, h.file>>}
      /\ UNCHANGED <<wanted, request, linkUp, passiveVars>>
  BY DEF DownloadChunk
<1>2. answer \in Answers /\ request = <<>> /\ Brings(answer, Target)
  BY <1>1 DEF IInv, TypeOK, Answers, RInv, InvAnswers
<1>3. /\ h \in Chunks /\ h.file = Target
      /\ Orderly(answer')
      /\ ~h.eof => Brings(answer', Target)
      /\ h.eof /\ answer' # <<>> =>
           Target = VectorFile /\ "scalar" \in wanted /\ answer'[1].file = ScalarFile
  BY <1>1, <1>2, TakeChunk
<1> HIDE DEF h
<1>4. ResultsInRightFile'
  BY <1>1, <1>3 DEF RInv, ResultsInRightFile
<1>5. h.eof \in BOOLEAN
  BY <1>3 DEF Chunks
<1>6. CASE ~h.eof
  <2>1. UNCHANGED <<complete, phase, cur>>
    BY <1>6 DEF DownloadChunk, h
  <2>2. Target' = Target
    BY <2>1 DEF Target
  <2>3. Brings(answer', Target)
    BY <1>3, <1>6
  <2>4. InvAnswers'
    BY <1>1, <1>2, <2>1, <2>2, <2>3, PhaseGroups
       DEF RInv, InvAnswers, Brings, Orderly
  <2>5. InvComplete' /\ InvRemoved'
    BY <1>1, <2>1 DEF RInv, InvComplete, InvRemoved, Expected, passiveVars
  <2> QED
    BY <1>4, <2>4, <2>5 DEF RInv
<1>7. CASE h.eof
  <2>0. complete' = complete \cup {Target}
    BY <1>7 DEF DownloadChunk, h
  <2>1. CASE phase = "vector"
    <3>1. phase' = AfterVector /\ cur' = cur /\ Target = VectorFile
      BY <1>7, <2>1 DEF DownloadChunk, Target, h
    <3>2. complete = {} /\ cur = 1 /\ "vector" \in wanted
      BY <2>1 DEF RInv, InvComplete, InvAnswers
    <3>3. CASE "scalar" \in wanted
      <4>1. phase' = "scalar" /\ Target' = ScalarFile
        BY <3>1, <3>3 DEF AfterVector, Target
      <4>2. Brings(answer', ScalarFile)
        BY <1>3, <1>7 DEF Brings
      <4>3. InvAnswers'
        BY <1>1, <1>2, <3>2, <3>3, <4>1, <4>2, PhaseGroups
           DEF InvAnswers, Brings, Orderly
      <4>4. InvComplete'
        BY <1>1, <2>0, <3>1, <3>2, <4>1, PhaseGroups DEF InvComplete, SetupPhases
      <4>5. InvRemoved'
        BY <1>1, <2>1, <3>1, <4>1, PhaseGroups DEF RInv, InvRemoved, passiveVars
      <4> QED
        BY <1>4, <4>3, <4>4, <4>5 DEF RInv
    <3>4. CASE "scalar" \notin wanted
      <4>1. phase' = "remove" /\ answer' = <<>>
        BY <1>3, <1>7, <3>1, <3>4 DEF AfterVector
      <4>2. InvAnswers'
        BY <1>1, <1>2, <4>1, PhaseGroups DEF InvAnswers
      <4>3. complete' = Expected \ {FlowVector(f) : f \in 1..NumFlows}
        BY <2>0, <3>1, <3>2, <3>4
           DEF Expected, Flows, FlowVector, VectorFile
      <4>4. InvComplete'
        BY <1>1, <3>1, <3>2, <4>1, <4>3, PhaseGroups
           DEF InvComplete, SetupPhases, Expected
      <4>5. InvRemoved'
        BY <1>1, <2>1, <3>1, <4>1, PhaseGroups DEF RInv, InvRemoved, passiveVars
      <4> QED
        BY <1>4, <4>2, <4>4, <4>5 DEF RInv
    <3> QED
      BY <3>3, <3>4
  <2>2. CASE phase = "scalar"
    <3>1. phase' = "remove" /\ cur' = cur /\ Target = ScalarFile
      BY <1>7, <2>2 DEF DownloadChunk, Target, h
    <3>2. /\ complete = IF "vector" \in wanted THEN {VectorFile} ELSE {}
          /\ cur = 1 /\ "scalar" \in wanted
      BY <2>2 DEF RInv, InvComplete, InvAnswers
    <3>3. answer' = <<>>
      BY <1>3, <1>7, <3>1 DEF ScalarFile, VectorFile
    <3>4. InvAnswers'
      BY <1>1, <1>2, <3>1, <3>3, PhaseGroups DEF InvAnswers
    <3>5. complete' = Expected \ {FlowVector(f) : f \in 1..NumFlows}
      BY <2>0, <3>1, <3>2
         DEF Expected, Flows, FlowVector, VectorFile, ScalarFile
    <3>6. InvComplete'
      BY <1>1, <3>1, <3>2, <3>5, PhaseGroups
         DEF InvComplete, SetupPhases, Expected
    <3>7. InvRemoved'
      BY <1>1, <2>2, <3>1, PhaseGroups DEF RInv, InvRemoved, passiveVars
    <3> QED
      BY <1>4, <3>4, <3>6, <3>7 DEF RInv
  <2>3. CASE phase = "flowVector"
    <3>1. NextRemoval /\ Target = FlowVector(cur) /\ "vector" \in wanted
      BY <1>7, <2>3 DEF DownloadChunk, Target, h, RInv, InvAnswers
    <3>2. answer' = <<>>
      BY <1>3, <1>7, <3>1 DEF FlowVector, VectorFile
    <3>3. complete' = complete \cup {FlowVector(cur)}
      BY <2>0, <3>1
    <3>4. cur \in Flows /\ ~(cur > cur)
      BY ConstantsAssumption DEF IInv, TypeOK, Flows
    <3>5. passiveOpen /\ linkUp =>
            \/ flow[cur] = "absent"
            \/ \E i \in 1..Len(request') : request'[i] = RemoveFlow(cur)
      BY <1>1, <2>3, <3>4, PhaseGroups DEF RInv, InvRemoved
    <3> QED
      BY <1>1, <1>2, <1>4, <2>3, <3>1, <3>2, <3>3, <3>5, NextRemovalRInv
  <2> QED
    BY <1>1, <2>1, <2>2, <2>3, PhaseGroups
<1> QED
  BY <1>5, <1>6, <1>7

LEMMA ActiveRInv ==
  ASSUME IInv, RInv, Active
  PROVE  RInv'
<1>1. CASE Setup
  BY <1>1, EarlyRInv, PhaseGroups
     DEF Setup, SendAddFlow, AddAcknowledged, SendIdentify,
         IdentifyAcknowledged, IdentifyFails, IdentifyRetry, SendStart,
         StartAcknowledged, BeginFails, Fail
<1>2. CASE Running
  BY <1>2, EarlyRInv, PhaseGroups DEF Running, StopTimeReached, Aborted
<1>3. CASE Waiting \/ DownloadFails \/ Exit
  BY <1>3, EarlyRInv
     DEF Waiting, AckFails, SendFails, DownloadFails, Fail, Exit, End
<1>4. CASE Cleanup
  <2>1. /\ phase = "cleanup" /\ phase' = "done"
        /\ UNCHANGED <<wanted, cur, saved, complete, netVars, passiveVars>>
    BY <1>4 DEF Cleanup
  <2> QED
    BY <2>1, PhaseGroups
       DEF RInv, ResultsInRightFile, InvAnswers, InvComplete, InvRemoved,
           SetupPhases, Expected, netVars, passiveVars
<1> QED
  BY <1>1, <1>2, <1>3, <1>4, SendStopRInv, StopAcknowledgedRInv,
     SendRemoveFlowRInv, RemoveAcknowledgedRInv, DownloadChunkRInv
     DEF Active, Stopping

\* A step that leaves the active node alone.
LEMMA HandlerRInv ==
  ASSUME RInv, UNCHANGED <<wanted, phase, cur, saved, complete>>,
         InvAnswers', InvRemoved'
  PROVE  RInv'
  BY DEF RInv, ResultsInRightFile, InvComplete, Expected

LEMMA SameRInv ==
  ASSUME RInv, UNCHANGED <<wanted, phase, cur, saved, complete, request, answer,
                           linkUp, passiveOpen, flow>>
  PROVE  RInv'
<1>1. InvAnswers'
  BY DEF RInv, InvAnswers, Brings, Orderly, FirstFile, Target
<1>2. InvRemoved'
  BY DEF RInv, InvRemoved
<1> QED
  BY <1>1, <1>2, HandlerRInv

LEMMA HandleSetupRInv ==
  ASSUME IInv, RInv,
         \/ HandleAddFlow \/ HandleStart \/ \E f \in Flows : HandleIdentify(f)
  PROVE  RInv'
<1>1. CASE HandleAddFlow
  <2>1. phase \in {"addAck"} \cup FailedPhases /\ UNCHANGED <<phase, saved, complete>>
    <3>1. Receives("ADD_FLOW") /\ UNCHANGED activeVars
      BY <1>1 DEF HandleAddFlow
    <3>2. request[1].type = "ADD_FLOW" /\ 1 \in 1..Len(request)
      BY <3>1, ReceivesStep DEF IInv, TypeOK
    <3> QED
      BY <3>1, <3>2 DEF activeVars, IInv, InvPending
  <2> QED
    BY <2>1, EarlyRInv, PhaseGroups
<1>2. CASE HandleStart
  <2>1. phase \in {"startAck"} \cup FailedPhases /\ UNCHANGED <<phase, saved, complete>>
    <3>1. Receives("START") /\ UNCHANGED activeVars
      BY <1>2 DEF HandleStart
    <3>2. request[1].type = "START" /\ 1 \in 1..Len(request)
      BY <3>1, ReceivesStep DEF IInv, TypeOK
    <3> QED
      BY <3>1, <3>2 DEF activeVars, IInv, InvPending
  <2> QED
    BY <2>1, EarlyRInv, PhaseGroups
<1>3. ASSUME NEW f \in Flows, HandleIdentify(f)
      PROVE  RInv'
  <2>1. CASE flow[f] = "added"
    <3>1. /\ phase \in BindPhases \cup FailedPhases
          /\ UNCHANGED <<phase, saved, complete>>
      BY <1>3, <2>1 DEF HandleIdentify, activeVars, IInv, InvBinding
    <3> QED
      BY <3>1, EarlyRInv, PhaseGroups DEF BindPhases
  <2>2. CASE flow[f] # "added"
    BY <1>3, <2>2, SameRInv DEF HandleIdentify, activeVars
  <2> QED
    BY <2>1, <2>2
<1> QED
  BY <1>1, <1>2, <1>3

\* An answer of an Acknowledge and an upload.
LEMMA AnswerUpload ==
  ASSUME IInv, answer = <<>>, NEW f \in 0..NumFlows, NEW s \in Answers,
         NEW x, Brings(s, x), SendAnswers(<<Ack(f, TRUE)>> \o s)
  PROVE  answer' # <<>> => Brings(Tail(answer'), x)
<1>1. Ack(f, TRUE) \in Acks \cup Chunks
  BY MessageTypes
<1>2. /\ <<Ack(f, TRUE)>> \o s \in Answers
      /\ Tail(<<Ack(f, TRUE)>> \o s) = s
  BY <1>1, TailOfAnswer
<1>3. answer' \in {<<>>, <<Ack(f, TRUE)>> \o s}
  BY <1>2, SendAnswersStep DEF IInv, TypeOK, Answers
<1> QED
  BY <1>2, <1>3

LEMMA AnswerAlone ==
  ASSUME IInv, answer = <<>>, NEW f \in 0..NumFlows, NEW x,
         SendAnswers(<<Ack(f, FALSE)>>)
  PROVE  answer' # <<>> => Brings(Tail(answer'), x)
<1>1. Ack(f, FALSE) \in Acks \cup Chunks /\ <<>> \in Answers
  BY MessageTypes, EmptySeq DEF Answers
<1>2. answer' \in {<<>>, <<Ack(f, FALSE)>>}
  BY <1>1, SendOneStep DEF IInv, TypeOK
<1>3. Tail(<<Ack(f, FALSE)>>) = <<>>
  OBVIOUS
<1>4. Brings(<<>>, x)
  BY EmptySeq DEF Brings, Orderly
<1> QED
  BY <1>2, <1>3, <1>4

LEMMA HandleStopRInv ==
  ASSUME IInv, RInv, HandleStop
  PROVE  RInv'
<1>1. /\ phase \in {"stopAck"} \cup FailedPhases /\ request # <<>>
      /\ UNCHANGED <<wanted, phase, cur, saved, complete>>
  <2>1. Receives("STOP") /\ UNCHANGED activeVars
    BY DEF HandleStop
  <2>2. request[1].type = "STOP" /\ 1 \in 1..Len(request)
    BY <2>1, ReceivesStep DEF IInv, TypeOK
  <2> QED
    BY <2>1, <2>2 DEF Receives, activeVars, IInv, InvPending
<1>2. CASE phase \in FailedPhases
  BY <1>1, <1>2, EarlyRInv
<1>3. CASE phase = "stopAck"
  <2>1. answer = <<>>
    BY <1>1, <1>3 DEF IInv, InvConversation
  <2>2. 0 \in 0..NumFlows
    BY ConstantsAssumption
  <2>3. answer' # <<>> => Brings(Tail(answer'), FirstFile)
    <3>1. ASSUME NEW s \in StopUploads \cup BrokenStopUploads,
                 SendAnswers(<<Ack(0, TRUE)>> \o s)
          PROVE  answer' # <<>> => Brings(Tail(answer'), FirstFile)
      BY <2>1, <2>2, <3>1, StopUploadInOrder, AnswerUpload
    <3>2. ASSUME SendAnswers(<<Ack(0, FALSE)>>)
          PROVE  answer' # <<>> => Brings(Tail(answer'), FirstFile)
      BY <2>1, <2>2, <3>2, AnswerAlone
    <3> QED
      BY <3>1, <3>2 DEF HandleStop
  <2>4. InvAnswers'
    BY <1>1, <1>3, <2>3, PhaseGroups
       DEF InvAnswers, Brings, Orderly, FirstFile
  <2>5. InvRemoved'
    BY <1>1, <1>3, PhaseGroups DEF InvRemoved
  <2> QED
    BY <1>1, <2>4, <2>5, HandlerRInv
<1> QED
  BY <1>1, <1>2, <1>3

\* The flow of the first Remove Flow is gone, the others are still to go.
LEMMA HandleRemoveFlowRInv ==
  ASSUME IInv, RInv, HandleRemoveFlow
  PROVE  RInv'
<1> DEFINE g == request[1].flow
<1>1. /\ UNCHANGED <<wanted, phase, cur, saved, complete, passiveOpen>>
      /\ linkUp' => linkUp
      /\ request # <<>> /\ request' = Tail(request)
      /\ Head(request) = request[1] /\ request[1].type = "REMOVE_FLOW"
      /\ request[1] \in Requests
      /\ flow' = [flow EXCEPT ![g] = "absent"]
  <2>1. Receives("REMOVE_FLOW") /\ request \in Seq(Requests)
    BY DEF HandleRemoveFlow, IInv, TypeOK
  <2>2. /\ request # <<>> /\ request' = Tail(request)
        /\ Head(request) = request[1] /\ request[1].type = "REMOVE_FLOW"
        /\ request[1] \in Requests
    BY <2>1, ReceivesStep DEF Receives
  <2>3. /\ UNCHANGED <<wanted, phase, cur, saved, complete, passiveOpen>>
        /\ flow' = [flow EXCEPT ![Head(request).flow] = "absent"]
    BY DEF HandleRemoveFlow, activeVars
  <2>4. linkUp' => linkUp
    BY DEF HandleRemoveFlow, IInv, TypeOK
  <2> QED
    BY <2>2, <2>3, <2>4
<1>2. g \in Flows /\ g \in 0..NumFlows /\ request[1] = RemoveFlow(g)
  BY <1>1, FlowOfRequest
<1>3. CASE phase \in FailedPhases
  BY <1>1, <1>3, EarlyRInv
<1>4. CASE phase \notin FailedPhases
  <2>1. phase \in CollectPhases \cup {"done"}
    <3>1. request \notin {<<AddFlow(cur)>>, <<Start>>, <<Stop>>}
      BY <1>1 DEF AddFlow, Start, Stop
    <3> QED
      BY <1>1, <1>4, <3>1
         DEF IInv, InvConversation, OneExchange, TypeOK, Phases, SetupPhases,
             CollectPhases
  <2>2. InvAnswers'
    <3>1. CASE phase = "removeAck"
      <4>1. /\ request = <<RemoveFlow(cur)>> /\ answer = <<>>
            /\ "vector" \in wanted
        BY <1>1, <3>1 DEF RInv, InvAnswers
      <4>4. request' = <<>>
        BY <1>1, <4>1
      <4>2. g = cur
        BY <4>1 DEF RemoveFlow
      <4>3. answer' # <<>> => Brings(Tail(answer'), FlowVector(cur))
        <5>1. ASSUME NEW s \in Upload(FlowVector(cur)) \cup
                               BrokenUpload(FlowVector(cur)),
                     SendAnswers(<<Ack(cur, TRUE)>> \o s)
              PROVE  answer' # <<>> => Brings(Tail(answer'), FlowVector(cur))
          BY <1>2, <4>1, <4>2, <5>1, UploadInOrder, FileTypes, AnswerUpload
        <5>2. ASSUME SendAnswers(<<Ack(cur, FALSE)>>)
              PROVE  answer' # <<>> => Brings(Tail(answer'), FlowVector(cur))
          BY <1>2, <4>1, <4>2, <5>2, AnswerAlone
        <5> QED
          BY <1>1, <4>1, <4>2, <5>1, <5>2 DEF HandleRemoveFlow
      <4> QED
        BY <1>1, <3>1, <4>1, <4>3, <4>4, PhaseGroups
           DEF InvAnswers, Brings, Orderly, FlowVector
    <3>2. CASE phase # "removeAck"
      BY <1>1, <2>1, <3>2, PhaseGroups DEF RInv, InvAnswers
    <3> QED
      BY <3>1, <3>2
  <2>3. InvRemoved'
    <3>1. SUFFICES ASSUME passiveOpen, linkUp, NEW f \in Flows, ~(f > cur),
                          ~(f = cur /\ phase \in {"vector", "scalar", "remove"})
                   PROVE  \/ flow'[f] = "absent"
                          \/ \E i \in 1..Len(request') : request'[i] = RemoveFlow(f)
      BY <1>1 DEF InvRemoved
    <3>2. flow \in [Flows -> {"absent", "added", "bound", "running", "stopped"}]
          /\ request \in Seq(Requests)
      BY DEF IInv, TypeOK
    <3>3. flow[f] = "absent" => flow'[f] = "absent"
      BY <1>1, <1>2, <3>2
    <3>4. f = g => flow'[f] = "absent"
      BY <1>1, <1>2, <3>2
    <3>5. /\ Len(request) \in Nat /\ Len(request') = Len(request) - 1
          /\ \A i \in 1..Len(request') : request'[i] = request[i + 1]
      BY <1>1, <3>2, TakeHead
    <3>6. ASSUME NEW i \in 1..Len(request), request[i] = RemoveFlow(f), f # g
          PROVE  \E j \in 1..Len(request') : request'[j] = RemoveFlow(f)
      <4>1. i # 1
        BY <1>2, <3>6 DEF RemoveFlow
      <4>2. i - 1 \in 1..Len(request') /\ request'[i - 1] = request[i]
        BY <3>5, <4>1
      <4> QED
        BY <3>6, <4>2
    <3> QED
      BY <2>1, <3>1, <3>3, <3>4, <3>6 DEF RInv, InvRemoved
  <2> QED
    BY <1>1, <2>2, <2>3, HandlerRInv
<1> QED
  BY <1>3, <1>4

LEMMA ForgetRInv ==
  ASSUME RInv, Forget, UNCHANGED <<activeVars, answer>>
  PROVE  RInv'
<1>1. InvAnswers'
  BY DEF RInv, InvAnswers, Brings, Orderly, FirstFile, Target, Forget, activeVars
<1>2. InvRemoved'
  BY DEF InvRemoved, Forget
<1> QED
  BY <1>1, <1>2, HandlerRInv DEF activeVars

\* What the break of the association leaves of an answer is in order.
LEMMA LinkLostRInv ==
  ASSUME IInv, RInv, LinkLost
  PROVE  RInv'
<1>1. /\ UNCHANGED <<wanted, phase, cur, saved, complete>>
      /\ linkUp' = FALSE
  BY DEF LinkLost, activeVars
<1>2. PICK i \in 0..Len(request) : request' = SubSeq(request, 1, i)
  BY DEF LinkLost
<1>3. PICK j \in 0..Len(answer) : answer' = SubSeq(answer, 1, j)
  BY DEF LinkLost
<1>4. answer \in Answers /\ request \in Seq(Requests)
  BY DEF IInv, TypeOK, Answers
<1>5. /\ request = <<>> => request' = <<>>
      /\ \A m : request = <<m>> => request' \in {<<>>, request}
  <2>1. Len(request) <= 1 => request' \in {<<>>, request}
    BY <1>2, <1>4, Prefix
  <2>2. Len(<<>>) <= 1 /\ \A m : Len(<<m>>) <= 1
    OBVIOUS
  <2> QED
    BY <2>1, <2>2
<1>6. answer = <<>> => answer' = <<>>
  <2>1. answer = <<>> => j = 0
    BY <1>3
  <2> QED
    BY <1>3, <1>4, <2>1, Prefix DEF Answers
<1>7. \A x : Brings(answer, x) => Brings(answer', x)
  BY <1>3, <1>4, PrefixInOrder
<1>8. ASSUME answer' # <<>>, NEW x, Brings(Tail(answer), x)
      PROVE  Brings(Tail(answer'), x)
  <2>1. j # 0 /\ Len(answer) \in Nat
    BY <1>3, <1>4, <1>8, Prefix, LenProperties DEF Answers
  <2>2. j \in 1..Len(answer)
    BY <2>1
  <2>3. /\ Tail(answer') = SubSeq(Tail(answer), 1, j - 1)
        /\ j - 1 \in 0..Len(Tail(answer)) /\ Tail(answer) \in Answers
    BY <1>3, <1>4, <2>2, PrefixOfTail
  <2> QED
    BY <1>8, <2>3, PrefixInOrder
<1>9. InvAnswers'
  <2>2. FirstFile' = FirstFile /\ Target' = Target
    BY <1>1 DEF FirstFile, Target
  <2>3. (phase' = "stopAck" /\ answer' # <<>> => Brings(Tail(answer), FirstFile)')
    BY <1>1, <1>6, <1>8, <2>2 DEF RInv, InvAnswers, Brings, Orderly
  <2>4. phase' \in DownloadPhases => request' = <<>> /\ Brings(answer, Target)'
    BY <1>1, <1>5, <1>7, <2>2 DEF RInv, InvAnswers, Brings, Orderly
  <2>5. phase' = "removeAck" =>
          \/ request' = <<RemoveFlow(cur)>>' /\ answer' = <<>>
          \/ /\ request' = <<>>
             /\ answer' # <<>> => Brings(Tail(answer), FlowVector(cur))'
    BY <1>1, <1>5, <1>6, <1>8 DEF RInv, InvAnswers, Brings, Orderly
  <2> QED
    BY <1>1, <1>5, <1>6, <2>3, <2>4, <2>5 DEF RInv, InvAnswers
<1>10. InvRemoved'
  BY <1>1 DEF InvRemoved
<1> QED
  BY <1>1, <1>9, <1>10, HandlerRInv

LEMMA NextRInv ==
  ASSUME IInv, RInv, [Next]_vars
  PROVE  RInv'
<1>1. CASE Passive
  BY <1>1, HandleSetupRInv, HandleStopRInv, HandleRemoveFlowRInv, ForgetRInv
     DEF Passive, HandleControlAssocShutdown
<1>2. ASSUME NEW f \in Flows, IdentifyLost(f) PROVE RInv'
  BY <1>2, SameRInv DEF IdentifyLost, activeVars, passiveVars
<1>3. CASE ActiveCrash
  BY <1>3, EarlyRInv DEF ActiveCrash, End
<1>4. CASE PassiveCrash
  BY <1>4, ForgetRInv DEF PassiveCrash
<1>5. CASE UNCHANGED vars
  BY <1>5, SameRInv DEF vars, activeVars, passiveVars, netVars
<1> QED
  BY <1>1, <1>2, <1>3, <1>4, <1>5, ActiveRInv, LinkLostRInv
     DEF Next, Network, Crashes, Ended

\* RInv holds in every reachable state: what is on its way to the active node
\* is what its downloads look for, and what it has is what they are through
\* with.
THEOREM ResultsInvariant == Spec => []RInv
<1> QED
  BY InitRInv, NextRInv, InductiveInvariant, PTL DEF Spec

\* ResultsInRightFile: downloadOutputFile() does not look at the name of what
\* it receives, yet it never writes into a file what the passive node wrote
\* under another name, wherever an upload or the association breaks.
THEOREM ResultsInRightFileHolds == Spec => []ResultsInRightFile
<1>1. RInv => ResultsInRightFile
  BY DEF RInv
<1> QED
  BY <1>1, ResultsInvariant, PTL

\* DoneIsComplete: an active node that ends without an error has all of the
\* files that were asked for, and the passive node keeps no flow and no
\* measurement once it has read the last request.
THEOREM DoneIsCompleteHolds == Spec => []DoneIsComplete
<1>1. IInv /\ RInv => DoneIsComplete
  <2> SUFFICES ASSUME IInv, RInv, phase = "done" PROVE DoneIsComplete
    BY DEF DoneIsComplete
  <2>1. complete = Expected /\ cur = NumFlows
    BY DEF RInv, InvComplete
  <2>2. ~measuring
    BY DEF IInv, InvMeasuring
  <2>3. ASSUME passiveOpen, linkUp, request = <<>>, NEW f \in Flows
        PROVE  flow[f] = "absent"
    <3>1. ~(f > cur)
      BY <2>1, ConstantsAssumption DEF Flows
    <3>2. ~\E i \in 1..Len(request) : request[i] = RemoveFlow(f)
      BY <2>3
    <3> QED
      BY <2>3, <3>1, <3>2 DEF RInv, InvRemoved
  <2> QED
    BY <2>1, <2>2, <2>3 DEF DoneIsComplete
<1> QED
  BY <1>1, InductiveInvariant, ResultsInvariant, PTL
===============================================================================
