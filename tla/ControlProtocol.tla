--------------------------- MODULE ControlProtocol ---------------------------
(***************************************************************************)
(* NPMP-CONTROL between one active node and the passive node it controls   *)
(* (control.cc, with the loops of netperfmeter.cc that drive it): set up   *)
(* the flows, start, run, stop, download the results, remove the flows.    *)
(*                                                                         *)
(* The control association is reliable and ordered (SCTP or TCP): two      *)
(* FIFO sequences.  NPMP-DATA Identify messages travel over the data       *)
(* sockets, where they may overtake control messages and, for UDP and      *)
(* DCCP, be lost or duplicated: a set of flows whose Identify is in        *)
(* flight.  One session is one MeasurementID on one control socket.  The   *)
(* passive node finds a measurement by both, but its flows by the          *)
(* MeasurementID alone: sessions share no state because active nodes draw  *)
(* different MeasurementIDs, which is taken for granted here.              *)
(*                                                                         *)
(* A definition named after the next one and a fault (an uncounted         *)
(* IdentifyRetry before IdentifyRetry) is a wrong variant of it, in no     *)
(* behaviour of Spec (see the README).                                     *)
(***************************************************************************)
EXTENDS Integers, Sequences

CONSTANTS
  NumFlows,     \* flows of the session, identified in order of creation
  MaxTrials,    \* UNRELIABLE_IDENTIFY_MAX_TRIALS
  Unreliable,   \* the flows over UDP or DCCP; the others use TCP or SCTP
  MaxChunks,    \* bound: at most this many Results messages for one file
  Faults        \* what may go wrong in a run (see FaultNames)

Flows == 1..NumFlows

FaultNames == {"activeCrash",   \* the active process dies
               "passiveCrash",  \* the passive process dies
               "link",          \* the control association breaks
               "setup",         \* Identify or Start fails on the passive node
               "local",         \* the active node cannot begin its measurement
               "write",         \* finish() of an output file of the measurement
                                \* reports an error, as it may for BZip2 ...
               "flowWrite",     \* ... or that of a flow's vector file
               "read",          \* an output file cannot be read or sent
               "file"}          \* the active node cannot create or write a file

ASSUME ConstantsAssumption ==
  /\ NumFlows \in Nat \ {0}
  /\ MaxTrials \in Nat \ {0}
  /\ Unreliable \subseteq Flows
  /\ MaxChunks \in Nat \ {0}
  /\ Faults \subseteq FaultNames

VARIABLES
  wanted,      \* {"vector", "scalar"}: the name patterns the user gave
  phase,       \* where the active node is in activeMode()
  cur,         \* the flow it adds, identifies or removes
  trial,       \* trial of performNetPerfMeterIdentifyFlow()
  saved,       \* <<file on disk, file a chunk of it came from>>
  complete,    \* files downloaded up to NPMRF_EOF
  activeOpen,  \* the active node's end of the control socket is open
  request,     \* control messages on their way to the passive node
  answer,      \* control messages on their way to the active node
  identify,    \* flows with an Identify in flight
  linkUp,      \* the control association works
  passiveOpen, \* the passive node's end of the control socket is open
  flow,        \* the passive node's Flow objects
  hasFile,     \* the passive flow's vector file exists()
  measuring    \* the passive node's MeasurementSet has the session

activeVars  == <<wanted, phase, cur, trial, saved, complete, activeOpen>>
passiveVars == <<passiveOpen, flow, hasFile, measuring>>
netVars     == <<request, answer, identify, linkUp>>
vars == <<activeVars, passiveVars, netVars>>

-----------------------------------------------------------------------------
(* Messages and files.                                                     *)

AddFlow(f)    == [type |-> "ADD_FLOW", flow |-> f]
RemoveFlow(f) == [type |-> "REMOVE_FLOW", flow |-> f]
Start         == [type |-> "START", flow |-> 0]
Stop          == [type |-> "STOP", flow |-> 0]

\* An Acknowledge names a flow, or 0 for the whole measurement; it does not
\* say which request it answers.
Ack(f, ok)    == [type |-> "ACKNOWLEDGE", flow |-> f, okay |-> ok]
Results(x, e) == [type |-> "RESULTS", file |-> x, eof |-> e]

VectorFile      == <<"vector", 0>>
ScalarFile      == <<"scalar", 0>>
FlowVector(f)   == <<"flow", f>>
FileNames       == {VectorFile, ScalarFile} \cup {FlowVector(f) : f \in Flows}

Requests == [type : {"ADD_FLOW", "REMOVE_FLOW"}, flow : Flows]
            \cup {Start, Stop}
Acks     == [type : {"ACKNOWLEDGE"}, flow : 0..NumFlows, okay : BOOLEAN]
Chunks   == [type : {"RESULTS"}, file : FileNames, eof : BOOLEAN]

\* uploadOutputFile(): chunks of the file, the last one flagged NPMRF_EOF.
Upload(x) == {[i \in 1..n |-> Results(x, i = n)] : n \in 1..MaxChunks}

\* uploadOutputFile() gives up after some chunks: no chunk says NPMRF_EOF.
BrokenUpload(x) == {[i \in 1..n |-> Results(x, FALSE)] : n \in 0..MaxChunks}

SetupPhases    == {"add", "addAck", "identify", "identifyAck",
                   "start", "startAck"}
DownloadPhases == {"vector", "scalar", "flowVector"}
CollectPhases  == DownloadPhases \cup {"remove", "removeAck", "cleanup"}
FailedPhases   == {"exit", "exitLocked", "failed"}
Phases == SetupPhases \cup {"running", "stop", "stopAck"} \cup CollectPhases
          \cup {"done"} \cup FailedPhases

TypeOK ==
  /\ wanted \subseteq {"vector", "scalar"}
  /\ phase \in Phases
  /\ cur \in Flows
  /\ trial \in 1..MaxTrials
  /\ saved \subseteq FileNames \X FileNames
  /\ complete \subseteq FileNames
  /\ activeOpen \in BOOLEAN
  /\ request \in Seq(Requests)
  /\ answer \in Seq(Acks \cup Chunks)
  /\ identify \subseteq Flows
  /\ linkUp \in BOOLEAN
  /\ passiveOpen \in BOOLEAN
  /\ flow \in [Flows -> {"absent", "added", "bound", "running", "stopped"}]
  /\ hasFile \in [Flows -> BOOLEAN]
  /\ measuring \in BOOLEAN

Init ==
  /\ wanted \in SUBSET {"vector", "scalar"}
  /\ phase = "add" /\ cur = 1 /\ trial = 1
  /\ saved = {} /\ complete = {}
  /\ activeOpen = TRUE /\ passiveOpen = TRUE /\ linkUp = TRUE
  /\ request = <<>> /\ answer = <<>> /\ identify = {}
  /\ flow = [f \in Flows |-> "absent"]
  /\ hasFile = [f \in Flows |-> FALSE]
  /\ measuring = FALSE

-----------------------------------------------------------------------------
(* The active node.                                                        *)

\* Its recv() on the control socket has nothing left to return but an error
\* or the end of the stream.
EndOfAnswers == answer = <<>> /\ (~passiveOpen \/ ~linkUp)

SendRequest(m) ==
  request' = IF passiveOpen /\ linkUp THEN Append(request, m) ELSE request

\* performNetPerfMeterStop() removes the flows with the FlowManager's lock.
HoldsLock == phase \in {"remove", "removeAck", "flowVector"}

\* LOG_FATAL: exit(1), and in it ~FlowManager().  It waits for the reception
\* thread, which does not end while the main thread holds the lock.
Fail == /\ phase' = IF HoldsLock THEN "exitLocked" ELSE "exit"
        /\ UNCHANGED activeOpen

\* The process ends and its sockets close.
End == phase' = "failed" /\ activeOpen' = FALSE

MaxTrialsOf(f) == IF f \in Unreliable THEN MaxTrials ELSE 1

\* performNetPerfMeterAddFlow(), for the flow that createFlow() just made.
SendAddFlow ==
  /\ phase = "add"
  /\ SendRequest(AddFlow(cur))
  /\ phase' = "addAck"
  /\ UNCHANGED <<wanted, cur, trial, saved, complete, activeOpen, answer,
                 identify, linkUp, passiveVars>>

\* performNetPerfMeterIdentifyFlow(): one trial, over the data socket.
SendIdentify ==
  /\ phase = "identify"
  /\ identify' = identify \cup {cur}
  /\ phase' = "identifyAck"
  /\ UNCHANGED <<wanted, cur, trial, saved, complete, activeOpen, request,
                 answer, linkUp, passiveVars>>

\* performNetPerfMeterStart(): the local flows begin to transmit, then the
\* passive node is told.
SendStart ==
  /\ phase = "start"
  /\ SendRequest(Start)
  /\ phase' = "startAck"
  /\ UNCHANGED <<wanted, cur, trial, saved, complete, activeOpen, answer,
                 identify, linkUp, passiveVars>>

\* The active node's own beginMeasurement() fails.
BeginFails ==
  /\ "local" \in Faults
  /\ phase = "start"
  /\ Fail
  /\ UNCHANGED <<wanted, cur, trial, saved, complete, netVars, passiveVars>>

\* mainLoop(): the run time is over, or the user interrupts.
StopTimeReached ==
  /\ phase = "running"
  /\ phase' = "stop"
  /\ UNCHANGED <<wanted, cur, trial, saved, complete, activeOpen, netVars,
                 passiveVars>>

\* mainLoop(): any control message is invalid on the active node and makes it
\* shut the socket down; so does, without a shutdown, the end of the stream.
Aborted ==
  /\ phase = "running"
  /\ answer # <<>> \/ EndOfAnswers
  /\ linkUp' = (linkUp /\ answer = <<>>)
  /\ phase' = "stop"
  /\ UNCHANGED <<wanted, cur, trial, saved, complete, activeOpen, request,
                 answer, identify, passiveVars>>

\* performNetPerfMeterStop(), first part: stop the own flows, tell the
\* passive node.
SendStop ==
  /\ phase = "stop"
  /\ SendRequest(Stop)
  /\ phase' = "stopAck"
  /\ UNCHANGED <<wanted, cur, trial, saved, complete, activeOpen, answer,
                 identify, linkUp, passiveVars>>

NextRemovalSkippingLast ==
  IF cur + 1 < NumFlows THEN phase' = "remove" /\ cur' = cur + 1
                        ELSE phase' = "cleanup" /\ UNCHANGED cur

\* Where the loop over the flows goes after the current one.
NextRemoval ==
  IF cur < NumFlows THEN phase' = "remove" /\ cur' = cur + 1
                    ELSE phase' = "cleanup" /\ UNCHANGED cur

\* sendNetPerfMeterRemoveFlow(): an answer is awaited only if there is a
\* vector file to download.
SendRemoveFlow ==
  /\ phase = "remove"
  /\ SendRequest(RemoveFlow(cur))
  /\ IF "vector" \in wanted THEN phase' = "removeAck" /\ UNCHANGED cur
                            ELSE NextRemoval
  /\ UNCHANGED <<wanted, trial, saved, complete, activeOpen, answer,
                 identify, linkUp, passiveVars>>

\* ext_send() reports that the peer, or the association to it, is gone.
SendFails ==
  /\ phase \in {"add", "identify", "start", "stop", "remove"}
  /\ ~passiveOpen \/ ~linkUp
  /\ Fail
  /\ UNCHANGED <<wanted, cur, trial, saved, complete, netVars, passiveVars>>

\* What awaitNetPerfMeterAcknowledge() waits for.
AwaitedFlow ==
  IF phase \in {"addAck", "identifyAck", "removeAck"} THEN cur ELSE 0

\* awaitNetPerfMeterAcknowledge() returns true ...
Acknowledged ==
  /\ answer # <<>>
  /\ Head(answer) = Ack(AwaitedFlow, TRUE)
  /\ answer' = Tail(answer)

\* ... or false: another message, an error status, the end of the stream.
NotAcknowledged ==
  \/ /\ answer # <<>>
     /\ Head(answer) # Ack(AwaitedFlow, TRUE)
     /\ answer' = Tail(answer)
  \/ /\ EndOfAnswers
     /\ UNCHANGED answer

\* The download that follows the acknowledged Stop, or the vector download.
AfterStop   == IF "vector" \in wanted THEN "vector"
               ELSE IF "scalar" \in wanted THEN "scalar" ELSE "remove"
AfterVector == IF "scalar" \in wanted THEN "scalar" ELSE "remove"

AddAcknowledged ==
  /\ phase = "addAck"
  /\ Acknowledged
  /\ phase' = "identify" /\ trial' = 1
  /\ UNCHANGED <<wanted, cur, saved, complete, activeOpen, request, identify,
                 linkUp, passiveVars>>

IdentifyAcknowledged ==
  /\ phase = "identifyAck"
  /\ Acknowledged
  /\ IF cur < NumFlows THEN phase' = "add" /\ cur' = cur + 1
                       ELSE phase' = "start" /\ UNCHANGED cur
  /\ UNCHANGED <<wanted, trial, saved, complete, activeOpen, request,
                 identify, linkUp, passiveVars>>

StartAcknowledged ==
  /\ phase = "startAck"
  /\ Acknowledged
  /\ phase' = "running"
  /\ UNCHANGED <<wanted, cur, trial, saved, complete, activeOpen, request,
                 identify, linkUp, passiveVars>>

StopAcknowledged ==
  /\ phase = "stopAck"
  /\ Acknowledged
  /\ phase' = AfterStop
  /\ cur' = 1
  /\ UNCHANGED <<wanted, trial, saved, complete, activeOpen, request,
                 identify, linkUp, passiveVars>>

RemoveAcknowledged ==
  /\ phase = "removeAck"
  /\ Acknowledged
  /\ phase' = "flowVector"
  /\ UNCHANGED <<wanted, cur, trial, saved, complete, activeOpen, request,
                 identify, linkUp, passiveVars>>

\* A failed wait ends the process, except while identifying.
AckFails ==
  /\ phase \in {"addAck", "startAck", "stopAck", "removeAck"}
  /\ NotAcknowledged
  /\ Fail
  /\ UNCHANGED <<wanted, cur, trial, saved, complete, request, identify,
                 linkUp, passiveVars>>

IdentifyRetryUncounted ==
  phase' = "identify" /\ UNCHANGED <<trial, activeOpen>>

IdentifyTakenForDone ==
  /\ IF cur < NumFlows THEN phase' = "add" ELSE phase' = "start"
  /\ UNCHANGED <<trial, activeOpen>>

\* Another trial, until the trials are used up.
IdentifyRetry ==
  IF trial < MaxTrialsOf(cur)
  THEN trial' = trial + 1 /\ phase' = "identify" /\ UNCHANGED activeOpen
  ELSE Fail /\ UNCHANGED trial

\* The wait of a trial ends without the Acknowledge: a wrong answer was
\* read, or poll() timed out with nothing to read.
IdentifyFails ==
  /\ phase = "identifyAck"
  /\ NotAcknowledged \/ (answer = <<>> /\ UNCHANGED answer)
  /\ IdentifyRetry
  /\ UNCHANGED <<wanted, cur, saved, complete, request, identify, linkUp,
                 passiveVars>>

\* The file downloadOutputFile() writes.
Target == CASE phase = "vector" -> VectorFile
            [] phase = "scalar" -> ScalarFile
            [] OTHER            -> FlowVector(cur)

\* downloadOutputFile(): one Results message.
DownloadChunk ==
  /\ phase \in DownloadPhases
  /\ answer # <<>>
  /\ Head(answer).type = "RESULTS"
  /\ answer' = Tail(answer)
  /\ saved' = saved \cup {<<Target, Head(answer).file>>}
  /\ IF Head(answer).eof
     THEN /\ complete' = complete \cup {Target}
          /\ CASE phase = "vector" -> phase' = AfterVector /\ UNCHANGED cur
               [] phase = "scalar" -> phase' = "remove" /\ UNCHANGED cur
               [] OTHER            -> NextRemoval
     ELSE UNCHANGED <<complete, phase, cur>>
  /\ UNCHANGED <<wanted, trial, activeOpen, request, identify, linkUp,
                 passiveVars>>

\* downloadOutputFile() gives up: at the end of the stream, on another message
\* or a chunk that it cannot write, or when it cannot create the file, which is
\* before it reads.
DownloadFails ==
  /\ phase \in DownloadPhases
  /\ \/ EndOfAnswers /\ UNCHANGED answer
     \/ /\ answer # <<>>
        /\ Head(answer).type # "RESULTS" \/ "file" \in Faults
        /\ answer' = Tail(answer)
     \/ /\ "file" \in Faults
        /\ \A pair \in saved : pair[1] # Target
        /\ UNCHANGED answer
  /\ Fail
  /\ UNCHANGED <<wanted, cur, trial, saved, complete, request, identify,
                 linkUp, passiveVars>>

\* performNetPerfMeterStop(), last part, and the end of main().
Cleanup ==
  /\ phase = "cleanup"
  /\ phase' = "done" /\ activeOpen' = FALSE
  /\ UNCHANGED <<wanted, cur, trial, saved, complete, netVars, passiveVars>>

\* ~FlowManager(): the reception thread gets the lock and ends, or it crashes
\* the process, with a Measurement that was deleted when a download failed.
Exit ==
  /\ phase = "exit"
  /\ End
  /\ UNCHANGED <<wanted, cur, trial, saved, complete, netVars, passiveVars>>

ActiveCrash ==
  /\ "activeCrash" \in Faults
  /\ phase \notin {"done", "failed"}
  /\ End
  /\ UNCHANGED <<wanted, cur, trial, saved, complete, netVars, passiveVars>>

-----------------------------------------------------------------------------
(* The passive node.                                                       *)

Receives(type) == /\ passiveOpen
                  /\ request # <<>>
                  /\ Head(request).type = type
                  /\ request' = Tail(request)

SendAnswers(s) ==
  answer' = IF activeOpen /\ linkUp THEN answer \o s ELSE answer

\* handleNetPerfMeterAddFlow(): a flow that exists is an error.
HandleAddFlow ==
  /\ Receives("ADD_FLOW")
  /\ LET f == Head(request).flow IN
       /\ SendAnswers(<<Ack(f, flow[f] = "absent")>>)
       /\ flow' = [flow EXCEPT ![f] = IF @ = "absent" THEN "added" ELSE @]
  /\ UNCHANGED <<activeVars, identify, linkUp, passiveOpen, hasFile,
                 measuring>>

\* An Identify is read; a duplicate of an unreliable one may follow.
IdentifyArrives(f) ==
  /\ f \in identify
  /\ identify' = identify \ {f} \/ (f \in Unreliable /\ UNCHANGED identify)

HandleIdentifyAckingTwice(f) ==
  /\ IdentifyArrives(f)
  /\ flow[f] # "absent"
  /\ flow' = [flow EXCEPT ![f] = IF @ = "added" THEN "bound" ELSE @]
  /\ hasFile' = [hasFile EXCEPT ![f] = "vector" \in wanted]
  /\ SendAnswers(<<Ack(f, TRUE)>>)
  /\ UNCHANGED <<activeVars, request, linkUp, passiveOpen, measuring>>

HandleIdentifyIgnoringErrors(f) ==
  /\ IdentifyArrives(f)
  /\ IF flow[f] = "added"
     THEN \E ok \in {TRUE} \cup (IF "setup" \in Faults THEN {FALSE} ELSE {}) :
            /\ flow' = [flow EXCEPT ![f] = "bound"]
            /\ hasFile' = [hasFile EXCEPT ![f] = ok /\ "vector" \in wanted]
            /\ SendAnswers(<<Ack(f, TRUE)>>)
     ELSE UNCHANGED <<flow, hasFile, answer>>
  /\ UNCHANGED <<activeVars, request, linkUp, passiveOpen, measuring>>

\* handleNetPerfMeterIdentify(), from the thread that reads the data sockets.
\* The first Identify of a flow binds the socket to it; only that one is
\* acknowledged.
HandleIdentify(f) ==
  /\ IdentifyArrives(f)
  /\ IF flow[f] = "added"
     THEN \E ok \in {TRUE} \cup (IF "setup" \in Faults THEN {FALSE} ELSE {}) :
            /\ flow' = [flow EXCEPT ![f] = "bound"]
            /\ hasFile' = [hasFile EXCEPT ![f] = ok /\ "vector" \in wanted]
            /\ SendAnswers(<<Ack(f, ok)>>)
     ELSE UNCHANGED <<flow, hasFile, answer>>
  /\ UNCHANGED <<activeVars, request, linkUp, passiveOpen, measuring>>

\* handleNetPerfMeterStart(): beginMeasurement() starts the identified flows.
\* A measurement that cannot be initialised is removed again, and with it
\* one already registered under the same key.
HandleStart ==
  /\ Receives("START")
  /\ \E ok \in {~measuring} \cup (IF "setup" \in Faults THEN {FALSE} ELSE {}) :
       /\ measuring' = ok
       /\ flow' = [f \in Flows |-> IF ok /\ flow[f] = "bound"
                                   THEN "running" ELSE flow[f]]
       /\ SendAnswers(<<Ack(0, ok)>>)
  /\ UNCHANGED <<activeVars, identify, linkUp, passiveOpen, hasFile>>

\* The uploads that follow an acknowledged Stop, and those that fail.
VectorUploads == IF "vector" \in wanted THEN Upload(VectorFile) ELSE {<<>>}
ScalarUploads == IF "scalar" \in wanted THEN Upload(ScalarFile) ELSE {<<>>}

StopUploads == {v \o s : v \in VectorUploads, s \in ScalarUploads}

BrokenStopUploads ==
  (IF "vector" \in wanted THEN BrokenUpload(VectorFile) ELSE {})
  \cup
  (IF "scalar" \in wanted
   THEN {v \o s : v \in VectorUploads, s \in BrokenUpload(ScalarFile)}
   ELSE {})

StoppedFlows == [f \in Flows |-> IF flow[f] = "running" THEN "stopped"
                                                        ELSE flow[f]]

HandleStopScalarFirst ==
  /\ Receives("STOP")
  /\ measuring' = FALSE
  /\ flow' = StoppedFlows
  /\ \E v \in VectorUploads, s \in ScalarUploads :
       SendAnswers(<<Ack(0, TRUE)>> \o s \o v)
  /\ UNCHANGED <<activeVars, identify, linkUp, passiveOpen, hasFile>>

HandleStopUnacknowledged ==
  /\ Receives("STOP")
  /\ measuring' = FALSE
  /\ flow' = StoppedFlows
  /\ UNCHANGED <<activeVars, answer, identify, linkUp, passiveOpen, hasFile>>

HandleStopKeepingMeasurement ==
  /\ Receives("STOP")
  /\ UNCHANGED measuring
  /\ flow' = StoppedFlows
  /\ \E s \in StopUploads : SendAnswers(<<Ack(0, TRUE)>> \o s)
  /\ UNCHANGED <<activeVars, identify, linkUp, passiveOpen, hasFile>>

\* handleNetPerfMeterStop(): finish the measurement, stop its flows,
\* acknowledge, upload.  A failed upload shuts the control socket down.
HandleStop ==
  /\ Receives("STOP")
  /\ measuring' = FALSE
  /\ flow' = StoppedFlows
  /\ \/ /\ measuring
        /\ \E s \in StopUploads : SendAnswers(<<Ack(0, TRUE)>> \o s)
        /\ UNCHANGED linkUp
     \/ /\ measuring /\ "read" \in Faults
        /\ \E s \in BrokenStopUploads : SendAnswers(<<Ack(0, TRUE)>> \o s)
        /\ linkUp' = FALSE
     \/ /\ ~measuring \/ ("write" \in Faults /\ wanted # {})
        /\ SendAnswers(<<Ack(0, FALSE)>>)
        /\ UNCHANGED linkUp
  /\ UNCHANGED <<activeVars, identify, passiveOpen, hasFile>>

\* handleNetPerfMeterRemoveFlow() and uploadResults(): the flow goes; an
\* answer is sent if the flow does not exist, or if it has a vector file
\* that finish() finds intact.
HandleRemoveFlow ==
  /\ Receives("REMOVE_FLOW")
  /\ LET f == Head(request).flow IN
       /\ flow' = [flow EXCEPT ![f] = "absent"]
       /\ hasFile' = [hasFile EXCEPT ![f] = FALSE]
       /\ \/ /\ flow[f] # "absent" => hasFile[f]
             /\ IF flow[f] = "absent"
                THEN SendAnswers(<<Ack(f, FALSE)>>)
                ELSE \E s \in Upload(FlowVector(f)) :
                       SendAnswers(<<Ack(f, TRUE)>> \o s)
             /\ UNCHANGED linkUp
          \/ /\ flow[f] # "absent" /\ hasFile[f] /\ "read" \in Faults
             /\ \E s \in BrokenUpload(FlowVector(f)) :
                  SendAnswers(<<Ack(f, TRUE)>> \o s)
             /\ linkUp' = FALSE
          \/ /\ flow[f] # "absent"
             /\ ~hasFile[f] \/ "flowWrite" \in Faults
             /\ UNCHANGED <<answer, linkUp>>
  /\ UNCHANGED <<activeVars, identify, passiveOpen, measuring>>

ForgetKeepingFlows == /\ passiveOpen' = FALSE
                      /\ UNCHANGED <<flow, hasFile>>
                      /\ measuring' = FALSE
                      /\ request' = <<>>

\* FlowManager::removeAllMeasurements(), and the socket closes.
Forget == /\ passiveOpen' = FALSE
          /\ flow' = [f \in Flows |-> "absent"]
          /\ hasFile' = [f \in Flows |-> FALSE]
          /\ measuring' = FALSE
          /\ request' = <<>>

\* mainLoop() of the passive node: the control socket ends or reports an
\* error, or an answer cannot be sent.  Requests not yet read are dropped.
HandleControlAssocShutdown ==
  /\ passiveOpen
  /\ ~activeOpen \/ ~linkUp
  /\ Forget
  /\ UNCHANGED <<activeVars, answer, identify, linkUp>>

PassiveCrash ==
  /\ "passiveCrash" \in Faults
  /\ passiveOpen
  /\ Forget
  /\ UNCHANGED <<activeVars, answer, identify, linkUp>>

-----------------------------------------------------------------------------
(* The network.                                                            *)

IdentifyLost(f) ==
  /\ f \in identify \cap Unreliable
  /\ identify' = identify \ {f}
  /\ UNCHANGED <<activeVars, passiveVars, request, answer, linkUp>>

\* The association breaks; of what is in flight, only a part arrives.
LinkLost ==
  /\ "link" \in Faults
  /\ linkUp
  /\ linkUp' = FALSE
  /\ \E i \in 0..Len(request) : request' = SubSeq(request, 1, i)
  /\ \E i \in 0..Len(answer) : answer' = SubSeq(answer, 1, i)
  /\ UNCHANGED <<activeVars, passiveVars, identify>>

-----------------------------------------------------------------------------

Setup    == \/ SendAddFlow \/ AddAcknowledged
            \/ SendIdentify \/ IdentifyAcknowledged \/ IdentifyFails
            \/ SendStart \/ StartAcknowledged \/ BeginFails
Stopping == \/ SendStop \/ StopAcknowledged
            \/ SendRemoveFlow \/ RemoveAcknowledged
            \/ DownloadChunk \/ DownloadFails \/ Cleanup
Waiting  == AckFails \/ SendFails
Running  == StopTimeReached \/ Aborted

Active  == Setup \/ Running \/ Stopping \/ Waiting \/ Exit
Passive == \/ HandleAddFlow \/ HandleStart \/ HandleStop \/ HandleRemoveFlow
           \/ HandleControlAssocShutdown
           \/ \E f \in Flows : HandleIdentify(f)
Network == (\E f \in Flows : IdentifyLost(f)) \/ LinkLost
Crashes == ActiveCrash \/ PassiveCrash

\* Both processes are through with the session.
Ended == phase \in {"done", "failed"} /\ ~passiveOpen /\ UNCHANGED vars

Next == Active \/ Passive \/ Network \/ Crashes \/ Ended

Spec == Init /\ [][Next]_vars

\* The active node is one sequential program and the passive node's two
\* threads loop over poll(): each takes the steps it can take.  Nothing
\* obliges a user to end a run that has no run time, the network to lose or
\* deliver a datagram, or a process to crash.
FairSpec ==
  /\ Spec
  /\ WF_vars(Setup) /\ WF_vars(Stopping) /\ WF_vars(Waiting) /\ WF_vars(Exit)
  /\ WF_vars(HandleAddFlow) /\ WF_vars(HandleStart) /\ WF_vars(HandleStop)
  /\ WF_vars(HandleRemoveFlow) /\ WF_vars(HandleControlAssocShutdown)
  /\ \A f \in Flows : WF_vars(HandleIdentify(f))

-----------------------------------------------------------------------------
(* Properties.                                                             *)

\* No answer is left over when the active node waits for none: an
\* Acknowledge does not say what it answers, so one that is left over (of a
\* repeated Identify) would be taken for the answer to the next request, or
\* abort the main loop.
NoStrayAnswer ==
  phase \in {"add", "start", "running", "stop"} => answer = <<>>

\* While the active node's flows transmit, every one of them is bound to a
\* flow of the passive node, which would otherwise shut the data socket down
\* as of an unknown flow.
DataHasReceiver ==
  phase \in {"startAck", "running"} /\ passiveOpen =>
    \A f \in Flows : flow[f] \in {"bound", "running"}

\* The active node runs its main loop only while the passive node measures:
\* all flows running, and each with the vector file that was asked for.
MeasurementReady ==
  phase = "running" /\ passiveOpen =>
    /\ measuring
    /\ \A f \in Flows : flow[f] = "running"
                        /\ ("vector" \in wanted => hasFile[f])

\* The order of the downloads is that of the uploads: every file written on
\* the active node holds only what the passive node wrote under that name.
ResultsInRightFile == \A pair \in saved : pair[1] = pair[2]

Expected == (IF "vector" \in wanted
             THEN {VectorFile} \cup {FlowVector(f) : f \in Flows} ELSE {})
            \cup (IF "scalar" \in wanted THEN {ScalarFile} ELSE {})

\* An active node that ends without an error has every file the user asked
\* for in full, and the passive node keeps nothing once it has read the
\* requests.
DoneIsComplete ==
  phase = "done" =>
    /\ complete = Expected
    /\ passiveOpen /\ linkUp /\ request = <<>> =>
         ~measuring /\ \A f \in Flows : flow[f] = "absent"

\* The phases of the session, as the two nodes see them.
SessionActive ==
  CASE phase \in SetupPhases       -> "preparing"
    [] phase = "running"           -> "running"
    [] phase \in {"stop", "stopAck"} -> "stopping"
    [] phase \in CollectPhases     -> "collecting"
    [] phase = "done"              -> "finished"
    [] OTHER                       -> "failed"
SessionPassive == IF ~passiveOpen THEN "gone"
                  ELSE IF measuring THEN "measuring" ELSE "idle"

Abstract == INSTANCE Session WITH active <- SessionActive,
                                  passive <- SessionPassive

\* The protocol implements the session: in particular an acknowledged Start
\* means a measuring passive node, and an acknowledged Stop one that is not.
ImplementsSession == Abstract!Spec

\* Whatever is lost or repeated, the set-up ends: all flows are identified
\* and started, or the active node gives up.
SetupEnds == <>(phase \notin SetupPhases)

\* A measurement that is being stopped comes to its end: with all results, or
\* with an error and the end of the process, or with an error of the removal,
\* that is reported with the lock held and leaves the process hanging in exit().
StopEnds == (phase = "stop") ~> (phase \in {"done", "failed", "exitLocked"})

\* When the active node has ended, or is about to, the passive node forgets the
\* session: in any phase and after any error but one that leaves it hanging.
PassiveForgets ==
  (phase \in {"done", "exit", "failed"}) ~>
    (~passiveOpen /\ ~measuring /\ \A f \in Flows : flow[f] = "absent")

\* An active node that reports a fatal error ("FATAL ERROR - ABORTING!") ends.
FatalErrorEnds == (phase \in {"exit", "exitLocked"}) ~> (phase = "failed")

\* A node that waits for the Acknowledge of a Remove Flow gets an answer, or
\* the end of the stream.
RemoveWaitEnds == (phase = "removeAck") ~> (phase # "removeAck")

-----------------------------------------------------------------------------
(* The inductive invariant behind the first three properties and behind    *)
(* ImplementsSession: what is in flight in each phase, and how far the     *)
(* passive node has got with it.                                           *)

\* One request of the current phase, or what is left of its answer.
OneExchange(m) == \/ request = <<m>> /\ answer = <<>>
                  \/ request = <<>> /\ Len(answer) <= 1

\* f has reached the given state on the passive node, with the vector file
\* that was asked for.
Ready(f, state) == flow[f] = state /\ ("vector" \in wanted => hasFile[f])

BindPhases == {"add", "addAck", "identify", "identifyAck"}

\* A request waits on the control association only for the active node that
\* sent it, or that failed since; a Start finds no measurement.
InvPending ==
  \A i \in 1..Len(request) :
    /\ request[i].type = "ADD_FLOW" => phase \in {"addAck"} \cup FailedPhases
    /\ request[i].type = "START" => /\ phase \in {"startAck"} \cup FailedPhases
                                   /\ Len(request) = 1
                                   /\ ~measuring
    /\ request[i].type = "STOP" => phase \in {"stopAck"} \cup FailedPhases

\* A passive node that lost the association keeps nothing of the session.
InvGone == ~passiveOpen => /\ ~measuring
                           /\ request = <<>>
                           /\ \A f \in Flows : flow[f] = "absent"

\* At most one request or one answer is in flight while flows are set up.
InvConversation ==
  /\ phase \in {"add", "start", "running", "stop"} =>
       request = <<>> /\ answer = <<>>
  /\ phase = "addAck" => OneExchange(AddFlow(cur))
  /\ phase \in {"identify", "identifyAck"} =>
       request = <<>> /\ Len(answer) <= 1
  /\ phase = "startAck" => OneExchange(Start)
  /\ phase = "stopAck" => \/ request = <<Stop>> /\ answer = <<>>
                          \/ request = <<>>

\* Earlier flows are bound, later ones unknown; only the current one can
\* still be bound by an Identify, and then no answer to it was sent yet.
InvBinding ==
  /\ phase \in BindPhases =>
       /\ \A f \in identify : f <= cur
       /\ phase \in {"add", "addAck"} => cur \notin identify
       /\ \A f \in Flows : f > cur => flow[f] = "absent"
       /\ passiveOpen => \A f \in Flows : f < cur => Ready(f, "bound")
  /\ phase = "add" => flow[cur] = "absent"
  /\ phase = "addAck" /\ passiveOpen =>
       /\ flow[cur] \in {"absent", "added"}
       /\ request # <<>> => flow[cur] = "absent"
       /\ answer # <<>> => flow[cur] = "added"
  /\ phase \in {"identify", "identifyAck"} /\ passiveOpen =>
       /\ flow[cur] \in {"added", "bound"}
       /\ answer # <<>> => flow[cur] = "bound"
       /\ answer = <<Ack(cur, TRUE)>> => Ready(cur, "bound")
  /\ phase \notin BindPhases \cup FailedPhases =>
       \A f \in Flows : flow[f] # "added"

\* The passive node measures from the Start it acknowledges to the Stop it
\* acknowledges.
InvMeasuring ==
  /\ phase \in BindPhases \cup {"start"} => ~measuring
  /\ phase = "start" /\ passiveOpen => \A f \in Flows : Ready(f, "bound")
  /\ phase = "startAck" /\ passiveOpen =>
       /\ \A f \in Flows : Ready(f, IF measuring THEN "running" ELSE "bound")
       /\ answer = <<Ack(0, TRUE)>> => measuring
  /\ phase \in {"running", "stop"} /\ passiveOpen =>
       measuring /\ \A f \in Flows : Ready(f, "running")
  /\ phase = "stopAck" => (answer # <<>> => ~measuring)
  /\ phase \in CollectPhases \cup {"done"} => ~measuring

IInv == /\ TypeOK
        /\ InvPending
        /\ InvGone
        /\ InvConversation
        /\ InvBinding
        /\ InvMeasuring
==============================================================================
