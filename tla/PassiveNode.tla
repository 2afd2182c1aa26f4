------------------------------ MODULE PassiveNode ------------------------------
(***************************************************************************)
(* The data sockets of the passive node: its main thread, in mainLoop(),   *)
(* accepts connections and handles the control messages of several active  *)
(* nodes, while the reception thread of FlowManager reads the sockets.     *)
(*                                                                         *)
(* An active node sets up its flows one after the other, each with an      *)
(* Identify over its connection (see ControlProtocol), starts and stops    *)
(* them, and removes them.  It may end at any time: its connections end,   *)
(* and so does its control association, in any order.                      *)
(***************************************************************************)
EXTENDS FlowManager

CONSTANTS
  Controls,    \* control associations, one active node each
  ControlOf,   \* connection |-> its control association
  Exits        \* the user may stop the passive node

ASSUME PassiveAssumption ==
  /\ ControlOf \in [Conns -> Controls]
  /\ Exits \in BOOLEAN
  /\ Accepting = TRUE

VARIABLES
  session,   \* control association |-> phase of the active node
  asked,     \* flows that were added
  deleting,  \* the flow between removeFlow() and its destructor, if any
  unstarted, \* history: flows that were identified, but never started, when
             \* their active node had ended and they were deleted
  exited     \* the passive process has ended

vars == <<sharedVars, session, asked, deleting, unstarted, exited>>

FlowsOf(c)     == {f \in Flows : ControlOf[Conn[f]] = c}
Earlier(f)     == {g \in FlowsOf(ControlOf[Conn[f]]) : g < f}
PhaseOf(k)     == session[ControlOf[k]]
Bound(f)       == fm.flow[f].fd # NoFD
Accepted(k)    == \E fd \in FDs : fm.open[fd] = k
NoFlow         == 0    \* no flow has that number

TypeOK ==
  /\ SharedTypeOK
  /\ session \in [Controls -> {"setup", "running", "stopped", "over", "closed"}]
  /\ asked \subseteq Flows
  /\ deleting \in {NoFlow} \cup Flows
  /\ unstarted \subseteq Flows
  /\ exited \in BOOLEAN

Init ==
  /\ SharedInit(TRUE)
  /\ session = [c \in Controls |-> "setup"]
  /\ asked = {}
  /\ deleting = NoFlow
  /\ unstarted = {}
  /\ exited = FALSE

\* The main thread is between two messages.
Main == MainHasLock /\ deleting = NoFlow /\ ~exited

-----------------------------------------------------------------------------
(* The active nodes, as far as the data sockets notice them.               *)

\* Identify over a connection, for the flow that was added last; it may be
\* repeated over UDP, even when it has already been received.
SendIdentify(f) ==
  /\ PhaseOf(Conn[f]) = "setup"
  /\ asked \cap FlowsOf(ControlOf[Conn[f]]) = Earlier(f) \cup {f}
  /\ IF Protocol[Conn[f]] = "UDP" THEN Len(inbox[Conn[f]]) < MaxQueue
     ELSE /\ ~Bound(f)
          /\ \A i \in DOMAIN inbox[Conn[f]] : inbox[Conn[f]][i] # Identify(f)
  /\ inbox' = [inbox EXCEPT ![Conn[f]] = Append(@, Identify(f))]
  /\ UNCHANGED <<fm, ended, reader, session, asked, deleting, unstarted, exited>>

\* The flows transmit, as soon as all of them are identified.
SendData(f) ==
  /\ Protocol[Conn[f]] # "UDP"
  /\ PhaseOf(Conn[f]) \in {"setup", "running"}
  /\ \A g \in FlowsOf(ControlOf[Conn[f]]) : Bound(g)
  /\ Conn[f] \notin ended
  /\ Len(inbox[Conn[f]]) < MaxQueue
  /\ inbox' = [inbox EXCEPT ![Conn[f]] = Append(@, Data(f))]
  /\ UNCHANGED <<fm, ended, reader, session, asked, deleting, unstarted, exited>>

\* The process ends, or it breaks down.
SessionOver(c) ==
  /\ session[c] \in {"setup", "running", "stopped"}
  /\ session' = [session EXCEPT ![c] = "over"]
  /\ UNCHANGED <<sharedVars, asked, deleting, unstarted, exited>>

\* The end of the connection arrives.
ConnectionEnds(k) ==
  /\ PhaseOf(k) \in {"stopped", "over", "closed"}
  /\ Protocol[k] # "UDP" /\ k \notin ended
  /\ ended' = ended \cup {k}
  /\ UNCHANGED <<fm, inbox, reader, session, asked, deleting, unstarted, exited>>

-----------------------------------------------------------------------------
(* The main thread.                                                        *)

\* accept() and addUnidentifiedSocket().  The connection is made before its
\* first flow is added.  An entry that is left in the MessageReader aborts.
Accept(k) ==
  /\ Main
  /\ Protocol[k] # "UDP" /\ ~Accepted(k)
  /\ k \notin ended \/ inbox[k] # <<>>
  /\ \E f \in Flows : Conn[f] = k /\ Earlier(f) \subseteq
       {g \in Flows : Bound(g)} \cup {g \in Flows : Conn[g] = k}
  /\ PhaseOf(k) = "setup" \/ \E f \in asked : Conn[f] = k
  /\ FreeFDs(fm) # {}
  /\ LET fd == NextFD(fm) IN
       fm' = IF fm.uses[fd] > 0
             THEN [fm EXCEPT !.failed = @ \cup {"accept"}]
             ELSE [fm EXCEPT
                     !.open[fd] = k, !.uses[fd] = 1,
                     !.new = [d \in DOMAIN @ \cup {fd} |->
                                IF d = fd THEN NewSocket ELSE @[d]]]
  /\ UNCHANGED <<inbox, ended, reader, session, asked, deleting, unstarted, exited>>

\* handleNetPerfMeterAddFlow().
HandleAddFlow(f) ==
  /\ Main
  /\ PhaseOf(Conn[f]) = "setup" /\ f \notin asked
  /\ \A g \in Earlier(f) : Bound(g)
  /\ asked' = asked \cup {f}
  /\ fm' = AddFlow(fm, f)
  /\ UNCHANGED <<inbox, ended, reader, session, deleting, unstarted, exited>>

\* handleNetPerfMeterData() on the UDP socket: a late copy of an Identify may
\* come when the flow is gone.
HandleUDP(k) ==
  /\ Main
  /\ Protocol[k] = "UDP" /\ inbox[k] # <<>>
  /\ fm' = HandleData(fm, UDPSocket, Head(inbox[k]))
  /\ inbox' = [inbox EXCEPT ![k] = Tail(@)]
  /\ UNCHANGED <<ended, reader, session, asked, deleting, unstarted, exited>>

\* handleNetPerfMeterStart() and beginMeasurement().
HandleStart(c) ==
  /\ Main
  /\ session[c] = "setup"
  /\ FlowsOf(c) \subseteq asked /\ \A f \in FlowsOf(c) : Bound(f)
  /\ session' = [session EXCEPT ![c] = "running"]
  /\ fm' = Activate(fm, fm.set \cap FlowsOf(c))
  /\ UNCHANGED <<inbox, ended, reader, asked, deleting, unstarted, exited>>

\* handleNetPerfMeterStop().
HandleStop(c) ==
  /\ Main
  /\ session[c] = "running"
  /\ session' = [session EXCEPT ![c] = "stopped"]
  /\ fm' = StopAsync(fm, fm.set \cap FlowsOf(c))
  /\ UNCHANGED <<inbox, ended, reader, asked, deleting, unstarted, exited>>

\* handleNetPerfMeterRemoveFlow(): the flow leaves the set; its results are
\* sent, without the lock; then it is deleted.
HandleRemoveFlow(f) ==
  /\ Main
  /\ PhaseOf(Conn[f]) = "stopped" /\ f \in fm.set
  /\ \A g \in Earlier(f) : g \notin fm.set
  /\ fm' = RemoveFlow(fm, f)
  /\ deleting' = f
  /\ UNCHANGED <<inbox, ended, reader, session, asked, unstarted, exited>>

DeleteFlow ==
  /\ MainHasLock /\ deleting # NoFlow
  /\ fm' = Destroy(fm, deleting)
  /\ deleting' = NoFlow
  /\ UNCHANGED <<inbox, ended, reader, session, asked, unstarted, exited>>

\* handleControlAssocShutdown() and removeAllMeasurements(): each flow leaves
\* the set before its destructor looks for others that use its socket.
HandleControlAssocShutdown(c) ==
  /\ Main
  /\ session[c] = "over"
  /\ session' = [session EXCEPT ![c] = "closed"]
  /\ fm' = FoldSet(LAMBDA f, s : Destroy(s, f), fm, fm.set \cap FlowsOf(c))
  /\ unstarted' = unstarted \cup {f \in fm.set \cap FlowsOf(c) :
                                    Bound(f) /\ ~fm.flow[f].running}
  /\ UNCHANGED <<inbox, ended, reader, asked, deleting, exited>>

\* ~FlowManager(), when the main loop was left and the reception thread has
\* ended: a flow gives its socket back twice if its thread runs.
ExitFlow(s, f) ==
  LET fd == s.flow[f].fd
  IN Destroy([Close(Deregister(s, fd), fd) EXCEPT !.set = @ \ {f}], f)

Exit ==
  /\ Main /\ Exits
  /\ reader.pc = "collect"
  /\ LET s == FoldSet(LAMBDA f, t : ExitFlow(t, f), fm, fm.set) IN
       fm' = [s EXCEPT !.failed =
                IF \A fd \in DOMAIN s.new : s.uses[fd] <= 1
                THEN @ ELSE @ \cup {"exit"}]
  /\ exited' = TRUE
  /\ UNCHANGED <<inbox, ended, reader, session, asked, deleting, unstarted>>

-----------------------------------------------------------------------------

Receiving == ~exited /\ Reception
             /\ UNCHANGED <<session, asked, deleting, unstarted, exited>>

MainThread == \/ \E k \in Conns : Accept(k) \/ HandleUDP(k)
              \/ \E f \in Flows : HandleAddFlow(f) \/ HandleRemoveFlow(f)
              \/ \E c \in Controls : \/ HandleStart(c) \/ HandleStop(c)
                                     \/ HandleControlAssocShutdown(c)
              \/ DeleteFlow

\* What they do when the passive node has ended is left out.
ActiveNodes == /\ Alive /\ ~exited
               /\ \/ \E f \in Flows : SendIdentify(f) \/ SendData(f)
                  \/ \E c \in Controls : SessionOver(c)
                  \/ \E k \in Conns : ConnectionEnds(k)

Next == Receiving \/ MainThread \/ ActiveNodes \/ Exit

Spec == Init /\ [][Next]_vars

\* Both threads loop and never stop at a message; what an active node sent,
\* and the end of a connection that is over, arrive.
FairSpec ==
  /\ Spec
  /\ WF_vars(Receiving)
  /\ WF_vars(DeleteFlow)
  /\ \A k \in Conns : SF_vars(Accept(k)) /\ WF_vars(ConnectionEnds(k))
  /\ \A c \in Controls : SF_vars(HandleControlAssocShutdown(c))

-----------------------------------------------------------------------------
(* Properties.                                                             *)

\* The destructor of a flow that was never started gives back one use for its
\* socket when no other flow has it, and none for the UDP socket: a use of it
\* is left behind, for the association that several such flows shared, ...
SharedUnstarted ==
  \E f, g \in unstarted : f # g /\ Conn[f] = Conn[g]

\* ... and for the UDP socket.
UDPUnstarted == \E f \in unstarted : Protocol[Conn[f]] = "UDP"

\* Only then an assertion about the last use of a socket fails, and only that
\* of registerSocket() for a connection just accepted ("Socket %d should be
\* new, but MessageReader already has a state!") for a descriptor that is used
\* again, or that of ~FlowManager() for the UDP socket.  The assertions of
\* run() and of removeUnidentifiedSocket() hold even then.
AssertionsHold ==
  /\ fm.failed \subseteq {"accept", "exit"}
  /\ "accept" \in fm.failed => SharedUnstarted
  /\ "exit" \in fm.failed => UDPUnstarted

\* Every use is counted, and every use that is counted is the use of somebody:
\* an unidentified socket, or a flow, unless its thread was stopped and awaited.
UsesOf(fd) ==
  Cardinality(DOMAIN fm.new \cap {fd})
  + Cardinality({f \in Flows : f \in fm.set /\ fm.flow[f].fd = fd})

UsesAreCounted == Alive /\ ~exited =>
  /\ \A fd \in {UDPSocket} \cup FDs : fm.uses[fd] >= UsesOf(fd)
  /\ \A fd \in FDs : fm.open[fd] # NoConn \/ ~SharedUnstarted =>
       fm.uses[fd] = UsesOf(fd)
  /\ ~UDPUnstarted => fm.uses[UDPSocket] = UsesOf(UDPSocket)

\* The MessageReader knows no socket that is closed: the next connection with
\* that descriptor must be new to it.
NoStaleEntry == ~SharedUnstarted =>
  \A fd \in FDs : fm.uses[fd] > 0 => fm.open[fd] # NoConn

\* When an active node has ended and its association is gone, its sockets
\* are closed some time, for good, whether they were identified or not.
SocketsAreClosed ==
  \A c \in Controls : <>[](session[c] = "closed" =>
    ~Alive \/ exited \/ \A k \in Conns : ControlOf[k] = c => ~Accepted(k))
================================================================================
