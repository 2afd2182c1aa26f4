------------------------------- MODULE ActiveNode -------------------------------
(***************************************************************************)
(* The data sockets of the active node: its main thread, in activeMode(),  *)
(* creates the flows one after the other, starts, stops and deletes them,  *)
(* while the reception thread of FlowManager reads the sockets.  The flows *)
(* of an SCTP association share its socket.  A connection may be lost at   *)
(* any time: here, unlike on the passive node, that is an error, and the   *)
(* reception thread gives the socket up.                                   *)
(***************************************************************************)
EXTENDS FlowManager

CONSTANT
  Losable    \* connections that may be lost

\* The flows of an association are created one after the other.
ASSUME ActiveAssumption ==
  /\ Flows = 1..Cardinality(Flows)
  /\ \A f, g \in Flows : Conn[f] = Conn[g] => \A h \in f..g : Conn[h] = Conn[f]
  /\ Losable \subseteq Conns
  /\ Accepting = FALSE

VARIABLES
  phase,     \* of the main thread; "failed": it ended with a fatal error
  socket     \* socketDescriptor, in createFlow()

vars == <<sharedVars, phase, socket>>

Init ==
  /\ SharedInit(FALSE)
  /\ phase = "create"
  /\ socket = NoFD

Count     == Cardinality(fm.set)    \* flows so far; the last one is number Count
IsOpen(k) == \E fd \in FDs : fm.open[fd] = k

-----------------------------------------------------------------------------
(* The network.                                                            *)

PeerSends(f) ==
  /\ phase = "running"
  /\ Conn[f] \notin ended /\ Len(inbox[Conn[f]]) < MaxQueue
  /\ inbox' = [inbox EXCEPT ![Conn[f]] = Append(@, Data(f))]
  /\ UNCHANGED <<fm, ended, reader, phase, socket>>

ConnectionIsLost(k) ==
  /\ k \in Losable /\ k \notin ended /\ IsOpen(k)
  /\ ended' = ended \cup {k}
  /\ UNCHANGED <<fm, inbox, reader, phase, socket>>

-----------------------------------------------------------------------------
(* The main thread.                                                        *)

\* createFlow(): first the flow, which is in the set from now on, ...
CreateFlow ==
  /\ MainHasLock /\ phase = "create"
  /\ Count + 1 \in Flows
  /\ fm' = AddFlow(fm, Count + 1)
  /\ phase' = "connect"
  /\ UNCHANGED <<inbox, ended, reader, socket>>

\* ... then its socket, that of the previous flow of the association or a new
\* one, without the lock ...
Connect ==
  /\ Alive /\ phase = "connect"
  /\ IF Count > 1 /\ Conn[Count] = Conn[Count - 1]
     THEN /\ socket' = fm.flow[Count - 1].fd
          /\ UNCHANGED fm
     ELSE /\ FreeFDs(fm) # {}
          /\ socket' = NextFD(fm)
          /\ fm' = [fm EXCEPT !.open[NextFD(fm)] = Conn[Count]]
  /\ phase' = "set"
  /\ UNCHANGED <<inbox, ended, reader>>

\* ... and setSocketDescriptor(), also without the lock.  Then the flow is
\* identified over its connection; when that is lost, this is fatal.
SetSocketDescriptor ==
  /\ Alive /\ phase = "set"
  /\ IF socket = NoFD \/ Conn[Count] \in ended
     THEN phase' = "failed" /\ UNCHANGED fm
     ELSE /\ phase' = "create"
          /\ fm' = Register([fm EXCEPT !.flow[Count].fd = socket], socket)
  /\ socket' = NoFD
  /\ UNCHANGED <<inbox, ended, reader>>

\* performNetPerfMeterStart() and beginMeasurement().
Start ==
  /\ MainHasLock /\ phase = "create" /\ Count = Cardinality(Flows)
  /\ phase' = "running"
  /\ fm' = Activate(fm, fm.set)
  /\ UNCHANGED <<inbox, ended, reader, socket>>

\* performNetPerfMeterStop(): the flows are told to stop before the peer is.
Stop ==
  /\ MainHasLock /\ phase = "running"
  /\ phase' = "stopped"
  /\ fm' = StopAsync(fm, fm.set)
  /\ UNCHANGED <<inbox, ended, reader, socket>>

\* When the peer has sent its results, all flows are deleted under one lock.
DeleteFlows ==
  /\ MainHasLock /\ phase = "stopped"
  /\ phase' = "done"
  /\ fm' = FoldSet(LAMBDA f, s : Destroy(s, f), fm, fm.set)
  /\ UNCHANGED <<inbox, ended, reader, socket>>

-----------------------------------------------------------------------------

Receiving  == phase # "failed" /\ Reception /\ UNCHANGED <<phase, socket>>

MainThread == \/ CreateFlow \/ Connect \/ SetSocketDescriptor
              \/ Start \/ Stop \/ DeleteFlows

Network    == \/ \E f \in Flows : PeerSends(f)
              \/ \E k \in Conns : ConnectionIsLost(k)

Next == Receiving \/ MainThread \/ Network

Spec == Init /\ [][Next]_vars

\* The reception thread loops; the lock does not keep the main thread out.
FairSpec == Spec /\ WF_vars(Receiving) /\ WF_vars(SetSocketDescriptor)

-----------------------------------------------------------------------------
(* Properties.                                                             *)

\* Flows that share a connection, which is lost.
AssociationIsLost ==
  \E f, g \in Flows : f # g /\ Conn[f] = Conn[g] /\ Conn[f] \in ended

UsesOf(fd) == Cardinality({f \in Flows : f \in fm.set /\ fm.flow[f].fd = fd})

\* The MessageReader never counts more uses of a socket than there are flows
\* that have it, and it counts all of them until an association of several
\* flows is lost: the reception thread gives back a use of each flow that it
\* polled then, but only the one that gives back the last loses its descriptor.
UsesAreCounted == \A fd \in FDs :
  /\ fm.uses[fd] <= UsesOf(fd)
  /\ ~AssociationIsLost => fm.uses[fd] = UsesOf(fd)

\* At the end nothing is left open or counted, whatever was lost before, an
\* association of several flows, too.
NothingIsLeft == phase = "done" =>
  \A fd \in FDs : fm.uses[fd] = 0 /\ fm.open[fd] = NoConn

\* A connection that is lost while the flows wait or run is given up: the
\* reception thread does not poll its end for ever.
LostIsClosed == \A k \in Conns :
  (k \in ended) ~> (~IsOpen(k) \/ phase \in {"stopped", "done", "failed"})
================================================================================
