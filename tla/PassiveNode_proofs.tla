--------------------------- MODULE PassiveNode_proofs ---------------------------
(***************************************************************************)
(* The data sockets of the passive node, for any flows, connections and    *)
(* active nodes, which may end in any phase: types, uses and descriptors,  *)
(* and a reception thread that never blocks.                               *)
(*                                                                         *)
(* Core is about the state under the lock alone: what of it is left by the *)
(* operators of FlowManager is in a lemma for each of them.  It is about   *)
(* the sockets X whose uses are exact; of the others, some may be left     *)
(* behind by flows that were never started.  The rest of the invariant     *)
(* relates it to the phases of the active nodes, to what waits in the      *)
(* connections and to what the reception thread remembers.                 *)
(***************************************************************************)
EXTENDS PassiveNode, NumberTheorems, FiniteSetTheorems, TLAPS

Sockets == {UDPSocket} \cup FDs

\* The states under the lock.
Locked == [set : SUBSET Flows, flow : [Flows -> FlowStates],
           new : UNION {[D -> Unidentified] : D \in SUBSET Sockets},
           uses : [Sockets -> Nat], open : [FDs -> {NoConn} \cup Conns],
           failed : SUBSET {"accept", "identify", "read", "exit"}]

Users(s, fd) == {f \in Flows : f \in s.set /\ s.flow[f].fd = fd}

UseCount(s, fd) == (IF fd \in DOMAIN s.new THEN 1 ELSE 0)
                   + Cardinality(Users(s, fd))

CountedUses(s, X) ==
  \A fd \in Sockets : /\ s.uses[fd] >= UseCount(s, fd)
                      /\ fd \in X => s.uses[fd] = UseCount(s, fd)

FlowSockets(s) ==
  \A f \in s.set :
    /\ s.flow[f].fd \in FDs => /\ s.open[s.flow[f].fd] = Conn[f]
                               /\ Protocol[Conn[f]] # "UDP"
                               /\ s.flow[f].fd \notin DOMAIN s.new
    /\ s.flow[f].fd = UDPSocket => Protocol[Conn[f]] = "UDP"

NewSockets(s) ==
  \A fd \in DOMAIN s.new :
    /\ ~s.new[fd].remove /\ ~s.new[fd].close
    /\ fd \in FDs => s.open[fd] \in Conns /\ Protocol[s.open[fd]] # "UDP"

OneSocketEach(s) ==
  \A d, e \in FDs : s.open[d] = s.open[e] /\ s.open[d] # NoConn => d = e

Core(s, X) ==
  /\ s \in Locked /\ s.failed = {} /\ UDPSocket \in DOMAIN s.new
  /\ CountedUses(s, X) /\ FlowSockets(s) /\ NewSockets(s) /\ OneSocketEach(s)

\* The sockets whose uses are exact, after the flows un were deleted unstarted.
Shared(un)  == \E f, g \in un : f # g /\ Conn[f] = Conn[g]
UDPLeft(un) == \E f \in un : Protocol[Conn[f]] = "UDP"

Exact(s, un) ==
  {fd \in FDs : s.open[fd] # NoConn \/ ~Shared(un)}
  \cup {fd \in {UDPSocket} : ~UDPLeft(un)}

\* The active node of a flow got as far as the Start of its measurement.
Begun(ph, f) == ph[ControlOf[Conn[f]]] \in {"running", "stopped"}

\* The flows and the phases of their active nodes.
BoundIn(s, f) == s.flow[f].fd # NoFD
Polls(s, f)   == s.flow[f].input \/ s.flow[f].entry

Asked(s, ph, as) ==
  /\ s.set \subseteq as
  /\ \A f \in as : ph[ControlOf[Conn[f]]] \in {"setup", "running"} => f \in s.set
  /\ \A f \in Flows : Begun(ph, f) => f \in as

\* The flows of an active node are added one after the other.
InOrder(s, as) ==
  \A f \in as : \A g \in Earlier(f) : g \in as /\ (g \in s.set => BoundIn(s, g))

Gone(s, ph, del) ==
  /\ \A f \in Flows : f \notin s.set /\ f # del => s.flow[f] = NewFlow
  /\ \A f \in Flows : f = del =>
       /\ f \notin s.set /\ ph[ControlOf[Conn[f]]] \in {"stopped", "over"}
       /\ ~s.flow[f].running /\ ~s.flow[f].entry
       /\ s.flow[f].fd \in FDs => s.flow[f].fd \notin DOMAIN s.new
       /\ s.flow[f].fd = UDPSocket => Protocol[Conn[f]] = "UDP"

Started(s, ph) ==
  \A f \in s.set :
    /\ ph[ControlOf[Conn[f]]] = "setup" => ~s.flow[f].running
    /\ Begun(ph, f) => s.flow[f].running
    /\ s.flow[f].running => BoundIn(s, f)
    /\ ph[ControlOf[Conn[f]]] # "closed"

\* Of an active node that has ended, all flows were started, or none was.
Uniform(s, ph) ==
  \A f, g \in s.set :
    ControlOf[Conn[f]] = ControlOf[Conn[g]] /\ ph[ControlOf[Conn[f]]] = "over"
    => s.flow[f].running = s.flow[g].running

\* A flow that is polled has all the flows beside it that its node added.
Beside(s, ph, as, f) ==
  /\ ph[ControlOf[Conn[f]]] \in {"setup", "running", "over"}
  /\ FlowsOf(ControlOf[Conn[f]]) \cap as \subseteq s.set

Polled(s, ph, as) == \A f \in s.set : Polls(s, f) => Beside(s, ph, as, f)

Entries(s) ==
  /\ \A f \in s.set : s.flow[f].entry => s.flow[f].fd \in FDs
  /\ \A f, g \in s.set :
       s.flow[f].entry /\ s.flow[g].entry /\ s.flow[f].fd = s.flow[g].fd => f = g

SessionInv(s, ph, as, del) ==
  /\ Asked(s, ph, as) /\ Gone(s, ph, del) /\ Started(s, ph)
  /\ Polled(s, ph, as) /\ Entries(s) /\ InOrder(s, as) /\ Uniform(s, ph)

\* What waits in the connections.
QueueInv(s, box, en, ph, as) ==
  /\ \A k \in Conns : \A i \in DOMAIN box[k] :
       /\ Conn[box[k][i].flow] = k /\ box[k][i].flow \in as
       /\ box[k][i].type = "data" /\ box[k][i].flow \in s.set =>
            BoundIn(s, box[k][i].flow)
  /\ \A k \in en : ph[ControlOf[k]] \in {"stopped", "over", "closed"}

\* What the reception thread remembers.
CanRead(s, box, en, fd) ==
  s.open[fd] # NoConn /\ (box[s.open[fd]] # <<>> \/ s.open[fd] \in en)

ReaderInv(s, box, en, r) ==
  /\ r.pc # "handle" => r.todo = {}
  /\ r.pc = "lock" =>
       /\ \A f \in s.set : s.flow[f].entry /\ s.flow[f].fd \in r.ready =>
            CanRead(s, box, en, s.flow[f].fd)
       /\ \A fd \in DOMAIN s.new : s.new[fd].entry /\ fd \in r.ready =>
            CanRead(s, box, en, fd)
  /\ r.pc = "handle" =>
       /\ \A f \in Flows : <<"flow", f>> \in r.todo =>
            f \in s.set /\ s.flow[f].entry /\ CanRead(s, box, en, s.flow[f].fd)
       /\ \A fd \in FDs : <<"new", fd>> \in r.todo =>
            fd \in DOMAIN s.new /\ CanRead(s, box, en, fd)

Types ==
  /\ inbox \in [Conns -> Seq(Messages)] /\ ended \subseteq Conns
  /\ reader \in [pc : {"collect", "poll", "lock", "handle"},
                 polled : SUBSET FDs, ready : SUBSET FDs, todo : SUBSET Handles]
  /\ session \in [Controls -> {"setup", "running", "stopped", "over", "closed"}]
  /\ asked \subseteq Flows /\ deleting \in {NoFlow} \cup Flows
  /\ unstarted \subseteq Flows

Inv ==
  /\ Types /\ Core(fm, Exact(fm, unstarted))
  /\ SessionInv(fm, session, asked, deleting)
  /\ QueueInv(fm, inbox, ended, session, asked)
  /\ ReaderInv(fm, inbox, ended, reader)

\* When it has aborted in registerSocket() nothing happens any more, ...
Aborted ==
  /\ Types /\ fm \in Locked /\ FlowSockets(fm) /\ reader.todo = {}
  /\ fm.failed = {"accept"} /\ Shared(unstarted)

\* ... nor when the process has ended.
Ended ==
  /\ Types /\ fm \in Locked /\ fm.set = {}
  /\ fm.failed \subseteq {"exit"} /\ ("exit" \in fm.failed => UDPLeft(unstarted))
  /\ reader.todo = {} /\ deleting = NoFlow
  /\ ~Shared(unstarted) =>
       \A fd \in FDs : fm.uses[fd] > 0 => fm.open[fd] # NoConn

IInv == /\ exited \in BOOLEAN
        /\ ~exited /\ Alive => Inv
        /\ ~exited /\ ~Alive => Aborted
        /\ exited => Ended

-----------------------------------------------------------------------------
(* The operators of FlowManager, field by field.                           *)

LEMMA Descriptors ==
  /\ NoFD \notin Sockets /\ UDPSocket \notin FDs /\ UDPSocket # NoFD
  /\ FDs \subseteq Int /\ NoConn \notin Conns
  BY ConstantsAssumption DEF Sockets, NoFD, UDPSocket, FDs, NoConn

LEMMA LockedFields ==
  ASSUME NEW s \in Locked
  PROVE  /\ s.set \in SUBSET Flows /\ s.flow \in [Flows -> FlowStates]
         /\ DOMAIN s.new \in SUBSET Sockets
         /\ s.new \in [DOMAIN s.new -> Unidentified]
         /\ s.uses \in [Sockets -> Nat] /\ s.open \in [FDs -> {NoConn} \cup Conns]
         /\ s.failed \in SUBSET {"accept", "identify", "read", "exit"}
  BY DEF Locked

LEMMA FlowFields ==
  ASSUME NEW s \in Locked, NEW f \in Flows
  PROVE  /\ s.flow[f] \in FlowStates
         /\ s.flow[f].fd \in {NoFD} \cup Sockets /\ s.flow[f].running \in BOOLEAN
         /\ s.flow[f].input \in BOOLEAN /\ s.flow[f].entry \in BOOLEAN
  BY LockedFields DEF FlowStates, Sockets

Less(u, fd) == [e \in Sockets |-> IF e = fd /\ u[e] # 0 THEN u[e] - 1 ELSE u[e]]

LEMMA DeregisterFields ==
  ASSUME NEW s \in Locked, NEW fd \in {NoFD} \cup Sockets
  PROVE  /\ Deregister(s, fd) \in Locked
         /\ Deregister(s, fd).set = s.set /\ Deregister(s, fd).flow = s.flow
         /\ Deregister(s, fd).new = s.new /\ Deregister(s, fd).open = s.open
         /\ Deregister(s, fd).failed = s.failed
         /\ Deregister(s, fd).uses = Less(s.uses, fd)
<1> USE Descriptors
<1>1. s.uses \in [Sockets -> Nat]
  BY LockedFields
<1>2. Less(s.uses, fd) \in [Sockets -> Nat]
  BY <1>1 DEF Less
<1>3. CASE fd = NoFD \/ s.uses[fd] = 0
  <2>1. Less(s.uses, fd) = s.uses
    BY <1>1, <1>3 DEF Less
  <2> QED
    BY <1>3, <2>1 DEF Deregister
<1>4. CASE ~(fd = NoFD \/ s.uses[fd] = 0)
  <2>1. Less(s.uses, fd) = [s.uses EXCEPT ![fd] = @ - 1]
    BY <1>1, <1>4 DEF Less
  <2>2. Deregister(s, fd) = [s EXCEPT !.uses = Less(s.uses, fd)]
    BY <1>4, <2>1 DEF Deregister, Locked
  <2> QED
    BY <1>2, <2>2 DEF Locked
<1> QED
  BY <1>3, <1>4

LEMMA RegisterFields ==
  ASSUME NEW s \in Locked, NEW fd \in Sockets
  PROVE  /\ Register(s, fd) \in Locked
         /\ Register(s, fd).set = s.set /\ Register(s, fd).flow = s.flow
         /\ Register(s, fd).new = s.new /\ Register(s, fd).open = s.open
         /\ Register(s, fd).failed = s.failed
         /\ Register(s, fd).uses = [s.uses EXCEPT ![fd] = @ + 1]
<1>1. [s.uses EXCEPT ![fd] = @ + 1] \in [Sockets -> Nat]
  BY LockedFields
<1>2. Register(s, fd) = [s EXCEPT !.uses = [s.uses EXCEPT ![fd] = @ + 1]]
  BY DEF Register, Locked
<1> QED
  BY <1>1, <1>2 DEF Locked

Closed(o, fd) == [d \in FDs |-> IF d = fd THEN NoConn ELSE o[d]]

LEMMA CloseFields ==
  ASSUME NEW s \in Locked, NEW fd
  PROVE  /\ Close(s, fd) \in Locked
         /\ Close(s, fd).set = s.set /\ Close(s, fd).flow = s.flow
         /\ Close(s, fd).new = s.new /\ Close(s, fd).uses = s.uses
         /\ Close(s, fd).failed = s.failed
         /\ Close(s, fd).open = Closed(s.open, fd)
<1>1. Closed(s.open, fd) \in [FDs -> {NoConn} \cup Conns]
  BY LockedFields DEF Closed
<1>2. Close(s, fd) = [s EXCEPT !.open = Closed(s.open, fd)]
  BY DEF Close, Closed, Locked
<1> QED
  BY <1>1, <1>2 DEF Locked

Stopped(r) == [Unpolled(r) EXCEPT !.running = FALSE]

LEMMA StoppedFields ==
  ASSUME NEW r \in FlowStates
  PROVE  /\ Stopped(r) \in FlowStates /\ Stopped(r).fd = r.fd
         /\ ~Stopped(r).running /\ ~Stopped(r).input /\ ~Stopped(r).entry
  BY DEF Stopped, Unpolled, FlowStates

LEMMA WithFlow ==
  ASSUME NEW s \in Locked, NEW w \in [Flows -> FlowStates]
  PROVE  /\ [s EXCEPT !.flow = w] \in Locked
         /\ [s EXCEPT !.flow = w].set = s.set /\ [s EXCEPT !.flow = w].flow = w
         /\ [s EXCEPT !.flow = w].new = s.new /\ [s EXCEPT !.flow = w].open = s.open
         /\ [s EXCEPT !.flow = w].uses = s.uses
         /\ [s EXCEPT !.flow = w].failed = s.failed
  BY DEF Locked

LEMMA DeactivateFields ==
  ASSUME NEW s \in Locked, NEW f \in Flows
  PROVE  LET d == Deactivate(s, f) IN
         /\ d \in Locked /\ d.set = s.set
         /\ d.new = s.new /\ d.open = s.open /\ d.failed = s.failed
         /\ d.flow = IF s.flow[f].running
                     THEN [s.flow EXCEPT ![f] = Stopped(@)] ELSE s.flow
         /\ d.uses = IF s.flow[f].running
                     THEN Less(s.uses, s.flow[f].fd) ELSE s.uses
<1>1. s.flow[f].fd \in {NoFD} \cup Sockets /\ s.flow[f] \in FlowStates
  BY FlowFields
<1> DEFINE w == [s.flow EXCEPT ![f] = Stopped(@)]
           t == [s EXCEPT !.flow = w]
<1>2. w \in [Flows -> FlowStates]
  BY <1>1, LockedFields, StoppedFields
<1>3. [s EXCEPT !.flow[f] = [Unpolled(@) EXCEPT !.running = FALSE]] = t
  BY DEF Locked, Stopped
<1>4. /\ t \in Locked /\ t.set = s.set /\ t.flow = w /\ t.new = s.new
      /\ t.open = s.open /\ t.uses = s.uses /\ t.failed = s.failed
  <2> HIDE DEF w
  <2> QED
    BY <1>2, WithFlow
<1>5. CASE s.flow[f].running
  <2>1. Deactivate(s, f) = Deregister(t, s.flow[f].fd)
    BY <1>3, <1>5 DEF Deactivate
  <2> HIDE DEF t
  <2>2. /\ Deregister(t, s.flow[f].fd) \in Locked
        /\ Deregister(t, s.flow[f].fd).set = t.set
        /\ Deregister(t, s.flow[f].fd).flow = t.flow
        /\ Deregister(t, s.flow[f].fd).new = t.new
        /\ Deregister(t, s.flow[f].fd).open = t.open
        /\ Deregister(t, s.flow[f].fd).failed = t.failed
        /\ Deregister(t, s.flow[f].fd).uses = Less(t.uses, s.flow[f].fd)
    BY <1>1, <1>4, DeregisterFields
  <2> QED
    BY <1>4, <1>5, <2>1, <2>2
<1>6. CASE ~s.flow[f].running
  <2>1. Deactivate(s, f) = s
    BY <1>6 DEF Deactivate
  <2> QED
    BY <1>6, <2>1
<1> QED
  BY <1>5, <1>6

\* What is left of a flow that is removed.
Removed(r) == [(IF r.running THEN Stopped(r) ELSE r) EXCEPT !.entry = FALSE]

LEMMA RemovedFields ==
  ASSUME NEW r \in FlowStates
  PROVE  /\ Removed(r) \in FlowStates /\ Removed(r).fd = r.fd
         /\ ~Removed(r).entry /\ ~Removed(r).running
<1>1. CASE r.running
  BY <1>1, StoppedFields DEF Removed, FlowStates
<1>2. CASE ~r.running
  BY <1>2 DEF Removed, FlowStates
<1> QED
  BY <1>1, <1>2

LEMMA RemoveFlowFields ==
  ASSUME NEW s \in Locked, NEW f \in Flows
  PROVE  LET d == RemoveFlow(s, f) IN
         /\ d \in Locked /\ d.set = s.set \ {f}
         /\ d.new = s.new /\ d.open = s.open /\ d.failed = s.failed
         /\ d.flow = [s.flow EXCEPT ![f] = Removed(@)]
         /\ d.uses = IF s.flow[f].running
                     THEN Less(s.uses, s.flow[f].fd) ELSE s.uses
<1> DEFINE t == Deactivate(s, f)
           w == [s.flow EXCEPT ![f] = Removed(@)]
<1>1. /\ t \in Locked /\ t.set = s.set
      /\ t.new = s.new /\ t.open = s.open /\ t.failed = s.failed
      /\ t.flow = IF s.flow[f].running
                  THEN [s.flow EXCEPT ![f] = Stopped(@)] ELSE s.flow
      /\ t.uses = IF s.flow[f].running
                  THEN Less(s.uses, s.flow[f].fd) ELSE s.uses
  BY DeactivateFields
<1> HIDE DEF t
<1>2. w \in [Flows -> FlowStates] /\ s.flow \in [Flows -> FlowStates]
  BY LockedFields, FlowFields, RemovedFields
<1>3. [t.flow EXCEPT ![f].entry = FALSE] = w
  <2>1. CASE s.flow[f].running
    BY <1>1, <1>2, <2>1 DEF Removed
  <2>2. CASE ~s.flow[f].running
    BY <1>1, <1>2, <2>2 DEF Removed
  <2> QED
    BY <2>1, <2>2
<1>4. RemoveFlow(s, f) = [[t EXCEPT !.flow = w] EXCEPT !.set = s.set \ {f}]
  BY <1>1, <1>3 DEF RemoveFlow, t, Locked
<1> HIDE DEF w
<1> QED
  BY <1>1, <1>2, <1>4 DEF Locked, w

LEMMA NewFlowType == NewFlow \in FlowStates /\ NewFlow.fd = NoFD
                     /\ ~NewFlow.running /\ NewFlow.input /\ ~NewFlow.entry
  BY DEF NewFlow, FlowStates

\* Whether the destructor of a flow closes its socket.
Closes(s, f) == /\ s.flow[f].fd # NoFD /\ DeleteWhenFinished(f)
                /\ \A g \in s.set \ {f} : s.flow[g].fd # s.flow[f].fd

LEMMA DestroyFields ==
  ASSUME NEW s \in Locked, NEW f \in Flows
  PROVE  LET d == Destroy(s, f)
             u == IF s.flow[f].running THEN Less(s.uses, s.flow[f].fd) ELSE s.uses
         IN
         /\ d \in Locked /\ d.set = s.set \ {f}
         /\ d.new = s.new /\ d.failed = s.failed
         /\ d.flow = [s.flow EXCEPT ![f] = NewFlow]
         /\ d.uses = IF Closes(s, f) THEN Less(u, s.flow[f].fd) ELSE u
         /\ d.open = IF Closes(s, f) THEN Closed(s.open, s.flow[f].fd) ELSE s.open
<1> DEFINE r  == RemoveFlow(s, f)
           fd == s.flow[f].fd
           u == IF s.flow[f].running THEN Less(s.uses, fd) ELSE s.uses
           d  == IF Closes(s, f) THEN Close(Deregister(r, fd), fd) ELSE r
           w  == [s.flow EXCEPT ![f] = NewFlow]
<1>1. /\ r \in Locked /\ r.set = s.set \ {f}
      /\ r.new = s.new /\ r.open = s.open /\ r.failed = s.failed
      /\ r.flow = [s.flow EXCEPT ![f] = Removed(@)] /\ r.uses = u
  BY RemoveFlowFields
<1>2. /\ s.flow \in [Flows -> FlowStates] /\ s.set \in SUBSET Flows
      /\ fd \in {NoFD} \cup Sockets /\ Removed(s.flow[f]).fd = fd
  BY LockedFields, FlowFields, RemovedFields
<1>3. r.flow[f].fd = fd /\ \A g \in s.set \ {f} : r.flow[g] = s.flow[g]
  <2> HIDE DEF r
  <2> QED
    BY <1>1, <1>2
<1>4. IsOriginal(r, f) <=> \A g \in s.set \ {f} : s.flow[g].fd # fd
  <2> HIDE DEF r, fd
  <2> QED
    BY <1>1, <1>3 DEF IsOriginal
<1>5. Destroy(s, f) = [d EXCEPT !.flow[f] = NewFlow]
  <2>1. d = IF r.flow[f].fd # NoFD /\ IsOriginal(r, f) /\ DeleteWhenFinished(f)
            THEN Close(Deregister(r, r.flow[f].fd), r.flow[f].fd) ELSE r
    <3> HIDE DEF r
    <3> QED
      BY <1>3, <1>4 DEF Closes
  <2> HIDE DEF d
  <2> QED
    BY <2>1 DEF Destroy, r
<1>6. /\ d \in Locked /\ d.set = r.set /\ d.new = r.new /\ d.failed = r.failed
      /\ d.flow = r.flow
      /\ d.uses = IF Closes(s, f) THEN Less(u, fd) ELSE u
      /\ d.open = IF Closes(s, f) THEN Closed(s.open, fd) ELSE s.open
  <2> HIDE DEF r, fd, u
  <2>1. CASE Closes(s, f)
    <3> DEFINE e == Deregister(r, fd)
    <3>1. /\ e \in Locked /\ e.set = r.set /\ e.flow = r.flow /\ e.new = r.new
          /\ e.open = r.open /\ e.failed = r.failed /\ e.uses = Less(r.uses, fd)
      BY <1>1, <1>2, DeregisterFields
    <3> HIDE DEF e
    <3>2. d = Close(e, fd)
      BY <2>1 DEF e
    <3> HIDE DEF d
    <3> QED
      BY <1>1, <2>1, <3>1, <3>2, CloseFields
  <2>2. CASE ~Closes(s, f)
    BY <1>1, <2>2
  <2> QED
    BY <2>1, <2>2
<1> HIDE DEF d
<1>7. [d EXCEPT !.flow[f] = NewFlow] = [d EXCEPT !.flow = w]
  <2>1. [d.flow EXCEPT ![f] = NewFlow] = w
    <3> HIDE DEF r
    <3> QED
      BY <1>1, <1>2, <1>6
  <2> HIDE DEF w
  <2> QED
    BY <1>6, <2>1 DEF Locked
<1>8. w \in [Flows -> FlowStates]
  BY <1>2, NewFlowType
<1> HIDE DEF w, r, fd, u
<1>9. Destroy(s, f) = [d EXCEPT !.flow = w]
  BY <1>5, <1>7
<1> DEFINE x == [d EXCEPT !.flow = w]
<1>10. /\ x \in Locked /\ x.set = d.set /\ x.flow = w /\ x.new = d.new
       /\ x.open = d.open /\ x.uses = d.uses /\ x.failed = d.failed
  BY <1>6, <1>8, WithFlow
<1> HIDE DEF x
<1> QED
  BY <1>1, <1>6, <1>9, <1>10 DEF w, fd, u, x

-----------------------------------------------------------------------------
(* Counting the flows that use a socket.                                   *)

LEMMA UsersAreFinite ==
  ASSUME NEW s, NEW fd
  PROVE  /\ IsFiniteSet(Users(s, fd)) /\ Cardinality(Users(s, fd)) \in Nat
         /\ Cardinality(Users(s, fd)) = 0 <=> Users(s, fd) = {}
<1>1. IsFiniteSet(Users(s, fd))
  BY ConstantsAssumption, FS_Subset DEF Users
<1> QED
  BY <1>1, FS_CardinalityType, FS_EmptySet

LEMMA UsedSocket ==
  ASSUME NEW s, NEW f \in Flows, f \in s.set, NEW fd, s.flow[f].fd = fd
  PROVE  Cardinality(Users(s, fd)) > 0
<1>1. f \in Users(s, fd)
  BY DEF Users
<1> QED
  BY <1>1, UsersAreFinite

SameFDs(d, s, S) == \A g \in S : d.flow[g].fd = s.flow[g].fd

LEMMA SameUsers ==
  ASSUME NEW s, NEW d, d.set = s.set, SameFDs(d, s, s.set), NEW e
  PROVE  Users(d, e) = Users(s, e)
  BY DEF Users, SameFDs

LEMMA OneUserLess ==
  ASSUME NEW s, NEW d, NEW f \in Flows, d.set = s.set \ {f},
         SameFDs(d, s, s.set \ {f}), NEW e
  PROVE  /\ Users(d, e) = Users(s, e) \ {f}
         /\ Cardinality(Users(d, e)) =
              IF f \in s.set /\ s.flow[f].fd = e
              THEN Cardinality(Users(s, e)) - 1 ELSE Cardinality(Users(s, e))
<1>1. Users(d, e) = Users(s, e) \ {f}
  BY DEF Users, SameFDs
<1>2. CASE f \in s.set /\ s.flow[f].fd = e
  <2>1. f \in Users(s, e)
    BY <1>2 DEF Users, SameFDs
  <2>2. Cardinality(Users(s, e) \ {f}) = Cardinality(Users(s, e)) - 1
    BY <2>1, UsersAreFinite, FS_RemoveElement
  <2> QED
    BY <1>1, <1>2, <2>2
<1>3. CASE ~(f \in s.set /\ s.flow[f].fd = e)
  <2>1. Users(d, e) = Users(s, e)
    BY <1>1, <1>3 DEF Users, SameFDs
  <2> QED
    BY <1>1, <1>3, <2>1
<1> QED
  BY <1>2, <1>3

OneOut(d, s, f) == d.set = s.set \ {f} /\ SameFDs(d, s, s.set \ {f})

LEMMA OneUserOut ==
  ASSUME NEW s, NEW d, NEW f \in Flows, OneOut(d, s, f), NEW e
  PROVE  /\ Users(d, e) = Users(s, e) \ {f}
         /\ Cardinality(Users(d, e)) =
              IF f \in s.set /\ s.flow[f].fd = e
              THEN Cardinality(Users(s, e)) - 1 ELSE Cardinality(Users(s, e))
         /\ Cardinality(Users(s, e)) \in Nat
         /\ f \in s.set /\ s.flow[f].fd = e => Cardinality(Users(s, e)) > 0
<1>1. /\ Users(d, e) = Users(s, e) \ {f}
      /\ Cardinality(Users(d, e)) =
           IF f \in s.set /\ s.flow[f].fd = e
           THEN Cardinality(Users(s, e)) - 1 ELSE Cardinality(Users(s, e))
  BY OneUserLess DEF OneOut
<1> QED
  BY <1>1, UsersAreFinite, UsedSocket

LEMMA OneUserMore ==
  ASSUME NEW s, NEW d, NEW f \in Flows, d.set = s.set, f \in s.set,
         SameFDs(d, s, s.set \ {f}),
         s.flow[f].fd = NoFD, d.flow[f].fd # NoFD, NEW e, e # NoFD
  PROVE  Cardinality(Users(d, e)) =
           IF d.flow[f].fd = e
           THEN Cardinality(Users(s, e)) + 1 ELSE Cardinality(Users(s, e))
<1>1. CASE d.flow[f].fd = e
  <2>1. Users(d, e) = Users(s, e) \cup {f} /\ f \notin Users(s, e)
    BY <1>1 DEF Users, SameFDs
  <2>2. Cardinality(Users(s, e) \cup {f}) = Cardinality(Users(s, e)) + 1
    BY <2>1, UsersAreFinite, FS_AddElement
  <2> QED
    BY <1>1, <2>1, <2>2
<1>2. CASE d.flow[f].fd # e
  <2>1. Users(d, e) = Users(s, e)
    BY <1>2 DEF Users, SameFDs
  <2> QED
    BY <1>2, <2>1
<1> QED
  BY <1>1, <1>2

-----------------------------------------------------------------------------
(* What the operators leave of Core.                                       *)

LEMMA ClosesFields ==
  ASSUME NEW s \in Locked, NEW f \in Flows, Closes(s, f),
         s.flow[f].fd = UDPSocket => Protocol[Conn[f]] = "UDP"
  PROVE  /\ s.flow[f].fd \in FDs /\ Protocol[Conn[f]] # "UDP"
         /\ Users(s, s.flow[f].fd) \subseteq {f}
<1>1. s.flow[f].fd \in {NoFD} \cup Sockets /\ s.flow[f].fd # NoFD
  BY FlowFields DEF Closes
<1>2. Protocol[Conn[f]] # "UDP"
  BY PassiveAssumption DEF Closes, DeleteWhenFinished
<1>3. Users(s, s.flow[f].fd) \subseteq {f}
  BY DEF Closes, Users
<1> QED
  BY <1>1, <1>2, <1>3 DEF Sockets

\* The flow has one use of its socket, and its destructor gives one back: with
\* its thread, or with the socket.
GivesBack(s, f) == IF s.flow[f].running THEN BoundIn(s, f)
                   ELSE BoundIn(s, f) => Closes(s, f)

\* Fewer sockets with exact uses.
LEMMA FewerExact ==
  ASSUME NEW s, NEW X, Core(s, X), NEW Y, Y \subseteq X
  PROVE  Core(s, Y)
  BY DEF Core, CountedUses

LEMMA DestroyCore ==
  ASSUME NEW s, NEW X, Core(s, X), NEW f \in Flows,
         f \in s.set /\ s.flow[f].fd \in X => GivesBack(s, f),
         f \notin s.set =>
           /\ ~s.flow[f].running
           /\ s.flow[f].fd \in FDs => s.flow[f].fd \notin DOMAIN s.new
           /\ s.flow[f].fd = UDPSocket => Protocol[Conn[f]] = "UDP"
  PROVE  Core(Destroy(s, f), X)
<1> DEFINE d  == Destroy(s, f)
           fd == s.flow[f].fd
           u  == IF s.flow[f].running THEN Less(s.uses, fd) ELSE s.uses
<1>1. /\ d \in Locked /\ d.set = s.set \ {f}
      /\ d.new = s.new /\ d.failed = s.failed
      /\ d.flow = [s.flow EXCEPT ![f] = NewFlow]
      /\ d.uses = IF Closes(s, f) THEN Less(u, fd) ELSE u
      /\ d.open = IF Closes(s, f) THEN Closed(s.open, fd) ELSE s.open
  BY DestroyFields DEF Core
<1> HIDE DEF d
<1>2. /\ s \in Locked /\ s.set \in SUBSET Flows /\ s.flow \in [Flows -> FlowStates]
      /\ s.uses \in [Sockets -> Nat] /\ s.open \in [FDs -> {NoConn} \cup Conns]
      /\ DOMAIN s.new \in SUBSET Sockets
      /\ fd \in {NoFD} \cup Sockets
  BY LockedFields, FlowFields DEF Core
<1>3. \A g \in s.set \ {f} : d.flow[g] = s.flow[g]
  BY <1>1, <1>2
<1>4. /\ fd \in FDs => fd \notin DOMAIN s.new
      /\ fd = UDPSocket => Protocol[Conn[f]] = "UDP"
  BY DEF Core, FlowSockets
<1>5. Closes(s, f) => /\ fd \in FDs /\ fd \notin DOMAIN s.new
                      /\ Users(s, fd) \subseteq {f}
  BY <1>2, <1>4, ClosesFields
<1>6. ASSUME NEW e \in Sockets
      PROVE  /\ Users(d, e) = Users(s, e) \ {f}
             /\ Cardinality(Users(d, e)) =
                  IF f \in s.set /\ fd = e
                  THEN Cardinality(Users(s, e)) - 1 ELSE Cardinality(Users(s, e))
             /\ Cardinality(Users(s, e)) \in Nat
             /\ f \in s.set /\ fd = e => Cardinality(Users(s, e)) > 0
  <2>1. OneOut(d, s, f)
    BY <1>1, <1>3 DEF OneOut, SameFDs
  <2> QED
    BY <2>1, OneUserOut
<1>7. CountedUses(d, X)
  <2> SUFFICES ASSUME NEW e \in Sockets
               PROVE  /\ d.uses[e] >= UseCount(d, e)
                      /\ e \in X => d.uses[e] = UseCount(d, e)
    BY DEF CountedUses
  <2>1. /\ s.uses[e] >= UseCount(s, e)
        /\ e \in X => s.uses[e] = UseCount(s, e)
    BY DEF Core, CountedUses
  <2>2. u \in [Sockets -> Nat] /\ Cardinality(Users(d, e)) \in Nat
    BY <1>2, UsersAreFinite DEF Less
  <2>3. CASE e # fd
    <3>1. d.uses[e] = s.uses[e]
      BY <1>1, <1>2, <2>2, <2>3 DEF Less
    <3> QED
      BY <1>1, <1>6, <2>1, <2>3, <3>1 DEF UseCount
  <2>4. CASE e = fd /\ Closes(s, f)
    <3>1. UseCount(d, e) = 0 /\ e \notin DOMAIN s.new
      <4>1. Users(d, e) = {} /\ e \notin DOMAIN d.new
        BY <1>1, <1>5, <1>6, <2>4
      <4> QED
        BY <1>1, <4>1, FS_EmptySet DEF UseCount
    <3>2. UseCount(s, e) \in {0, 1} /\ (f \notin s.set => UseCount(s, e) = 0)
      <4>1. Cardinality(Users(s, e)) =
              Cardinality(Users(d, e)) + (IF f \in s.set THEN 1 ELSE 0)
        BY <1>6, <2>2, <2>4
      <4>2. Cardinality(Users(d, e)) = 0
        BY <2>2, <3>1 DEF UseCount
      <4> QED
        BY <3>1, <4>1, <4>2 DEF UseCount
    <3>3. d.uses[e] \in Nat
      BY <1>1, LockedFields
    <3>4. e \in X => d.uses[e] = 0
      <4>1. d.uses[e] = IF u[e] # 0 THEN u[e] - 1 ELSE u[e]
        BY <1>1, <2>4 DEF Less
      <4>2. u[e] <= s.uses[e] /\ u[e] \in Nat /\ s.uses[e] \in Nat
        BY <1>2, <2>2 DEF Less
      <4> QED
        BY <2>1, <3>2, <4>1, <4>2
    <3> QED
      BY <3>1, <3>3, <3>4
  <2>5. CASE e = fd /\ ~Closes(s, f)
    <3>1. d.uses[e] = IF s.flow[f].running /\ s.uses[e] # 0 THEN s.uses[e] - 1
                      ELSE s.uses[e]
      BY <1>1, <2>5 DEF Less
    <3>2. fd # NoFD
      BY <2>5, Descriptors
    <3>3. e \in X /\ f \in s.set => s.flow[f].running
      BY <2>5, <3>2 DEF GivesBack, BoundIn
    <3>4. s.uses[e] \in Nat
      BY <1>2
    <3> QED
      BY <1>1, <1>6, <2>1, <2>2, <2>5, <3>1, <3>3, <3>4 DEF UseCount
  <2> QED
    BY <2>3, <2>4, <2>5
<1>8. FlowSockets(d)
  <2> SUFFICES ASSUME NEW g \in d.set
               PROVE  /\ d.flow[g].fd \in FDs =>
                           /\ d.open[d.flow[g].fd] = Conn[g]
                           /\ Protocol[Conn[g]] # "UDP"
                           /\ d.flow[g].fd \notin DOMAIN d.new
                      /\ d.flow[g].fd = UDPSocket => Protocol[Conn[g]] = "UDP"
    BY DEF FlowSockets
  <2>1. g \in s.set /\ g # f /\ d.flow[g] = s.flow[g]
    BY <1>1, <1>3
  <2>2. /\ s.flow[g].fd \in FDs => /\ s.open[s.flow[g].fd] = Conn[g]
                                   /\ Protocol[Conn[g]] # "UDP"
                                   /\ s.flow[g].fd \notin DOMAIN s.new
        /\ s.flow[g].fd = UDPSocket => Protocol[Conn[g]] = "UDP"
    BY <2>1 DEF Core, FlowSockets
  <2>3. Closes(s, f) => s.flow[g].fd # fd
    BY <2>1 DEF Closes
  <2>4. s.flow[g].fd \in FDs => d.open[s.flow[g].fd] = s.open[s.flow[g].fd]
    BY <1>1, <2>3 DEF Closed
  <2> QED
    BY <1>1, <2>1, <2>2, <2>4
<1>9. NewSockets(d)
  <2> SUFFICES ASSUME NEW e \in DOMAIN s.new
               PROVE  /\ ~s.new[e].remove /\ ~s.new[e].close
                      /\ e \in FDs => d.open[e] \in Conns /\ Protocol[d.open[e]] # "UDP"
    BY <1>1 DEF NewSockets
  <2>1. e \in FDs => d.open[e] = s.open[e]
    BY <1>1, <1>5 DEF Closed
  <2> QED
    BY <2>1 DEF Core, NewSockets
<1>10. OneSocketEach(d)
  <2>1. \A e \in FDs : d.open[e] = s.open[e] \/ d.open[e] = NoConn
    BY <1>1 DEF Closed
  <2> QED
    BY <2>1 DEF Core, OneSocketEach
<1>11. d.failed = {} /\ UDPSocket \in DOMAIN d.new
  BY <1>1 DEF Core
<1>12. Core(d, X)
  BY <1>1, <1>7, <1>8, <1>9, <1>10, <1>11 DEF Core
<1> QED
  BY <1>12 DEF d

\* Core does not depend on what a flow does with its socket.
SameMarks(d, s) ==
  \A e \in DOMAIN s.new : /\ d.new[e].remove = s.new[e].remove
                          /\ d.new[e].close = s.new[e].close

LEMMA SameCore ==
  ASSUME NEW s, NEW X, Core(s, X), NEW d \in Locked,
         d.set = s.set, SameFDs(d, s, s.set), d.uses = s.uses,
         d.open = s.open, d.failed = s.failed,
         DOMAIN d.new = DOMAIN s.new, SameMarks(d, s)
  PROVE  Core(d, X)
<1>1. \A e : Users(d, e) = Users(s, e)
  BY SameUsers
<1>2. CountedUses(d, X)
  BY <1>1 DEF Core, CountedUses, UseCount
<1>3. FlowSockets(d)
  BY DEF Core, FlowSockets, SameFDs
<1>4. NewSockets(d)
  BY DEF Core, NewSockets, SameMarks
<1>5. OneSocketEach(d)
  BY DEF Core, OneSocketEach
<1> QED
  BY <1>2, <1>3, <1>4, <1>5 DEF Core

LEMMA AddFlowFields ==
  ASSUME NEW s \in Locked, NEW f \in Flows
  PROVE  LET d == AddFlow(s, f) IN
         /\ d \in Locked /\ d.set = s.set \cup {f} /\ d.new = s.new
         /\ d.flow = [s.flow EXCEPT ![f] = NewFlow]
         /\ d.uses = s.uses /\ d.open = s.open /\ d.failed = s.failed
<1>1. [s.flow EXCEPT ![f] = NewFlow] \in [Flows -> FlowStates]
  BY LockedFields, NewFlowType
<1> QED
  BY <1>1, NewFlowType DEF AddFlow, Locked

LEMMA AddFlowCore ==
  ASSUME NEW s, NEW X, Core(s, X), NEW f \in Flows, f \notin s.set
  PROVE  Core(AddFlow(s, f), X)
<1> DEFINE d == AddFlow(s, f)
<1>1. /\ d \in Locked /\ d.set = s.set \cup {f} /\ d.new = s.new
      /\ d.flow = [s.flow EXCEPT ![f] = NewFlow]
      /\ d.uses = s.uses /\ d.open = s.open /\ d.failed = s.failed
  BY AddFlowFields DEF Core
<1>2. s.flow \in [Flows -> FlowStates] /\ s.set \in SUBSET Flows
  BY LockedFields DEF Core
<1> HIDE DEF d
<1>3. d.flow[f].fd = NoFD /\ \A g \in s.set : d.flow[g] = s.flow[g]
  BY <1>1, <1>2, NewFlowType
<1>4. \A e \in Sockets : Users(d, e) = Users(s, e)
  BY <1>1, <1>3, Descriptors DEF Users
<1>5. CountedUses(d, X)
  BY <1>1, <1>4 DEF Core, CountedUses, UseCount
<1>6. FlowSockets(d)
  BY <1>1, <1>3, Descriptors DEF Core, FlowSockets, Sockets
<1>7. NewSockets(d) /\ OneSocketEach(d)
  BY <1>1 DEF Core, NewSockets, OneSocketEach
<1>8. Core(d, X)
  BY <1>1, <1>5, <1>6, <1>7 DEF Core
<1> QED
  BY <1>8 DEF d

\* A flow that is bound to a socket.
Bind(s, f, fd) == Register([s EXCEPT !.flow[f].fd = fd], fd)

LEMMA BindFields ==
  ASSUME NEW s \in Locked, NEW f \in Flows, NEW fd \in Sockets
  PROVE  LET d == Bind(s, f, fd) IN
         /\ d \in Locked /\ d.set = s.set /\ d.new = s.new
         /\ d.flow = [s.flow EXCEPT ![f] = [@ EXCEPT !.fd = fd]]
         /\ d.uses = [s.uses EXCEPT ![fd] = @ + 1]
         /\ d.open = s.open /\ d.failed = s.failed
<1> DEFINE w == [s.flow EXCEPT ![f] = [@ EXCEPT !.fd = fd]]
           t == [s EXCEPT !.flow = w]
<1>1. w \in [Flows -> FlowStates]
  BY LockedFields, FlowFields DEF FlowStates, Sockets
<1>2. [s EXCEPT !.flow[f].fd = fd] = t
  BY DEF Locked
<1>3. /\ t \in Locked /\ t.set = s.set /\ t.flow = w /\ t.new = s.new
      /\ t.open = s.open /\ t.uses = s.uses /\ t.failed = s.failed
  <2> HIDE DEF w
  <2> QED
    BY <1>1, WithFlow
<1>4. Bind(s, f, fd) = Register(t, fd)
  BY <1>2 DEF Bind
<1> HIDE DEF t
<1>5. LET d == Register(t, fd) IN
      /\ d \in Locked /\ d.set = t.set /\ d.flow = t.flow /\ d.new = t.new
      /\ d.open = t.open /\ d.failed = t.failed
      /\ d.uses = [t.uses EXCEPT ![fd] = @ + 1]
  BY <1>3, RegisterFields
<1> QED
  BY <1>3, <1>4, <1>5

LEMMA BindCore ==
  ASSUME NEW s, NEW X, Core(s, X), NEW f \in Flows, f \in s.set, ~BoundIn(s, f),
         NEW fd \in Sockets, fd = UDPSocket => Protocol[Conn[f]] = "UDP",
         fd \in FDs => /\ s.open[fd] = Conn[f] /\ Protocol[Conn[f]] # "UDP"
                       /\ fd \notin DOMAIN s.new
  PROVE  Core(Bind(s, f, fd), X)
<1> DEFINE d == Bind(s, f, fd)
<1>1. /\ d \in Locked /\ d.set = s.set /\ d.new = s.new
      /\ d.flow = [s.flow EXCEPT ![f] = [@ EXCEPT !.fd = fd]]
      /\ d.uses = [s.uses EXCEPT ![fd] = @ + 1]
      /\ d.open = s.open /\ d.failed = s.failed
  BY BindFields DEF Core
<1> HIDE DEF d
<1>2. /\ s.flow \in [Flows -> FlowStates] /\ s.set \in SUBSET Flows
      /\ s.uses \in [Sockets -> Nat]
  BY LockedFields DEF Core
<1>3. d.flow[f].fd = fd /\ \A g \in s.set \ {f} : d.flow[g] = s.flow[g]
  BY <1>1, <1>2 DEF FlowStates
<1>4. ASSUME NEW e \in Sockets
      PROVE  Cardinality(Users(d, e)) =
               IF fd = e THEN Cardinality(Users(s, e)) + 1
                         ELSE Cardinality(Users(s, e))
  <2>1. SameFDs(d, s, s.set \ {f})
    BY <1>3 DEF SameFDs
  <2>2. d.flow[f].fd # NoFD /\ e # NoFD /\ s.flow[f].fd = NoFD /\ d.set = s.set
    BY <1>1, <1>3, Descriptors DEF BoundIn
  <2>3. Cardinality(Users(d, e)) =
          IF d.flow[f].fd = e
          THEN Cardinality(Users(s, e)) + 1 ELSE Cardinality(Users(s, e))
    BY <2>1, <2>2, OneUserMore
  <2> QED
    BY <1>3, <2>3
<1>5. CountedUses(d, X)
  <2> SUFFICES ASSUME NEW e \in Sockets
               PROVE  /\ d.uses[e] >= UseCount(d, e)
                      /\ e \in X => d.uses[e] = UseCount(d, e)
    BY DEF CountedUses
  <2>1. /\ s.uses[e] >= UseCount(s, e)
        /\ e \in X => s.uses[e] = UseCount(s, e)
    BY DEF Core, CountedUses
  <2>2. Cardinality(Users(s, e)) \in Nat
    BY UsersAreFinite
  <2> QED
    BY <1>1, <1>2, <1>4, <2>1, <2>2 DEF UseCount
<1>6. FlowSockets(d)
  BY <1>1, <1>3 DEF Core, FlowSockets
<1>7. NewSockets(d) /\ OneSocketEach(d)
  BY <1>1 DEF Core, NewSockets, OneSocketEach
<1>8. Core(d, X)
  BY <1>1, <1>5, <1>6, <1>7 DEF Core
<1> QED
  BY <1>8 DEF d

\* identifySocket() on a socket that is not, or on the one that is, a socket of
\* the unidentified ones.
LEMMA IdentifyFields ==
  ASSUME NEW s, NEW X, Core(s, X), NEW f \in Flows, NEW fd \in Sockets,
         ~BoundIn(s, f) => ~s.flow[f].running,
         Protocol[Conn[f]] = "UDP" \/ fd \notin DOMAIN s.new
  PROVE  IdentifySocket(s, f, fd) = IF BoundIn(s, f) THEN s ELSE Bind(s, f, fd)
<1>1. CASE BoundIn(s, f)
  BY <1>1 DEF IdentifySocket, BoundIn
<1>2. CASE ~BoundIn(s, f)
  <2>1. Deactivate(s, f) = s
    BY <1>2 DEF Deactivate
  <2>2. Bind(s, f, fd).new = s.new
    BY BindFields DEF Core
  <2>3. Register([s EXCEPT !.flow[f].fd = fd], fd) = Bind(s, f, fd)
    BY DEF Bind
  <2>4. IdentifySocket(s, f, fd) =
          IF Protocol[Conn[f]] = "UDP" THEN Bind(s, f, fd)
          ELSE MarkForRemoval(Bind(s, f, fd), fd, FALSE)
    BY <1>2, <2>1, <2>3 DEF IdentifySocket, BoundIn
  <2>5. Protocol[Conn[f]] # "UDP" =>
          MarkForRemoval(Bind(s, f, fd), fd, FALSE) = Bind(s, f, fd)
    BY <2>2 DEF MarkForRemoval
  <2> QED
    BY <1>2, <2>4, <2>5
<1> QED
  BY <1>1, <1>2

Without(n, fd) == [x \in DOMAIN n \ {fd} |-> n[x]]

LEMMA WithoutType ==
  ASSUME NEW s \in Locked, NEW fd
  PROVE  Without(s.new, fd) \in UNION {[D -> Unidentified] : D \in SUBSET Sockets}
<1>1. Without(s.new, fd) \in [DOMAIN s.new \ {fd} -> Unidentified]
  BY LockedFields DEF Without
<1>2. DOMAIN s.new \ {fd} \in SUBSET Sockets
  BY LockedFields
<1> QED
  BY <1>1, <1>2

LEMMA TakeOutFields ==
  ASSUME NEW s \in Locked, NEW fd \in FDs
  PROVE  LET d == TakeOut(s, fd) IN
         /\ d.set = s.set /\ d.flow = s.flow /\ d.new = Without(s.new, fd)
         /\ d.uses = Less(s.uses, fd)
         /\ ~s.new[fd].close => d \in Locked /\ d.open = s.open /\ d.failed = s.failed
         /\ s.new[fd].close => d.open = Closed(s.open, fd)
         /\ s.new[fd].close /\ Less(s.uses, fd)[fd] = 0 =>
              d \in Locked /\ d.failed = s.failed
<1> DEFINE t == [s EXCEPT !.new = Without(s.new, fd)]
           e == Deregister(t, fd)
<1>1. /\ t \in Locked /\ t.set = s.set /\ t.flow = s.flow
      /\ t.new = Without(s.new, fd) /\ t.open = s.open
      /\ t.uses = s.uses /\ t.failed = s.failed
  BY WithoutType DEF Locked
<1>2. [s EXCEPT !.new = [x \in DOMAIN @ \ {fd} |-> @[x]]] = t
  BY DEF Locked, Without
<1> HIDE DEF t
<1>3. /\ e \in Locked /\ e.set = t.set /\ e.flow = t.flow /\ e.new = t.new
      /\ e.open = t.open /\ e.failed = t.failed /\ e.uses = Less(t.uses, fd)
  BY <1>1, DeregisterFields DEF Sockets
<1>4. TakeOut(s, fd) =
        IF ~s.new[fd].close THEN e
        ELSE Close([e EXCEPT !.failed =
                      IF e.uses[fd] = 0 THEN @ ELSE @ \cup {"read"}], fd)
  BY <1>2 DEF TakeOut, e
<1> HIDE DEF e
<1>5. CASE ~s.new[fd].close
  BY <1>1, <1>3, <1>4, <1>5
<1>6. CASE s.new[fd].close
  <2> DEFINE x == [e EXCEPT !.failed =
                     IF e.uses[fd] = 0 THEN @ ELSE @ \cup {"read"}]
  <2>1. /\ x \in Locked /\ x.set = e.set /\ x.flow = e.flow /\ x.new = e.new
        /\ x.open = e.open /\ x.uses = e.uses
        /\ e.uses[fd] = 0 => x.failed = e.failed
    BY <1>3 DEF Locked
  <2>2. TakeOut(s, fd) = Close(x, fd)
    BY <1>4, <1>6
  <2> HIDE DEF x
  <2> QED
    BY <1>1, <1>3, <1>6, <2>1, <2>2, CloseFields
<1> QED
  BY <1>5, <1>6

LEMMA MarkFields ==
  ASSUME NEW s \in Locked, NEW fd \in DOMAIN s.new, NEW close \in BOOLEAN
  PROVE  LET d == [s EXCEPT !.new[fd].remove = TRUE, !.new[fd].close = close] IN
         /\ d \in Locked /\ d.set = s.set /\ d.flow = s.flow /\ d.uses = s.uses
         /\ d.open = s.open /\ d.failed = s.failed
         /\ d.new[fd].remove /\ d.new[fd].close = close
         /\ Without(d.new, fd) = Without(s.new, fd)
<1> DEFINE n == [s.new EXCEPT ![fd] = [@ EXCEPT !.remove = TRUE, !.close = close]]
<1>1. s.new \in [DOMAIN s.new -> Unidentified] /\ DOMAIN s.new \in SUBSET Sockets
  BY LockedFields
<1>2. [s.new[fd] EXCEPT !.remove = TRUE, !.close = close] \in Unidentified
  BY <1>1 DEF Unidentified
<1>3. n \in [DOMAIN s.new -> Unidentified]
  BY <1>1, <1>2
<1>4. n \in UNION {[D -> Unidentified] : D \in SUBSET Sockets}
  BY <1>1, <1>3
<1>5. n[fd].remove /\ n[fd].close = close
  BY <1>1, <1>2 DEF Unidentified
<1>6. Without(n, fd) = Without(s.new, fd)
  BY <1>1, <1>3 DEF Without
<1>7. [s EXCEPT !.new[fd].remove = TRUE, !.new[fd].close = close]
        = [s EXCEPT !.new = n]
  BY <1>1 DEF Locked, Unidentified
<1> HIDE DEF n
<1> QED
  BY <1>4, <1>5, <1>6, <1>7 DEF Locked

\* The two ways in which an unidentified socket is taken out.
BoundNew(d, s, f, fd) ==
  /\ d \in Locked /\ d.set = s.set
  /\ d.flow = [s.flow EXCEPT ![f] = [@ EXCEPT !.fd = fd]]
  /\ d.new = Without(s.new, fd)
  /\ d.uses = s.uses /\ d.open = s.open /\ d.failed = s.failed

ClosedNew(d, s, fd) ==
  /\ d \in Locked /\ d.set = s.set /\ d.flow = s.flow
  /\ d.new = Without(s.new, fd)
  /\ d.uses = Less(s.uses, fd) /\ d.open = Closed(s.open, fd)
  /\ d.failed = s.failed

\* What the reception thread does about a message on an unidentified socket.
ReadNew(s, fd, m) ==
  LET h == HandleData(s, fd, m)
      k == IF DataOkay(s, fd, m) THEN h
           ELSE [h EXCEPT !.new[fd].remove = TRUE, !.new[fd].close = TRUE]
  IN IF k.new[fd].remove THEN TakeOut(k, fd) ELSE k

LEMMA NewSocketFacts ==
  ASSUME NEW s, NEW X, Core(s, X), NEW fd \in FDs, fd \in DOMAIN s.new
  PROVE  /\ s.open[fd] \in Conns /\ Protocol[s.open[fd]] # "UDP"
         /\ Users(s, fd) = {} /\ UseCount(s, fd) = 1
         /\ fd \in X => s.uses[fd] = 1
         /\ ~s.new[fd].remove /\ ~s.new[fd].close
         /\ \A x : FlowAt(s, fd, x) = {}
<1>1. /\ s.open[fd] \in Conns /\ Protocol[s.open[fd]] # "UDP"
      /\ ~s.new[fd].remove /\ ~s.new[fd].close
  BY DEF Core, NewSockets
<1>2. \A f \in s.set : s.flow[f].fd # fd
  BY DEF Core, FlowSockets
<1>3. Users(s, fd) = {}
  BY <1>2 DEF Users
<1>4. UseCount(s, fd) = 1 + Cardinality(Users(s, fd))
  BY DEF UseCount
<1>5. UseCount(s, fd) = 1 /\ (fd \in X => s.uses[fd] = 1)
  BY <1>3, <1>4, UsersAreFinite DEF Core, CountedUses, Sockets
<1>6. \A x : FlowAt(s, fd, x) = {}
  BY <1>2 DEF FlowAt
<1> QED
  BY <1>1, <1>3, <1>5, <1>6

LEMMA ReadNewBound ==
  ASSUME NEW s, NEW X, Core(s, X), NEW fd \in FDs, fd \in DOMAIN s.new,
         NEW f \in Flows, f \in s.set, ~BoundIn(s, f), ~s.flow[f].running,
         s.open[fd] = Conn[f]
  PROVE  BoundNew(ReadNew(s, fd, Identify(f)), s, f, fd)
<1> DEFINE m == Identify(f)
           b == Bind(s, f, fd)
           k == [b EXCEPT !.new[fd].remove = TRUE, !.new[fd].close = FALSE]
           d == TakeOut(k, fd)
<1>1. /\ b \in Locked /\ b.set = s.set /\ b.new = s.new
      /\ b.flow = [s.flow EXCEPT ![f] = [@ EXCEPT !.fd = fd]]
      /\ b.uses = [s.uses EXCEPT ![fd] = @ + 1]
      /\ b.open = s.open /\ b.failed = s.failed
  BY BindFields DEF Core, Sockets
<1>2. ~s.new[fd].remove /\ Protocol[Conn[f]] # "UDP" /\ s.uses \in [Sockets -> Nat]
  BY NewSocketFacts, LockedFields DEF Core
<1>3. HandleData(s, fd, m) = IdentifySocket(s, f, fd) /\ DataOkay(s, fd, m)
  BY DEF HandleData, DataOkay, Identify
<1>4. IdentifySocket(s, f, fd) = MarkForRemoval(b, fd, FALSE)
  <2>1. Deactivate(s, f) = s
    BY DEF Deactivate
  <2>2. Register([s EXCEPT !.flow[f].fd = fd], fd) = b
    BY DEF Bind
  <2> HIDE DEF b
  <2> QED
    BY <1>2, <2>1, <2>2 DEF IdentifySocket, BoundIn
<1> HIDE DEF b
<1>5. MarkForRemoval(b, fd, FALSE) = k
  BY <1>1, <1>2 DEF MarkForRemoval
<1>6. /\ k \in Locked /\ k.set = b.set /\ k.flow = b.flow /\ k.uses = b.uses
      /\ k.open = b.open /\ k.failed = b.failed
      /\ k.new[fd].remove /\ k.new[fd].close = FALSE
      /\ Without(k.new, fd) = Without(b.new, fd)
  BY <1>1, MarkFields
<1> HIDE DEF k
<1>7. ReadNew(s, fd, m) = d
  BY <1>3, <1>4, <1>5, <1>6 DEF ReadNew
<1>8. /\ d.set = k.set /\ d.flow = k.flow /\ d.new = Without(k.new, fd)
      /\ d.uses = Less(k.uses, fd)
      /\ d \in Locked /\ d.open = k.open /\ d.failed = k.failed
  BY <1>6, TakeOutFields
<1> HIDE DEF d
<1>9. Less(b.uses, fd) = s.uses
  BY <1>1, <1>2 DEF Less, Sockets
<1>10. BoundNew(d, s, f, fd)
  BY <1>1, <1>6, <1>8, <1>9 DEF BoundNew
<1> QED
  BY <1>7, <1>10

LEMMA ReadNewClosed ==
  ASSUME NEW s, NEW X, Core(s, X), NEW fd \in FDs, fd \in DOMAIN s.new, fd \in X,
         NEW m, HandleData(s, fd, m) = s, ~DataOkay(s, fd, m)
  PROVE  ClosedNew(ReadNew(s, fd, m), s, fd)
<1> DEFINE k == [s EXCEPT !.new[fd].remove = TRUE, !.new[fd].close = TRUE]
           d == TakeOut(k, fd)
<1>1. s \in Locked /\ s.uses[fd] = 1 /\ s.uses \in [Sockets -> Nat]
  BY NewSocketFacts, LockedFields DEF Core
<1>2. /\ k \in Locked /\ k.set = s.set /\ k.flow = s.flow /\ k.uses = s.uses
      /\ k.open = s.open /\ k.failed = s.failed
      /\ k.new[fd].remove /\ k.new[fd].close = TRUE
      /\ Without(k.new, fd) = Without(s.new, fd)
  BY <1>1, MarkFields
<1>3. ReadNew(s, fd, m) = IF k.new[fd].remove THEN TakeOut(k, fd) ELSE k
  BY DEF ReadNew
<1> HIDE DEF k
<1>4. Less(k.uses, fd)[fd] = 0
  BY <1>1, <1>2 DEF Less, Sockets
<1>5. /\ d.set = k.set /\ d.flow = k.flow /\ d.new = Without(k.new, fd)
      /\ d.uses = Less(k.uses, fd) /\ d.open = Closed(k.open, fd)
      /\ d \in Locked /\ d.failed = k.failed
  BY <1>2, <1>4, TakeOutFields
<1> QED
  BY <1>2, <1>3, <1>5 DEF ClosedNew

\* An Identify on a socket is for a flow of its connection, and a flow that
\* has no socket does not run.
RightIdentify(s, fd, m) ==
  m.type = "identify" /\ m.flow \in s.set =>
    /\ fd \in FDs => s.open[fd] = Conn[m.flow]
    /\ ~BoundIn(s, m.flow) => ~s.flow[m.flow].running

LEMMA ReadNewOutcomes ==
  ASSUME NEW s, NEW X, Core(s, X), NEW fd \in FDs, fd \in DOMAIN s.new, fd \in X,
         NEW m \in Messages \cup {End}, RightIdentify(s, fd, m)
  PROVE  LET d == ReadNew(s, fd, m) IN
         \/ d = s
         \/ \E f \in s.set : ~BoundIn(s, f) /\ Conn[f] = s.open[fd]
                             /\ BoundNew(d, s, f, fd)
         \/ ClosedNew(d, s, fd)
<1>1. /\ s \in Locked /\ s.set \in SUBSET Flows /\ s.flow \in [Flows -> FlowStates]
      /\ ~s.new[fd].remove /\ \A x : FlowAt(s, fd, x) = {}
  BY NewSocketFacts, LockedFields DEF Core
<1>2. CASE m.type = "identify"
  <2>1. m.flow \in Flows /\ m = Identify(m.flow)
    BY <1>2 DEF Messages, End, Identify
  <2>2. CASE m.flow \in s.set /\ BoundIn(s, m.flow)
    <3>1. DataOkay(s, fd, m) /\ HandleData(s, fd, m) = s
      BY <1>2, <2>2 DEF DataOkay, HandleData, IdentifySocket, BoundIn
    <3> QED
      BY <1>1, <3>1 DEF ReadNew
  <2>3. CASE m.flow \in s.set /\ ~BoundIn(s, m.flow)
    <3>1. ~s.flow[m.flow].running /\ s.open[fd] = Conn[m.flow]
      BY <1>2, <2>3 DEF RightIdentify
    <3>2. BoundNew(ReadNew(s, fd, Identify(m.flow)), s, m.flow, fd)
      BY <2>1, <2>3, <3>1, ReadNewBound
    <3> QED
      BY <2>1, <2>3, <3>1, <3>2
  <2>4. CASE m.flow \notin s.set
    <3>1. ~DataOkay(s, fd, m) /\ HandleData(s, fd, m) = s
      BY <1>2, <2>4 DEF DataOkay, HandleData
    <3> QED
      BY <3>1, ReadNewClosed
  <2> QED
    BY <2>2, <2>3, <2>4
<1>3. CASE m.type = "data"
  <2>1. ~DataOkay(s, fd, m) /\ HandleData(s, fd, m) = s
    BY <1>1, <1>3 DEF DataOkay, HandleData
  <2> QED
    BY <2>1, ReadNewClosed
<1>4. CASE m.type = "end"
  <2>1. HandleData(s, fd, m) =
          [s EXCEPT !.flow = [f \in Flows |-> IF f \in FlowAt(s, fd, 0)
                               THEN [s.flow[f] EXCEPT !.input = FALSE]
                               ELSE s.flow[f]]]
    BY <1>4 DEF HandleData, Locked
  <2>2. [f \in Flows |-> IF f \in FlowAt(s, fd, 0)
                         THEN [s.flow[f] EXCEPT !.input = FALSE]
                         ELSE s.flow[f]] = s.flow
    BY <1>1
  <2>3. HandleData(s, fd, m) = s
    BY <1>1, <2>1, <2>2 DEF Locked
  <2>4. ~DataOkay(s, fd, m)
    BY <1>1, <1>4 DEF DataOkay
  <2> QED
    BY <2>3, <2>4, ReadNewClosed
<1> QED
  BY <1>2, <1>3, <1>4 DEF Messages, End

LEMMA BoundNewCore ==
  ASSUME NEW s, NEW X, Core(s, X), NEW fd \in FDs, fd \in DOMAIN s.new,
         NEW f \in Flows, f \in s.set, ~BoundIn(s, f), s.open[fd] = Conn[f],
         NEW d, BoundNew(d, s, f, fd)
  PROVE  Core(d, X)
<1>1. /\ d \in Locked /\ d.set = s.set /\ d.new = Without(s.new, fd)
      /\ d.flow = [s.flow EXCEPT ![f] = [@ EXCEPT !.fd = fd]]
      /\ d.uses = s.uses /\ d.open = s.open /\ d.failed = s.failed
  BY DEF BoundNew
<1>2. /\ s.flow \in [Flows -> FlowStates] /\ s.set \in SUBSET Flows
      /\ s.uses \in [Sockets -> Nat] /\ fd \in Sockets
      /\ s.new \in [DOMAIN s.new -> Unidentified]
  BY LockedFields DEF Core, Sockets
<1>3. d.flow[f].fd = fd /\ \A g \in s.set \ {f} : d.flow[g] = s.flow[g]
  BY <1>1, <1>2 DEF FlowStates
<1>4. /\ DOMAIN d.new = DOMAIN s.new \ {fd}
      /\ \A e \in DOMAIN d.new : d.new[e] = s.new[e]
  BY <1>1 DEF Without
<1>5. ASSUME NEW e \in Sockets
      PROVE  Cardinality(Users(d, e)) =
               IF fd = e THEN Cardinality(Users(s, e)) + 1
                         ELSE Cardinality(Users(s, e))
  <2>1. SameFDs(d, s, s.set \ {f})
    BY <1>3 DEF SameFDs
  <2>2. d.flow[f].fd # NoFD /\ e # NoFD /\ s.flow[f].fd = NoFD /\ d.set = s.set
    BY <1>1, <1>2, <1>3, Descriptors DEF BoundIn
  <2>3. Cardinality(Users(d, e)) =
          IF d.flow[f].fd = e
          THEN Cardinality(Users(s, e)) + 1 ELSE Cardinality(Users(s, e))
    BY <2>1, <2>2, OneUserMore
  <2> QED
    BY <1>3, <2>3
<1>6. CountedUses(d, X)
  <2> SUFFICES ASSUME NEW e \in Sockets
               PROVE  /\ d.uses[e] >= UseCount(d, e)
                      /\ e \in X => d.uses[e] = UseCount(d, e)
    BY DEF CountedUses
  <2>1. /\ s.uses[e] >= UseCount(s, e)
        /\ e \in X => s.uses[e] = UseCount(s, e)
    BY DEF Core, CountedUses
  <2>2. Cardinality(Users(s, e)) \in Nat
    BY UsersAreFinite
  <2> QED
    BY <1>1, <1>2, <1>4, <1>5, <2>1, <2>2 DEF UseCount
<1>7. Protocol[Conn[f]] # "UDP"
  BY NewSocketFacts
<1>8. FlowSockets(d)
  <2> SUFFICES ASSUME NEW g \in d.set
               PROVE  /\ d.flow[g].fd \in FDs =>
                           /\ d.open[d.flow[g].fd] = Conn[g]
                           /\ Protocol[Conn[g]] # "UDP"
                           /\ d.flow[g].fd \notin DOMAIN d.new
                      /\ d.flow[g].fd = UDPSocket => Protocol[Conn[g]] = "UDP"
    BY DEF FlowSockets
  <2>1. CASE g = f
    BY <1>1, <1>3, <1>4, <1>7, <2>1, Descriptors
  <2>2. CASE g # f
    <3>1. g \in s.set /\ d.flow[g] = s.flow[g]
      BY <1>1, <1>3, <2>2
    <3> QED
      BY <1>1, <1>4, <3>1 DEF Core, FlowSockets
  <2> QED
    BY <2>1, <2>2
<1>9. NewSockets(d) /\ OneSocketEach(d)
  BY <1>1, <1>4 DEF Core, NewSockets, OneSocketEach
<1>10. UDPSocket \in DOMAIN d.new /\ d.failed = {}
  BY <1>1, <1>4, Descriptors DEF Core
<1> QED
  BY <1>1, <1>6, <1>8, <1>9, <1>10 DEF Core

LEMMA ClosedNewCore ==
  ASSUME NEW s, NEW X, Core(s, X), NEW fd \in FDs, fd \in DOMAIN s.new, fd \in X,
         NEW d, ClosedNew(d, s, fd)
  PROVE  Core(d, X)
<1>1. /\ d \in Locked /\ d.set = s.set /\ d.flow = s.flow
      /\ d.new = Without(s.new, fd) /\ d.failed = s.failed
      /\ d.uses = Less(s.uses, fd) /\ d.open = Closed(s.open, fd)
  BY DEF ClosedNew
<1>2. /\ s.uses \in [Sockets -> Nat] /\ fd \in Sockets
      /\ Users(s, fd) = {} /\ s.uses[fd] = 1
  <2>1. Users(s, fd) = {} /\ s.uses[fd] = 1
    BY NewSocketFacts
  <2> QED
    BY <2>1, LockedFields DEF Core, Sockets
<1>3. /\ DOMAIN d.new = DOMAIN s.new \ {fd}
      /\ \A e \in DOMAIN d.new : d.new[e] = s.new[e]
  BY <1>1 DEF Without
<1>4. \A e \in Sockets : Users(d, e) = Users(s, e)
  BY <1>1 DEF Users
<1>5. CountedUses(d, X)
  <2> SUFFICES ASSUME NEW e \in Sockets
               PROVE  /\ d.uses[e] >= UseCount(d, e)
                      /\ e \in X => d.uses[e] = UseCount(d, e)
    BY DEF CountedUses
  <2>1. /\ s.uses[e] >= UseCount(s, e)
        /\ e \in X => s.uses[e] = UseCount(s, e)
    BY DEF Core, CountedUses
  <2>2. CASE e = fd
    <3>1. d.uses[e] = 0 /\ Cardinality(Users(d, e)) = 0
      BY <1>1, <1>2, <1>4, <2>2, FS_EmptySet DEF Less
    <3> QED
      BY <1>3, <2>2, <3>1 DEF UseCount
  <2>3. CASE e # fd
    BY <1>1, <1>2, <1>3, <1>4, <2>1, <2>3 DEF Less, UseCount
  <2> QED
    BY <2>2, <2>3
<1>6. FlowSockets(d)
  <2>1. \A g \in s.set : s.flow[g].fd # fd
    BY DEF Core, FlowSockets
  <2> QED
    BY <1>1, <1>3, <2>1 DEF Core, FlowSockets, Closed
<1>7. NewSockets(d) /\ OneSocketEach(d)
  BY <1>1, <1>3 DEF Core, NewSockets, OneSocketEach, Closed
<1>8. UDPSocket \in DOMAIN d.new /\ d.failed = {}
  BY <1>1, <1>3, Descriptors DEF Core
<1> QED
  BY <1>1, <1>5, <1>6, <1>7, <1>8 DEF Core

-----------------------------------------------------------------------------
(* What only changes the flows, but not their sockets.                     *)

FlowsOnly(d, s) ==
  /\ d \in Locked /\ d.set = s.set /\ d.uses = s.uses
  /\ d.open = s.open /\ d.failed = s.failed
  /\ \A f \in Flows : d.flow[f].fd = s.flow[f].fd

LEMMA FlowsOnlyCore ==
  ASSUME NEW s, NEW X, Core(s, X), NEW d, FlowsOnly(d, s), d.new = s.new
  PROVE  Core(d, X)
<1>1. SameFDs(d, s, s.set) /\ SameMarks(d, s)
  BY LockedFields DEF FlowsOnly, SameFDs, SameMarks, Core
<1> QED
  BY <1>1, SameCore DEF FlowsOnly

LEMMA StopFields ==
  ASSUME NEW s \in Locked, NEW M
  PROVE  LET d == StopAsync(s, M) IN
         /\ FlowsOnly(d, s) /\ d.new = s.new
         /\ \A f \in Flows : d.flow[f] = IF f \in M /\ s.flow[f].running
                                         THEN Unpolled(s.flow[f]) ELSE s.flow[f]
         /\ \A f \in Flows : d.flow[f].running = s.flow[f].running
<1> DEFINE w == [f \in Flows |-> IF f \in M /\ s.flow[f].running
                                 THEN Unpolled(s.flow[f]) ELSE s.flow[f]]
<1>1. \A f \in Flows : /\ w[f] \in FlowStates /\ w[f].fd = s.flow[f].fd
                       /\ w[f].running = s.flow[f].running
  BY FlowFields DEF Unpolled, FlowStates
<1>2. w \in [Flows -> FlowStates]
  BY <1>1
<1>3. StopAsync(s, M) = [s EXCEPT !.flow = w]
  BY DEF StopAsync, Locked
<1>4. \A f \in Flows : w[f] = IF f \in M /\ s.flow[f].running
                              THEN Unpolled(s.flow[f]) ELSE s.flow[f]
  OBVIOUS
<1> HIDE DEF w
<1> DEFINE x == [s EXCEPT !.flow = w]
<1>5. /\ x \in Locked /\ x.set = s.set /\ x.flow = w /\ x.new = s.new
      /\ x.open = s.open /\ x.uses = s.uses /\ x.failed = s.failed
  BY <1>2, WithFlow
<1> HIDE DEF x
<1>6. StopAsync(s, M) = x
  BY <1>3 DEF x
<1> QED
  BY <1>1, <1>4, <1>5, <1>6 DEF FlowsOnly

LEMMA ActivateFields ==
  ASSUME NEW s \in Locked, NEW M
  PROVE  LET d == Activate(s, M) IN
         /\ FlowsOnly(d, s) /\ d.new = s.new
         /\ \A f \in Flows : d.flow[f].entry = s.flow[f].entry
         /\ \A f \in Flows \ M : d.flow[f] = s.flow[f]
         /\ \A f \in M \cap Flows : BoundIn(s, f) => d.flow[f].running
<1> DEFINE w == [f \in Flows |-> IF f \in M /\ s.flow[f].fd # NoFD
                  THEN [s.flow[f] EXCEPT !.running = TRUE, !.input = TRUE]
                  ELSE s.flow[f]]
<1>1. \A f \in Flows : /\ w[f] \in FlowStates /\ w[f].fd = s.flow[f].fd
                       /\ w[f].entry = s.flow[f].entry
                       /\ f \notin M => w[f] = s.flow[f]
                       /\ f \in M /\ s.flow[f].fd # NoFD => w[f].running
  BY FlowFields DEF FlowStates
<1>2. w \in [Flows -> FlowStates]
  BY <1>1
<1>3. Activate(s, M) = [s EXCEPT !.flow = w]
  BY DEF Activate, Locked
<1> HIDE DEF w
<1> DEFINE x == [s EXCEPT !.flow = w]
<1>4. /\ x \in Locked /\ x.set = s.set /\ x.flow = w /\ x.new = s.new
      /\ x.open = s.open /\ x.uses = s.uses /\ x.failed = s.failed
  BY <1>2, WithFlow
<1> HIDE DEF x
<1>5. Activate(s, M) = x
  BY <1>3 DEF x
<1> QED
  BY <1>1, <1>4, <1>5 DEF FlowsOnly, BoundIn

\* The end of a connection switches off the input of a flow.
InputOff(d, s) ==
  /\ FlowsOnly(d, s) /\ d.new = s.new
  /\ \A f \in Flows : /\ d.flow[f].running = s.flow[f].running
                      /\ d.flow[f].entry = s.flow[f].entry
                      /\ d.flow[f].input => s.flow[f].input
  /\ \A f \in Flows \ s.set : d.flow[f] = s.flow[f]

LEMMA EndFields ==
  ASSUME NEW s \in Locked, NEW fd, NEW m, m.type = "end"
  PROVE  InputOff(HandleData(s, fd, m), s)
<1> DEFINE w == [f \in Flows |-> IF f \in FlowAt(s, fd, 0)
                                 THEN [s.flow[f] EXCEPT !.input = FALSE]
                                 ELSE s.flow[f]]
<1>1. \A f \in Flows : /\ w[f] \in FlowStates /\ w[f].fd = s.flow[f].fd
                       /\ w[f].running = s.flow[f].running
                       /\ w[f].entry = s.flow[f].entry
                       /\ w[f].input => s.flow[f].input
                       /\ f \notin s.set => w[f] = s.flow[f]
  BY FlowFields DEF FlowStates, FlowAt
<1>2. w \in [Flows -> FlowStates]
  BY <1>1
<1>3. HandleData(s, fd, m) = [s EXCEPT !.flow = w]
  BY DEF HandleData, Locked
<1> HIDE DEF w
<1> DEFINE x == [s EXCEPT !.flow = w]
<1>4. /\ x \in Locked /\ x.set = s.set /\ x.flow = w /\ x.new = s.new
      /\ x.open = s.open /\ x.uses = s.uses /\ x.failed = s.failed
  BY <1>2, WithFlow
<1> HIDE DEF x
<1>5. HandleData(s, fd, m) = x
  BY <1>3 DEF x
<1> QED
  BY <1>1, <1>4, <1>5 DEF FlowsOnly, InputOff

\* What a message does on the socket of a flow, or on the one of UDP.
LEMMA HandleDataOutcomes ==
  ASSUME NEW s, NEW X, Core(s, X), NEW fd \in Sockets, NEW m \in Messages \cup {End},
         RightIdentify(s, fd, m),
         m.type = "identify" =>
           Protocol[Conn[m.flow]] = "UDP" \/ fd \notin DOMAIN s.new
  PROVE  LET d == HandleData(s, fd, m) IN
         \/ d = s
         \/ /\ m.type = "identify" /\ m.flow \in s.set
            /\ ~BoundIn(s, m.flow) /\ d = Bind(s, m.flow, fd)
         \/ m.type = "end" /\ InputOff(d, s)
<1>1. s \in Locked /\ s.set \in SUBSET Flows
  BY LockedFields DEF Core
<1>2. CASE m.type = "identify" /\ m.flow \in s.set
  <2>1. ~BoundIn(s, m.flow) => ~s.flow[m.flow].running
    BY <1>2 DEF RightIdentify
  <2>2. IdentifySocket(s, m.flow, fd) =
          IF BoundIn(s, m.flow) THEN s ELSE Bind(s, m.flow, fd)
    BY <1>1, <1>2, <2>1, IdentifyFields
  <2>3. HandleData(s, fd, m) = IdentifySocket(s, m.flow, fd)
    BY <1>2 DEF HandleData
  <2> QED
    BY <1>2, <2>2, <2>3
<1>3. CASE m.type = "end"
  BY <1>1, <1>3, EndFields
<1>4. CASE ~(m.type = "identify" /\ m.flow \in s.set) /\ m.type # "end"
  BY <1>4 DEF HandleData
<1> QED
  BY <1>2, <1>3, <1>4

-----------------------------------------------------------------------------
(* The flows of an active node that is gone, one after the other.          *)

\* The socket of a flow that is gone is closed, or another flow has it.
HandedOn(d, s, T) ==
  \A f \in T : s.flow[f].fd \in FDs =>
    \/ d.open[s.flow[f].fd] = NoConn
    \/ \E g \in d.set : d.flow[g].fd = s.flow[f].fd

AfterDestroys(d, s, T, X) ==
  /\ Core(d, X) /\ d.set = s.set \ T /\ d.new = s.new
  /\ d.flow = [f \in Flows |-> IF f \in T THEN NewFlow ELSE s.flow[f]]
  /\ \A e \in FDs : d.open[e] = s.open[e] \/ d.open[e] = NoConn
  /\ HandedOn(d, s, T)

LEMMA OneMoreDestroyed ==
  ASSUME NEW s, NEW X, NEW T, NEW d, AfterDestroys(d, s, T, X),
         NEW f \in Flows, f \in s.set, f \notin T,
         s.flow[f].fd \in X => GivesBack(s, f)
  PROVE  AfterDestroys(Destroy(d, f), s, T \cup {f}, X)
<1> DEFINE x  == Destroy(d, f)
           fd == s.flow[f].fd
<1>1. d.flow[f] = s.flow[f] /\ f \in d.set
  BY DEF AfterDestroys
<1>2. Core(x, X)
  <2>1. \A g \in d.set : g \in s.set /\ g \in Flows /\ d.flow[g] = s.flow[g]
    BY LockedFields DEF AfterDestroys, Core
  <2>2. fd \in X => GivesBack(d, f)
    BY <1>1, <2>1 DEF GivesBack, Closes, BoundIn
  <2> QED
    BY <1>1, <2>2, DestroyCore DEF AfterDestroys
<1>3. /\ x.set = d.set \ {f} /\ x.new = d.new
      /\ x.flow = [d.flow EXCEPT ![f] = NewFlow]
      /\ x.open = IF Closes(d, f) THEN Closed(d.open, d.flow[f].fd) ELSE d.open
  BY DestroyFields DEF AfterDestroys, Core
<1> HIDE DEF x
<1>4. x.flow = [g \in Flows |-> IF g \in T \cup {f} THEN NewFlow ELSE s.flow[g]]
  BY <1>3 DEF AfterDestroys
<1>5. \A e \in FDs : x.open[e] = d.open[e] \/ x.open[e] = NoConn
  BY <1>3 DEF Closed
<1>6. x.set = s.set \ (T \cup {f}) /\ x.new = s.new
  BY <1>3 DEF AfterDestroys
<1>7. \A g \in x.set : g \in d.set /\ g # f /\ x.flow[g] = d.flow[g]
  BY <1>3, <1>4, <1>6, LockedFields DEF AfterDestroys, Core
<1>8. ASSUME fd \in FDs
      PROVE  x.open[fd] = NoConn \/ \E g \in x.set : x.flow[g].fd = fd
  <2>1. CASE Closes(d, f)
    BY <1>1, <1>3, <1>8, <2>1 DEF Closed
  <2>2. CASE ~Closes(d, f)
    <3>1. Protocol[Conn[f]] # "UDP"
      BY <1>1, <1>8 DEF AfterDestroys, Core, FlowSockets
    <3>2. PICK g \in d.set \ {f} : d.flow[g].fd = fd
      BY <1>1, <1>8, <2>2, <3>1, Descriptors
         DEF Closes, DeleteWhenFinished, Sockets
    <3>3. g \in x.set
      BY <1>3
    <3> QED
      BY <1>7, <3>2, <3>3
  <2> QED
    BY <2>1, <2>2
<1>9. HandedOn(x, s, T \cup {f})
  <2> SUFFICES ASSUME NEW g \in T, s.flow[g].fd \in FDs, s.flow[g].fd # fd
               PROVE  \/ x.open[s.flow[g].fd] = NoConn
                      \/ \E h \in x.set : x.flow[h].fd = s.flow[g].fd
    BY <1>8 DEF HandedOn
  <2>1. CASE d.open[s.flow[g].fd] = NoConn
    BY <1>5, <2>1
  <2>2. CASE \E h \in d.set : d.flow[h].fd = s.flow[g].fd
    <3>1. PICK h \in d.set : d.flow[h].fd = s.flow[g].fd
      BY <2>2
    <3>2. h \in x.set
      BY <1>1, <1>3, <3>1
    <3> QED
      BY <1>7, <3>1, <3>2
  <2> QED
    BY <2>1, <2>2 DEF AfterDestroys, HandedOn
<1>10. \A e \in FDs : x.open[e] = s.open[e] \/ x.open[e] = NoConn
  BY <1>5 DEF AfterDestroys
<1>11. AfterDestroys(x, s, T \cup {f}, X)
  BY <1>2, <1>4, <1>6, <1>9, <1>10 DEF AfterDestroys
<1> QED
  BY <1>11 DEF x

DestroyAll(s, T) == FoldSet(LAMBDA f, t : Destroy(t, f), s, T)

LEMMA DestroyAllUnfolds ==
  ASSUME NEW s \in Locked, NEW T \in SUBSET Flows
  PROVE  \E h : /\ DestroyAll(s, T) = h[T]
                /\ h = [x \in SUBSET T |-> IF x = {} THEN s ELSE
                          Destroy(h[x \ {Pick(x)}], Pick(x))]
<1> DEFINE R == [p \in T \X Locked |-> Destroy(p[2], p[1])]
           Def(h) == h = [x \in SUBSET T |-> IF x = {} THEN s ELSE
                            Destroy(h[x \ {Pick(x)}], Pick(x))]
           H == CHOOSE h : Def(h)
<1>1. R \in [T \X Locked -> Locked]
  BY DestroyFields
<1>2. IsFiniteSet(T)
  BY ConstantsAssumption, FS_Subset
<1>3. PICK h \in [SUBSET T -> Locked] : Recursive(h, T, s, R)
  <2> HIDE DEF R
  <2> QED
    BY <1>1, <1>2, RecursionOnSubsets
<1>4. ASSUME NEW x \in SUBSET T, x # {}
      PROVE  R[<<Pick(x), h[x \ {Pick(x)}]>>] = Destroy(h[x \ {Pick(x)}], Pick(x))
  <2>1. <<Pick(x), h[x \ {Pick(x)}]>> \in T \X Locked
    BY <1>4 DEF Pick
  <2> QED
    BY <2>1
<1>5. Def(h)
  <2> HIDE DEF R
  <2> QED
    BY <1>3, <1>4 DEF Recursive
<1>6. Def(H)
  <2> HIDE DEF Def
  <2> QED
    BY <1>5
<1>7. DestroyAll(s, T) = H[T]
  BY DEF DestroyAll, FoldSet, MapThenFoldSet, Pick
<1> HIDE DEF H
<1> QED
  BY <1>6, <1>7

LEMMA DestroyAllFields ==
  ASSUME NEW s, NEW X, Core(s, X), NEW T \in SUBSET Flows, T \subseteq s.set,
         \A f \in T : s.flow[f].fd \in X => GivesBack(s, f)
  PROVE  AfterDestroys(DestroyAll(s, T), s, T, X)
<1>1. s \in Locked /\ s.flow \in [Flows -> FlowStates]
  BY LockedFields DEF Core
<1>2. PICK h : /\ DestroyAll(s, T) = h[T]
               /\ h = [x \in SUBSET T |-> IF x = {} THEN s ELSE
                         Destroy(h[x \ {Pick(x)}], Pick(x))]
  BY <1>1, DestroyAllUnfolds
<1> DEFINE Q == {x \in SUBSET T : AfterDestroys(h[x], s, x, X)}
<1>3. {} \in Q
  <2>1. h[{}] = s
    BY <1>2
  <2>2. s.flow = [f \in Flows |-> IF f \in {} THEN NewFlow ELSE s.flow[f]]
    BY <1>1
  <2> QED
    BY <2>1, <2>2 DEF AfterDestroys, HandedOn
<1>4. ASSUME NEW x \in SUBSET T, x # {}, x \ {Pick(x)} \in Q PROVE x \in Q
  <2>1. Pick(x) \in x /\ h[x] = Destroy(h[x \ {Pick(x)}], Pick(x))
    BY <1>2, <1>4 DEF Pick
  <2>2. AfterDestroys(h[x \ {Pick(x)}], s, x \ {Pick(x)}, X)
    BY <1>4
  <2>3. AfterDestroys(h[x], s, (x \ {Pick(x)}) \cup {Pick(x)}, X)
    BY <1>4, <2>1, <2>2, OneMoreDestroyed
  <2>4. (x \ {Pick(x)}) \cup {Pick(x)} = x
    BY <2>1
  <2> QED
    BY <1>4, <2>3, <2>4
<1>5. IsFiniteSet(T)
  BY ConstantsAssumption, FS_Subset
<1>6. \A x \in SUBSET T : x \in Q
  <2> HIDE DEF Q
  <2> QED
    BY <1>3, <1>4, <1>5, SubsetInduction
<1> QED
  BY <1>2, <1>6

-----------------------------------------------------------------------------
(* The end of the process.                                                 *)

LEMMA LessIsLess ==
  ASSUME NEW u \in [Sockets -> Nat], NEW fd
  PROVE  /\ Less(u, fd) \in [Sockets -> Nat]
         /\ \A e \in Sockets : Less(u, fd)[e] <= u[e]
  BY DEF Less

LEMMA ExitFlowFields ==
  ASSUME NEW s \in Locked, NEW f \in Flows
  PROVE  LET d == ExitFlow(s, f) IN
         /\ d \in Locked /\ d.set = s.set \ {f}
         /\ d.new = s.new /\ d.failed = s.failed
         /\ d.flow = [s.flow EXCEPT ![f] = NewFlow]
         /\ \A e \in Sockets : d.uses[e] <= Less(s.uses, s.flow[f].fd)[e]
         /\ \A e \in FDs : d.open[e] = s.open[e] \/ e = s.flow[f].fd
<1> DEFINE fd == s.flow[f].fd
           a == Deregister(s, fd)
           b == Close(a, fd)
           c == [b EXCEPT !.set = @ \ {f}]
           d == Destroy(c, f)
           u == IF c.flow[f].running THEN Less(c.uses, c.flow[f].fd) ELSE c.uses
<1>1. fd \in {NoFD} \cup Sockets /\ s.uses \in [Sockets -> Nat]
  BY FlowFields, LockedFields
<1>2. ExitFlow(s, f) = d
  BY DEF ExitFlow
<1> HIDE DEF fd
<1>3. /\ a \in Locked /\ a.set = s.set /\ a.flow = s.flow /\ a.new = s.new
      /\ a.open = s.open /\ a.failed = s.failed /\ a.uses = Less(s.uses, fd)
  BY <1>1, DeregisterFields
<1> HIDE DEF a
<1>4. /\ b \in Locked /\ b.set = a.set /\ b.flow = a.flow /\ b.new = a.new
      /\ b.uses = a.uses /\ b.failed = a.failed /\ b.open = Closed(a.open, fd)
  BY <1>3, CloseFields
<1> HIDE DEF b
<1>5. /\ c \in Locked /\ c.set = s.set \ {f} /\ c.flow = s.flow /\ c.new = s.new
      /\ c.uses = Less(s.uses, fd) /\ c.failed = s.failed
      /\ c.open = Closed(s.open, fd)
  BY <1>3, <1>4 DEF Locked
<1> HIDE DEF c
<1>6. /\ d \in Locked /\ d.set = c.set \ {f}
      /\ d.new = c.new /\ d.failed = c.failed
      /\ d.flow = [c.flow EXCEPT ![f] = NewFlow]
      /\ d.uses = IF Closes(c, f) THEN Less(u, c.flow[f].fd) ELSE u
      /\ d.open = IF Closes(c, f) THEN Closed(c.open, c.flow[f].fd) ELSE c.open
  BY <1>5, DestroyFields
<1> HIDE DEF d
<1>7. c.uses \in [Sockets -> Nat]
  BY <1>1, <1>5, LessIsLess
<1>8. u \in [Sockets -> Nat] /\ \A e \in Sockets : u[e] <= c.uses[e]
  BY <1>7, LessIsLess
<1> HIDE DEF u
<1>9. d.uses \in [Sockets -> Nat] /\ \A e \in Sockets : d.uses[e] <= u[e]
  BY <1>6, <1>8, LessIsLess
<1>10. \A e \in Sockets : d.uses[e] <= Less(s.uses, fd)[e]
  BY <1>5, <1>7, <1>8, <1>9
<1>11. \A e \in FDs : d.open[e] = s.open[e] \/ e = fd
  BY <1>5, <1>6 DEF Closed, fd
<1> QED
  BY <1>2, <1>5, <1>6, <1>10, <1>11 DEF fd

AfterExits(d, s, T, X) ==
  /\ d \in Locked /\ d.set = s.set \ T
  /\ d.new = s.new /\ d.failed = s.failed
  /\ d.flow = [f \in Flows |-> IF f \in T THEN NewFlow ELSE s.flow[f]]
  /\ \A e \in Sockets \cap X : d.uses[e] <= UseCount(d, e)
  /\ \A e \in FDs : d.open[e] = s.open[e] \/ \E f \in T : e = s.flow[f].fd

LEMMA OneMoreExited ==
  ASSUME NEW s, NEW X, NEW T, NEW d, AfterExits(d, s, T, X),
         NEW f \in Flows, f \in s.set, f \notin T
  PROVE  AfterExits(ExitFlow(d, f), s, T \cup {f}, X)
<1> DEFINE x  == ExitFlow(d, f)
           fd == s.flow[f].fd
<1>1. d.flow[f] = s.flow[f] /\ f \in d.set /\ d \in Locked
  BY DEF AfterExits
<1>2. /\ x \in Locked /\ x.set = d.set \ {f}
      /\ x.new = d.new /\ x.failed = d.failed
      /\ x.flow = [d.flow EXCEPT ![f] = NewFlow]
      /\ \A e \in Sockets : x.uses[e] <= Less(d.uses, fd)[e]
      /\ \A e \in FDs : x.open[e] = d.open[e] \/ e = fd
  <2>1. /\ x \in Locked /\ x.set = d.set \ {f}
        /\ x.new = d.new /\ x.failed = d.failed
        /\ x.flow = [d.flow EXCEPT ![f] = NewFlow]
        /\ \A e \in Sockets : x.uses[e] <= Less(d.uses, d.flow[f].fd)[e]
        /\ \A e \in FDs : x.open[e] = d.open[e] \/ e = d.flow[f].fd
    BY <1>1, ExitFlowFields
  <2> HIDE DEF x
  <2> QED
    BY <1>1, <2>1
<1> HIDE DEF x
<1>3. x.flow = [g \in Flows |-> IF g \in T \cup {f} THEN NewFlow ELSE s.flow[g]]
  BY <1>2 DEF AfterExits
<1>4. ASSUME NEW e \in Sockets \cap X
      PROVE  x.uses[e] <= UseCount(x, e)
  <2>1. SameFDs(x, d, d.set \ {f})
    BY <1>1, <1>2, LockedFields DEF SameFDs
  <2>2. Cardinality(Users(x, e)) =
          IF f \in d.set /\ d.flow[f].fd = e
          THEN Cardinality(Users(d, e)) - 1 ELSE Cardinality(Users(d, e))
    BY <1>2, <2>1, OneUserLess
  <2>3. Cardinality(Users(d, e)) \in Nat /\ Cardinality(Users(x, e)) \in Nat
    BY UsersAreFinite
  <2>4. d.uses[e] <= UseCount(d, e)
    BY DEF AfterExits
  <2>5. d.uses \in [Sockets -> Nat] /\ x.uses \in [Sockets -> Nat]
    BY <1>1, <1>2, LockedFields
  <2>6. x.uses[e] <= IF e = fd /\ d.uses[e] # 0 THEN d.uses[e] - 1 ELSE d.uses[e]
    BY <1>2 DEF Less
  <2> DEFINE n == IF e \in DOMAIN d.new THEN 1 ELSE 0
             v == Cardinality(Users(d, e))
             w == Cardinality(Users(x, e))
  <2>7. UseCount(d, e) = n + v /\ UseCount(x, e) = n + w /\ n \in {0, 1}
    BY <1>2 DEF UseCount
  <2>8. w = IF e = fd THEN v - 1 ELSE v
    BY <1>1, <2>2
  <2>9. d.uses[e] \in Nat /\ x.uses[e] \in Nat /\ v \in Nat /\ w \in Nat
    BY <2>3, <2>5
  <2> HIDE DEF n, v, w
  <2>10. CASE e = fd
    BY <2>4, <2>6, <2>7, <2>8, <2>9, <2>10
  <2>11. CASE e # fd
    BY <2>4, <2>6, <2>7, <2>8, <2>9, <2>11
  <2> QED
    BY <2>10, <2>11
<1>5. \A e \in FDs : x.open[e] = s.open[e] \/ \E g \in T \cup {f} : e = s.flow[g].fd
  BY <1>2 DEF AfterExits
<1>6. x.set = s.set \ (T \cup {f}) /\ x.new = s.new /\ x.failed = s.failed
  BY <1>2 DEF AfterExits
<1>7. AfterExits(x, s, T \cup {f}, X)
  BY <1>2, <1>3, <1>4, <1>5, <1>6 DEF AfterExits
<1> QED
  BY <1>7 DEF x

ExitAll(s, T) == FoldSet(LAMBDA f, t : ExitFlow(t, f), s, T)

LEMMA ExitAllUnfolds ==
  ASSUME NEW s \in Locked, NEW T \in SUBSET Flows
  PROVE  \E h : /\ ExitAll(s, T) = h[T]
                /\ h = [x \in SUBSET T |-> IF x = {} THEN s ELSE
                          ExitFlow(h[x \ {Pick(x)}], Pick(x))]
<1> DEFINE R == [p \in T \X Locked |-> ExitFlow(p[2], p[1])]
           Def(h) == h = [x \in SUBSET T |-> IF x = {} THEN s ELSE
                            ExitFlow(h[x \ {Pick(x)}], Pick(x))]
           H == CHOOSE h : Def(h)
<1>1. R \in [T \X Locked -> Locked]
  BY ExitFlowFields
<1>2. IsFiniteSet(T)
  BY ConstantsAssumption, FS_Subset
<1>3. PICK h \in [SUBSET T -> Locked] : Recursive(h, T, s, R)
  <2> HIDE DEF R
  <2> QED
    BY <1>1, <1>2, RecursionOnSubsets
<1>4. ASSUME NEW x \in SUBSET T, x # {}
      PROVE  R[<<Pick(x), h[x \ {Pick(x)}]>>] = ExitFlow(h[x \ {Pick(x)}], Pick(x))
  <2>1. <<Pick(x), h[x \ {Pick(x)}]>> \in T \X Locked
    BY <1>4 DEF Pick
  <2> QED
    BY <2>1
<1>5. Def(h)
  <2> HIDE DEF R
  <2> QED
    BY <1>3, <1>4 DEF Recursive
<1>6. Def(H)
  <2> HIDE DEF Def
  <2> QED
    BY <1>5
<1>7. ExitAll(s, T) = H[T]
  BY DEF ExitAll, FoldSet, MapThenFoldSet, Pick
<1> HIDE DEF H
<1> QED
  BY <1>6, <1>7

LEMMA ExitAllFields ==
  ASSUME NEW s, NEW X, Core(s, X), NEW T \in SUBSET Flows, T \subseteq s.set
  PROVE  AfterExits(ExitAll(s, T), s, T, X)
<1>1. s \in Locked /\ s.flow \in [Flows -> FlowStates]
  BY LockedFields DEF Core
<1>2. PICK h : /\ ExitAll(s, T) = h[T]
               /\ h = [x \in SUBSET T |-> IF x = {} THEN s ELSE
                         ExitFlow(h[x \ {Pick(x)}], Pick(x))]
  BY <1>1, ExitAllUnfolds
<1> DEFINE Q == {x \in SUBSET T : AfterExits(h[x], s, x, X)}
<1>3. {} \in Q
  <2>1. h[{}] = s
    BY <1>2
  <2>2. s.flow = [f \in Flows |-> IF f \in {} THEN NewFlow ELSE s.flow[f]]
    BY <1>1
  <2>3. ASSUME NEW e \in Sockets \cap X
        PROVE  s.uses[e] <= UseCount(s, e)
    BY <1>1, LockedFields DEF Core, CountedUses
  <2> QED
    BY <1>1, <2>1, <2>2, <2>3 DEF AfterExits
<1>4. ASSUME NEW x \in SUBSET T, x # {}, x \ {Pick(x)} \in Q PROVE x \in Q
  <2>1. Pick(x) \in x /\ h[x] = ExitFlow(h[x \ {Pick(x)}], Pick(x))
    BY <1>2, <1>4 DEF Pick
  <2>2. AfterExits(h[x \ {Pick(x)}], s, x \ {Pick(x)}, X)
    BY <1>4
  <2>3. AfterExits(h[x], s, (x \ {Pick(x)}) \cup {Pick(x)}, X)
    BY <1>4, <2>1, <2>2, OneMoreExited
  <2>4. (x \ {Pick(x)}) \cup {Pick(x)} = x
    BY <2>1
  <2> QED
    BY <1>4, <2>3, <2>4
<1>5. IsFiniteSet(T)
  BY ConstantsAssumption, FS_Subset
<1>6. \A x \in SUBSET T : x \in Q
  <2> HIDE DEF Q
  <2> QED
    BY <1>3, <1>4, <1>5, SubsetInduction
<1> QED
  BY <1>2, <1>6

-----------------------------------------------------------------------------
(* What the reception thread does to the rest of the invariant.            *)

\* A socket that is closed may lose the exact count of its uses.
LEMMA StillExact ==
  ASSUME NEW s, NEW d, NEW un, Core(d, Exact(s, un)),
         \A e \in FDs : d.open[e] = s.open[e] \/ d.open[e] = NoConn
  PROVE  Core(d, Exact(d, un))
<1>1. Exact(d, un) \subseteq Exact(s, un)
  BY DEF Exact
<1> QED
  BY <1>1, FewerExact

LEMMA InvNext ==
  ASSUME Types', Core(fm', Exact(fm', unstarted')),
         SessionInv(fm', session', asked', deleting'),
         QueueInv(fm', inbox', ended', session', asked'),
         ReaderInv(fm', inbox', ended', reader')
  PROVE  Inv'
<1>1. Core(fm, Exact(fm, unstarted))'
  BY DEF Core, CountedUses, UseCount, Users, FlowSockets, NewSockets, OneSocketEach,
         Exact, Shared, UDPLeft
<1>2. SessionInv(fm, session, asked, deleting)'
  BY DEF SessionInv, Asked, Gone, Started, Polled, Beside, Polls, Entries, BoundIn,
         Begun, FlowsOf, Earlier, InOrder, Uniform
<1>3. QueueInv(fm, inbox, ended, session, asked)'
  BY DEF QueueInv, BoundIn
<1>4. ReaderInv(fm, inbox, ended, reader)'
  BY DEF ReaderInv, CanRead
<1> QED
  BY <1>1, <1>2, <1>3, <1>4 DEF Inv

\* Flows may get a socket, and their input may be switched off.
Quiet(d, s) ==
  /\ d.set = s.set /\ DOMAIN d.new \subseteq DOMAIN s.new
  /\ \A g \in Flows \ s.set : d.flow[g] = s.flow[g]
  /\ \A g \in s.set : /\ d.flow[g].running = s.flow[g].running
                      /\ d.flow[g].entry = s.flow[g].entry
                      /\ d.flow[g].input => s.flow[g].input
                      /\ d.flow[g].fd = s.flow[g].fd \/ ~BoundIn(s, g)

LEMMA QuietSession ==
  ASSUME NEW s \in Locked, NEW d \in Locked, Quiet(d, s), NEW ph, NEW as, NEW del,
         SessionInv(s, ph, as, del)
  PROVE  SessionInv(d, ph, as, del)
<1>1. s.set \in SUBSET Flows /\ d.set = s.set
  BY LockedFields DEF Quiet
<1>2. ASSUME NEW g \in s.set
      PROVE  /\ BoundIn(s, g) => d.flow[g].fd = s.flow[g].fd
             /\ BoundIn(s, g) => BoundIn(d, g)
             /\ d.flow[g].running = s.flow[g].running
             /\ d.flow[g].entry = s.flow[g].entry
             /\ d.flow[g].input => s.flow[g].input
  BY DEF Quiet, BoundIn
<1>3. Asked(d, ph, as)
  BY <1>1 DEF SessionInv, Asked
<1>4. Gone(d, ph, del)
  BY <1>1 DEF SessionInv, Gone, Quiet
<1>5. Started(d, ph)
  BY <1>1, <1>2 DEF SessionInv, Started
<1>6. Polled(d, ph, as)
  BY <1>1, <1>2 DEF SessionInv, Polled, Beside, Polls
<1>7. Entries(d)
  <2>1. \A g \in s.set : d.flow[g].entry =>
          s.flow[g].entry /\ s.flow[g].fd \in FDs /\ d.flow[g].fd = s.flow[g].fd
    BY <1>2, Descriptors DEF SessionInv, Entries, BoundIn, Sockets
  <2> QED
    BY <1>1, <2>1 DEF SessionInv, Entries
<1>8. InOrder(d, as)
  BY <1>1, <1>2 DEF SessionInv, InOrder
<1>9. Uniform(d, ph)
  BY <1>1, <1>2 DEF SessionInv, Uniform
<1> QED
  BY <1>3, <1>4, <1>5, <1>6, <1>7, <1>8, <1>9 DEF SessionInv

\* Every message of box is one of old.
FewerMessages(box, old) ==
  \A k \in Conns : \A i \in DOMAIN box[k] :
    \E j \in DOMAIN old[k] : box[k][i] = old[k][j]

LEMMA QuietQueue ==
  ASSUME NEW s \in Locked, NEW d \in Locked, Quiet(d, s),
         NEW old \in [Conns -> Seq(Messages)], NEW box, FewerMessages(box, old),
         NEW en, NEW ph, NEW as, QueueInv(s, old, en, ph, as)
  PROVE  QueueInv(d, box, en, ph, as)
<1>1. \A g \in Flows : BoundIn(s, g) => BoundIn(d, g)
  BY DEF Quiet, BoundIn
<1>2. ASSUME NEW k \in Conns, NEW i \in DOMAIN box[k]
      PROVE  /\ Conn[box[k][i].flow] = k /\ box[k][i].flow \in as
             /\ box[k][i].type = "data" /\ box[k][i].flow \in d.set =>
                  BoundIn(d, box[k][i].flow)
  <2>1. PICK j \in DOMAIN old[k] : box[k][i] = old[k][j]
    BY DEF FewerMessages
  <2>2. old[k] \in Seq(Messages)
    OBVIOUS
  <2>3. old[k][j] \in Messages
    BY <2>2
  <2>4. old[k][j].flow \in Flows
    BY <2>3 DEF Messages
  <2>5. /\ Conn[old[k][j].flow] = k /\ old[k][j].flow \in as
        /\ old[k][j].type = "data" /\ old[k][j].flow \in s.set =>
             BoundIn(s, old[k][j].flow)
    BY DEF QueueInv
  <2>6. d.set = s.set
    BY DEF Quiet
  <2> QED
    BY <1>1, <2>1, <2>4, <2>5, <2>6
<1>3. \A k \in en : ph[ControlOf[k]] \in {"stopped", "over", "closed"}
  BY DEF QueueInv
<1> QED
  BY <1>2, <1>3 DEF QueueInv

Consumed(box, k) == [box EXCEPT ![k] = IF @ = <<>> THEN @ ELSE Tail(@)]

LEMMA ConsumeFields ==
  ASSUME NEW box \in [Conns -> Seq(Messages)], NEW k \in Conns
  PROVE  /\ Consumed(box, k) \in [Conns -> Seq(Messages)]
         /\ FewerMessages(Consumed(box, k), box)
         /\ \A e \in Conns \ {k} : Consumed(box, k)[e] = box[e]
<1>1. box[k] # <<>> => Tail(box[k]) \in Seq(Messages)
  OBVIOUS
<1>2. ASSUME NEW i \in DOMAIN Tail(box[k]), box[k] # <<>>
      PROVE  i + 1 \in DOMAIN box[k] /\ Tail(box[k])[i] = box[k][i + 1]
  <2>1. box[k] \in Seq(Messages)
    OBVIOUS
  <2> QED
    BY <1>2, <2>1
<1>3. FewerMessages(Consumed(box, k), box)
  BY <1>2 DEF FewerMessages, Consumed
<1> QED
  BY <1>1, <1>3 DEF Consumed

\* The message that waits on a socket which can be read.
LEMMA ReadFacts ==
  ASSUME Inv, NEW fd \in FDs, CanRead(fm, inbox, ended, fd)
  PROVE  /\ fm.open[fd] \in Conns /\ MessageOn(fm, fd) \in Messages \cup {End}
         /\ MessageOn(fm, fd).type \in {"identify", "data", "end"}
         /\ MessageOn(fm, fd).type = "end" => fm.open[fd] \in ended
         /\ MessageOn(fm, fd).type # "end" =>
              /\ MessageOn(fm, fd).flow \in Flows
              /\ MessageOn(fm, fd).flow \in asked
              /\ Conn[MessageOn(fm, fd).flow] = fm.open[fd]
              /\ MessageOn(fm, fd).type = "data"
                   /\ MessageOn(fm, fd).flow \in fm.set =>
                   BoundIn(fm, MessageOn(fm, fd).flow)
         /\ RightIdentify(fm, fd, MessageOn(fm, fd))
<1> DEFINE k == fm.open[fd]
           m == MessageOn(fm, fd)
<1>1. k \in Conns /\ inbox[k] \in Seq(Messages)
  BY LockedFields DEF CanRead, Inv, Core, Types
<1>2. CASE inbox[k] = <<>>
  <2>1. m = End /\ k \in ended
    BY <1>2 DEF MessageOn, CanRead
  <2> QED
    BY <1>1, <2>1 DEF End, RightIdentify
<1>3. CASE inbox[k] # <<>>
  <2>1. m = inbox[k][1] /\ 1 \in DOMAIN inbox[k]
    BY <1>1, <1>3 DEF MessageOn
  <2>2. m \in Messages
    BY <1>1, <2>1
  <2> HIDE DEF m
  <2>3. m.flow \in Flows /\ m.type \in {"identify", "data"}
    BY <2>2 DEF Messages
  <2>4. /\ Conn[m.flow] = k /\ m.flow \in asked
        /\ m.type = "data" /\ m.flow \in fm.set => BoundIn(fm, m.flow)
    BY <1>1, <2>1 DEF Inv, QueueInv
  <2>5. RightIdentify(fm, fd, m)
    BY <2>3, <2>4 DEF RightIdentify, Inv, SessionInv, Started
  <2> QED
    BY <1>1, <2>2, <2>3, <2>4, <2>5 DEF m
<1> QED
  BY <1>2, <1>3

\* The flows of a connection that is polled share its socket.
LEMMA SameSocket ==
  ASSUME Inv, NEW f \in fm.set, fm.flow[f].fd \in FDs,
         NEW g \in fm.set, BoundIn(fm, g), Conn[g] = Conn[f]
  PROVE  fm.flow[g].fd = fm.flow[f].fd
<1>1. fm.open[fm.flow[f].fd] = Conn[f] /\ Protocol[Conn[f]] # "UDP"
  BY DEF Inv, Core, FlowSockets
<1>2. fm.flow[g].fd \in {NoFD} \cup Sockets /\ g \in Flows
  BY FlowFields, LockedFields DEF Inv, Core
<1>3. fm.flow[g].fd \in FDs /\ fm.open[fm.flow[g].fd] = Conn[g]
  BY <1>1, <1>2 DEF Inv, Core, FlowSockets, BoundIn, Sockets
<1>4. Conn[f] # NoConn
  BY <1>1, <1>2, ConstantsAssumption
<1> QED
  BY <1>1, <1>3, <1>4 DEF Inv, Core, OneSocketEach

\* What the reception thread reads from a flow's socket is never a surprise: the
\* flow that it is for is there, and so is the one of stream 0 at the end.
LEMMA FlowDataOkay ==
  ASSUME Inv, NEW f \in fm.set, fm.flow[f].entry, fm.flow[f].fd \in FDs,
         CanRead(fm, inbox, ended, fm.flow[f].fd)
  PROVE  DataOkay(fm, fm.flow[f].fd, MessageOn(fm, fm.flow[f].fd))
<1> DEFINE fd == fm.flow[f].fd
           m  == MessageOn(fm, fd)
           c  == ControlOf[Conn[f]]
<1>1. fm.set \in SUBSET Flows /\ fm.open[fd] = Conn[f] /\ fm.set \subseteq asked
  BY LockedFields DEF Inv, Core, FlowSockets, SessionInv, Asked
<1>2. \A g \in Flows : g \in asked /\ Conn[g] = Conn[f] => g \in fm.set
  <2>1. Polls(fm, f) /\ Polled(fm, session, asked)
    BY DEF Polls, Inv, SessionInv
  <2>2. FlowsOf(c) \cap asked \subseteq fm.set
    BY <2>1 DEF Polled, Beside
  <2> QED
    BY <2>2 DEF FlowsOf
<1>3. /\ m.type \in {"identify", "data", "end"}
      /\ m.type # "end" =>
           /\ m.flow \in Flows
           /\ m.flow \in asked /\ Conn[m.flow] = Conn[f]
           /\ m.type = "data" /\ m.flow \in fm.set => BoundIn(fm, m.flow)
  BY <1>1, ReadFacts
<1> HIDE DEF m
<1>4. ASSUME NEW g \in fm.set, BoundIn(fm, g), Conn[g] = Conn[f]
      PROVE  g \in FlowAt(fm, fd, Stream[g])
  BY <1>1, <1>4, SameSocket DEF FlowAt
<1>5. CASE m.type = "identify"
  <2>1. m.flow \in fm.set
    BY <1>2, <1>3, <1>5
  <2> QED
    BY <1>5, <2>1 DEF DataOkay, m
<1>6. CASE m.type = "data"
  <2>1. m.flow \in fm.set /\ BoundIn(fm, m.flow)
    BY <1>2, <1>3, <1>6
  <2>2. m.flow \in FlowAt(fm, fd, Stream[m.flow])
    BY <1>3, <1>4, <1>6, <2>1
  <2> QED
    BY <1>6, <2>2 DEF DataOkay, m
<1>7. CASE m.type = "end"
  <2>1. PICK g \in Flows : g <= f /\ Conn[g] = Conn[f] /\ Stream[g] = 0
    BY <1>1, ConstantsAssumption
  <2>2. g \in fm.set /\ BoundIn(fm, g)
    <3>1. CASE g = f
      BY <3>1, Descriptors DEF BoundIn, Sockets
    <3>2. CASE g # f
      <4>1. g \in Earlier(f)
        <5>1. g < f
          <6>1. g \in Nat /\ f \in Nat
            BY <1>1, ConstantsAssumption
          <6> QED
            BY <2>1, <3>2, <6>1
        <5> QED
          BY <2>1, <5>1 DEF Earlier, FlowsOf
      <4>2. g \in asked /\ (g \in fm.set => BoundIn(fm, g))
        BY <1>1, <4>1 DEF Inv, SessionInv, InOrder
      <4> QED
        BY <1>2, <2>1, <4>2
    <3> QED
      BY <3>1, <3>2
  <2>3. g \in FlowAt(fm, fd, 0)
    BY <1>4, <2>1, <2>2
  <2> QED
    BY <1>7, <2>3, PassiveAssumption DEF DataOkay, m
<1> QED
  BY <1>3, <1>5, <1>6, <1>7 DEF m

LEMMA ControlTypes ==
  ASSUME Types, NEW f \in Flows
  PROVE  /\ Conn[f] \in Conns /\ ControlOf[Conn[f]] \in Controls
         /\ session[ControlOf[Conn[f]]] \in
              {"setup", "running", "stopped", "over", "closed"}
  BY ConstantsAssumption, PassiveAssumption DEF Types

LEMMA BindQuiet ==
  ASSUME NEW s \in Locked, NEW f \in s.set, ~BoundIn(s, f), NEW fd,
         NEW d \in Locked, d.set = s.set, DOMAIN d.new \subseteq DOMAIN s.new,
         d.flow = [s.flow EXCEPT ![f] = [@ EXCEPT !.fd = fd]]
  PROVE  Quiet(d, s)
<1>1. s.set \in SUBSET Flows /\ s.flow \in [Flows -> FlowStates]
  BY LockedFields
<1>2. \A g \in Flows \ {f} : d.flow[g] = s.flow[g]
  BY <1>1
<1>3. /\ d.flow[f].running = s.flow[f].running
      /\ d.flow[f].entry = s.flow[f].entry /\ d.flow[f].input = s.flow[f].input
  BY <1>1 DEF FlowStates
<1> QED
  BY <1>1, <1>2, <1>3 DEF Quiet

LEMMA BoundQuiet ==
  ASSUME NEW s \in Locked, NEW f \in s.set, ~BoundIn(s, f), NEW fd \in Sockets
  PROVE  LET d == Bind(s, f, fd) IN
         Quiet(d, s) /\ d \in Locked /\ d.open = s.open /\ d.new = s.new
<1> DEFINE d == Bind(s, f, fd)
<1>1. s.set \in SUBSET Flows
  BY LockedFields
<1>2. /\ d \in Locked /\ d.set = s.set /\ d.new = s.new
      /\ d.flow = [s.flow EXCEPT ![f] = [@ EXCEPT !.fd = fd]]
      /\ d.uses = [s.uses EXCEPT ![fd] = @ + 1]
      /\ d.open = s.open /\ d.failed = s.failed
  BY <1>1, BindFields
<1> HIDE DEF d
<1>3. Quiet(d, s)
  BY <1>2, BindQuiet
<1> QED
  BY <1>2, <1>3 DEF d

LEMMA HandleFlowInv ==
  ASSUME Inv, NEW f \in Flows, HandleFlow(f),
         UNCHANGED <<session, asked, deleting, unstarted>>
  PROVE  Inv'
<1> DEFINE fd == fm.flow[f].fd
           k  == fm.open[fd]
           m  == MessageOn(fm, fd)
           d  == HandleData(fm, fd, m)
<1>1. /\ reader.pc = "handle" /\ <<"flow", f>> \in reader.todo
      /\ ended' = ended /\ reader' = [reader EXCEPT !.todo = @ \ {<<"flow", f>>}]
  BY DEF HandleFlow
<1>2. /\ f \in fm.set /\ fm.flow[f].entry /\ CanRead(fm, inbox, ended, fd)
      /\ fm \in Locked /\ Core(fm, Exact(fm, unstarted))
  BY <1>1 DEF Inv, ReaderInv, Core
<1>3. fd \in FDs /\ fd \in Sockets
  BY <1>2 DEF Inv, SessionInv, Entries, Sockets
<1>4. DataOkay(fm, fd, m)
  BY <1>2, <1>3, FlowDataOkay
<1>5. fm' = d
  BY <1>4 DEF HandleFlow
<1>6. /\ k \in Conns /\ m \in Messages \cup {End} /\ RightIdentify(fm, fd, m)
      /\ m.type \in {"identify", "data", "end"}
      /\ m.type # "end" => Conn[m.flow] = k
  BY <1>2, <1>3, ReadFacts
<1>7. fd \notin DOMAIN fm.new /\ k = Conn[f] /\ Protocol[k] # "UDP"
  BY <1>2, <1>3 DEF Core, FlowSockets
<1>8. inbox' = Consumed(inbox, k)
  BY DEF HandleFlow, Consume, Consumed
<1> HIDE DEF m
<1>9. \/ d = fm
      \/ /\ m.type = "identify" /\ m.flow \in fm.set
         /\ ~BoundIn(fm, m.flow) /\ d = Bind(fm, m.flow, fd)
      \/ m.type = "end" /\ InputOff(d, fm)
  <2> HIDE DEF fd
  <2> QED
    BY <1>2, <1>3, <1>6, <1>7, HandleDataOutcomes
<1> HIDE DEF d
<1>10. /\ Core(d, Exact(fm, unstarted)) /\ Quiet(d, fm)
       /\ d.open = fm.open /\ d.new = fm.new
  <2>1. CASE d = fm
    BY <1>2, <2>1 DEF Quiet
  <2>2. CASE /\ m.type = "identify" /\ m.flow \in fm.set
             /\ ~BoundIn(fm, m.flow) /\ d = Bind(fm, m.flow, fd)
    <3> DEFINE g == m.flow
    <3>1. g \in fm.set /\ ~BoundIn(fm, g) /\ d = Bind(fm, g, fd) /\ Conn[g] = k
      BY <1>6, <2>2
    <3> HIDE DEF g
    <3>2. g \in Flows
      BY <1>2, <3>1, LockedFields
    <3>3. Core(d, Exact(fm, unstarted))
      BY <1>2, <1>3, <1>7, <3>1, <3>2, BindCore, Descriptors
    <3>4. Quiet(d, fm) /\ d.open = fm.open /\ d.new = fm.new
      <4> HIDE DEF fd
      <4>1. fm \in Locked /\ fd \in Sockets
        BY <1>2, <1>3
      <4> QED
        BY <3>1, <4>1, BoundQuiet
    <3> QED
      BY <3>3, <3>4
  <2>3. CASE m.type = "end" /\ InputOff(d, fm)
    <3>1. Core(d, Exact(fm, unstarted))
      BY <1>2, <2>3, FlowsOnlyCore DEF InputOff
    <3>2. Quiet(d, fm)
      BY <1>2, <2>3, LockedFields DEF InputOff, FlowsOnly, Quiet
    <3> QED
      BY <2>3, <3>1, <3>2 DEF InputOff, FlowsOnly
  <2> QED
    BY <1>9, <2>1, <2>2, <2>3
<1>11. /\ inbox' \in [Conns -> Seq(Messages)] /\ FewerMessages(inbox', inbox)
       /\ \A e \in Conns \ {k} : inbox'[e] = inbox[e]
  <2>1. inbox \in [Conns -> Seq(Messages)] /\ k \in Conns
    BY <1>6 DEF Inv, Types
  <2> HIDE DEF k
  <2> QED
    BY <1>8, <2>1, ConsumeFields
<1>12. Types'
  <2>1. reader' \in [pc : {"collect", "poll", "lock", "handle"},
                     polled : SUBSET FDs, ready : SUBSET FDs, todo : SUBSET Handles]
    BY <1>1 DEF Inv, Types
  <2> QED
    BY <1>1, <1>11, <2>1 DEF Inv, Types
<1>13. SessionInv(fm', session', asked', deleting')
  BY <1>2, <1>5, <1>10, QuietSession DEF Inv, Core
<1>14. QueueInv(fm', inbox', ended', session', asked')
  BY <1>1, <1>2, <1>5, <1>10, <1>11, QuietQueue DEF Inv, Core, Types
<1>15. ReaderInv(fm', inbox', ended', reader')
  <2>1. reader'.pc = "handle" /\ reader'.todo = reader.todo \ {<<"flow", f>>}
    BY <1>1 DEF Inv, Types
  <2>2. ASSUME NEW g \in Flows, <<"flow", g>> \in reader'.todo
        PROVE  /\ g \in d.set /\ d.flow[g].entry
               /\ CanRead(d, inbox', ended, d.flow[g].fd)
    <3>1. g # f /\ <<"flow", g>> \in reader.todo
      BY <2>1, <2>2
    <3>2. g \in fm.set /\ fm.flow[g].entry /\ CanRead(fm, inbox, ended, fm.flow[g].fd)
      BY <1>1, <3>1 DEF Inv, ReaderInv
    <3>3. fm.flow[g].fd \in FDs /\ fm.flow[g].fd # fd
      BY <1>2, <3>1, <3>2 DEF Inv, SessionInv, Entries
    <3>4. fm.open[fm.flow[g].fd] \in Conns \ {k}
      BY <1>2, <1>3, <3>2, <3>3, LockedFields DEF Core, OneSocketEach, CanRead
    <3>5. BoundIn(fm, g)
      BY <3>3, Descriptors DEF BoundIn, Sockets
    <3>6. g \in d.set /\ d.flow[g].entry /\ d.flow[g].fd = fm.flow[g].fd
      BY <1>10, <3>2, <3>5 DEF Quiet
    <3> QED
      BY <1>10, <1>11, <3>2, <3>4, <3>6 DEF CanRead
  <2>3. ASSUME NEW e \in FDs, <<"new", e>> \in reader'.todo
        PROVE  e \in DOMAIN d.new /\ CanRead(d, inbox', ended, e)
    <3>1. e \in DOMAIN fm.new /\ CanRead(fm, inbox, ended, e)
      BY <1>1, <2>1, <2>3 DEF Inv, ReaderInv
    <3>2. fm.open[e] \in Conns \ {k}
      BY <1>2, <1>3, <1>7, <3>1, LockedFields DEF Core, OneSocketEach, CanRead
    <3> QED
      BY <1>10, <1>11, <3>1, <3>2 DEF CanRead
  <2> QED
    BY <1>1, <1>5, <2>1, <2>2, <2>3 DEF ReaderInv
<1>16. Core(fm', Exact(fm', unstarted'))
  BY <1>5, <1>10, StillExact
<1> QED
  BY <1>12, <1>13, <1>14, <1>15, <1>16, InvNext

\* The other sockets are not affected.
LEMMA ReadNewKeeps ==
  ASSUME NEW s, NEW X, Core(s, X), NEW fd \in FDs, fd \in DOMAIN s.new, fd \in X,
         NEW m \in Messages \cup {End}, RightIdentify(s, fd, m)
  PROVE  LET d == ReadNew(s, fd, m) IN
         /\ Core(d, X) /\ Quiet(d, s)
         /\ \A e \in FDs \ {fd} : d.open[e] = s.open[e]
         /\ d.open[fd] = s.open[fd] \/ d.open[fd] = NoConn
         /\ DOMAIN s.new \ {fd} \subseteq DOMAIN d.new
<1> DEFINE d == ReadNew(s, fd, m)
<1>1. \/ d = s
      \/ \E f \in s.set : ~BoundIn(s, f) /\ Conn[f] = s.open[fd]
                          /\ BoundNew(d, s, f, fd)
      \/ ClosedNew(d, s, fd)
  BY ReadNewOutcomes
<1> HIDE DEF d
<1>2. s \in Locked /\ s.set \in SUBSET Flows
  BY LockedFields DEF Core
<1>3. CASE d = s
  BY <1>3 DEF Quiet, d
<1>4. CASE \E f \in s.set : ~BoundIn(s, f) /\ Conn[f] = s.open[fd]
                            /\ BoundNew(d, s, f, fd)
  <2>1. PICK f \in s.set : ~BoundIn(s, f) /\ Conn[f] = s.open[fd]
                           /\ BoundNew(d, s, f, fd)
    BY <1>4
  <2>2. Core(d, X)
    BY <1>2, <2>1, BoundNewCore
  <2>3. /\ d \in Locked /\ d.set = s.set /\ d.new = Without(s.new, fd)
        /\ d.flow = [s.flow EXCEPT ![f] = [@ EXCEPT !.fd = fd]]
        /\ d.open = s.open
    BY <2>1 DEF BoundNew
  <2>4. DOMAIN d.new = DOMAIN s.new \ {fd}
    BY <2>3 DEF Without
  <2>5. Quiet(d, s)
    BY <1>2, <2>1, <2>3, <2>4, BindQuiet
  <2> QED
    BY <2>2, <2>3, <2>4, <2>5 DEF d
<1>5. CASE ClosedNew(d, s, fd)
  <2>1. Core(d, X)
    BY <1>5, ClosedNewCore
  <2>2. /\ d.set = s.set /\ d.flow = s.flow /\ d.new = Without(s.new, fd)
        /\ d.open = Closed(s.open, fd)
    BY <1>5 DEF ClosedNew
  <2>3. DOMAIN d.new = DOMAIN s.new \ {fd}
    BY <2>2 DEF Without
  <2>4. Quiet(d, s)
    BY <2>2, <2>3 DEF Quiet
  <2> QED
    BY <2>1, <2>2, <2>3, <2>4 DEF d, Closed
<1> QED
  BY <1>1, <1>3, <1>4, <1>5

LEMMA HandleUnidentifiedInv ==
  ASSUME Inv, NEW fd \in FDs, HandleUnidentified(fd),
         UNCHANGED <<session, asked, deleting, unstarted>>
  PROVE  Inv'
<1> DEFINE k == fm.open[fd]
           m == MessageOn(fm, fd)
           d == ReadNew(fm, fd, m)
<1>1. /\ reader.pc = "handle" /\ <<"new", fd>> \in reader.todo
      /\ \A f \in Flows : <<"flow", f>> \notin reader.todo
      /\ ended' = ended /\ reader' = [reader EXCEPT !.todo = @ \ {<<"new", fd>>}]
  BY DEF HandleUnidentified
<1>2. /\ fd \in DOMAIN fm.new /\ CanRead(fm, inbox, ended, fd)
      /\ fm \in Locked /\ Core(fm, Exact(fm, unstarted))
  BY <1>1 DEF Inv, ReaderInv, Core
<1>3. fm' = d
  BY DEF HandleUnidentified, ReadNew
<1>4. /\ k \in Conns /\ m \in Messages \cup {End} /\ RightIdentify(fm, fd, m)
  BY <1>2, ReadFacts
<1>5. inbox' = Consumed(inbox, k)
  BY DEF HandleUnidentified, Consume, Consumed
<1> HIDE DEF m
<1>6. /\ Core(d, Exact(fm, unstarted)) /\ Quiet(d, fm)
      /\ \A e \in FDs \ {fd} : d.open[e] = fm.open[e]
      /\ d.open[fd] = fm.open[fd] \/ d.open[fd] = NoConn
      /\ DOMAIN fm.new \ {fd} \subseteq DOMAIN d.new
  <2>1. fd \in Exact(fm, unstarted)
    BY <1>2 DEF Exact, CanRead
  <2> QED
    BY <1>2, <1>4, <2>1, ReadNewKeeps
<1> HIDE DEF d
<1>7. /\ inbox' \in [Conns -> Seq(Messages)] /\ FewerMessages(inbox', inbox)
      /\ \A e \in Conns \ {k} : inbox'[e] = inbox[e]
  <2>1. inbox \in [Conns -> Seq(Messages)]
    BY DEF Inv, Types
  <2> QED
    BY <1>4, <1>5, <2>1, ConsumeFields
<1>8. Types'
  <2>1. reader' \in [pc : {"collect", "poll", "lock", "handle"},
                     polled : SUBSET FDs, ready : SUBSET FDs, todo : SUBSET Handles]
    BY <1>1 DEF Inv, Types
  <2> QED
    BY <1>1, <1>7, <2>1 DEF Inv, Types
<1>9. SessionInv(fm', session', asked', deleting')
  BY <1>2, <1>3, <1>6, QuietSession DEF Inv, Core
<1>10. QueueInv(fm', inbox', ended', session', asked')
  BY <1>1, <1>2, <1>3, <1>6, <1>7, QuietQueue DEF Inv, Core, Types
<1>11. ReaderInv(fm', inbox', ended', reader')
  <2>1. reader'.pc = "handle" /\ reader'.todo = reader.todo \ {<<"new", fd>>}
    BY <1>1 DEF Inv, Types
  <2>2. ASSUME NEW e \in FDs, <<"new", e>> \in reader'.todo
        PROVE  e \in DOMAIN d.new /\ CanRead(d, inbox', ended, e)
    <3>1. e # fd /\ e \in DOMAIN fm.new /\ CanRead(fm, inbox, ended, e)
      BY <1>1, <2>1, <2>2 DEF Inv, ReaderInv
    <3>2. fm.open[e] \in Conns \ {k}
      BY <1>2, <3>1, LockedFields DEF Core, OneSocketEach, CanRead
    <3> QED
      BY <1>6, <1>7, <3>1, <3>2 DEF CanRead
  <2> QED
    BY <1>1, <1>3, <2>1, <2>2 DEF ReaderInv
<1>12. Core(fm', Exact(fm', unstarted'))
  BY <1>3, <1>6, StillExact
<1> QED
  BY <1>8, <1>9, <1>10, <1>11, <1>12, InvNext

LEMMA PolledFacts ==
  ASSUME Inv
  PROVE  /\ PolledFlows \subseteq fm.set
         /\ \A f \in PolledFlows : fm.flow[f].input /\ fm.flow[f].fd \in FDs
         /\ \A f, g \in PolledFlows : fm.flow[f].fd = fm.flow[g].fd => f = g
<1>1. PolledFlows \subseteq fm.set /\ fm.set \in SUBSET Flows
  BY LockedFields DEF PolledFlows, Inv, Core
<1>2. ASSUME NEW f \in PolledFlows PROVE fm.flow[f].input /\ fm.flow[f].fd \in FDs
  <2>1. /\ fm.flow[f].input /\ fm.flow[f].fd # NoFD /\ Protocol[Conn[f]] # "UDP"
    BY PassiveAssumption DEF PolledFlows, ToPoll
  <2>2. fm.flow[f].fd \in {NoFD} \cup Sockets
    BY <1>1, FlowFields DEF Inv, Core
  <2> QED
    BY <1>1, <2>1, <2>2 DEF Inv, Core, FlowSockets, Sockets
<1>3. ASSUME NEW f \in PolledFlows, NEW g \in PolledFlows,
             fm.flow[f].fd = fm.flow[g].fd
      PROVE  f = g
  <2>1. f \in Nat /\ g \in Nat
    BY <1>1, ConstantsAssumption
  <2>2. ~(f < g) /\ ~(g < f)
    BY <1>3 DEF PolledFlows
  <2> QED
    BY <2>1, <2>2
<1> QED
  BY <1>1, <1>2, <1>3

LEMMA CollectInv ==
  ASSUME Inv, Collect, UNCHANGED <<session, asked, deleting, unstarted>>
  PROVE  Inv'
<1> DEFINE w == [f \in Flows |-> [fm.flow[f] EXCEPT !.entry = f \in PolledFlows]]
           n == [fd \in DOMAIN fm.new |->
                   [fm.new[fd] EXCEPT !.entry = fd # UDPSocket]]
           d == [fm EXCEPT !.flow = w, !.new = n]
<1>1. /\ fm' = d /\ ended' = ended /\ inbox' = inbox /\ reader.pc = "collect"
      /\ reader' = [reader EXCEPT !.pc = "poll",
           !.polled = {fm.flow[f].fd : f \in PolledFlows}
                      \cup (DOMAIN fm.new \ {UDPSocket})]
  BY DEF Collect, Inv, Core, Locked
<1>2. /\ fm \in Locked /\ Core(fm, Exact(fm, unstarted)) /\ fm.set \in SUBSET Flows
      /\ fm.flow \in [Flows -> FlowStates] /\ DOMAIN fm.new \in SUBSET Sockets
      /\ fm.new \in [DOMAIN fm.new -> Unidentified]
  BY LockedFields DEF Inv, Core
<1>3. \A f \in Flows : /\ w[f] \in FlowStates /\ w[f].fd = fm.flow[f].fd
                       /\ w[f].running = fm.flow[f].running
                       /\ w[f].input = fm.flow[f].input
                       /\ w[f].entry <=> f \in PolledFlows
                       /\ f \notin PolledFlows =>
                            w[f] = [fm.flow[f] EXCEPT !.entry = FALSE]
  <2> SUFFICES ASSUME NEW f \in Flows
               PROVE  /\ w[f] \in FlowStates /\ w[f].fd = fm.flow[f].fd
                      /\ w[f].running = fm.flow[f].running
                      /\ w[f].input = fm.flow[f].input
                      /\ w[f].entry <=> f \in PolledFlows
                      /\ f \notin PolledFlows =>
                           w[f] = [fm.flow[f] EXCEPT !.entry = FALSE]
    OBVIOUS
  <2>1. fm.flow[f] \in FlowStates
    BY <1>2
  <2>2. CASE f \in PolledFlows
    <3>1. w[f] = [fm.flow[f] EXCEPT !.entry = TRUE]
      <4>1. (f \in PolledFlows) = TRUE
        BY <2>2
      <4> QED
        BY <4>1, Zenon
    <3> QED
      BY <2>1, <2>2, <3>1 DEF FlowStates
  <2>3. CASE f \notin PolledFlows
    <3>1. w[f] = [fm.flow[f] EXCEPT !.entry = FALSE]
      <4>1. (f \in PolledFlows) = FALSE
        BY <2>3
      <4> QED
        BY <4>1, Zenon
    <3> QED
      BY <2>1, <2>3, <3>1 DEF FlowStates
  <2> QED
    BY <2>2, <2>3
<1>4. \A f \in Flows : /\ w[f] \in FlowStates /\ w[f].fd = fm.flow[f].fd
                       /\ w[f].running = fm.flow[f].running
                       /\ w[f].input = fm.flow[f].input
                       /\ w[f].entry <=> f \in PolledFlows
  BY <1>3
<1>5. \A fd \in DOMAIN fm.new : /\ n[fd] \in Unidentified
                                /\ n[fd].remove = fm.new[fd].remove
                                /\ n[fd].close = fm.new[fd].close
  BY <1>2 DEF Unidentified
<1>6. /\ d \in Locked /\ d.set = fm.set /\ d.flow = w /\ d.new = n
      /\ d.uses = fm.uses /\ d.open = fm.open /\ d.failed = fm.failed
  <2>1. w \in [Flows -> FlowStates] /\ n \in [DOMAIN fm.new -> Unidentified]
    BY <1>4, <1>5
  <2>2. DOMAIN n = DOMAIN fm.new
    OBVIOUS
  <2> HIDE DEF w, n
  <2>3. n \in UNION {[D -> Unidentified] : D \in SUBSET Sockets}
    BY <1>2, <2>1
  <2> QED
    BY <1>2, <2>1, <2>3 DEF Locked
<1>7. DOMAIN d.new = DOMAIN fm.new
  BY <1>6
<1> HIDE DEF d, w, n
<1>8. Core(d, Exact(fm, unstarted))
  <2>1. SameFDs(d, fm, fm.set) /\ SameMarks(d, fm)
    BY <1>2, <1>4, <1>5, <1>6 DEF SameFDs, SameMarks
  <2> QED
    BY <1>2, <1>6, <1>7, <2>1, SameCore
<1>9. SessionInv(d, session, asked, deleting)
  <2>1. Asked(d, session, asked)
    BY <1>6 DEF Inv, SessionInv, Asked
  <2>2. Gone(d, session, deleting)
    <3>1. ASSUME NEW f \in Flows, f \notin d.set, f # deleting
          PROVE  d.flow[f] = NewFlow
      <4>1. fm.flow[f] = NewFlow /\ f \notin PolledFlows
        BY <1>6, <3>1, PolledFacts DEF Inv, SessionInv, Gone
      <4> QED
        BY <1>3, <1>6, <4>1 DEF NewFlow
    <3>2. ASSUME NEW f \in Flows, f = deleting
          PROVE  /\ f \notin d.set
                 /\ session[ControlOf[Conn[f]]] \in {"stopped", "over"}
                 /\ ~d.flow[f].running /\ ~d.flow[f].entry
                 /\ d.flow[f].fd \in FDs => d.flow[f].fd \notin DOMAIN d.new
                 /\ d.flow[f].fd = UDPSocket => Protocol[Conn[f]] = "UDP"
      BY <1>4, <1>6, <1>7, <3>2, PolledFacts DEF Inv, SessionInv, Gone
    <3> QED
      BY <3>1, <3>2 DEF Gone
  <2>3. Started(d, session)
    BY <1>2, <1>4, <1>6 DEF Inv, SessionInv, Started, BoundIn
  <2>4. Polled(d, session, asked)
    <3>1. \A f \in d.set : Polls(d, f) => Polls(fm, f)
      BY <1>2, <1>4, <1>6, PolledFacts DEF Polls
    <3> QED
      BY <1>6, <3>1 DEF Inv, SessionInv, Polled, Beside
  <2>5. Entries(d)
    BY <1>2, <1>4, <1>6, PolledFacts DEF Entries
  <2>6. InOrder(d, asked)
    BY <1>2, <1>4, <1>6 DEF Inv, SessionInv, InOrder, BoundIn
  <2>7. Uniform(d, session)
    BY <1>2, <1>4, <1>6 DEF Inv, SessionInv, Uniform
  <2> QED
    BY <2>1, <2>2, <2>3, <2>4, <2>5, <2>6, <2>7 DEF SessionInv
<1>10. QueueInv(d, inbox, ended, session, asked)
  <2>1. \A k \in Conns : \A i \in DOMAIN inbox[k] : inbox[k][i].flow \in asked
    BY DEF Inv, QueueInv
  <2>2. \A f \in asked : BoundIn(fm, f) => BoundIn(d, f)
    BY <1>4, <1>6 DEF Inv, Types, BoundIn
  <2> QED
    BY <1>6, <2>1, <2>2 DEF Inv, QueueInv
<1>11. Types' /\ reader'.pc = "poll" /\ reader'.todo = {}
  <2>1. {fm.flow[f].fd : f \in PolledFlows} \cup (DOMAIN fm.new \ {UDPSocket})
          \subseteq FDs
    BY <1>2, PolledFacts DEF Sockets
  <2>2. reader.todo = {}
    BY <1>1 DEF Inv, ReaderInv
  <2>3. reader' \in [pc : {"collect", "poll", "lock", "handle"},
                     polled : SUBSET FDs, ready : SUBSET FDs, todo : SUBSET Handles]
        /\ reader'.pc = "poll" /\ reader'.todo = {}
    BY <1>1, <2>1, <2>2 DEF Inv, Types
  <2> QED
    BY <1>1, <2>3 DEF Inv, Types
<1>12. ReaderInv(fm', inbox', ended', reader')
  BY <1>11 DEF ReaderInv
<1>13. Core(fm', Exact(fm', unstarted'))
  BY <1>1, <1>6, <1>8, StillExact
<1> QED
  BY <1>1, <1>9, <1>10, <1>11, <1>12, <1>13, InvNext

\* The steps that only change what the thread remembers.
LEMMA ReaderStep ==
  ASSUME Inv, UNCHANGED <<fm, inbox, ended, session, asked, deleting, unstarted>>,
         reader' \in [pc : {"collect", "poll", "lock", "handle"},
                      polled : SUBSET FDs, ready : SUBSET FDs, todo : SUBSET Handles],
         ReaderInv(fm, inbox, ended, reader')
  PROVE  Inv'
<1>1. Types'
  BY DEF Inv, Types
<1>2. /\ Core(fm', Exact(fm', unstarted'))
      /\ SessionInv(fm', session', asked', deleting')
  BY DEF Inv
<1>3. QueueInv(fm', inbox', ended', session', asked')
  BY DEF Inv
<1>4. ReaderInv(fm', inbox', ended', reader')
  OBVIOUS
<1> QED
  BY <1>1, <1>2, <1>3, <1>4, InvNext

LEMMA PollInv ==
  ASSUME Inv, PollReturns \/ PollTimesOut \/ TakeLock \/ Unlock,
         UNCHANGED <<session, asked, deleting, unstarted>>
  PROVE  Inv'
<1>1. /\ reader \in [pc : {"collect", "poll", "lock", "handle"},
                     polled : SUBSET FDs, ready : SUBSET FDs, todo : SUBSET Handles]
      /\ reader.pc # "handle" => reader.todo = {}
  BY DEF Inv, Types, ReaderInv
<1>2. fm.set \in SUBSET Flows /\ DOMAIN fm.new \in SUBSET Sockets
  BY LockedFields DEF Inv, Core
<1>3. CASE PollReturns
  <2> DEFINE ready == {fd \in reader.polled : Readable(fm, fd)}
  <2>1. reader' = [reader EXCEPT !.pc = "lock", !.polled = {}, !.ready = ready]
        /\ reader.pc = "poll" /\ UNCHANGED <<fm, inbox, ended>>
    BY <1>3 DEF PollReturns
  <2>2. ready \subseteq FDs /\ \A fd \in ready : CanRead(fm, inbox, ended, fd)
    BY <1>1 DEF Readable, CanRead
  <2> HIDE DEF ready
  <2>3. reader' \in [pc : {"collect", "poll", "lock", "handle"},
                     polled : SUBSET FDs, ready : SUBSET FDs, todo : SUBSET Handles]
        /\ reader'.pc = "lock" /\ reader'.ready = ready /\ reader'.todo = {}
    BY <1>1, <2>1, <2>2
  <2>4. ReaderInv(fm, inbox, ended, reader')
    BY <2>2, <2>3 DEF ReaderInv
  <2> QED
    BY <2>1, <2>3, <2>4, ReaderStep
<1>4. CASE PollTimesOut
  <2>1. reader' = [reader EXCEPT !.pc = "collect", !.polled = {}]
        /\ reader.pc = "poll" /\ UNCHANGED <<fm, inbox, ended>>
    BY <1>4 DEF PollTimesOut
  <2>2. reader' \in [pc : {"collect", "poll", "lock", "handle"},
                     polled : SUBSET FDs, ready : SUBSET FDs, todo : SUBSET Handles]
        /\ reader'.pc = "collect" /\ reader'.todo = {}
    BY <1>1, <2>1
  <2>3. ReaderInv(fm, inbox, ended, reader')
    BY <2>2 DEF ReaderInv
  <2> QED
    BY <2>1, <2>2, <2>3, ReaderStep
<1>5. CASE TakeLock
  <2> DEFINE fs == {g \in fm.set :
                      fm.flow[g].entry /\ fm.flow[g].fd \in reader.ready}
             ns == {e \in DOMAIN fm.new : fm.new[e].entry /\ e \in reader.ready}
             todo == {<<"flow", f>> : f \in fs} \cup {<<"new", e>> : e \in ns}
  <2>1. reader' = [reader EXCEPT !.pc = "handle", !.ready = {}, !.todo = todo]
        /\ reader.pc = "lock" /\ UNCHANGED <<fm, inbox, ended>>
    BY <1>5 DEF TakeLock
  <2>2. fs \subseteq Flows /\ ns \subseteq FDs
    BY <1>1, <1>2
  <2>3. todo \subseteq Handles
    BY <2>2 DEF Handles
  <2>4. \A f \in fs : /\ f \in fm.set /\ fm.flow[f].entry
                      /\ CanRead(fm, inbox, ended, fm.flow[f].fd)
    BY <2>1 DEF Inv, ReaderInv
  <2>5. \A e \in ns : e \in DOMAIN fm.new /\ CanRead(fm, inbox, ended, e)
    BY <2>1 DEF Inv, ReaderInv
  <2> HIDE DEF fs, ns
  <2>6. /\ \A f \in Flows : <<"flow", f>> \in todo => f \in fs
        /\ \A e \in FDs : <<"new", e>> \in todo => e \in ns
    OBVIOUS
  <2> HIDE DEF todo
  <2>7. reader' \in [pc : {"collect", "poll", "lock", "handle"},
                     polled : SUBSET FDs, ready : SUBSET FDs, todo : SUBSET Handles]
        /\ reader'.pc = "handle" /\ reader'.todo = todo
    BY <1>1, <2>1, <2>3
  <2>8. ReaderInv(fm, inbox, ended, reader')
    BY <2>4, <2>5, <2>6, <2>7 DEF ReaderInv
  <2> QED
    BY <2>1, <2>7, <2>8, ReaderStep
<1>6. CASE Unlock
  <2>1. reader' = [reader EXCEPT !.pc = "collect"]
        /\ reader.todo = {} /\ UNCHANGED <<fm, inbox, ended>>
    BY <1>6 DEF Unlock
  <2>2. reader' \in [pc : {"collect", "poll", "lock", "handle"},
                     polled : SUBSET FDs, ready : SUBSET FDs, todo : SUBSET Handles]
        /\ reader'.pc = "collect" /\ reader'.todo = {}
    BY <1>1, <2>1
  <2>3. ReaderInv(fm, inbox, ended, reader')
    BY <2>2 DEF ReaderInv
  <2> QED
    BY <2>1, <2>2, <2>3, ReaderStep
<1> QED
  BY <1>3, <1>4, <1>5, <1>6

LEMMA ReceptionInv ==
  ASSUME Inv, Reception, UNCHANGED <<session, asked, deleting, unstarted>>
  PROVE  Inv'
  BY CollectInv, PollInv, HandleFlowInv, HandleUnidentifiedInv DEF Reception

-----------------------------------------------------------------------------
(* What the active nodes do.                                               *)

\* What can be read still can, when there are more messages and more ends.
MoreToRead(box, old, en, gone) ==
  /\ \A k \in Conns : old[k] # <<>> => box[k] # <<>>
  /\ gone \subseteq en

LEMMA StillReadable ==
  ASSUME NEW s \in Locked, NEW old, NEW gone, NEW box, NEW en, NEW r,
         r.ready \subseteq FDs,
         MoreToRead(box, old, en, gone), ReaderInv(s, old, gone, r),
         \A f \in s.set : s.flow[f].entry => s.flow[f].fd \in FDs
  PROVE  ReaderInv(s, box, en, r)
<1>1. ASSUME NEW fd \in FDs, CanRead(s, old, gone, fd) PROVE CanRead(s, box, en, fd)
  BY <1>1, LockedFields DEF CanRead, MoreToRead
<1>2. r.pc = "lock" =>
        /\ \A f \in s.set : s.flow[f].entry /\ s.flow[f].fd \in r.ready =>
             CanRead(s, box, en, s.flow[f].fd)
        /\ \A fd \in DOMAIN s.new : s.new[fd].entry /\ fd \in r.ready =>
             CanRead(s, box, en, fd)
  BY <1>1 DEF ReaderInv
<1>3. r.pc = "handle" =>
        /\ \A f \in Flows : <<"flow", f>> \in r.todo =>
             f \in s.set /\ s.flow[f].entry /\ CanRead(s, box, en, s.flow[f].fd)
        /\ \A fd \in FDs : <<"new", fd>> \in r.todo =>
             fd \in DOMAIN s.new /\ CanRead(s, box, en, fd)
  BY <1>1 DEF ReaderInv
<1> QED
  BY <1>2, <1>3 DEF ReaderInv

\* A message that is sent.
LEMMA SendInv ==
  ASSUME Inv, NEW m \in Messages, NEW k \in Conns, Conn[m.flow] = k, m.flow \in asked,
         m.type = "data" /\ m.flow \in fm.set => BoundIn(fm, m.flow),
         inbox' = [inbox EXCEPT ![k] = Append(@, m)],
         UNCHANGED <<fm, ended, reader, session, asked, deleting, unstarted>>
  PROVE  Inv'
<1>1. inbox \in [Conns -> Seq(Messages)]
  BY DEF Inv, Types
<1>2. inbox[k] \in Seq(Messages) /\ inbox'[k] = Append(inbox[k], m)
  BY <1>1
<1>3. inbox' \in [Conns -> Seq(Messages)] /\ inbox'[k] # <<>>
  BY <1>1, <1>2
<1>4. \A e \in Conns \ {k} : inbox'[e] = inbox[e]
  BY <1>1
<1>5. Types'
  BY <1>3 DEF Inv, Types
<1>6. ASSUME NEW e \in Conns, NEW i \in DOMAIN inbox'[e]
      PROVE  /\ Conn[inbox'[e][i].flow] = e /\ inbox'[e][i].flow \in asked
             /\ inbox'[e][i].type = "data" /\ inbox'[e][i].flow \in fm.set =>
                  BoundIn(fm, inbox'[e][i].flow)
  <2>1. CASE e = k /\ i = Len(inbox[k]) + 1
    <3>1. inbox'[e][i] = m
      BY <1>2, <2>1
    <3> QED
      BY <2>1, <3>1
  <2>2. CASE e = k /\ i # Len(inbox[k]) + 1
    <3>1. i \in DOMAIN inbox[k] /\ inbox'[e][i] = inbox[k][i]
      BY <1>2, <2>2
    <3> QED
      BY <2>2, <3>1 DEF Inv, QueueInv
  <2>3. CASE e # k
    BY <1>4, <2>3 DEF Inv, QueueInv
  <2> QED
    BY <2>1, <2>2, <2>3
<1>7. QueueInv(fm, inbox', ended, session, asked)
  BY <1>6 DEF Inv, QueueInv
<1>8. ReaderInv(fm, inbox', ended, reader)
  <2>1. MoreToRead(inbox', inbox, ended, ended)
    BY <1>3, <1>4 DEF MoreToRead
  <2>2. reader.ready \subseteq FDs /\ ReaderInv(fm, inbox, ended, reader)
        /\ fm \in Locked
        /\ \A f \in fm.set : fm.flow[f].entry => fm.flow[f].fd \in FDs
    BY DEF Inv, Types, SessionInv, Entries, Core
  <2> QED
    BY <2>1, <2>2, StillReadable
<1>9. /\ Core(fm', Exact(fm', unstarted'))
      /\ SessionInv(fm', session', asked', deleting')
  BY DEF Inv
<1>10. /\ QueueInv(fm', inbox', ended', session', asked')
       /\ ReaderInv(fm', inbox', ended', reader')
  BY <1>7, <1>8
<1> QED
  BY <1>5, <1>9, <1>10, InvNext

LEMMA SendIdentifyInv ==
  ASSUME Inv, NEW f \in Flows, SendIdentify(f)
  PROVE  Inv'
<1>1. f \in asked
  BY DEF SendIdentify
<1>2. /\ Identify(f) \in Messages /\ Identify(f).flow = f
      /\ Identify(f).type = "identify" /\ Conn[f] \in Conns
  BY ConstantsAssumption DEF Identify, Messages
<1>3. /\ inbox' = [inbox EXCEPT ![Conn[f]] = Append(@, Identify(f))]
      /\ UNCHANGED <<fm, ended, reader, session, asked, deleting, unstarted>>
  BY DEF SendIdentify
<1> QED
  BY <1>1, <1>2, <1>3, SendInv

LEMMA SendDataInv ==
  ASSUME Inv, NEW f \in Flows, SendData(f)
  PROVE  Inv'
<1>1. /\ inbox' = [inbox EXCEPT ![Conn[f]] = Append(@, Data(f))]
      /\ UNCHANGED <<fm, ended, reader, session, asked, deleting, unstarted>>
      /\ BoundIn(fm, f) /\ session[ControlOf[Conn[f]]] \in {"setup", "running"}
  BY DEF SendData, FlowsOf, Bound, BoundIn, PhaseOf
<1>2. f \in asked
  <2>1. CASE session[ControlOf[Conn[f]]] = "setup"
    <3>1. fm.flow[f] # NewFlow
      BY <1>1, NewFlowType DEF BoundIn
    <3>2. f \in fm.set
      BY <2>1, <3>1 DEF Inv, SessionInv, Gone
    <3> QED
      BY <3>2 DEF Inv, SessionInv, Asked, Begun
  <2>2. CASE session[ControlOf[Conn[f]]] # "setup"
    BY <1>1, <2>2 DEF Inv, SessionInv, Asked, Begun
  <2> QED
    BY <2>1, <2>2
<1>3. /\ Data(f) \in Messages /\ Data(f).flow = f
      /\ Data(f).type = "data" /\ Conn[f] \in Conns
  BY ConstantsAssumption DEF Data, Messages
<1> QED
  BY <1>1, <1>2, <1>3, SendInv

LEMMA SessionOverInv ==
  ASSUME Inv, NEW c \in Controls, SessionOver(c)
  PROVE  Inv'
<1>1. /\ session' = [session EXCEPT ![c] = "over"]
      /\ session[c] \in {"setup", "running", "stopped"}
      /\ UNCHANGED <<fm, inbox, ended, reader, asked, deleting, unstarted>>
  BY PassiveAssumption DEF SessionOver, sharedVars
<1>2. /\ session \in [Controls -> {"setup", "running", "stopped", "over", "closed"}]
      /\ fm.set \in SUBSET Flows /\ asked \subseteq Flows
  BY LockedFields DEF Inv, Types, Core
<1>3. Types'
  BY <1>1, <1>2 DEF Inv, Types
<1>4. ASSUME NEW f \in Flows
      PROVE  LET b == ControlOf[Conn[f]] IN
             /\ b \in Controls
             /\ session'[b] = IF b = c THEN "over" ELSE session[b]
  BY <1>1, <1>2, ControlTypes DEF Inv
<1>5. Asked(fm, session', asked)
  BY <1>1, <1>2, <1>4 DEF Inv, SessionInv, Asked, Begun
<1>6. Gone(fm, session', deleting)
  BY <1>4 DEF Inv, SessionInv, Gone
<1>7. Started(fm, session')
  BY <1>1, <1>2, <1>4 DEF Inv, SessionInv, Started, Begun
<1>8. Polled(fm, session', asked) /\ Uniform(fm, session')
  <2>1. Polled(fm, session', asked)
    BY <1>2, <1>4 DEF Inv, SessionInv, Polled, Beside
  <2>2. ASSUME NEW f \in fm.set, NEW g \in fm.set,
               ControlOf[Conn[f]] = ControlOf[Conn[g]], ControlOf[Conn[f]] = c
        PROVE  fm.flow[f].running = fm.flow[g].running
    <3>1. /\ fm.flow[f].running \in BOOLEAN /\ fm.flow[g].running \in BOOLEAN
      BY <1>2, FlowFields DEF Inv, Core
    <3>2. CASE session[c] = "setup"
      BY <2>2, <3>1, <3>2 DEF Inv, SessionInv, Started
    <3>3. CASE session[c] \in {"running", "stopped"}
      BY <2>2, <3>1, <3>3 DEF Inv, SessionInv, Started, Begun
    <3> QED
      BY <1>1, <3>2, <3>3
  <2>3. Uniform(fm, session')
    BY <1>2, <1>4, <2>2 DEF Inv, SessionInv, Uniform
  <2> QED
    BY <2>1, <2>3
<1>9. SessionInv(fm', session', asked', deleting')
  BY <1>1, <1>5, <1>6, <1>7, <1>8 DEF Inv, SessionInv
<1>10. \A k \in Conns : session'[ControlOf[k]] =
         IF ControlOf[k] = c THEN "over" ELSE session[ControlOf[k]]
  BY <1>1, <1>2, PassiveAssumption
<1>11. QueueInv(fm', inbox', ended', session', asked')
  BY <1>1, <1>10 DEF Inv, QueueInv, Types
<1>12. ReaderInv(fm', inbox', ended', reader') /\ Core(fm', Exact(fm', unstarted'))
  BY <1>1 DEF Inv
<1> QED
  BY <1>3, <1>9, <1>11, <1>12, InvNext

LEMMA ConnectionEndsInv ==
  ASSUME Inv, NEW k \in Conns, ConnectionEnds(k)
  PROVE  Inv'
<1>1. /\ ended' = ended \cup {k}
      /\ session[ControlOf[k]] \in {"stopped", "over", "closed"}
      /\ UNCHANGED <<fm, inbox, reader, session, asked, deleting, unstarted>>
  BY DEF ConnectionEnds, PhaseOf
<1>2. Types'
  BY <1>1 DEF Inv, Types
<1>3. QueueInv(fm', inbox', ended', session', asked')
  BY <1>1 DEF Inv, QueueInv
<1>4. ReaderInv(fm, inbox, ended', reader)
  <2>1. MoreToRead(inbox, inbox, ended', ended)
    BY <1>1 DEF MoreToRead
  <2>2. reader.ready \subseteq FDs /\ ReaderInv(fm, inbox, ended, reader)
        /\ fm \in Locked
        /\ \A f \in fm.set : fm.flow[f].entry => fm.flow[f].fd \in FDs
    BY DEF Inv, Types, SessionInv, Entries, Core
  <2> QED
    BY <2>1, <2>2, StillReadable
<1>5. /\ Core(fm', Exact(fm', unstarted'))
      /\ SessionInv(fm', session', asked', deleting')
      /\ ReaderInv(fm', inbox', ended', reader')
  BY <1>1, <1>4 DEF Inv
<1> QED
  BY <1>2, <1>3, <1>5, InvNext

LEMMA ActiveNodesInv ==
  ASSUME Inv, ActiveNodes
  PROVE  Inv'
  BY SendIdentifyInv, SendDataInv, SessionOverInv, ConnectionEndsInv
  DEF ActiveNodes

-----------------------------------------------------------------------------
(* What the main thread does.                                              *)

\* It leaves the sockets alone that the reception thread has polled, unless
\* it closes them and takes out the flows that used them.
MainKeeps(d, s) ==
  /\ \A f \in d.set : d.flow[f].entry =>
       f \in s.set /\ s.flow[f].entry /\ d.flow[f].fd = s.flow[f].fd
  /\ \A e \in DOMAIN d.new : d.new[e].entry => e \in DOMAIN s.new /\ s.new[e].entry
  /\ \A e \in FDs : d.open[e] = s.open[e] \/ d.open[e] = NoConn \/ s.open[e] = NoConn

SameMessages(box, old) ==
  \A k \in Conns : Protocol[k] # "UDP" => box[k] = old[k]

LEMMA MainReader ==
  ASSUME NEW s, NEW d, NEW X, NEW Y, Core(s, X), Core(d, Y), MainKeeps(d, s), NEW r,
         r.ready \subseteq FDs, r.pc # "handle",
         NEW old, NEW box, SameMessages(box, old), NEW en, ReaderInv(s, old, en, r)
  PROVE  ReaderInv(d, box, en, r)
<1>1. d.set \in SUBSET Flows /\ DOMAIN d.new \in SUBSET Sockets
  BY LockedFields DEF Core
<1>2. ASSUME NEW e \in FDs, CanRead(s, old, en, e),
             d.open[e] \in Conns, Protocol[d.open[e]] # "UDP"
      PROVE  CanRead(d, box, en, e)
  <2>1. d.open[e] = s.open[e]
    BY <1>2, Descriptors DEF MainKeeps, CanRead
  <2> QED
    BY <1>2, <2>1 DEF CanRead, SameMessages
<1>3. ASSUME r.pc = "lock", NEW f \in d.set, d.flow[f].entry, d.flow[f].fd \in r.ready
      PROVE  CanRead(d, box, en, d.flow[f].fd)
  <2>1. f \in s.set /\ s.flow[f].entry /\ d.flow[f].fd = s.flow[f].fd
    BY <1>3 DEF MainKeeps
  <2>2. CanRead(s, old, en, d.flow[f].fd)
    BY <1>3, <2>1 DEF ReaderInv
  <2>3. d.flow[f].fd \in FDs
    BY <1>3
  <2>4. d.open[d.flow[f].fd] = Conn[f] /\ Protocol[Conn[f]] # "UDP"
    BY <2>3 DEF Core, FlowSockets
  <2>5. Conn[f] \in Conns
    BY <1>1, ConstantsAssumption
  <2> QED
    BY <1>2, <2>2, <2>3, <2>4, <2>5
<1>4. ASSUME r.pc = "lock", NEW e \in DOMAIN d.new, d.new[e].entry, e \in r.ready
      PROVE  CanRead(d, box, en, e)
  <2>1. CanRead(s, old, en, e) /\ e \in FDs
    BY <1>4 DEF MainKeeps, ReaderInv
  <2>2. d.open[e] \in Conns /\ Protocol[d.open[e]] # "UDP"
    BY <2>1 DEF Core, NewSockets
  <2> QED
    BY <1>2, <2>1, <2>2
<1> QED
  BY <1>3, <1>4 DEF ReaderInv

\* A step of the main thread.
LEMMA MainStep ==
  ASSUME Inv, reader.pc # "handle", UNCHANGED <<ended, reader>>,
         Core(fm', Exact(fm', unstarted')), unstarted' \subseteq Flows,
         MainKeeps(fm', fm), SameMessages(inbox', inbox),
         inbox' \in [Conns -> Seq(Messages)],
         session' \in [Controls -> {"setup", "running", "stopped", "over", "closed"}],
         asked' \subseteq Flows, deleting' \in {NoFlow} \cup Flows,
         SessionInv(fm', session', asked', deleting'),
         QueueInv(fm', inbox', ended', session', asked')
  PROVE  Inv'
<1>1. Types'
  BY DEF Inv, Types
<1>2. ReaderInv(fm', inbox', ended, reader)
  <2> DEFINE d == fm'
             box == inbox'
             X == Exact(fm', unstarted')
  <2>1. /\ Core(fm, Exact(fm, unstarted)) /\ ReaderInv(fm, inbox, ended, reader)
        /\ reader.ready \subseteq FDs
    BY DEF Inv, Types
  <2>2. Core(d, X) /\ MainKeeps(d, fm) /\ SameMessages(box, inbox)
    OBVIOUS
  <2> HIDE DEF d, box, X
  <2>3. ReaderInv(d, box, ended, reader)
    BY <2>1, <2>2, MainReader
  <2> QED
    BY <2>3 DEF d, box
<1>3. ReaderInv(fm', inbox', ended', reader')
  BY <1>2
<1> QED
  BY <1>1, <1>3, InvNext

LEMMA NextFDIsFree ==
  ASSUME NEW s, FreeFDs(s) # {}
  PROVE  NextFD(s) \in FreeFDs(s)
<1>1. FreeFDs(s) \in SUBSET Nat
  BY ConstantsAssumption DEF FreeFDs, FDs
<1>2. \E fd \in FreeFDs(s) : \A e \in FreeFDs(s) : fd <= e
  BY <1>1, LeastNumberPrinciple
<1> QED
  BY <1>2 DEF NextFD

LEMMA FreeSocket ==
  ASSUME NEW s, NEW X, Core(s, X), NEW fd \in FDs, s.open[fd] = NoConn
  PROVE  /\ fd \notin DOMAIN s.new /\ Users(s, fd) = {}
         /\ fd \in X => s.uses[fd] = 0
<1>1. fd \notin DOMAIN s.new
  BY Descriptors DEF Core, NewSockets
<1>2. Users(s, fd) = {}
  <2> SUFFICES ASSUME NEW f \in Flows, f \in s.set, s.flow[f].fd = fd PROVE FALSE
    BY DEF Users
  <2>1. s.open[fd] = Conn[f]
    BY DEF Core, FlowSockets
  <2> QED
    BY <2>1, ConstantsAssumption
<1>3. fd \in X => s.uses[fd] = 0 + Cardinality(Users(s, fd))
  BY <1>1 DEF Core, CountedUses, UseCount, Sockets
<1> QED
  BY <1>1, <1>2, <1>3, UsersAreFinite

\* The state after accept().
WithNew(s, k, fd) ==
  [s EXCEPT !.open[fd] = k, !.uses[fd] = 1,
            !.new = [e \in DOMAIN @ \cup {fd} |-> IF e = fd THEN NewSocket ELSE @[e]]]

LEMMA WithNewFields ==
  ASSUME NEW s, NEW X, Core(s, X), NEW k \in Conns, NEW fd \in FDs
  PROVE  LET d == WithNew(s, k, fd) IN
         /\ d \in Locked /\ d.set = s.set /\ d.flow = s.flow
         /\ d.open = [s.open EXCEPT ![fd] = k] /\ d.uses = [s.uses EXCEPT ![fd] = 1]
         /\ d.new = [e \in DOMAIN s.new \cup {fd} |->
                       IF e = fd THEN NewSocket ELSE s.new[e]]
         /\ d.failed = s.failed
<1> DEFINE n == [e \in DOMAIN s.new \cup {fd} |->
                   IF e = fd THEN NewSocket ELSE s.new[e]]
           o == [s.open EXCEPT ![fd] = k]
           u == [s.uses EXCEPT ![fd] = 1]
<1>1. s \in Locked /\ fd \in Sockets
  BY DEF Core, Sockets
<1>2. /\ o \in [FDs -> {NoConn} \cup Conns] /\ u \in [Sockets -> Nat]
      /\ DOMAIN s.new \cup {fd} \in SUBSET Sockets
  BY <1>1, LockedFields
<1>3. NewSocket \in Unidentified
  BY DEF NewSocket, Unidentified
<1>4. n \in [DOMAIN s.new \cup {fd} -> Unidentified]
  BY <1>1, <1>3, LockedFields
<1>5. n \in UNION {[D -> Unidentified] : D \in SUBSET Sockets}
  BY <1>2, <1>4
<1>6. WithNew(s, k, fd) = [[[s EXCEPT !.open = o] EXCEPT !.uses = u] EXCEPT !.new = n]
  BY <1>1 DEF WithNew, Locked
<1> HIDE DEF n, o, u
<1>7. LET d == [[[s EXCEPT !.open = o] EXCEPT !.uses = u] EXCEPT !.new = n] IN
      /\ d \in Locked /\ d.set = s.set /\ d.flow = s.flow
      /\ d.open = o /\ d.uses = u /\ d.new = n /\ d.failed = s.failed
  BY <1>1, <1>2, <1>5 DEF Locked
<1> QED
  BY <1>6, <1>7 DEF n, o, u

LEMMA WithNewCore ==
  ASSUME NEW s, NEW X, Core(s, X), NEW k \in Conns, Protocol[k] # "UDP",
         \A e \in FDs : s.open[e] # k, NEW fd \in FDs, s.open[fd] = NoConn
  PROVE  /\ Core(WithNew(s, k, fd), X \cup {fd}) /\ MainKeeps(WithNew(s, k, fd), s)
         /\ \A e \in FDs \ {fd} : WithNew(s, k, fd).open[e] = s.open[e]
         /\ WithNew(s, k, fd).set = s.set /\ WithNew(s, k, fd).flow = s.flow
<1> DEFINE d == WithNew(s, k, fd)
<1>1. /\ d \in Locked /\ d.set = s.set /\ d.flow = s.flow
      /\ d.open = [s.open EXCEPT ![fd] = k] /\ d.uses = [s.uses EXCEPT ![fd] = 1]
      /\ d.new = [e \in DOMAIN s.new \cup {fd} |->
                    IF e = fd THEN NewSocket ELSE s.new[e]]
      /\ d.failed = s.failed
  BY WithNewFields
<1> HIDE DEF d
<1>2. /\ s.open \in [FDs -> {NoConn} \cup Conns] /\ s.uses \in [Sockets -> Nat]
      /\ fd \in Sockets
  BY LockedFields DEF Core, Sockets
<1>3. fd \notin DOMAIN s.new /\ Users(s, fd) = {} /\ Cardinality(Users(s, fd)) = 0
  BY FreeSocket, FS_EmptySet
<1>4. /\ DOMAIN d.new = DOMAIN s.new \cup {fd}
      /\ \A e \in DOMAIN s.new : d.new[e] = s.new[e]
      /\ d.new[fd] = NewSocket
  BY <1>1, <1>3
<1>5. /\ d.open[fd] = k /\ \A e \in FDs \ {fd} : d.open[e] = s.open[e]
      /\ d.uses[fd] = 1 /\ \A e \in Sockets \ {fd} : d.uses[e] = s.uses[e]
  BY <1>1, <1>2
<1>6. \A e : Users(d, e) = Users(s, e)
  BY <1>1 DEF Users
<1>7. CountedUses(d, X \cup {fd})
  <2> SUFFICES ASSUME NEW e \in Sockets
               PROVE  /\ d.uses[e] >= UseCount(d, e)
                      /\ e \in X \cup {fd} => d.uses[e] = UseCount(d, e)
    BY DEF CountedUses
  <2>1. CASE e = fd
    BY <1>3, <1>4, <1>5, <1>6, <2>1 DEF UseCount
  <2>2. CASE e # fd
    <3>1. /\ s.uses[e] >= UseCount(s, e)
          /\ e \in X => s.uses[e] = UseCount(s, e)
      BY DEF Core, CountedUses
    <3> QED
      BY <1>4, <1>5, <1>6, <2>2, <3>1 DEF UseCount
  <2> QED
    BY <2>1, <2>2
<1>8. FlowSockets(d)
  <2>1. \A g \in s.set : s.flow[g].fd # fd
    BY <1>3, LockedFields DEF Users, Core
  <2> QED
    BY <1>1, <1>4, <1>5, <2>1 DEF Core, FlowSockets
<1>9. NewSockets(d)
  BY <1>4, <1>5 DEF Core, NewSockets, NewSocket
<1>10. OneSocketEach(d)
  BY <1>5 DEF Core, OneSocketEach
<1>11. MainKeeps(d, s)
  BY <1>1, <1>4, <1>5 DEF MainKeeps, NewSocket
<1>12. Core(d, X \cup {fd})
  BY <1>1, <1>4, <1>7, <1>8, <1>9, <1>10 DEF Core
<1> QED
  BY <1>1, <1>5, <1>11, <1>12 DEF d

\* The descriptor of a connection just accepted is one that the MessageReader
\* still knows: that is possible only when uses of it were left behind.
LEMMA AcceptAborts ==
  ASSUME Inv, NEW k \in Conns, Accept(k), fm.uses[NextFD(fm)] > 0
  PROVE  Aborted'
<1>1. /\ reader.pc # "handle" /\ FreeFDs(fm) # {}
      /\ fm' = [fm EXCEPT !.failed = @ \cup {"accept"}]
      /\ UNCHANGED <<inbox, ended, reader, session, asked, deleting, unstarted>>
  BY DEF Accept, Main, MainHasLock
<1>2. fm \in Locked /\ fm.failed = {} /\ FlowSockets(fm)
  BY DEF Inv, Core
<1>3. /\ fm' \in Locked /\ fm'.failed = {"accept"} /\ fm'.set = fm.set
      /\ fm'.flow = fm.flow /\ fm'.open = fm.open /\ fm'.new = fm.new
  BY <1>1, <1>2 DEF Locked
<1>4. FlowSockets(fm)'
  BY <1>2, <1>3 DEF FlowSockets
<1>5. Shared(unstarted)
  <2> SUFFICES ASSUME ~Shared(unstarted) PROVE FALSE
    OBVIOUS
  <2> DEFINE fd == NextFD(fm)
  <2>1. fd \in FDs /\ fm.open[fd] = NoConn
    BY <1>1, NextFDIsFree DEF FreeFDs
  <2>2. fd \in Exact(fm, unstarted)
    BY <2>1 DEF Exact
  <2>3. Core(fm, Exact(fm, unstarted)) /\ fm.uses[fd] > 0
    BY DEF Inv
  <2> HIDE DEF fd
  <2> QED
    BY <2>1, <2>2, <2>3, FreeSocket
<1>6. Types' /\ reader'.todo = {}
  BY <1>1 DEF Inv, Types, ReaderInv
<1>7. Shared(unstarted)'
  BY <1>1, <1>5 DEF Shared
<1> QED
  BY <1>3, <1>4, <1>6, <1>7 DEF Aborted

LEMMA AcceptInv ==
  ASSUME Inv, NEW k \in Conns, Accept(k), ~(fm.uses[NextFD(fm)] > 0)
  PROVE  Inv'
<1> DEFINE fd == NextFD(fm)
           d  == WithNew(fm, k, fd)
<1>1. /\ reader.pc # "handle" /\ deleting = NoFlow /\ Protocol[k] # "UDP"
      /\ \A e \in FDs : fm.open[e] # k
      /\ UNCHANGED <<inbox, ended, reader, session, asked, deleting, unstarted>>
      /\ FreeFDs(fm) # {}
  BY DEF Accept, Main, MainHasLock, Accepted
<1>2. fd \in FDs /\ fm.open[fd] = NoConn
  BY <1>1, NextFDIsFree DEF FreeFDs
<1>3. Core(fm, Exact(fm, unstarted))
  BY DEF Inv
<1>4. fm' = d
  BY DEF Accept, WithNew
<1> HIDE DEF fd
<1>5. Core(d, Exact(d, unstarted)) /\ MainKeeps(d, fm)
  <2>1. /\ Core(d, Exact(fm, unstarted) \cup {fd}) /\ MainKeeps(d, fm)
        /\ \A e \in FDs \ {fd} : d.open[e] = fm.open[e]
    BY <1>1, <1>2, <1>3, WithNewCore
  <2>2. Exact(d, unstarted) \subseteq Exact(fm, unstarted) \cup {fd}
    BY <2>1 DEF Exact
  <2> QED
    BY <2>1, <2>2, FewerExact
<1>6. d.set = fm.set /\ d.flow = fm.flow
  BY <1>1, <1>2, <1>3, WithNewCore
<1> HIDE DEF d
<1>7. SessionInv(d, session, asked, deleting)
  <2>1. Gone(d, session, deleting)
    BY <1>1, <1>6, ConstantsAssumption DEF Inv, SessionInv, Gone, NoFlow
  <2> QED
    BY <1>6, <2>1
    DEF Inv, SessionInv, Asked, Started, Polled, Beside, Polls, Entries, BoundIn,
        InOrder, Uniform
<1>8. QueueInv(d, inbox, ended, session, asked)
  BY <1>6 DEF Inv, QueueInv, BoundIn
<1>9. SameMessages(inbox', inbox)
  BY <1>1 DEF SameMessages
<1> QED
  BY <1>1, <1>4, <1>5, <1>7, <1>8, <1>9, MainStep DEF Inv, Types

LEMMA HandleAddFlowInv ==
  ASSUME Inv, NEW f \in Flows, HandleAddFlow(f)
  PROVE  Inv'
<1> DEFINE d == AddFlow(fm, f)
<1>1. /\ reader.pc # "handle" /\ deleting = NoFlow
      /\ session[ControlOf[Conn[f]]] = "setup" /\ f \notin asked
      /\ asked' = asked \cup {f} /\ fm' = d
      /\ \A g \in Earlier(f) : BoundIn(fm, g)
      /\ UNCHANGED <<inbox, ended, reader, session, deleting, unstarted>>
  BY DEF HandleAddFlow, Main, MainHasLock, PhaseOf, Bound, BoundIn
<1>2. /\ Core(fm, Exact(fm, unstarted)) /\ f \notin fm.set /\ fm.set \in SUBSET Flows
      /\ fm.flow \in [Flows -> FlowStates]
  BY <1>1, LockedFields DEF Inv, SessionInv, Asked, Core
<1>3. Core(d, Exact(fm, unstarted))
  BY <1>2, AddFlowCore
<1>4. /\ d.set = fm.set \cup {f} /\ d.new = fm.new /\ d.open = fm.open
      /\ d.flow = [fm.flow EXCEPT ![f] = NewFlow]
  BY <1>2, AddFlowFields DEF Core
<1> HIDE DEF d
<1>5. /\ \A g \in Flows \ {f} : d.flow[g] = fm.flow[g]
      /\ ~d.flow[f].running /\ ~d.flow[f].entry /\ ~BoundIn(d, f)
  BY <1>2, <1>4, NewFlowType DEF BoundIn
<1>6. MainKeeps(d, fm) /\ SameMessages(inbox', inbox)
  BY <1>1, <1>2, <1>4, <1>5 DEF MainKeeps, SameMessages
<1>7. asked \subseteq Flows
  BY DEF Inv, Types
<1>8. SessionInv(d, session, asked', deleting)
  <2>1. Asked(d, session, asked')
    BY <1>1, <1>4 DEF Inv, SessionInv, Asked, Begun
  <2>2. Gone(d, session, deleting)
    BY <1>1, <1>4, <1>5, ConstantsAssumption DEF Inv, SessionInv, Gone, NoFlow
  <2>3. Started(d, session)
    BY <1>1, <1>2, <1>4, <1>5 DEF Inv, SessionInv, Started, Begun, BoundIn
  <2>4. Polled(d, session, asked')
    <3>1. Beside(d, session, asked', f)
      BY <1>1, <1>4, <1>7 DEF Inv, SessionInv, Asked, Beside, FlowsOf
    <3>2. ASSUME NEW g \in fm.set, g # f, Polls(d, g)
          PROVE  Beside(d, session, asked', g)
      <4>1. Polls(fm, g)
        BY <1>2, <1>5, <3>2 DEF Polls
      <4>2. Beside(fm, session, asked, g)
        BY <4>1 DEF Inv, SessionInv, Polled
      <4> QED
        BY <1>1, <1>4, <4>2 DEF Beside
    <3> QED
      BY <1>4, <3>1, <3>2 DEF Polled
  <2>5. Entries(d)
    BY <1>2, <1>4, <1>5 DEF Inv, SessionInv, Entries
  <2>6. InOrder(d, asked')
    <3>1. ASSUME NEW g \in Earlier(f)
          PROVE  g \in asked /\ BoundIn(d, g)
      <4>1. g \in Flows /\ g # f /\ BoundIn(fm, g)
        BY <1>1, ConstantsAssumption DEF Earlier, FlowsOf
      <4>2. g \in fm.set
        BY <1>1, <4>1, NewFlowType, ConstantsAssumption
        DEF Inv, SessionInv, Gone, BoundIn, NoFlow
      <4> QED
        BY <1>5, <4>1, <4>2 DEF Inv, SessionInv, Asked, BoundIn
    <3>2. ASSUME NEW h \in asked, NEW g \in Earlier(h)
          PROVE  g \in asked /\ (g \in d.set => BoundIn(d, g))
      <4>1. g \in asked /\ (g \in fm.set => BoundIn(fm, g))
        BY DEF Inv, SessionInv, InOrder
      <4> QED
        BY <1>1, <1>4, <1>5, <1>7, <4>1 DEF BoundIn
    <3> QED
      BY <1>1, <3>1, <3>2 DEF InOrder
  <2>7. Uniform(d, session)
    BY <1>1, <1>2, <1>4, <1>5 DEF Inv, SessionInv, Uniform
  <2> QED
    BY <2>1, <2>2, <2>3, <2>4, <2>5, <2>6, <2>7 DEF SessionInv
<1>9. QueueInv(d, inbox, ended, session, asked')
  <2>1. \A g \in asked : BoundIn(fm, g) => BoundIn(d, g)
    BY <1>1, <1>5, <1>7 DEF BoundIn
  <2>2. \A k \in Conns : \A i \in DOMAIN inbox[k] : inbox[k][i].flow \in asked
    BY DEF Inv, QueueInv
  <2>3. \A g \in asked : g \in d.set => g \in fm.set
    BY <1>1, <1>4
  <2> QED
    BY <1>1, <2>1, <2>2, <2>3 DEF Inv, QueueInv
<1>10. asked' \subseteq Flows
  BY <1>1, <1>7
<1>11. Core(fm', Exact(fm', unstarted'))
  BY <1>1, <1>3, <1>4, StillExact
<1> QED
  BY <1>1, <1>6, <1>8, <1>9, <1>10, <1>11, MainStep DEF Inv, Types

LEMMA QuietKeeps ==
  ASSUME NEW s \in Locked, NEW d, Quiet(d, s), d.new = s.new, d.open = s.open,
         Entries(s)
  PROVE  MainKeeps(d, s)
<1>1. ASSUME NEW f \in d.set, d.flow[f].entry
      PROVE  f \in s.set /\ s.flow[f].entry /\ d.flow[f].fd = s.flow[f].fd
  <2>1. f \in s.set /\ s.flow[f].entry
    BY <1>1 DEF Quiet
  <2>2. BoundIn(s, f)
    BY <2>1, Descriptors DEF Entries, BoundIn, Sockets
  <2> QED
    BY <2>1, <2>2 DEF Quiet
<1> QED
  BY <1>1 DEF MainKeeps

LEMMA HandleUDPInv ==
  ASSUME Inv, NEW k \in Conns, HandleUDP(k)
  PROVE  Inv'
<1> DEFINE m == Head(inbox[k])
           d == HandleData(fm, UDPSocket, m)
<1>1. /\ reader.pc # "handle" /\ Protocol[k] = "UDP" /\ inbox[k] # <<>>
      /\ fm' = d /\ inbox' = [inbox EXCEPT ![k] = Tail(@)]
      /\ UNCHANGED <<ended, reader, session, asked, deleting, unstarted>>
  BY DEF HandleUDP, Main, MainHasLock
<1>2. /\ Core(fm, Exact(fm, unstarted)) /\ fm \in Locked
      /\ inbox \in [Conns -> Seq(Messages)]
      /\ UDPSocket \in Sockets /\ UDPSocket \notin FDs
  BY Descriptors DEF Inv, Core, Types, Sockets
<1>3. m \in Messages /\ m = inbox[k][1] /\ 1 \in DOMAIN inbox[k]
  BY <1>1, <1>2
<1> HIDE DEF m
<1>4. m.flow \in Flows /\ m.type # "end" /\ m \in Messages \cup {End}
  BY <1>3 DEF Messages
<1>5. Conn[m.flow] = k
  BY <1>3 DEF Inv, QueueInv
<1>6. RightIdentify(fm, UDPSocket, m)
  BY <1>2, <1>4 DEF RightIdentify, Inv, SessionInv, Started
<1>7. \/ d = fm
      \/ /\ m.type = "identify" /\ m.flow \in fm.set
         /\ ~BoundIn(fm, m.flow) /\ d = Bind(fm, m.flow, UDPSocket)
      \/ m.type = "end" /\ InputOff(d, fm)
  BY <1>1, <1>2, <1>4, <1>5, <1>6, HandleDataOutcomes
<1> HIDE DEF d
<1>8. /\ Core(d, Exact(fm, unstarted)) /\ Quiet(d, fm)
      /\ d.open = fm.open /\ d.new = fm.new
  <2>1. CASE d = fm
    BY <1>2, <2>1 DEF Quiet
  <2>2. CASE /\ m.flow \in fm.set
             /\ ~BoundIn(fm, m.flow) /\ d = Bind(fm, m.flow, UDPSocket)
    <3>1. Core(d, Exact(fm, unstarted))
      BY <1>1, <1>2, <1>4, <1>5, <2>2, BindCore
    <3>2. Quiet(d, fm) /\ d.open = fm.open /\ d.new = fm.new
      BY <1>2, <2>2, BoundQuiet
    <3> QED
      BY <3>1, <3>2
  <2> QED
    BY <1>4, <1>7, <2>1, <2>2
<1>9. /\ inbox' \in [Conns -> Seq(Messages)] /\ FewerMessages(inbox', inbox)
      /\ \A e \in Conns \ {k} : inbox'[e] = inbox[e]
  <2>1. inbox' = Consumed(inbox, k)
    BY <1>1 DEF Consumed
  <2> QED
    BY <1>2, <2>1, ConsumeFields
<1>10. SessionInv(d, session, asked, deleting)
  BY <1>2, <1>8, QuietSession DEF Inv, Core
<1>11. QueueInv(d, inbox', ended, session, asked)
  BY <1>2, <1>8, <1>9, QuietQueue DEF Inv, Core
<1>12. MainKeeps(d, fm)
  BY <1>2, <1>8, QuietKeeps DEF Inv, SessionInv
<1>13. SameMessages(inbox', inbox)
  BY <1>1, <1>9 DEF SameMessages
<1>14. Core(fm', Exact(fm', unstarted'))
  BY <1>1, <1>8, StillExact
<1> QED
  BY <1>1, <1>9, <1>10, <1>11, <1>12, <1>13, <1>14, MainStep DEF Inv, Types

\* The phase of one active node changes.
Phases(ph, c, p) ==
  /\ \A f \in Flows : ph[ControlOf[Conn[f]]] =
       IF f \in FlowsOf(c) THEN p ELSE session[ControlOf[Conn[f]]]
  /\ \A k \in Conns : ph[ControlOf[k]] =
       IF ControlOf[k] = c THEN p ELSE session[ControlOf[k]]

LEMMA PhaseChange ==
  ASSUME Types, NEW c \in Controls, NEW p
  PROVE  Phases([session EXCEPT ![c] = p], c, p)
<1>1. session \in [Controls -> {"setup", "running", "stopped", "over", "closed"}]
  BY DEF Types
<1>2. \A f \in Flows : ControlOf[Conn[f]] \in Controls
  BY ControlTypes
<1>3. \A k \in Conns : ControlOf[k] \in Controls
  BY PassiveAssumption
<1> QED
  BY <1>1, <1>2, <1>3 DEF FlowsOf, Phases

LEMMA HandleStartInv ==
  ASSUME Inv, NEW c \in Controls, HandleStart(c)
  PROVE  Inv'
<1> DEFINE M == fm.set \cap FlowsOf(c)
           d == Activate(fm, M)
           ph == [session EXCEPT ![c] = "running"]
<1>1. /\ reader.pc # "handle" /\ deleting = NoFlow
      /\ session[c] = "setup" /\ session' = ph
      /\ FlowsOf(c) \subseteq asked /\ \A f \in FlowsOf(c) : BoundIn(fm, f)
      /\ fm' = d /\ UNCHANGED <<inbox, ended, reader, asked, deleting, unstarted>>
  BY DEF HandleStart, Main, MainHasLock, Bound, BoundIn
<1>2. /\ Core(fm, Exact(fm, unstarted)) /\ fm \in Locked /\ fm.set \in SUBSET Flows
      /\ asked \subseteq Flows /\ Types
      /\ session \in [Controls -> {"setup", "running", "stopped", "over", "closed"}]
  BY LockedFields DEF Inv, Core, Types
<1>3. FlowsOf(c) \subseteq fm.set
  <2>1. \A f \in FlowsOf(c) : f \in asked /\ session[ControlOf[Conn[f]]] = "setup"
    BY <1>1 DEF FlowsOf
  <2> QED
    BY <2>1 DEF Inv, SessionInv, Asked, Begun
<1>4. M = FlowsOf(c)
  BY <1>3
<1>5. /\ FlowsOnly(d, fm) /\ d.new = fm.new
      /\ \A f \in Flows : d.flow[f].entry = fm.flow[f].entry
      /\ \A f \in Flows \ M : d.flow[f] = fm.flow[f]
      /\ \A f \in M \cap Flows : BoundIn(fm, f) => d.flow[f].running
  BY <1>2, ActivateFields
<1>6. Core(d, Exact(fm, unstarted))
  BY <1>2, <1>5, FlowsOnlyCore
<1>7. /\ \A f \in Flows : ph[ControlOf[Conn[f]]] =
           IF f \in FlowsOf(c) THEN "running" ELSE session[ControlOf[Conn[f]]]
      /\ \A k \in Conns : ph[ControlOf[k]] =
           IF ControlOf[k] = c THEN "running" ELSE session[ControlOf[k]]
  <2>1. Phases(ph, c, "running")
    BY <1>2, PhaseChange
  <2> QED
    BY <2>1 DEF Phases
<1>8. ph \in [Controls -> {"setup", "running", "stopped", "over", "closed"}]
  BY <1>2
<1> HIDE DEF d, ph, M
<1>9. /\ d.set = fm.set /\ d.open = fm.open
      /\ \A f \in Flows : BoundIn(d, f) <=> BoundIn(fm, f)
      /\ \A f \in Flows : d.flow[f].fd = fm.flow[f].fd
  BY <1>5 DEF FlowsOnly, BoundIn
<1>10. SessionInv(d, ph, asked, deleting)
  <2>1. Asked(d, ph, asked)
    BY <1>1, <1>2, <1>3, <1>7, <1>9 DEF Inv, SessionInv, Asked, Begun
  <2>2. Gone(d, ph, deleting)
    BY <1>1, <1>3, <1>4, <1>5, <1>9, ConstantsAssumption
    DEF Inv, SessionInv, Gone, NoFlow
  <2>3. Started(d, ph)
    <3> SUFFICES ASSUME NEW f \in d.set
                 PROVE  /\ ph[ControlOf[Conn[f]]] = "setup" => ~d.flow[f].running
                        /\ Begun(ph, f) => d.flow[f].running
                        /\ d.flow[f].running => BoundIn(d, f)
                        /\ ph[ControlOf[Conn[f]]] # "closed"
      BY DEF Started
    <3>1. CASE f \in FlowsOf(c)
      BY <1>1, <1>2, <1>4, <1>5, <1>7, <1>9, <3>1
    <3>2. CASE f \notin FlowsOf(c)
      BY <1>2, <1>4, <1>5, <1>7, <1>9, <3>2 DEF Inv, SessionInv, Started, Begun
    <3> QED
      BY <3>1, <3>2
  <2>4. Polled(d, ph, asked)
    <3> SUFFICES ASSUME NEW f \in d.set, Polls(d, f)
                 PROVE  Beside(d, ph, asked, f)
      BY DEF Polled
    <3>1. CASE f \in FlowsOf(c)
      BY <1>2, <1>3, <1>7, <1>9, <3>1 DEF FlowsOf, Beside
    <3>2. CASE f \notin FlowsOf(c)
      <4>1. Polls(fm, f)
        BY <1>2, <1>4, <1>5, <1>9, <3>2 DEF Polls
      <4> QED
        BY <1>2, <1>7, <1>9, <3>2, <4>1 DEF Inv, SessionInv, Polled, Beside
    <3> QED
      BY <3>1, <3>2
  <2>5. Entries(d)
    BY <1>2, <1>5, <1>9 DEF Inv, SessionInv, Entries
  <2>6. InOrder(d, asked)
    BY <1>2, <1>9 DEF Inv, SessionInv, InOrder
  <2>7. Uniform(d, ph)
    <3> SUFFICES ASSUME NEW f \in fm.set, NEW g \in fm.set,
                        ControlOf[Conn[f]] = ControlOf[Conn[g]],
                        ph[ControlOf[Conn[f]]] = "over"
                 PROVE  d.flow[f].running = d.flow[g].running
      BY <1>9 DEF Uniform
    <3>1. f \in Flows \ FlowsOf(c) /\ g \in Flows \ FlowsOf(c)
      BY <1>2, <1>7 DEF FlowsOf
    <3>2. session[ControlOf[Conn[f]]] = "over"
      BY <1>7, <3>1
    <3> QED
      BY <1>4, <1>5, <3>1, <3>2 DEF Inv, SessionInv, Uniform
  <2> QED
    BY <2>1, <2>2, <2>3, <2>4, <2>5, <2>6, <2>7 DEF SessionInv
<1>11. QueueInv(d, inbox, ended, ph, asked)
  <2>1. \A f \in asked : BoundIn(fm, f) => BoundIn(d, f)
    BY <1>2, <1>9
  <2>2. \A k \in Conns : \A i \in DOMAIN inbox[k] : inbox[k][i].flow \in asked
    BY DEF Inv, QueueInv
  <2>3. \A k \in ended : k \in Conns
    BY DEF Inv, Types
  <2> QED
    BY <1>1, <1>7, <1>9, <2>1, <2>2, <2>3 DEF Inv, QueueInv
<1>12. MainKeeps(d, fm) /\ SameMessages(inbox', inbox)
  BY <1>1, <1>2, <1>5, <1>9 DEF MainKeeps, SameMessages
<1>13. Core(fm', Exact(fm', unstarted'))
  BY <1>1, <1>6, <1>9, StillExact
<1> QED
  BY <1>1, <1>2, <1>8, <1>10, <1>11, <1>12, <1>13, MainStep DEF Inv, Types

LEMMA HandleStopInv ==
  ASSUME Inv, NEW c \in Controls, HandleStop(c)
  PROVE  Inv'
<1> DEFINE M == fm.set \cap FlowsOf(c)
           d == StopAsync(fm, M)
           ph == [session EXCEPT ![c] = "stopped"]
<1>1. /\ reader.pc # "handle" /\ session[c] = "running" /\ session' = ph
      /\ fm' = d /\ UNCHANGED <<inbox, ended, reader, asked, deleting, unstarted>>
  BY DEF HandleStop, Main, MainHasLock
<1>2. /\ Core(fm, Exact(fm, unstarted)) /\ fm \in Locked /\ fm.set \in SUBSET Flows
      /\ asked \subseteq Flows /\ Types
      /\ session \in [Controls -> {"setup", "running", "stopped", "over", "closed"}]
  BY LockedFields DEF Inv, Core, Types
<1>3. /\ FlowsOnly(d, fm) /\ d.new = fm.new
      /\ \A f \in Flows : d.flow[f] = IF f \in M /\ fm.flow[f].running
                                      THEN Unpolled(fm.flow[f]) ELSE fm.flow[f]
      /\ \A f \in Flows : d.flow[f].running = fm.flow[f].running
  BY <1>2, StopFields
<1>4. Core(d, Exact(fm, unstarted))
  BY <1>2, <1>3, FlowsOnlyCore
<1>5. /\ \A f \in Flows : ph[ControlOf[Conn[f]]] =
           IF f \in FlowsOf(c) THEN "stopped" ELSE session[ControlOf[Conn[f]]]
      /\ \A k \in Conns : ph[ControlOf[k]] =
           IF ControlOf[k] = c THEN "stopped" ELSE session[ControlOf[k]]
  <2>1. Phases(ph, c, "stopped")
    BY <1>2, PhaseChange
  <2> QED
    BY <2>1 DEF Phases
<1>6. ph \in [Controls -> {"setup", "running", "stopped", "over", "closed"}]
  BY <1>2
<1> HIDE DEF d, ph
<1>7. /\ d.set = fm.set /\ d.open = fm.open
      /\ \A f \in Flows : BoundIn(d, f) <=> BoundIn(fm, f)
      /\ \A f \in Flows : d.flow[f].fd = fm.flow[f].fd
      /\ \A f \in Flows \ M : d.flow[f] = fm.flow[f]
  BY <1>3 DEF FlowsOnly, BoundIn
<1>8. \A f \in M : ~d.flow[f].input /\ ~d.flow[f].entry
  <2> SUFFICES ASSUME NEW f \in M PROVE ~d.flow[f].input /\ ~d.flow[f].entry
    OBVIOUS
  <2>1. f \in Flows /\ session[ControlOf[Conn[f]]] = "running"
    BY <1>1, <1>2 DEF FlowsOf
  <2>2. fm.flow[f].running
    BY <2>1 DEF Inv, SessionInv, Started, Begun
  <2>3. d.flow[f] = Unpolled(fm.flow[f]) /\ fm.flow[f] \in FlowStates
    BY <1>2, <1>3, <2>1, <2>2, FlowFields
  <2> QED
    BY <2>3 DEF Unpolled, FlowStates
<1>9. \A f \in Flows : d.flow[f].entry => fm.flow[f].entry
  BY <1>7, <1>8
<1>10. SessionInv(d, ph, asked, deleting)
  <2>1. Asked(d, ph, asked)
    BY <1>1, <1>2, <1>5, <1>7 DEF Inv, SessionInv, Asked, Begun, FlowsOf
  <2>2. Gone(d, ph, deleting)
    BY <1>3, <1>5, <1>7, <1>9 DEF Inv, SessionInv, Gone
  <2>3. Started(d, ph)
    <3> SUFFICES ASSUME NEW f \in d.set
                 PROVE  /\ ph[ControlOf[Conn[f]]] = "setup" => ~d.flow[f].running
                        /\ Begun(ph, f) => d.flow[f].running
                        /\ d.flow[f].running => BoundIn(d, f)
                        /\ ph[ControlOf[Conn[f]]] # "closed"
      BY DEF Started
    <3>1. f \in Flows /\ f \in fm.set
      BY <1>2, <1>7
    <3>2. /\ session[ControlOf[Conn[f]]] = "setup" => ~fm.flow[f].running
          /\ Begun(session, f) => fm.flow[f].running
          /\ fm.flow[f].running => BoundIn(fm, f)
          /\ session[ControlOf[Conn[f]]] # "closed"
      BY <3>1 DEF Inv, SessionInv, Started, Begun
    <3>3. f \in FlowsOf(c) => session[ControlOf[Conn[f]]] = "running"
      BY <1>1 DEF FlowsOf
    <3> QED
      BY <1>3, <1>5, <1>7, <3>1, <3>2, <3>3 DEF Begun
  <2>4. Polled(d, ph, asked)
    <3> SUFFICES ASSUME NEW f \in d.set, Polls(d, f)
                 PROVE  Beside(d, ph, asked, f)
      BY DEF Polled
    <3>1. f \in Flows \ FlowsOf(c) /\ f \in fm.set
      BY <1>2, <1>7, <1>8 DEF Polls
    <3>2. Polls(fm, f)
      BY <1>7, <3>1 DEF Polls
    <3> QED
      BY <1>5, <1>7, <3>1, <3>2 DEF Inv, SessionInv, Polled, Beside
  <2>5. Entries(d)
    BY <1>2, <1>7, <1>9 DEF Inv, SessionInv, Entries
  <2>6. InOrder(d, asked)
    BY <1>2, <1>7 DEF Inv, SessionInv, InOrder
  <2>7. Uniform(d, ph)
    <3> SUFFICES ASSUME NEW f \in fm.set, NEW g \in fm.set,
                        ControlOf[Conn[f]] = ControlOf[Conn[g]],
                        ph[ControlOf[Conn[f]]] = "over"
                 PROVE  d.flow[f].running = d.flow[g].running
      BY <1>7 DEF Uniform
    <3>1. f \in Flows \ FlowsOf(c) /\ g \in Flows \ FlowsOf(c)
      BY <1>2, <1>5 DEF FlowsOf
    <3>2. session[ControlOf[Conn[f]]] = "over"
      BY <1>5, <3>1
    <3> QED
      BY <1>2, <1>3, <3>1, <3>2 DEF Inv, SessionInv, Uniform
  <2> QED
    BY <2>1, <2>2, <2>3, <2>4, <2>5, <2>6, <2>7 DEF SessionInv
<1>11. QueueInv(d, inbox, ended, ph, asked)
  <2>1. \A f \in asked : BoundIn(fm, f) => BoundIn(d, f)
    BY <1>2, <1>7
  <2>2. \A k \in Conns : \A i \in DOMAIN inbox[k] : inbox[k][i].flow \in asked
    BY DEF Inv, QueueInv
  <2>3. \A k \in ended : k \in Conns
    BY DEF Inv, Types
  <2> QED
    BY <1>1, <1>5, <1>7, <2>1, <2>2, <2>3 DEF Inv, QueueInv
<1>12. MainKeeps(d, fm) /\ SameMessages(inbox', inbox)
  BY <1>1, <1>2, <1>3, <1>7, <1>9 DEF MainKeeps, SameMessages
<1>13. Core(fm', Exact(fm', unstarted'))
  BY <1>1, <1>4, <1>7, StillExact
<1> QED
  BY <1>1, <1>2, <1>6, <1>10, <1>11, <1>12, <1>13, MainStep DEF Inv, Types

LEMMA RemoveFlowCore ==
  ASSUME NEW s, NEW X, Core(s, X), NEW f \in s.set, s.flow[f].running, BoundIn(s, f)
  PROVE  /\ Core(RemoveFlow(s, f), X) /\ MainKeeps(RemoveFlow(s, f), s)
         /\ RemoveFlow(s, f).set = s.set \ {f} /\ RemoveFlow(s, f).new = s.new
         /\ \A g \in Flows \ {f} : RemoveFlow(s, f).flow[g] = s.flow[g]
         /\ RemoveFlow(s, f).flow[f].fd = s.flow[f].fd
         /\ ~RemoveFlow(s, f).flow[f].running /\ ~RemoveFlow(s, f).flow[f].entry
         /\ RemoveFlow(s, f).open = s.open
<1> DEFINE d  == RemoveFlow(s, f)
           fd == s.flow[f].fd
<1>1. /\ s \in Locked /\ s.set \in SUBSET Flows /\ s.flow \in [Flows -> FlowStates]
      /\ s.uses \in [Sockets -> Nat] /\ f \in Flows
  BY LockedFields DEF Core
<1>2. /\ d \in Locked /\ d.set = s.set \ {f}
      /\ d.new = s.new /\ d.open = s.open /\ d.failed = s.failed
      /\ d.flow = [s.flow EXCEPT ![f] = Removed(@)]
      /\ d.uses = Less(s.uses, fd)
  BY <1>1, RemoveFlowFields
<1> HIDE DEF d
<1>3. \A g \in Flows \ {f} : d.flow[g] = s.flow[g]
  BY <1>1, <1>2
<1>4. d.flow[f].fd = fd /\ ~d.flow[f].running /\ ~d.flow[f].entry
  <2>1. d.flow[f] = Removed(s.flow[f]) /\ s.flow[f] \in FlowStates
    BY <1>1, <1>2
  <2> QED
    BY <2>1, RemovedFields
<1>5. CountedUses(d, X)
  <2> SUFFICES ASSUME NEW e \in Sockets
               PROVE  /\ d.uses[e] >= UseCount(d, e)
                      /\ e \in X => d.uses[e] = UseCount(d, e)
    BY DEF CountedUses
  <2>1. /\ s.uses[e] >= UseCount(s, e)
        /\ e \in X => s.uses[e] = UseCount(s, e)
    BY DEF Core, CountedUses
  <2>2. Cardinality(Users(d, e)) =
          IF f \in s.set /\ s.flow[f].fd = e
          THEN Cardinality(Users(s, e)) - 1 ELSE Cardinality(Users(s, e))
    <3>1. SameFDs(d, s, s.set \ {f})
      BY <1>1, <1>3 DEF SameFDs
    <3> QED
      BY <1>1, <1>2, <3>1, OneUserLess
  <2>3. /\ Cardinality(Users(s, e)) \in Nat
        /\ fd = e => Cardinality(Users(s, e)) > 0
    BY <1>1, UsersAreFinite, UsedSocket
  <2> QED
    BY <1>1, <1>2, <2>1, <2>2, <2>3 DEF Less, UseCount
<1>6. FlowSockets(d) /\ NewSockets(d) /\ OneSocketEach(d)
  BY <1>1, <1>2, <1>3 DEF Core, FlowSockets, NewSockets, OneSocketEach
<1>7. Core(d, X)
  BY <1>2, <1>5, <1>6 DEF Core
<1>8. MainKeeps(d, s)
  BY <1>1, <1>2, <1>3 DEF MainKeeps
<1> QED
  BY <1>2, <1>3, <1>4, <1>7, <1>8 DEF d

LEMMA HandleRemoveFlowInv ==
  ASSUME Inv, NEW f \in Flows, HandleRemoveFlow(f)
  PROVE  Inv'
<1> DEFINE d == RemoveFlow(fm, f)
<1>1. /\ reader.pc # "handle" /\ deleting = NoFlow /\ f \in fm.set
      /\ session[ControlOf[Conn[f]]] = "stopped"
      /\ fm' = d /\ deleting' = f
      /\ UNCHANGED <<inbox, ended, reader, session, asked, unstarted>>
  BY DEF HandleRemoveFlow, Main, MainHasLock, PhaseOf
<1>2. /\ Core(fm, Exact(fm, unstarted)) /\ fm.set \in SUBSET Flows /\ Types
      /\ NoFlow \notin Flows /\ asked \subseteq Flows
  BY LockedFields, ConstantsAssumption DEF Inv, Core, Types, NoFlow
<1>3. fm.flow[f].running /\ BoundIn(fm, f)
  BY <1>1 DEF Inv, SessionInv, Started, Begun
<1>4. /\ Core(d, Exact(fm, unstarted)) /\ MainKeeps(d, fm)
      /\ d.set = fm.set \ {f} /\ d.new = fm.new /\ d.open = fm.open
      /\ \A g \in Flows \ {f} : d.flow[g] = fm.flow[g]
      /\ d.flow[f].fd = fm.flow[f].fd /\ ~d.flow[f].running /\ ~d.flow[f].entry
  BY <1>1, <1>2, <1>3, RemoveFlowCore
<1> HIDE DEF d
<1>5. SessionInv(d, session, asked, f)
  <2>1. Asked(d, session, asked)
    BY <1>1, <1>2, <1>4 DEF Inv, SessionInv, Asked, Begun
  <2>2. Gone(d, session, f)
    <3>1. \A g \in Flows : g \notin d.set /\ g # f => d.flow[g] = NewFlow
      BY <1>1, <1>2, <1>4 DEF Inv, SessionInv, Gone
    <3>2. /\ fm.flow[f].fd \in FDs => fm.flow[f].fd \notin DOMAIN fm.new
          /\ fm.flow[f].fd = UDPSocket => Protocol[Conn[f]] = "UDP"
      BY <1>1, <1>2 DEF Core, FlowSockets
    <3> QED
      BY <1>1, <1>4, <3>1, <3>2 DEF Gone
  <2>3. Started(d, session)
    BY <1>2, <1>4 DEF Inv, SessionInv, Started, Begun, BoundIn
  <2>4. Polled(d, session, asked)
    <3> SUFFICES ASSUME NEW g \in d.set, Polls(d, g)
                 PROVE  Beside(d, session, asked, g)
      BY DEF Polled
    <3>1. g \in fm.set /\ Polls(fm, g)
      BY <1>2, <1>4 DEF Polls
    <3>2. Beside(fm, session, asked, g)
      BY <3>1 DEF Inv, SessionInv, Polled
    <3>3. f \notin FlowsOf(ControlOf[Conn[g]])
      BY <1>1, <3>2 DEF FlowsOf, Beside
    <3> QED
      BY <1>4, <3>2, <3>3 DEF Beside
  <2>5. Entries(d)
    BY <1>2, <1>4 DEF Inv, SessionInv, Entries
  <2>6. InOrder(d, asked)
    BY <1>2, <1>4 DEF Inv, SessionInv, InOrder, BoundIn
  <2>7. Uniform(d, session)
    BY <1>2, <1>4 DEF Inv, SessionInv, Uniform
  <2> QED
    BY <2>1, <2>2, <2>3, <2>4, <2>5, <2>6, <2>7 DEF SessionInv
<1>6. QueueInv(d, inbox, ended, session, asked)
  <2>1. \A g \in asked : BoundIn(fm, g) => BoundIn(d, g)
    BY <1>2, <1>4 DEF BoundIn
  <2> QED
    BY <1>4, <2>1 DEF Inv, QueueInv
<1>7. SameMessages(inbox', inbox)
  BY <1>1 DEF SameMessages
<1>8. Core(fm', Exact(fm', unstarted'))
  BY <1>1, <1>4, StillExact
<1> QED
  BY <1>1, <1>2, <1>4, <1>5, <1>6, <1>7, <1>8, MainStep DEF Types

LEMMA DeleteFlowInv ==
  ASSUME Inv, DeleteFlow
  PROVE  Inv'
<1> DEFINE f == deleting
           d == Destroy(fm, f)
<1>1. /\ reader.pc # "handle" /\ f # NoFlow
      /\ fm' = d /\ deleting' = NoFlow
      /\ UNCHANGED <<inbox, ended, reader, session, asked, unstarted>>
  BY DEF DeleteFlow, MainHasLock
<1>2. /\ Core(fm, Exact(fm, unstarted)) /\ fm \in Locked
      /\ fm.set \in SUBSET Flows /\ Types
      /\ NoFlow \notin Flows /\ asked \subseteq Flows /\ f \in Flows
      /\ fm.flow \in [Flows -> FlowStates]
  BY <1>1, LockedFields, ConstantsAssumption DEF Inv, Core, Types, NoFlow
<1>3. /\ f \notin fm.set /\ session[ControlOf[Conn[f]]] \in {"stopped", "over"}
      /\ ~fm.flow[f].running
      /\ fm.flow[f].fd \in FDs => fm.flow[f].fd \notin DOMAIN fm.new
      /\ fm.flow[f].fd = UDPSocket => Protocol[Conn[f]] = "UDP"
  BY <1>2 DEF Inv, SessionInv, Gone
<1>4. Core(d, Exact(fm, unstarted))
  BY <1>2, <1>3, DestroyCore
<1>5. /\ d.set = fm.set \ {f} /\ d.new = fm.new
      /\ d.flow = [fm.flow EXCEPT ![f] = NewFlow]
      /\ d.open = IF Closes(fm, f) THEN Closed(fm.open, fm.flow[f].fd) ELSE fm.open
  BY <1>2, DestroyFields
<1> HIDE DEF d, f
<1>6. /\ d.set = fm.set /\ d.flow[f] = NewFlow
      /\ \A g \in Flows \ {f} : d.flow[g] = fm.flow[g]
      /\ \A e \in FDs : d.open[e] = fm.open[e] \/ d.open[e] = NoConn
  BY <1>2, <1>3, <1>5 DEF Closed
<1>7. SessionInv(d, session, asked, NoFlow)
  <2>1. Asked(d, session, asked)
    BY <1>6 DEF Inv, SessionInv, Asked
  <2>2. Gone(d, session, NoFlow)
    BY <1>2, <1>6 DEF Inv, SessionInv, Gone, f
  <2>3. Started(d, session)
    BY <1>2, <1>3, <1>6 DEF Inv, SessionInv, Started, BoundIn
  <2>4. Polled(d, session, asked)
    BY <1>2, <1>3, <1>6 DEF Inv, SessionInv, Polled, Beside, Polls
  <2>5. Entries(d)
    BY <1>2, <1>3, <1>6 DEF Inv, SessionInv, Entries
  <2>6. \A g \in fm.set : g # f /\ d.flow[g] = fm.flow[g]
    BY <1>2, <1>3, <1>6
  <2>7. InOrder(d, asked)
    BY <1>6, <2>6 DEF Inv, SessionInv, InOrder, BoundIn
  <2>8. Uniform(d, session)
    BY <1>6, <2>6 DEF Inv, SessionInv, Uniform
  <2> QED
    BY <2>1, <2>2, <2>3, <2>4, <2>5, <2>7, <2>8 DEF SessionInv
<1>8. QueueInv(d, inbox, ended, session, asked)
  <2>1. \A g \in Flows \ {f} : BoundIn(fm, g) => BoundIn(d, g)
    BY <1>6 DEF BoundIn
  <2> QED
    BY <1>2, <1>3, <1>6, <2>1 DEF Inv, QueueInv
<1>9. SameMessages(inbox', inbox) /\ MainKeeps(d, fm)
  BY <1>1, <1>2, <1>3, <1>5, <1>6 DEF SameMessages, MainKeeps
<1>10. Core(fm', Exact(fm', unstarted'))
  BY <1>1, <1>4, <1>6, StillExact
<1> QED
  BY <1>1, <1>2, <1>7, <1>8, <1>9, <1>10, MainStep DEF Types

\* The flows of an active node that has ended give back what uses they have,
\* for the sockets whose uses remain exact.
LEMMA OverGivesBack ==
  ASSUME Inv, NEW c \in Controls, session[c] = "over",
         NEW T, T = fm.set \cap FlowsOf(c),
         NEW un, un = unstarted \cup {f \in T : BoundIn(fm, f) /\ ~fm.flow[f].running}
  PROVE  /\ Exact(DestroyAll(fm, T), un) \subseteq Exact(fm, unstarted)
         /\ AfterDestroys(DestroyAll(fm, T), fm, T, Exact(DestroyAll(fm, T), un))
<1> DEFINE d == DestroyAll(fm, T)
           X == Exact(d, un)
<1>1. /\ Core(fm, Exact(fm, unstarted)) /\ fm \in Locked /\ fm.set \in SUBSET Flows
      /\ T \in SUBSET Flows /\ T \subseteq fm.set
  BY LockedFields DEF Inv, Core
<1>2. \A f \in fm.set : f \in T <=> ControlOf[Conn[f]] = c
  BY <1>1 DEF FlowsOf
<1>3. AfterDestroys(d, fm, T, {})
  <2>1. Core(fm, {})
    BY <1>1, FewerExact
  <2> QED
    BY <1>1, <2>1, DestroyAllFields
<1> HIDE DEF d
<1>4. /\ d.set = fm.set \ T /\ HandedOn(d, fm, T)
      /\ \A g \in fm.set \ T : d.flow[g] = fm.flow[g]
      /\ \A e \in FDs : d.open[e] = fm.open[e] \/ d.open[e] = NoConn
  BY <1>1, <1>3 DEF AfterDestroys
<1>5. \A f \in T : \A g \in fm.set :
        fm.flow[f].fd \in FDs /\ fm.flow[g].fd = fm.flow[f].fd =>
          g \in T /\ Conn[g] = Conn[f]
  BY <1>1, <1>2 DEF Core, FlowSockets
<1>6. \A f \in T : fm.flow[f].fd \in FDs => d.open[fm.flow[f].fd] = NoConn
  BY <1>4, <1>5 DEF HandedOn
<1>7. X \subseteq Exact(fm, unstarted)
  BY <1>4 DEF Exact, Shared, UDPLeft
<1>8. ASSUME NEW f \in T, fm.flow[f].fd \in X
      PROVE  GivesBack(fm, f)
  <2>1. CASE fm.flow[f].running
    BY <1>1, <2>1 DEF Inv, SessionInv, Started, GivesBack
  <2>2. CASE ~fm.flow[f].running /\ BoundIn(fm, f)
    <3>1. f \in un
      BY <2>2
    <3>2. fm.flow[f].fd \in Sockets
      BY <1>1, <2>2, FlowFields DEF BoundIn
    <3>3. fm.flow[f].fd # UDPSocket
      <4> SUFFICES ASSUME fm.flow[f].fd = UDPSocket PROVE FALSE
        OBVIOUS
      <4>1. Protocol[Conn[f]] = "UDP"
        BY <1>1 DEF Core, FlowSockets
      <4>2. UDPLeft(un)
        BY <3>1, <4>1 DEF UDPLeft
      <4> QED
        BY <1>8, <4>2, Descriptors DEF Exact
    <3>4. fm.flow[f].fd \in FDs /\ Protocol[Conn[f]] # "UDP"
      BY <1>1, <3>2, <3>3 DEF Sockets, Core, FlowSockets
    <3>5. ~Shared(un)
      BY <1>6, <1>8, <3>3, <3>4 DEF Exact
    <3>6. \A g \in fm.set \ {f} : fm.flow[g].fd # fm.flow[f].fd
      <4> SUFFICES ASSUME NEW g \in fm.set \ {f}, fm.flow[g].fd = fm.flow[f].fd
                   PROVE  FALSE
        OBVIOUS
      <4>1. g \in T /\ Conn[g] = Conn[f]
        BY <1>5, <3>4
      <4>2. fm.flow[g].running = fm.flow[f].running
        BY <1>1, <1>2, <4>1 DEF Inv, SessionInv, Uniform
      <4>3. g \in un
        BY <2>2, <4>1, <4>2 DEF BoundIn
      <4> QED
        BY <3>1, <3>5, <4>1, <4>3 DEF Shared
    <3>7. Closes(fm, f)
      BY <2>2, <3>4, <3>6 DEF Closes, DeleteWhenFinished, BoundIn
    <3> QED
      BY <2>2, <3>7 DEF GivesBack
  <2>3. CASE ~fm.flow[f].running /\ ~BoundIn(fm, f)
    BY <2>3 DEF GivesBack
  <2> QED
    BY <2>1, <2>2, <2>3
<1>9. Core(fm, X)
  BY <1>1, <1>7, FewerExact
<1>10. \A f \in T : fm.flow[f].fd \in X => GivesBack(fm, f)
  BY <1>8
<1> HIDE DEF X
<1>11. AfterDestroys(DestroyAll(fm, T), fm, T, X)
  BY <1>1, <1>9, <1>10, DestroyAllFields
<1> QED
  BY <1>7, <1>11 DEF X, d

LEMMA HandleControlAssocShutdownInv ==
  ASSUME Inv, NEW c \in Controls, HandleControlAssocShutdown(c)
  PROVE  Inv'
<1> DEFINE T  == fm.set \cap FlowsOf(c)
           un == unstarted \cup {f \in T : BoundIn(fm, f) /\ ~fm.flow[f].running}
           d  == DestroyAll(fm, T)
           ph == [session EXCEPT ![c] = "closed"]
<1>1. /\ reader.pc # "handle" /\ deleting = NoFlow
      /\ session[c] = "over" /\ session' = ph
      /\ fm' = d /\ unstarted' = un
      /\ UNCHANGED <<inbox, ended, reader, asked, deleting>>
  BY DEF HandleControlAssocShutdown, Main, MainHasLock, DestroyAll, Bound, BoundIn
<1>2. /\ Core(fm, Exact(fm, unstarted)) /\ fm \in Locked /\ fm.set \in SUBSET Flows
      /\ asked \subseteq Flows /\ Types /\ NoFlow \notin Flows
      /\ session \in [Controls -> {"setup", "running", "stopped", "over", "closed"}]
      /\ un \subseteq Flows
  BY LockedFields, ConstantsAssumption DEF Inv, Core, Types, NoFlow
<1>3. \A f \in fm.set : f \in T <=> f \in FlowsOf(c)
  OBVIOUS
<1> HIDE DEF un
<1>4. AfterDestroys(d, fm, T, Exact(d, un))
  BY <1>1, OverGivesBack DEF un
<1>5. /\ \A f \in Flows : ph[ControlOf[Conn[f]]] =
           IF f \in FlowsOf(c) THEN "closed" ELSE session[ControlOf[Conn[f]]]
      /\ \A k \in Conns : ph[ControlOf[k]] =
           IF ControlOf[k] = c THEN "closed" ELSE session[ControlOf[k]]
  <2>1. Phases(ph, c, "closed")
    BY <1>2, PhaseChange
  <2> QED
    BY <2>1 DEF Phases
<1>6. ph \in [Controls -> {"setup", "running", "stopped", "over", "closed"}]
  BY <1>2
<1> HIDE DEF d, ph
<1>7. /\ Core(d, Exact(d, un)) /\ d.set = fm.set \ FlowsOf(c) /\ d.new = fm.new
      /\ \A f \in Flows : d.flow[f] = IF f \in T THEN NewFlow ELSE fm.flow[f]
      /\ \A e \in FDs : d.open[e] = fm.open[e] \/ d.open[e] = NoConn
  BY <1>4 DEF AfterDestroys
<1>8. /\ \A f \in FlowsOf(c) : f \in Flows /\ session[ControlOf[Conn[f]]] = "over"
      /\ \A f \in d.set : f \in fm.set /\ f \notin FlowsOf(c)
                          /\ d.flow[f] = fm.flow[f]
  BY <1>1, <1>2, <1>7 DEF FlowsOf
<1> HIDE DEF T
<1>9. SessionInv(d, ph, asked, deleting)
  <2>1. Asked(d, ph, asked)
    BY <1>2, <1>5, <1>7, <1>8 DEF Inv, SessionInv, Asked, Begun
  <2>2. Gone(d, ph, deleting)
    BY <1>1, <1>2, <1>3, <1>7 DEF Inv, SessionInv, Gone
  <2>3. Started(d, ph)
    BY <1>2, <1>5, <1>7, <1>8 DEF Inv, SessionInv, Started, Begun, BoundIn
  <2>4. Polled(d, ph, asked)
    <3> SUFFICES ASSUME NEW f \in d.set, Polls(d, f)
                 PROVE  Beside(d, ph, asked, f)
      BY DEF Polled
    <3>1. f \in fm.set /\ f \in Flows \ FlowsOf(c) /\ Polls(fm, f)
      BY <1>2, <1>8 DEF Polls
    <3>2. FlowsOf(ControlOf[Conn[f]]) \cap FlowsOf(c) = {}
      BY <3>1 DEF FlowsOf
    <3> QED
      BY <1>5, <1>7, <3>1, <3>2 DEF Inv, SessionInv, Polled, Beside
  <2>5. Entries(d)
    BY <1>8 DEF Inv, SessionInv, Entries
  <2>6. InOrder(d, asked)
    BY <1>8 DEF Inv, SessionInv, InOrder, BoundIn
  <2>7. Uniform(d, ph)
    BY <1>2, <1>5, <1>8 DEF Inv, SessionInv, Uniform
  <2> QED
    BY <2>1, <2>2, <2>3, <2>4, <2>5, <2>6, <2>7 DEF SessionInv
<1>10. QueueInv(d, inbox, ended, ph, asked)
  <2>1. \A f \in d.set : f \in fm.set /\ (BoundIn(fm, f) => BoundIn(d, f))
    BY <1>8 DEF BoundIn
  <2>2. \A k \in ended : ph[ControlOf[k]] \in {"stopped", "over", "closed"}
    BY <1>5 DEF Inv, QueueInv, Types
  <2> QED
    BY <2>1, <2>2 DEF Inv, QueueInv
<1>11. SameMessages(inbox', inbox) /\ MainKeeps(d, fm)
  <2>1. SameMessages(inbox', inbox)
    BY <1>1 DEF SameMessages
  <2> QED
    BY <1>7, <1>8, <2>1 DEF MainKeeps
<1> QED
  BY <1>1, <1>2, <1>6, <1>7, <1>9, <1>10, <1>11, MainStep DEF Inv, Types

LEMMA MainThreadInv ==
  ASSUME Inv, MainThread
  PROVE  Inv' \/ Aborted'
<1>1. CASE \E k \in Conns : Accept(k)
  BY <1>1, AcceptAborts, AcceptInv
<1>2. CASE \E k \in Conns : HandleUDP(k)
  BY <1>2, HandleUDPInv
<1>3. CASE \E f \in Flows : HandleAddFlow(f) \/ HandleRemoveFlow(f)
  BY <1>3, HandleAddFlowInv, HandleRemoveFlowInv
<1>4. CASE \E c \in Controls : \/ HandleStart(c) \/ HandleStop(c)
                               \/ HandleControlAssocShutdown(c)
  BY <1>4, HandleStartInv, HandleStopInv, HandleControlAssocShutdownInv
<1>5. CASE DeleteFlow
  BY <1>5, DeleteFlowInv
<1> QED
  BY <1>1, <1>2, <1>3, <1>4, <1>5 DEF MainThread

LEMMA ExitInv ==
  ASSUME Inv, Exit
  PROVE  Ended'
<1> DEFINE d == ExitAll(fm, fm.set)
           ok == \A fd \in DOMAIN d.new : d.uses[fd] <= 1
           X == Exact(fm, unstarted)
<1>1. /\ reader.pc = "collect" /\ deleting = NoFlow
      /\ fm' = [d EXCEPT !.failed = IF ok THEN @ ELSE @ \cup {"exit"}]
      /\ UNCHANGED <<inbox, ended, reader, session, asked, deleting, unstarted>>
  BY DEF Exit, Main, ExitAll
<1>2. /\ Core(fm, X) /\ fm \in Locked /\ fm.set \in SUBSET Flows /\ Types
      /\ DOMAIN fm.new \in SUBSET Sockets /\ fm.failed = {}
  BY LockedFields DEF Inv, Core, Types
<1>3. AfterExits(d, fm, fm.set, X)
  <2> HIDE DEF X
  <2> QED
    BY <1>2, ExitAllFields
<1> HIDE DEF d
<1>4. /\ d \in Locked /\ d.set = {} /\ d.new = fm.new /\ d.failed = {}
      /\ \A e \in FDs : d.open[e] = fm.open[e] \/ \E f \in fm.set : e = fm.flow[f].fd
  BY <1>2, <1>3 DEF AfterExits
<1>5. ASSUME NEW e \in Sockets \cap X
      PROVE  d.uses[e] <= IF e \in DOMAIN fm.new THEN 1 ELSE 0
  <2>1. Users(d, e) = {}
    BY <1>4 DEF Users
  <2>2. Cardinality(Users(d, e)) = 0
    BY <2>1, FS_EmptySet
  <2>3. d.uses[e] <= UseCount(d, e)
    BY <1>3 DEF AfterExits
  <2> QED
    BY <1>4, <2>2, <2>3 DEF UseCount
<1>6. ~UDPLeft(unstarted) => ok
  <2> SUFFICES ASSUME ~UDPLeft(unstarted), NEW fd \in DOMAIN fm.new
               PROVE  d.uses[fd] <= 1
    BY <1>4
  <2>1. fd \in FDs => fm.open[fd] # NoConn
    BY <1>2, Descriptors DEF Core, NewSockets
  <2>2. fd \in Sockets \cap X
    BY <1>2, <2>1 DEF Exact, Sockets
  <2> HIDE DEF X
  <2> QED
    BY <1>5, <2>2
<1> HIDE DEF ok
<1>7. /\ fm' \in Locked /\ fm'.set = {} /\ fm'.uses = d.uses /\ fm'.open = d.open
      /\ fm'.failed = IF ok THEN {} ELSE {"exit"}
  BY <1>1, <1>4 DEF Locked
<1>8. ASSUME ~Shared(unstarted), NEW e \in FDs, d.uses[e] > 0
      PROVE  d.open[e] # NoConn
  <2>1. d.uses[e] \in Nat /\ e \in Sockets \cap X
    BY <1>4, <1>8, LockedFields DEF Sockets, Exact
  <2>2. e \in DOMAIN fm.new
    BY <1>5, <1>8, <2>1
  <2>3. \A f \in fm.set : e # fm.flow[f].fd
    BY <1>2, <2>2 DEF Core, FlowSockets
  <2>4. fm.open[e] \in Conns
    BY <1>2, <2>2 DEF Core, NewSockets
  <2> QED
    BY <1>4, <2>3, <2>4, Descriptors
<1>9. reader'.todo = {}
  BY <1>1 DEF Inv, ReaderInv
<1>10. Types' /\ deleting' = NoFlow
  BY <1>1, <1>2 DEF Types
<1>11. fm'.failed \subseteq {"exit"} /\ ("exit" \in fm'.failed => UDPLeft(unstarted))
  BY <1>6, <1>7
<1>12. UDPLeft(unstarted)' <=> UDPLeft(unstarted)
  BY <1>1 DEF UDPLeft
<1>13. Shared(unstarted)' <=> Shared(unstarted)
  BY <1>1 DEF Shared
<1> QED
  BY <1>7, <1>8, <1>9, <1>10, <1>11, <1>12, <1>13 DEF Ended

LEMMA InitInv ==
  ASSUME Init
  PROVE  Inv
<1>1. /\ fm.set = {} /\ fm.flow = [f \in Flows |-> NewFlow]
      /\ fm.new = [fd \in {UDPSocket} |-> NewSocket]
      /\ fm.uses = [fd \in Sockets |-> IF fd = UDPSocket THEN 1 ELSE 0]
      /\ fm.open = [fd \in FDs |-> NoConn] /\ fm.failed = {}
      /\ inbox = [k \in Conns |-> <<>>] /\ ended = {}
      /\ reader = [pc |-> "collect", polled |-> {}, ready |-> {}, todo |-> {}]
      /\ session = [c \in Controls |-> "setup"] /\ asked = {} /\ deleting = NoFlow
      /\ unstarted = {}
  BY DEF Init, SharedInit, Sockets
<1>2. NewSocket \in Unidentified /\ ~NewSocket.remove /\ ~NewSocket.close
  BY DEF NewSocket, Unidentified
<1>3. fm \in Locked
  <2>1. /\ fm = [set |-> fm.set, flow |-> fm.flow, new |-> fm.new, uses |-> fm.uses,
                 open |-> fm.open, failed |-> fm.failed]
    BY DEF Init, SharedInit
  <2>2. /\ fm.new \in [{UDPSocket} -> Unidentified] /\ {UDPSocket} \in SUBSET Sockets
        /\ fm.flow \in [Flows -> FlowStates] /\ fm.uses \in [Sockets -> Nat]
        /\ fm.open \in [FDs -> {NoConn} \cup Conns]
    BY <1>1, <1>2, NewFlowType DEF Sockets
  <2>3. fm.new \in UNION {[D -> Unidentified] : D \in SUBSET Sockets}
    BY <2>2
  <2> QED
    BY <1>1, <2>1, <2>2, <2>3 DEF Locked
<1>4. Core(fm, Exact(fm, unstarted))
  <2>1. CountedUses(fm, Exact(fm, unstarted))
    <3> SUFFICES ASSUME NEW fd \in Sockets
                 PROVE  fm.uses[fd] = UseCount(fm, fd) /\ fm.uses[fd] \in Nat
      BY DEF CountedUses
    <3>1. Users(fm, fd) = {}
      BY <1>1 DEF Users
    <3>2. Cardinality(Users(fm, fd)) = 0
      BY <3>1, FS_EmptySet
    <3> QED
      BY <1>1, <3>2 DEF UseCount
  <2>2. FlowSockets(fm) /\ OneSocketEach(fm)
    BY <1>1 DEF FlowSockets, OneSocketEach
  <2>3. NewSockets(fm)
    BY <1>1, <1>2, Descriptors DEF NewSockets
  <2> QED
    BY <1>1, <1>3, <2>1, <2>2, <2>3 DEF Core
<1>5. Types
  BY <1>1 DEF Types
<1>6. \A f \in Flows : session[ControlOf[Conn[f]]] = "setup" /\ f # deleting
  <2>1. deleting \notin Flows
    BY <1>1, ConstantsAssumption DEF NoFlow
  <2>2. session = [c \in Controls |-> "setup"]
    BY <1>1
  <2>3. \A f \in Flows : session[ControlOf[Conn[f]]] = "setup"
    BY <1>5, <2>2, ControlTypes
  <2> QED
    BY <2>1, <2>3
<1>7. SessionInv(fm, session, asked, deleting)
  BY <1>1, <1>6
  DEF SessionInv, Asked, Gone, Started, Polled, Beside, Begun, Entries, InOrder,
      Uniform
<1>8. QueueInv(fm, inbox, ended, session, asked)
  BY <1>1 DEF QueueInv
<1>9. ReaderInv(fm, inbox, ended, reader)
  BY <1>1 DEF ReaderInv
<1> QED
  BY <1>4, <1>5, <1>7, <1>8, <1>9 DEF Inv

-----------------------------------------------------------------------------
(* The theorems.                                                           *)

LEMMA AliveNow ==
  ASSUME IInv
  PROVE  /\ ~exited /\ Alive => Inv /\ fm.failed = {}
         /\ ~exited /\ ~Alive => Aborted
  BY DEF IInv, Inv, Core

LEMMA InvIsIInv ==
  ASSUME exited' = FALSE, Inv' \/ Aborted'
  PROVE  IInv'
<1>1. Inv' => Alive'
  BY DEF Inv, Core, Alive
<1>2. Aborted' => ~Alive'
  BY DEF Aborted, Alive
<1> QED
  BY <1>1, <1>2 DEF IInv

\* What holds of the sockets, the flows, the messages and the reception thread
\* between any two steps of the passive node: also when it has aborted, because
\* a use was left behind for a descriptor, and when it has ended.
THEOREM SocketsInvariant == Spec => []IInv
<1>1. Init => IInv
  <2> SUFFICES ASSUME Init PROVE IInv
    OBVIOUS
  <2>1. Inv
    BY InitInv
  <2> QED
    BY <2>1 DEF Init, IInv, Inv, Core, Alive
<1>2. IInv /\ [Next]_vars => IInv'
  <2> SUFFICES ASSUME IInv, [Next]_vars PROVE IInv'
    OBVIOUS
  <2>1. CASE Receiving
    <3>1. /\ ~exited /\ exited' = exited /\ Alive /\ Reception
          /\ UNCHANGED <<session, asked, deleting, unstarted>>
      BY <2>1 DEF Receiving, Reception, Collect, PollReturns, PollTimesOut, TakeLock,
                  Unlock, HandleFlow, HandleUnidentified
    <3>2. Inv'
      BY <3>1, ReceptionInv, AliveNow
    <3> QED
      BY <3>1, <3>2, InvIsIInv DEF IInv
  <2>2. CASE MainThread
    <3>1. ~exited /\ exited' = exited /\ Alive
      BY <2>2 DEF IInv, Ended, MainThread, Accept, HandleUDP, HandleAddFlow,
                  HandleRemoveFlow, HandleStart, HandleStop,
                  HandleControlAssocShutdown, DeleteFlow, Main, MainHasLock
    <3>2. Inv' \/ Aborted'
      BY <2>2, <3>1, MainThreadInv, AliveNow
    <3> QED
      BY <3>1, <3>2, InvIsIInv DEF IInv
  <2>3. CASE ActiveNodes
    <3>1. ~exited /\ exited' = exited /\ Alive
      BY <2>3 DEF ActiveNodes, SendIdentify, SendData, SessionOver, ConnectionEnds
    <3>2. Inv'
      BY <2>3, <3>1, ActiveNodesInv, AliveNow
    <3> QED
      BY <3>1, <3>2, InvIsIInv DEF IInv
  <2>4. CASE Exit
    <3>1. ~exited /\ exited' = TRUE /\ Alive
      BY <2>4 DEF Exit, Main, MainHasLock
    <3>2. Ended'
      BY <2>4, <3>1, ExitInv, AliveNow
    <3> QED
      BY <3>1, <3>2 DEF IInv
  <2>5. CASE UNCHANGED vars
    <3>1. UNCHANGED <<fm, inbox, ended, reader, session, asked, deleting, unstarted,
                      exited>>
      BY <2>5 DEF vars, sharedVars
    <3>2. Inv => Inv'
      <4> SUFFICES ASSUME Inv PROVE Inv'
        OBVIOUS
      <4> QED
        BY <3>1, InvNext DEF Inv, Types
    <3>3. (Shared(unstarted)' <=> Shared(unstarted)) /\ (Alive' <=> Alive)
      BY <3>1 DEF Shared, Alive
    <3>4. Ended => Ended'
      BY <3>1, <3>3 DEF Ended, Types, UDPLeft
    <3>5. Aborted => Aborted'
      BY <3>1, <3>3 DEF Aborted, Types, FlowSockets
    <3> QED
      BY <3>1, <3>2, <3>3, <3>4, <3>5 DEF IInv
  <2> QED
    BY <2>1, <2>2, <2>3, <2>4, <2>5 DEF Next
<1> QED
  BY <1>1, <1>2, PTL DEF Spec

\* Every variable has its type, also when the passive node has aborted or ended.
THEOREM TypesOK == Spec => []TypeOK
<1>1. IInv => TypeOK
  <2> SUFFICES ASSUME IInv PROVE TypeOK
    OBVIOUS
  <2>1. fm \in Locked /\ Types /\ exited \in BOOLEAN
    BY DEF IInv, Inv, Aborted, Ended, Core
  <2> QED
    BY <2>1, LockedFields DEF TypeOK, SharedTypeOK, Types, Sockets
<1> QED
  BY <1>1, SocketsInvariant, PTL

\* An assertion about the last use of a socket fails only after flows were
\* deleted that were never started: that of registerSocket() after two over the
\* same connection, and that of ~FlowManager() after one over UDP.  No other
\* assertion ever fails, whenever active nodes end.
THEOREM AssertionsHoldAlways == Spec => []AssertionsHold
<1>1. IInv => AssertionsHold
  <2> SUFFICES ASSUME IInv PROVE AssertionsHold
    OBVIOUS
  <2>1. CASE ~exited /\ Alive
    BY <2>1 DEF IInv, Inv, Core, AssertionsHold
  <2>2. CASE ~exited /\ ~Alive
    BY <2>2 DEF IInv, Aborted, AssertionsHold, Shared, SharedUnstarted
  <2>3. CASE exited
    BY <2>3 DEF IInv, Ended, AssertionsHold, UDPLeft, UDPUnstarted
  <2> QED
    BY <2>1, <2>2, <2>3
<1> QED
  BY <1>1, SocketsInvariant, PTL

\* Whatever the main thread does while the reception thread polls without the
\* lock: what that thread reads from then is open, and has something to read.
THEOREM NeverBlocksHolds == Spec => []NeverBlocks
<1>1. IInv => NeverBlocks
  <2> SUFFICES ASSUME IInv, NEW h \in reader.todo
               PROVE  LET fd == IF h[1] = "flow" THEN fm.flow[h[2]].fd ELSE h[2]
                      IN Readable(fm, fd) /\ fm.uses[fd] > 0
    BY DEF NeverBlocks
  <2>1. Inv
    BY DEF IInv, Aborted, Ended
  <2>2. /\ Core(fm, Exact(fm, unstarted)) /\ reader.pc = "handle" /\ h \in Handles
        /\ fm.uses \in [Sockets -> Nat]
    BY <2>1, LockedFields DEF Inv, ReaderInv, Types, Core
  <2>3. \A fd \in Sockets : /\ fm.uses[fd] >= UseCount(fm, fd) /\ fm.uses[fd] \in Nat
                            /\ Cardinality(Users(fm, fd)) \in Nat
    BY <2>2, UsersAreFinite DEF Core, CountedUses
  <2>4. CASE \E f \in Flows : h = <<"flow", f>>
    <3>1. PICK f \in Flows : h = <<"flow", f>>
      BY <2>4
    <3>2. f \in fm.set /\ fm.flow[f].entry /\ CanRead(fm, inbox, ended, fm.flow[f].fd)
      BY <2>1, <2>2, <3>1 DEF Inv, ReaderInv
    <3>3. fm.flow[f].fd \in FDs
      BY <2>1, <3>2 DEF Inv, SessionInv, Entries
    <3>4. Cardinality(Users(fm, fm.flow[f].fd)) > 0
      BY <3>2, UsedSocket
    <3>5. fm.uses[fm.flow[f].fd] > 0
      BY <2>3, <3>3, <3>4 DEF UseCount, Sockets
    <3> QED
      BY <3>1, <3>2, <3>5 DEF CanRead, Readable
  <2>5. CASE \E fd \in FDs : h = <<"new", fd>>
    <3>1. PICK fd \in FDs : h = <<"new", fd>>
      BY <2>5
    <3>2. fd \in DOMAIN fm.new /\ CanRead(fm, inbox, ended, fd)
      BY <2>1, <2>2, <3>1 DEF Inv, ReaderInv
    <3>3. fm.uses[fd] > 0
      BY <2>3, <3>2 DEF UseCount, Sockets
    <3> QED
      BY <3>1, <3>2, <3>3 DEF CanRead, Readable
  <2> QED
    BY <2>2, <2>4, <2>5 DEF Handles
<1> QED
  BY <1>1, SocketsInvariant, PTL

\* A flow of the FlowSet never has a descriptor that is closed, or that is
\* another connection by now.
THEOREM NoDanglingFDHolds == Spec => []NoDanglingFD
<1>1. IInv => NoDanglingFD
  BY DEF IInv, Inv, Aborted, Ended, Core, FlowSockets, NoDanglingFD
<1> QED
  BY <1>1, SocketsInvariant, PTL

\* Every use of a socket is counted.  A use that is counted is one of a socket's
\* users, but for those that flows leave behind which were never started: for the
\* UDP socket, and for descriptors of closed connections that two of them shared.
THEOREM UsesAreCountedAlways == Spec => []UsesAreCounted
<1>1. IInv => UsesAreCounted
  <2> SUFFICES ASSUME IInv, Alive, ~exited PROVE
        /\ \A fd \in {UDPSocket} \cup FDs : fm.uses[fd] >= UsesOf(fd)
        /\ \A fd \in FDs : fm.open[fd] # NoConn \/ ~SharedUnstarted =>
             fm.uses[fd] = UsesOf(fd)
        /\ ~UDPUnstarted => fm.uses[UDPSocket] = UsesOf(UDPSocket)
    BY DEF UsesAreCounted
  <2>1. \A fd \in Sockets : /\ fm.uses[fd] >= UseCount(fm, fd)
                            /\ fd \in Exact(fm, unstarted) =>
                                 fm.uses[fd] = UseCount(fm, fd)
    BY DEF IInv, Inv, Core, CountedUses
  <2>2. ASSUME NEW fd \in Sockets
        PROVE  UseCount(fm, fd) = UsesOf(fd)
    <3>1. CASE fd \in DOMAIN fm.new
      <4>1. DOMAIN fm.new \cap {fd} = {fd}
        BY <3>1
      <4>2. Cardinality(DOMAIN fm.new \cap {fd}) = 1
        BY <4>1, FS_Singleton
      <4> QED
        BY <3>1, <4>2 DEF UseCount, UsesOf, Users
    <3>2. CASE fd \notin DOMAIN fm.new
      <4>1. DOMAIN fm.new \cap {fd} = {}
        BY <3>2
      <4>2. Cardinality(DOMAIN fm.new \cap {fd}) = 0
        BY <4>1, FS_EmptySet
      <4> QED
        BY <3>2, <4>2 DEF UseCount, UsesOf, Users
    <3> QED
      BY <3>1, <3>2
  <2>3. \A fd \in FDs : fm.open[fd] # NoConn \/ ~SharedUnstarted =>
          fd \in Exact(fm, unstarted)
    BY DEF Exact, Shared, SharedUnstarted
  <2>4. ~UDPUnstarted => UDPSocket \in Exact(fm, unstarted)
    BY DEF Exact, UDPLeft, UDPUnstarted
  <2> QED
    BY <2>1, <2>2, <2>3, <2>4 DEF Sockets
<1> QED
  BY <1>1, SocketsInvariant, PTL

\* As long as no two flows over the same connection were deleted unstarted, a
\* socket that the MessageReader knows is open: a descriptor that is used again
\* for the next connection is new to it.
THEOREM NoStaleEntryHolds == Spec => []NoStaleEntry
<1>1. IInv => NoStaleEntry
  <2> SUFFICES ASSUME IInv, ~Shared(unstarted), NEW fd \in FDs, fm.uses[fd] > 0
               PROVE  fm.open[fd] # NoConn
    BY DEF NoStaleEntry, Shared, SharedUnstarted
  <2>1. CASE exited
    BY <2>1 DEF IInv, Ended
  <2>2. CASE ~exited
    <3> SUFFICES ASSUME fm.open[fd] = NoConn PROVE FALSE
      OBVIOUS
    <3>1. Core(fm, Exact(fm, unstarted))
      BY <2>2 DEF IInv, Inv, Aborted
    <3>2. fd \in Exact(fm, unstarted)
      BY DEF Exact
    <3> QED
      BY <3>1, <3>2, FreeSocket
  <2> QED
    BY <2>1, <2>2
<1> QED
  BY <1>1, SocketsInvariant, PTL
================================================================================
