--------------------------- MODULE ActiveNode_proofs ----------------------------
(***************************************************************************)
(* The data sockets of the active node, for any flows and connections,     *)
(* whichever of them are lost: no socket has more uses than flows, and at  *)
(* the end nothing is left open.  The uses are exactly those of the flows  *)
(* until an association of several flows is lost.                          *)
(*                                                                         *)
(* Core is about the state under the lock alone, as in PassiveNode_proofs; *)
(* the rest of the invariant relates it to how far the main thread is with *)
(* the flows, to what waits in the connections and to what the reception   *)
(* thread remembers.  Each part says what holds in any case, and what      *)
(* holds in addition until such an association is among those that ended.  *)
(***************************************************************************)
EXTENDS ActiveNode, NumberTheorems, FiniteSetTheorems, TLAPS

\* AssociationIsLost, of the connections en that have ended.
Lost(en) == \E f, g \in Flows : f # g /\ Conn[f] = Conn[g] /\ Conn[f] \in en

Sockets == {UDPSocket} \cup FDs

\* The states under the lock.
Locked == [set : SUBSET Flows, flow : [Flows -> FlowStates],
           new : UNION {[D -> Unidentified] : D \in SUBSET Sockets},
           uses : [Sockets -> Nat], open : [FDs -> {NoConn} \cup Conns],
           failed : SUBSET {"accept", "identify", "read", "exit"}]

Users(s, fd) == {f \in Flows : f \in s.set /\ s.flow[f].fd = fd}

CountedUses(s, en) == \A fd \in FDs :
  /\ s.uses[fd] <= Cardinality(Users(s, fd))
  /\ Lost(en) \/ s.uses[fd] = Cardinality(Users(s, fd))

FlowSockets(s, en) ==
  \A f \in s.set : s.flow[f].fd # NoFD =>
    s.flow[f].fd \in FDs /\ (Lost(en) \/ s.open[s.flow[f].fd] = Conn[f])

Core(s, en) ==
  /\ s \in Locked /\ DOMAIN s.new = {} /\ (Lost(en) \/ s.failed = {})
  /\ CountedUses(s, en) /\ FlowSockets(s, en)

OneSocketEach(s) ==
  \A d, e \in FDs : s.open[d] = s.open[e] /\ s.open[d] # NoConn => d = e

\* How far the main thread is with the flows.
Creating == {"create", "connect", "set"}
Phases   == Creating \cup {"running", "stopped", "done", "failed"}
Last(s)  == Cardinality(s.set)

Numbered(s, ph) ==
  /\ ph # "done" => s.set = 1..Last(s)
  /\ ph \in {"connect", "set"} => Last(s) \in s.set
  /\ ph \in {"running", "stopped"} => s.set = Flows
  /\ ph = "done" => s.set = {}

\* The last flow still gets its socket; those that have one run until the end.
Bound(s, ph) ==
  /\ ph \in {"connect", "set"} => s.flow[Last(s)].fd = NoFD
  /\ ph \in {"running", "stopped"} =>
       \A f \in s.set : s.flow[f].fd # NoFD => s.flow[f].running

\* Every open socket is the one of a flow, or will be.
Opened(s, ph, next) ==
  \A fd \in FDs : s.open[fd] # NoConn =>
    Users(s, fd) # {} \/ (ph = "set" /\ next = fd)

\* A flow has its socket unless its connection was lost.
Connected(s, ph, next, en) ==
  /\ \A f \in s.set :
       Conn[f] \notin en /\ (ph \in {"connect", "set"} => f # Last(s)) =>
         s.flow[f].fd # NoFD
  /\ ph = "set" /\ Conn[Last(s)] \notin en =>
       next \in FDs /\ s.open[next] = Conn[Last(s)]

MainInv(s, ph, next, en) ==
  /\ Numbered(s, ph) /\ Bound(s, ph) /\ Opened(s, ph, next)
  /\ Lost(en) \/ (OneSocketEach(s) /\ Connected(s, ph, next, en))

\* What waits in the connections.
QueueInv(box, ph) ==
  /\ \A k \in Conns : \A i \in DOMAIN box[k] :
       box[k][i].type = "data" /\ Conn[box[k][i].flow] = k
  /\ ph \in Creating => \A k \in Conns : box[k] = <<>>

\* What the reception thread remembers.
ReaderInv(s, r) ==
  /\ r.pc # "handle" => r.todo = {}
  /\ \A f \in Flows : <<"flow", f>> \in r.todo =>
       f \in s.set /\ s.flow[f].fd \in FDs
  /\ \A fd \in FDs : <<"new", fd>> \notin r.todo

Types ==
  /\ inbox \in [Conns -> Seq(Messages)]
  /\ reader \in [pc : {"collect", "poll", "lock", "handle"},
                 polled : SUBSET FDs, ready : SUBSET FDs, todo : SUBSET Handles]
  /\ phase \in Phases /\ socket \in {NoFD} \cup FDs

IInv ==
  /\ Types /\ Core(fm, ended)
  /\ phase # "failed" =>
       /\ MainInv(fm, phase, socket, ended) /\ QueueInv(inbox, phase)
       /\ ReaderInv(fm, reader)

-----------------------------------------------------------------------------
(* The operators of FlowManager, field by field.                           *)

LEMMA Descriptors ==
  /\ NoFD \notin Sockets /\ UDPSocket \notin FDs /\ UDPSocket # NoFD
  /\ FDs \subseteq Int /\ NoConn \notin Conns
  BY ConstantsAssumption DEF Sockets, NoFD, UDPSocket, FDs, NoConn

LEMMA LockedFields ==
  ASSUME NEW s \in Locked
  PROVE  /\ s.set \in SUBSET Flows /\ s.flow \in [Flows -> FlowStates]
         /\ DOMAIN s.new \in SUBSET Sockets
         /\ s.new \in [DOMAIN s.new -> Unidentified]
         /\ s.uses \in [Sockets -> Nat] /\ s.open \in [FDs -> {NoConn} \cup Conns]
         /\ s.failed \in SUBSET {"accept", "identify", "read", "exit"}
  BY DEF Locked

LEMMA FlowFields ==
  ASSUME NEW s \in Locked, NEW f \in Flows
  PROVE  /\ s.flow[f] \in FlowStates
         /\ s.flow[f].fd \in {NoFD} \cup Sockets /\ s.flow[f].running \in BOOLEAN
         /\ s.flow[f].input \in BOOLEAN /\ s.flow[f].entry \in BOOLEAN
  BY LockedFields DEF FlowStates, Sockets

Less(u, fd) == [e \in Sockets |-> IF e = fd /\ u[e] # 0 THEN u[e] - 1 ELSE u[e]]

LEMMA DeregisterFields ==
  ASSUME NEW s \in Locked, NEW fd \in {NoFD} \cup Sockets
  PROVE  /\ Deregister(s, fd) \in Locked
         /\ Deregister(s, fd).set = s.set /\ Deregister(s, fd).flow = s.flow
         /\ Deregister(s, fd).new = s.new /\ Deregister(s, fd).open = s.open
         /\ Deregister(s, fd).failed = s.failed
         /\ Deregister(s, fd).uses = Less(s.uses, fd)
<1> USE Descriptors
<1>1. s.uses \in [Sockets -> Nat]
  BY LockedFields
<1>2. Less(s.uses, fd) \in [Sockets -> Nat]
  BY <1>1 DEF Less
<1>3. CASE fd = NoFD \/ s.uses[fd] = 0
  <2>1. Less(s.uses, fd) = s.uses
    BY <1>1, <1>3 DEF Less
  <2> QED
    BY <1>3, <2>1 DEF Deregister
<1>4. CASE ~(fd = NoFD \/ s.uses[fd] = 0)
  <2>1. Less(s.uses, fd) = [s.uses EXCEPT ![fd] = @ - 1]
    BY <1>1, <1>4 DEF Less
  <2>2. Deregister(s, fd) = [s EXCEPT !.uses = Less(s.uses, fd)]
    BY <1>4, <2>1 DEF Deregister, Locked
  <2> QED
    BY <1>2, <2>2 DEF Locked
<1> QED
  BY <1>3, <1>4

LEMMA RegisterFields ==
  ASSUME NEW s \in Locked, NEW fd \in Sockets
  PROVE  /\ Register(s, fd) \in Locked
         /\ Register(s, fd).set = s.set /\ Register(s, fd).flow = s.flow
         /\ Register(s, fd).new = s.new /\ Register(s, fd).open = s.open
         /\ Register(s, fd).failed = s.failed
         /\ Register(s, fd).uses = [s.uses EXCEPT ![fd] = @ + 1]
<1>1. [s.uses EXCEPT ![fd] = @ + 1] \in [Sockets -> Nat]
  BY LockedFields
<1>2. Register(s, fd) = [s EXCEPT !.uses = [s.uses EXCEPT ![fd] = @ + 1]]
  BY DEF Register, Locked
<1> QED
  BY <1>1, <1>2 DEF Locked

Closed(o, fd) == [d \in FDs |-> IF d = fd THEN NoConn ELSE o[d]]

LEMMA CloseFields ==
  ASSUME NEW s \in Locked, NEW fd
  PROVE  /\ Close(s, fd) \in Locked
         /\ Close(s, fd).set = s.set /\ Close(s, fd).flow = s.flow
         /\ Close(s, fd).new = s.new /\ Close(s, fd).uses = s.uses
         /\ Close(s, fd).failed = s.failed
         /\ Close(s, fd).open = Closed(s.open, fd)
<1>1. Closed(s.open, fd) \in [FDs -> {NoConn} \cup Conns]
  BY LockedFields DEF Closed
<1>2. Close(s, fd) = [s EXCEPT !.open = Closed(s.open, fd)]
  BY DEF Close, Closed, Locked
<1> QED
  BY <1>1, <1>2 DEF Locked

Stopped(r) == [Unpolled(r) EXCEPT !.running = FALSE]

LEMMA StoppedFields ==
  ASSUME NEW r \in FlowStates
  PROVE  /\ Stopped(r) \in FlowStates /\ Stopped(r).fd = r.fd
         /\ ~Stopped(r).running /\ ~Stopped(r).input /\ ~Stopped(r).entry
  BY DEF Stopped, Unpolled, FlowStates

LEMMA WithFlow ==
  ASSUME NEW s \in Locked, NEW w \in [Flows -> FlowStates]
  PROVE  /\ [s EXCEPT !.flow = w] \in Locked
         /\ [s EXCEPT !.flow = w].set = s.set /\ [s EXCEPT !.flow = w].flow = w
         /\ [s EXCEPT !.flow = w].new = s.new /\ [s EXCEPT !.flow = w].open = s.open
         /\ [s EXCEPT !.flow = w].uses = s.uses
         /\ [s EXCEPT !.flow = w].failed = s.failed
  BY DEF Locked

LEMMA DeactivateFields ==
  ASSUME NEW s \in Locked, NEW f \in Flows
  PROVE  LET d == Deactivate(s, f) IN
         /\ d \in Locked /\ d.set = s.set
         /\ d.new = s.new /\ d.open = s.open /\ d.failed = s.failed
         /\ d.flow = IF s.flow[f].running
                     THEN [s.flow EXCEPT ![f] = Stopped(@)] ELSE s.flow
         /\ d.uses = IF s.flow[f].running
                     THEN Less(s.uses, s.flow[f].fd) ELSE s.uses
<1>1. s.flow[f].fd \in {NoFD} \cup Sockets /\ s.flow[f] \in FlowStates
  BY FlowFields
<1> DEFINE w == [s.flow EXCEPT ![f] = Stopped(@)]
           t == [s EXCEPT !.flow = w]
<1>2. w \in [Flows -> FlowStates]
  BY <1>1, LockedFields, StoppedFields
<1>3. [s EXCEPT !.flow[f] = [Unpolled(@) EXCEPT !.running = FALSE]] = t
  BY DEF Locked, Stopped
<1>4. /\ t \in Locked /\ t.set = s.set /\ t.flow = w /\ t.new = s.new
      /\ t.open = s.open /\ t.uses = s.uses /\ t.failed = s.failed
  <2> HIDE DEF w
  <2> QED
    BY <1>2, WithFlow
<1>5. CASE s.flow[f].running
  <2>1. Deactivate(s, f) = Deregister(t, s.flow[f].fd)
    BY <1>3, <1>5 DEF Deactivate
  <2> HIDE DEF t
  <2>2. /\ Deregister(t, s.flow[f].fd) \in Locked
        /\ Deregister(t, s.flow[f].fd).set = t.set
        /\ Deregister(t, s.flow[f].fd).flow = t.flow
        /\ Deregister(t, s.flow[f].fd).new = t.new
        /\ Deregister(t, s.flow[f].fd).open = t.open
        /\ Deregister(t, s.flow[f].fd).failed = t.failed
        /\ Deregister(t, s.flow[f].fd).uses = Less(t.uses, s.flow[f].fd)
    BY <1>1, <1>4, DeregisterFields
  <2> QED
    BY <1>4, <1>5, <2>1, <2>2
<1>6. CASE ~s.flow[f].running
  <2>1. Deactivate(s, f) = s
    BY <1>6 DEF Deactivate
  <2> QED
    BY <1>6, <2>1
<1> QED
  BY <1>5, <1>6

\* What is left of a flow that is removed.
Removed(r) == [(IF r.running THEN Stopped(r) ELSE r) EXCEPT !.entry = FALSE]

LEMMA RemovedFields ==
  ASSUME NEW r \in FlowStates
  PROVE  /\ Removed(r) \in FlowStates /\ Removed(r).fd = r.fd
         /\ ~Removed(r).entry /\ ~Removed(r).running
<1>1. CASE r.running
  BY <1>1, StoppedFields DEF Removed, FlowStates
<1>2. CASE ~r.running
  BY <1>2 DEF Removed, FlowStates
<1> QED
  BY <1>1, <1>2

LEMMA RemoveFlowFields ==
  ASSUME NEW s \in Locked, NEW f \in Flows
  PROVE  LET d == RemoveFlow(s, f) IN
         /\ d \in Locked /\ d.set = s.set \ {f}
         /\ d.new = s.new /\ d.open = s.open /\ d.failed = s.failed
         /\ d.flow = [s.flow EXCEPT ![f] = Removed(@)]
         /\ d.uses = IF s.flow[f].running
                     THEN Less(s.uses, s.flow[f].fd) ELSE s.uses
<1> DEFINE t == Deactivate(s, f)
           w == [s.flow EXCEPT ![f] = Removed(@)]
<1>1. /\ t \in Locked /\ t.set = s.set
      /\ t.new = s.new /\ t.open = s.open /\ t.failed = s.failed
      /\ t.flow = IF s.flow[f].running
                  THEN [s.flow EXCEPT ![f] = Stopped(@)] ELSE s.flow
      /\ t.uses = IF s.flow[f].running
                  THEN Less(s.uses, s.flow[f].fd) ELSE s.uses
  BY DeactivateFields
<1> HIDE DEF t
<1>2. w \in [Flows -> FlowStates] /\ s.flow \in [Flows -> FlowStates]
  BY LockedFields, FlowFields, RemovedFields
<1>3. [t.flow EXCEPT ![f].entry = FALSE] = w
  <2>1. CASE s.flow[f].running
    BY <1>1, <1>2, <2>1 DEF Removed
  <2>2. CASE ~s.flow[f].running
    BY <1>1, <1>2, <2>2 DEF Removed
  <2> QED
    BY <2>1, <2>2
<1>4. RemoveFlow(s, f) = [[t EXCEPT !.flow = w] EXCEPT !.set = s.set \ {f}]
  BY <1>1, <1>3 DEF RemoveFlow, t, Locked
<1> HIDE DEF w
<1> QED
  BY <1>1, <1>2, <1>4 DEF Locked, w

LEMMA NewFlowType == NewFlow \in FlowStates /\ NewFlow.fd = NoFD
                     /\ ~NewFlow.running /\ NewFlow.input /\ ~NewFlow.entry
  BY DEF NewFlow, FlowStates

\* Whether the destructor of a flow closes its socket.
Closes(s, f) == /\ s.flow[f].fd # NoFD /\ DeleteWhenFinished(f)
                /\ \A g \in s.set \ {f} : s.flow[g].fd # s.flow[f].fd

LEMMA DestroyFields ==
  ASSUME NEW s \in Locked, NEW f \in Flows
  PROVE  LET d == Destroy(s, f)
             u == IF s.flow[f].running THEN Less(s.uses, s.flow[f].fd) ELSE s.uses
         IN
         /\ d \in Locked /\ d.set = s.set \ {f}
         /\ d.new = s.new /\ d.failed = s.failed
         /\ d.flow = [s.flow EXCEPT ![f] = NewFlow]
         /\ d.uses = IF Closes(s, f) THEN Less(u, s.flow[f].fd) ELSE u
         /\ d.open = IF Closes(s, f) THEN Closed(s.open, s.flow[f].fd) ELSE s.open
<1> DEFINE r  == RemoveFlow(s, f)
           fd == s.flow[f].fd
           u == IF s.flow[f].running THEN Less(s.uses, fd) ELSE s.uses
           d  == IF Closes(s, f) THEN Close(Deregister(r, fd), fd) ELSE r
           w  == [s.flow EXCEPT ![f] = NewFlow]
<1>1. /\ r \in Locked /\ r.set = s.set \ {f}
      /\ r.new = s.new /\ r.open = s.open /\ r.failed = s.failed
      /\ r.flow = [s.flow EXCEPT ![f] = Removed(@)] /\ r.uses = u
  BY RemoveFlowFields
<1>2. /\ s.flow \in [Flows -> FlowStates] /\ s.set \in SUBSET Flows
      /\ fd \in {NoFD} \cup Sockets /\ Removed(s.flow[f]).fd = fd
  BY LockedFields, FlowFields, RemovedFields
<1>3. r.flow[f].fd = fd /\ \A g \in s.set \ {f} : r.flow[g] = s.flow[g]
  <2> HIDE DEF r
  <2> QED
    BY <1>1, <1>2
<1>4. IsOriginal(r, f) <=> \A g \in s.set \ {f} : s.flow[g].fd # fd
  <2> HIDE DEF r, fd
  <2> QED
    BY <1>1, <1>3 DEF IsOriginal
<1>5. Destroy(s, f) = [d EXCEPT !.flow[f] = NewFlow]
  <2>1. d = IF r.flow[f].fd # NoFD /\ IsOriginal(r, f) /\ DeleteWhenFinished(f)
            THEN Close(Deregister(r, r.flow[f].fd), r.flow[f].fd) ELSE r
    <3> HIDE DEF r
    <3> QED
      BY <1>3, <1>4 DEF Closes
  <2> HIDE DEF d
  <2> QED
    BY <2>1 DEF Destroy, r
<1>6. /\ d \in Locked /\ d.set = r.set /\ d.new = r.new /\ d.failed = r.failed
      /\ d.flow = r.flow
      /\ d.uses = IF Closes(s, f) THEN Less(u, fd) ELSE u
      /\ d.open = IF Closes(s, f) THEN Closed(s.open, fd) ELSE s.open
  <2> HIDE DEF r, fd, u
  <2>1. CASE Closes(s, f)
    <3> DEFINE e == Deregister(r, fd)
    <3>1. /\ e \in Locked /\ e.set = r.set /\ e.flow = r.flow /\ e.new = r.new
          /\ e.open = r.open /\ e.failed = r.failed /\ e.uses = Less(r.uses, fd)
      BY <1>1, <1>2, DeregisterFields
    <3> HIDE DEF e
    <3>2. d = Close(e, fd)
      BY <2>1 DEF e
    <3> HIDE DEF d
    <3> QED
      BY <1>1, <2>1, <3>1, <3>2, CloseFields
  <2>2. CASE ~Closes(s, f)
    BY <1>1, <2>2
  <2> QED
    BY <2>1, <2>2
<1> HIDE DEF d
<1>7. [d EXCEPT !.flow[f] = NewFlow] = [d EXCEPT !.flow = w]
  <2>1. [d.flow EXCEPT ![f] = NewFlow] = w
    <3> HIDE DEF r
    <3> QED
      BY <1>1, <1>2, <1>6
  <2> HIDE DEF w
  <2> QED
    BY <1>6, <2>1 DEF Locked
<1>8. w \in [Flows -> FlowStates]
  BY <1>2, NewFlowType
<1> HIDE DEF w, r, fd, u
<1>9. Destroy(s, f) = [d EXCEPT !.flow = w]
  BY <1>5, <1>7
<1> DEFINE x == [d EXCEPT !.flow = w]
<1>10. /\ x \in Locked /\ x.set = d.set /\ x.flow = w /\ x.new = d.new
       /\ x.open = d.open /\ x.uses = d.uses /\ x.failed = d.failed
  BY <1>6, <1>8, WithFlow
<1> HIDE DEF x
<1> QED
  BY <1>1, <1>6, <1>9, <1>10 DEF w, fd, u, x

-----------------------------------------------------------------------------
(* Counting the flows that use a socket.                                   *)

LEMMA UsersAreFinite ==
  ASSUME NEW s, NEW fd
  PROVE  /\ IsFiniteSet(Users(s, fd)) /\ Cardinality(Users(s, fd)) \in Nat
         /\ Cardinality(Users(s, fd)) = 0 <=> Users(s, fd) = {}
<1>1. IsFiniteSet(Users(s, fd))
  BY ConstantsAssumption, FS_Subset DEF Users
<1> QED
  BY <1>1, FS_CardinalityType, FS_EmptySet

LEMMA UsedSocket ==
  ASSUME NEW s, NEW f \in Flows, f \in s.set, NEW fd, s.flow[f].fd = fd
  PROVE  Cardinality(Users(s, fd)) > 0
<1>1. f \in Users(s, fd)
  BY DEF Users
<1> QED
  BY <1>1, UsersAreFinite

SameFDs(d, s, S) == \A g \in S : d.flow[g].fd = s.flow[g].fd

LEMMA SameUsers ==
  ASSUME NEW s, NEW d, d.set = s.set, SameFDs(d, s, s.set), NEW e
  PROVE  Users(d, e) = Users(s, e)
  BY DEF Users, SameFDs

LEMMA OneUserLess ==
  ASSUME NEW s, NEW d, NEW f \in Flows, d.set = s.set \ {f},
         SameFDs(d, s, s.set \ {f}), NEW e
  PROVE  /\ Users(d, e) = Users(s, e) \ {f}
         /\ Cardinality(Users(d, e)) =
              IF f \in s.set /\ s.flow[f].fd = e
              THEN Cardinality(Users(s, e)) - 1 ELSE Cardinality(Users(s, e))
<1>1. Users(d, e) = Users(s, e) \ {f}
  BY DEF Users, SameFDs
<1>2. CASE f \in s.set /\ s.flow[f].fd = e
  <2>1. f \in Users(s, e)
    BY <1>2 DEF Users, SameFDs
  <2>2. Cardinality(Users(s, e) \ {f}) = Cardinality(Users(s, e)) - 1
    BY <2>1, UsersAreFinite, FS_RemoveElement
  <2> QED
    BY <1>1, <1>2, <2>2
<1>3. CASE ~(f \in s.set /\ s.flow[f].fd = e)
  <2>1. Users(d, e) = Users(s, e)
    BY <1>1, <1>3 DEF Users, SameFDs
  <2> QED
    BY <1>1, <1>3, <2>1
<1> QED
  BY <1>2, <1>3

LEMMA OneUserMore ==
  ASSUME NEW s, NEW d, NEW f \in Flows, d.set = s.set, f \in s.set,
         SameFDs(d, s, s.set \ {f}),
         s.flow[f].fd = NoFD, d.flow[f].fd # NoFD, NEW e, e # NoFD
  PROVE  Cardinality(Users(d, e)) =
           IF d.flow[f].fd = e
           THEN Cardinality(Users(s, e)) + 1 ELSE Cardinality(Users(s, e))
<1>1. CASE d.flow[f].fd = e
  <2>1. Users(d, e) = Users(s, e) \cup {f} /\ f \notin Users(s, e)
    BY <1>1 DEF Users, SameFDs
  <2>2. Cardinality(Users(s, e) \cup {f}) = Cardinality(Users(s, e)) + 1
    BY <2>1, UsersAreFinite, FS_AddElement
  <2> QED
    BY <1>1, <2>1, <2>2
<1>2. CASE d.flow[f].fd # e
  <2>1. Users(d, e) = Users(s, e)
    BY <1>2 DEF Users, SameFDs
  <2> QED
    BY <1>2, <2>1
<1> QED
  BY <1>1, <1>2

-----------------------------------------------------------------------------
(* What the operators leave of Core.                                       *)

LEMMA LostGrows ==
  ASSUME NEW en, NEW more, en \subseteq more
  PROVE  Lost(en) => Lost(more)
  BY DEF Lost

BoundIn(s, f) == s.flow[f].fd # NoFD

FlowsOnly(d, s) ==
  /\ d \in Locked /\ d.set = s.set /\ d.new = s.new /\ d.uses = s.uses
  /\ d.open = s.open /\ d.failed = s.failed
  /\ \A f \in Flows : d.flow[f].fd = s.flow[f].fd

LEMMA CoreFacts ==
  ASSUME NEW s, NEW en, Core(s, en)
  PROVE  /\ s \in Locked /\ s.set \in SUBSET Flows /\ s.flow \in [Flows -> FlowStates]
         /\ s.uses \in [Sockets -> Nat] /\ s.open \in [FDs -> {NoConn} \cup Conns]
         /\ FDs \subseteq Sockets /\ IsFiniteSet(s.set)
<1>1. s.set \in SUBSET Flows /\ s \in Locked
  BY LockedFields DEF Core
<1>2. IsFiniteSet(s.set)
  BY <1>1, ConstantsAssumption, FS_Subset
<1> QED
  BY <1>1, <1>2, LockedFields DEF Core, Sockets

\* Core does not depend on what a flow does with its socket.
LEMMA SameCore ==
  ASSUME NEW s, NEW en, Core(s, en), NEW d, FlowsOnly(d, s)
  PROVE  Core(d, en) /\ \A e : Users(d, e) = Users(s, e)
<1>1. SameFDs(d, s, s.set)
  BY CoreFacts DEF FlowsOnly, SameFDs
<1>2. \A e : Users(d, e) = Users(s, e)
  BY <1>1, SameUsers DEF FlowsOnly
<1>3. CountedUses(d, en)
  BY <1>2 DEF Core, CountedUses, FlowsOnly
<1>4. FlowSockets(d, en)
  BY CoreFacts DEF Core, FlowSockets, FlowsOnly
<1> QED
  BY <1>2, <1>3, <1>4 DEF Core, FlowsOnly

LEMMA AddFlowFields ==
  ASSUME NEW s \in Locked, NEW f \in Flows
  PROVE  LET d == AddFlow(s, f) IN
         /\ d \in Locked /\ d.set = s.set \cup {f} /\ d.new = s.new
         /\ d.flow = [s.flow EXCEPT ![f] = NewFlow]
         /\ d.uses = s.uses /\ d.open = s.open /\ d.failed = s.failed
<1>1. [s.flow EXCEPT ![f] = NewFlow] \in [Flows -> FlowStates]
  BY LockedFields, NewFlowType
<1> QED
  BY <1>1, NewFlowType DEF AddFlow, Locked

LEMMA AddFlowCore ==
  ASSUME NEW s, NEW en, Core(s, en), NEW f \in Flows, f \notin s.set
  PROVE  LET d == AddFlow(s, f) IN
         /\ Core(d, en) /\ d.set = s.set \cup {f} /\ d.open = s.open
         /\ d.flow[f].fd = NoFD /\ \A g \in s.set : d.flow[g] = s.flow[g]
         /\ \A e \in FDs : Users(d, e) = Users(s, e)
<1> DEFINE d == AddFlow(s, f)
           w == [s.flow EXCEPT ![f] = NewFlow]
<1>1. /\ d \in Locked /\ d.set = s.set \cup {f} /\ d.new = s.new /\ d.flow = w
      /\ d.uses = s.uses /\ d.open = s.open /\ d.failed = s.failed
  BY CoreFacts, AddFlowFields
<1>2. d.flow[f].fd = NoFD /\ \A g \in s.set : d.flow[g] = s.flow[g]
  <2> HIDE DEF d
  <2> QED
    BY <1>1, CoreFacts, NewFlowType
<1> HIDE DEF d, w
<1>3. \A e \in FDs : Users(d, e) = Users(s, e)
  BY <1>1, <1>2, Descriptors DEF Users, Sockets
<1>4. CountedUses(d, en)
  BY <1>1, <1>3 DEF Core, CountedUses
<1>5. FlowSockets(d, en)
  BY <1>1, <1>2 DEF Core, FlowSockets
<1>6. Core(d, en)
  BY <1>1, <1>4, <1>5 DEF Core
<1> QED
  BY <1>1, <1>2, <1>3, <1>6 DEF d

\* A flow that gets its socket.
Bind(s, f, fd) == Register([s EXCEPT !.flow[f].fd = fd], fd)

LEMMA BindCore ==
  ASSUME NEW s, NEW en, Core(s, en), NEW f \in Flows, f \in s.set, ~BoundIn(s, f),
         NEW fd \in FDs, Lost(en) \/ s.open[fd] = Conn[f]
  PROVE  LET d == Bind(s, f, fd) IN
         /\ Core(d, en) /\ d.set = s.set /\ d.open = s.open
         /\ d.flow[f].fd = fd /\ \A g \in s.set \ {f} : d.flow[g] = s.flow[g]
         /\ \A e \in FDs : Users(s, e) \subseteq Users(d, e)
         /\ f \in Users(d, fd)
<1> DEFINE d == Bind(s, f, fd)
           w == [s.flow EXCEPT ![f] = [@ EXCEPT !.fd = fd]]
           t == [s EXCEPT !.flow = w]
<1>1. w \in [Flows -> FlowStates] /\ fd \in Sockets /\ fd # NoFD
  BY CoreFacts, Descriptors DEF FlowStates, Sockets
<1>2. [s EXCEPT !.flow[f].fd = fd] = t
  BY CoreFacts DEF Locked
<1>3. w[f].fd = fd /\ \A g \in s.set \ {f} : w[g] = s.flow[g]
  BY CoreFacts DEF FlowStates
<1>4. /\ t \in Locked /\ t.set = s.set /\ t.flow = w /\ t.new = s.new
      /\ t.open = s.open /\ t.uses = s.uses /\ t.failed = s.failed
  <2> HIDE DEF w
  <2> QED
    BY <1>1, CoreFacts, WithFlow
<1>5. d = Register(t, fd)
  BY <1>2 DEF Bind
<1> HIDE DEF d, t, w
<1>6. /\ d \in Locked /\ d.set = s.set /\ d.new = s.new /\ d.flow = w
      /\ d.uses = [s.uses EXCEPT ![fd] = @ + 1]
      /\ d.open = s.open /\ d.failed = s.failed
  BY <1>1, <1>4, <1>5, RegisterFields
<1>7. ASSUME NEW e \in FDs
      PROVE  /\ Cardinality(Users(d, e)) =
                  IF fd = e THEN Cardinality(Users(s, e)) + 1
                            ELSE Cardinality(Users(s, e))
             /\ Users(s, e) \subseteq Users(d, e)
  <2>1. SameFDs(d, s, s.set \ {f})
    BY <1>3, <1>6 DEF SameFDs
  <2>2. d.flow[f].fd # NoFD /\ e # NoFD /\ s.flow[f].fd = NoFD
    BY <1>1, <1>3, <1>6, Descriptors DEF BoundIn, Sockets
  <2>3. Cardinality(Users(d, e)) =
          IF d.flow[f].fd = e
          THEN Cardinality(Users(s, e)) + 1 ELSE Cardinality(Users(s, e))
    BY <1>6, <2>1, <2>2, OneUserMore
  <2>4. Users(s, e) \subseteq Users(d, e)
    BY <1>6, <2>1, <2>2 DEF Users, SameFDs
  <2> QED
    BY <1>3, <1>6, <2>3, <2>4
<1>8. CountedUses(d, en)
  <2> SUFFICES ASSUME NEW e \in FDs
               PROVE  /\ d.uses[e] <= Cardinality(Users(d, e))
                      /\ Lost(en) \/ d.uses[e] = Cardinality(Users(d, e))
    BY DEF CountedUses
  <2>1. /\ s.uses[e] <= Cardinality(Users(s, e))
        /\ Lost(en) \/ s.uses[e] = Cardinality(Users(s, e))
    BY DEF Core, CountedUses
  <2>2. s.uses[e] \in Nat /\ Cardinality(Users(s, e)) \in Nat
    BY CoreFacts, UsersAreFinite
  <2>3. d.uses[e] = IF fd = e THEN s.uses[e] + 1 ELSE s.uses[e]
    BY <1>1, <1>6, CoreFacts
  <2> QED
    BY <1>7, <2>1, <2>2, <2>3
<1>9. FlowSockets(d, en)
  BY <1>3, <1>6 DEF Core, FlowSockets
<1>10. Core(d, en) /\ f \in Users(d, fd)
  BY <1>3, <1>6, <1>8, <1>9 DEF Core, Users
<1> QED
  BY <1>3, <1>6, <1>7, <1>10 DEF d

\* Sockets that are still open are still used.
StillUsed(d, s) ==
  \A e \in FDs : d.open[e] # NoConn =>
    s.open[e] # NoConn /\ (Users(s, e) # {} => Users(d, e) # {})

LEMMA DestroyCore ==
  ASSUME NEW s, NEW en, Core(s, en), NEW f \in Flows, f \in s.set,
         BoundIn(s, f) => s.flow[f].running
  PROVE  LET d == Destroy(s, f) IN
         /\ Core(d, en) /\ d.set = s.set \ {f} /\ StillUsed(d, s)
         /\ d.flow = [s.flow EXCEPT ![f] = NewFlow]
<1> DEFINE d  == Destroy(s, f)
           fd == s.flow[f].fd
           u  == IF s.flow[f].running THEN Less(s.uses, fd) ELSE s.uses
<1>1. /\ d \in Locked /\ d.set = s.set \ {f}
      /\ d.new = s.new /\ d.failed = s.failed
      /\ d.flow = [s.flow EXCEPT ![f] = NewFlow]
      /\ d.uses = IF Closes(s, f) THEN Less(u, fd) ELSE u
      /\ d.open = IF Closes(s, f) THEN Closed(s.open, fd) ELSE s.open
  BY CoreFacts, DestroyFields
<1> HIDE DEF d
<1>2. /\ s \in Locked /\ s.set \in SUBSET Flows /\ s.flow \in [Flows -> FlowStates]
      /\ s.uses \in [Sockets -> Nat] /\ s.open \in [FDs -> {NoConn} \cup Conns]
      /\ FDs \subseteq Sockets /\ NoFD \notin FDs /\ fd \in {NoFD} \cup Sockets
  BY CoreFacts, FlowFields, Descriptors
<1>3. \A g \in s.set \ {f} : d.flow[g] = s.flow[g]
  BY <1>1, <1>2
<1>4. Closes(s, f) <=> fd # NoFD /\ \A g \in s.set \ {f} : s.flow[g].fd # fd
  BY ActiveAssumption DEF Closes, DeleteWhenFinished
<1>5. ASSUME NEW e \in FDs
      PROVE  /\ Users(d, e) = Users(s, e) \ {f}
             /\ Cardinality(Users(d, e)) =
                  IF fd = e THEN Cardinality(Users(s, e)) - 1
                            ELSE Cardinality(Users(s, e))
             /\ Cardinality(Users(s, e)) \in Nat
             /\ fd = e => Cardinality(Users(s, e)) > 0
  <2>1. /\ Users(d, e) = Users(s, e) \ {f}
        /\ Cardinality(Users(d, e)) =
             IF f \in s.set /\ s.flow[f].fd = e
             THEN Cardinality(Users(s, e)) - 1 ELSE Cardinality(Users(s, e))
    <3>1. SameFDs(d, s, s.set \ {f})
      BY <1>3 DEF SameFDs
    <3> QED
      BY <1>1, <3>1, OneUserLess
  <2> QED
    BY <2>1, UsersAreFinite, UsedSocket
<1>6. ASSUME NEW e \in FDs
      PROVE  /\ u[e] \in Nat /\ u[e] <= Cardinality(Users(d, e))
             /\ Lost(en) \/ u[e] = Cardinality(Users(d, e))
  <2>1. /\ s.uses[e] <= Cardinality(Users(s, e)) /\ s.uses[e] \in Nat
        /\ Lost(en) \/ s.uses[e] = Cardinality(Users(s, e))
    BY <1>2 DEF Core, CountedUses
  <2>2. CASE fd = e
    <3>1. u[e] = IF s.uses[e] = 0 THEN 0 ELSE s.uses[e] - 1
      BY <1>2, <2>1, <2>2 DEF Less, BoundIn
    <3> QED
      BY <1>5, <2>1, <2>2, <3>1
  <2>3. CASE fd # e
    <3>1. u[e] = s.uses[e]
      BY <1>2, <2>3 DEF Less
    <3> QED
      BY <1>5, <2>1, <2>3, <3>1
  <2> QED
    BY <2>2, <2>3
<1> HIDE DEF u
<1>7. Closes(s, f) /\ fd \in FDs => Users(d, fd) = {}
  BY <1>4, <1>5 DEF Users
<1>8. CountedUses(d, en)
  <2> SUFFICES ASSUME NEW e \in FDs
               PROVE  /\ d.uses[e] <= Cardinality(Users(d, e))
                      /\ Lost(en) \/ d.uses[e] = Cardinality(Users(d, e))
    BY DEF CountedUses
  <2>1. CASE Closes(s, f) /\ e = fd
    <3>1. Cardinality(Users(d, e)) = 0
      BY <1>7, <2>1, FS_EmptySet
    <3>2. u[e] = 0
      BY <1>6, <3>1
    <3> QED
      BY <1>1, <1>2, <2>1, <3>1, <3>2 DEF Less
  <2>2. CASE ~(Closes(s, f) /\ e = fd)
    <3>1. d.uses[e] = u[e]
      BY <1>1, <1>2, <2>2 DEF Less
    <3> QED
      BY <1>6, <3>1
  <2> QED
    BY <2>1, <2>2
<1>9. FlowSockets(d, en)
  <2> SUFFICES ASSUME NEW g \in d.set, d.flow[g].fd # NoFD
               PROVE  /\ d.flow[g].fd \in FDs
                      /\ Lost(en) \/ d.open[d.flow[g].fd] = Conn[g]
    BY DEF FlowSockets
  <2>1. g \in s.set /\ g # f /\ d.flow[g] = s.flow[g]
    BY <1>1, <1>3
  <2>2. s.flow[g].fd \in FDs /\ (Lost(en) \/ s.open[s.flow[g].fd] = Conn[g])
    BY <2>1 DEF Core, FlowSockets
  <2>3. Closes(s, f) => s.flow[g].fd # fd
    BY <1>4, <2>1
  <2> QED
    BY <1>1, <2>1, <2>2, <2>3 DEF Closed
<1>10. StillUsed(d, s)
  <2> SUFFICES ASSUME NEW e \in FDs, d.open[e] # NoConn
               PROVE  s.open[e] # NoConn /\ (Users(s, e) # {} => Users(d, e) # {})
    BY DEF StillUsed
  <2>1. s.open[e] # NoConn /\ ~(Closes(s, f) /\ e = fd)
    BY <1>1 DEF Closed
  <2>2. CASE e = fd
    <3>1. PICK g \in s.set \ {f} : s.flow[g].fd = fd
      BY <1>2, <1>4, <2>1, <2>2
    <3>2. g \in Users(d, e)
      BY <1>1, <1>2, <1>3, <2>2, <3>1 DEF Users
    <3> QED
      BY <2>1, <3>2
  <2>3. CASE e # fd
    BY <1>5, <2>1, <2>3 DEF Users
  <2> QED
    BY <2>2, <2>3
<1>11. Core(d, en)
  BY <1>1, <1>8, <1>9 DEF Core
<1> QED
  BY <1>1, <1>10, <1>11 DEF d

\* run() gives back a use of the socket of a flow, and with the last one the
\* socket; unless an association is lost no other flow has it.
LEMMA DisconnectCore ==
  ASSUME NEW s, NEW en, Core(s, en), NEW f \in Flows, f \in s.set,
         s.flow[f].fd \in FDs, Lost(en) \/ Users(s, s.flow[f].fd) \subseteq {f}
  PROVE  LET d == Disconnect(s, f) IN
         /\ Core(d, en) /\ d.set = s.set
         /\ \A g \in s.set \ {f} : d.flow[g] = s.flow[g]
         /\ \/ Lost(en) /\ d.open = s.open /\ d.flow = s.flow
            \/ /\ d.open = Closed(s.open, s.flow[f].fd)
               /\ d.flow[f].running = s.flow[f].running /\ d.flow[f].fd = NoFD
               /\ \A e \in FDs \ {s.flow[f].fd} : Users(d, e) = Users(s, e)
<1> DEFINE d  == Disconnect(s, f)
           fd == s.flow[f].fd
           t  == Deregister(s, fd)
           c  == Close(t, fd)
           w  == [s.flow EXCEPT ![f] = [@ EXCEPT !.fd = NoFD]]
<1>1. /\ s \in Locked /\ s.set \in SUBSET Flows /\ s.flow \in [Flows -> FlowStates]
      /\ s.uses \in [Sockets -> Nat] /\ FDs \subseteq Sockets /\ NoFD \notin FDs
  BY CoreFacts, Descriptors
<1>2. /\ t \in Locked /\ t.set = s.set /\ t.flow = s.flow /\ t.new = s.new
      /\ t.open = s.open /\ t.failed = s.failed /\ t.uses = Less(s.uses, fd)
  BY <1>1, DeregisterFields
<1>3. d = IF t.uses[fd] = 0 THEN [c EXCEPT !.flow[f].fd = NoFD]
          ELSE IF Protocol[Conn[f]] = "SCTP" THEN t
          ELSE [t EXCEPT !.failed = @ \cup {"read"}]
  BY DEF Disconnect
<1> HIDE DEF t, d
<1>4. ASSUME NEW e \in FDs
      PROVE  /\ s.uses[e] \in Nat /\ s.uses[e] <= Cardinality(Users(s, e))
             /\ Lost(en) \/ s.uses[e] = Cardinality(Users(s, e))
             /\ t.uses[e] = IF e = fd /\ s.uses[e] # 0
                            THEN s.uses[e] - 1 ELSE s.uses[e]
             /\ Cardinality(Users(s, e)) \in Nat
  BY <1>1, <1>2, UsersAreFinite DEF Core, CountedUses, Less
<1>5. ASSUME ~Lost(en)
      PROVE  Users(s, fd) = {f} /\ t.uses[fd] = 0
  <2>1. f \in Users(s, fd)
    BY DEF Users
  <2>2. Users(s, fd) = {f}
    BY <1>5, <2>1
  <2>3. s.uses[fd] = 1
    BY <1>4, <1>5, <2>2, FS_Singleton
  <2> QED
    BY <1>4, <2>2, <2>3
<1>6. CASE t.uses[fd] # 0
  <2>1. /\ d \in Locked /\ d.set = s.set /\ d.flow = s.flow /\ d.new = s.new
        /\ d.open = s.open /\ d.uses = t.uses
    BY <1>2, <1>3, <1>6 DEF Locked
  <2>2. Lost(en)
    BY <1>5, <1>6
  <2>3. \A e : Users(d, e) = Users(s, e)
    BY <2>1 DEF Users
  <2>4. CountedUses(d, en)
    <3>1. ASSUME NEW e \in FDs PROVE d.uses[e] <= Cardinality(Users(d, e))
      BY <1>4, <2>1, <2>3
    <3> QED
      BY <2>2, <3>1 DEF CountedUses
  <2>5. FlowSockets(d, en)
    BY <2>1, <2>2 DEF Core, FlowSockets
  <2>6. Core(d, en)
    BY <2>1, <2>2, <2>4, <2>5 DEF Core
  <2> QED
    BY <2>1, <2>2, <2>6 DEF d
<1>7. CASE t.uses[fd] = 0
  <2>1. /\ c \in Locked /\ c.set = s.set /\ c.flow = s.flow /\ c.new = s.new
        /\ c.uses = t.uses /\ c.failed = s.failed /\ c.open = Closed(s.open, fd)
    BY <1>2, CloseFields
  <2> HIDE DEF c
  <2>2. w \in [Flows -> FlowStates]
    BY <1>1 DEF FlowStates
  <2>3. /\ w[f].fd = NoFD /\ w[f].running = s.flow[f].running
        /\ \A g \in s.set \ {f} : w[g] = s.flow[g]
    BY <1>1 DEF FlowStates
  <2>4. d = [c EXCEPT !.flow = w]
    BY <1>3, <1>7, <2>1 DEF Locked
  <2> HIDE DEF w
  <2>5. /\ d \in Locked /\ d.set = s.set /\ d.new = s.new /\ d.flow = w
        /\ d.uses = t.uses /\ d.failed = s.failed /\ d.open = Closed(s.open, fd)
    BY <2>1, <2>2, <2>4, WithFlow
  <2>6. /\ Users(d, fd) = Users(s, fd) \ {f}
        /\ \A e \in FDs \ {fd} : Users(d, e) = Users(s, e)
    BY <1>1, <2>3, <2>5 DEF Users
  <2>7. CountedUses(d, en)
    <3> SUFFICES ASSUME NEW e \in FDs
                 PROVE  /\ d.uses[e] <= Cardinality(Users(d, e))
                        /\ Lost(en) \/ d.uses[e] = Cardinality(Users(d, e))
      BY DEF CountedUses
    <3>1. CASE e = fd
      <4>1. d.uses[e] = 0 /\ Cardinality(Users(d, e)) \in Nat
        BY <1>7, <2>5, <3>1, UsersAreFinite
      <4>2. Lost(en) \/ Cardinality(Users(d, e)) = 0
        BY <1>5, <2>6, <3>1, FS_EmptySet
      <4> QED
        BY <4>1, <4>2
    <3>2. CASE e # fd
      BY <1>4, <2>5, <2>6, <3>2
    <3> QED
      BY <3>1, <3>2
  <2>8. FlowSockets(d, en)
    <3> SUFFICES ASSUME NEW g \in d.set, d.flow[g].fd # NoFD
                 PROVE  /\ d.flow[g].fd \in FDs
                        /\ Lost(en) \/ d.open[d.flow[g].fd] = Conn[g]
      BY DEF FlowSockets
    <3>1. g \in s.set \ {f} /\ d.flow[g] = s.flow[g]
      BY <2>3, <2>5
    <3>2. s.flow[g].fd \in FDs /\ (Lost(en) \/ s.open[s.flow[g].fd] = Conn[g])
      BY <3>1 DEF Core, FlowSockets
    <3>3. Lost(en) \/ s.flow[g].fd # fd
      BY <1>1, <1>5, <3>1 DEF Users
    <3> QED
      BY <2>5, <3>1, <3>2, <3>3 DEF Closed
  <2>9. Core(d, en)
    BY <2>5, <2>7, <2>8 DEF Core
  <2> QED
    BY <2>3, <2>5, <2>6, <2>9 DEF d
<1> QED
  BY <1>6, <1>7

-----------------------------------------------------------------------------
(* All flows, one after the other.                                         *)

AfterDestroys(d, s, T, en) ==
  /\ Core(d, en) /\ d.set = s.set \ T /\ StillUsed(d, s)
  /\ d.flow = [f \in Flows |-> IF f \in T THEN NewFlow ELSE s.flow[f]]

LEMMA OneMoreDestroyed ==
  ASSUME NEW s, NEW en, NEW T, NEW d, AfterDestroys(d, s, T, en),
         NEW f \in Flows, f \in s.set, f \notin T,
         BoundIn(s, f) => s.flow[f].running
  PROVE  AfterDestroys(Destroy(d, f), s, T \cup {f}, en)
<1> DEFINE x == Destroy(d, f)
<1>1. d.flow[f] = s.flow[f] /\ f \in d.set
  BY DEF AfterDestroys
<1>2. /\ Core(x, en) /\ x.set = d.set \ {f} /\ StillUsed(x, d)
      /\ x.flow = [d.flow EXCEPT ![f] = NewFlow]
  BY <1>1, DestroyCore DEF AfterDestroys, BoundIn
<1> HIDE DEF x
<1>3. x.flow = [g \in Flows |-> IF g \in T \cup {f} THEN NewFlow ELSE s.flow[g]]
  BY <1>2 DEF AfterDestroys
<1>4. StillUsed(x, s)
  BY <1>2 DEF AfterDestroys, StillUsed
<1>5. x.set = s.set \ (T \cup {f})
  BY <1>2 DEF AfterDestroys
<1>6. AfterDestroys(x, s, T \cup {f}, en)
  BY <1>2, <1>3, <1>4, <1>5 DEF AfterDestroys
<1> QED
  BY <1>6 DEF x

DestroyAll(s, T) == FoldSet(LAMBDA f, t : Destroy(t, f), s, T)

LEMMA DestroyAllUnfolds ==
  ASSUME NEW s \in Locked, NEW T \in SUBSET Flows
  PROVE  \E h : /\ DestroyAll(s, T) = h[T]
                /\ h = [x \in SUBSET T |-> IF x = {} THEN s ELSE
                          Destroy(h[x \ {Pick(x)}], Pick(x))]
<1> DEFINE R == [p \in T \X Locked |-> Destroy(p[2], p[1])]
           Def(h) == h = [x \in SUBSET T |-> IF x = {} THEN s ELSE
                            Destroy(h[x \ {Pick(x)}], Pick(x))]
           H == CHOOSE h : Def(h)
<1>1. R \in [T \X Locked -> Locked]
  BY DestroyFields
<1>2. IsFiniteSet(T)
  BY ConstantsAssumption, FS_Subset
<1>3. PICK h \in [SUBSET T -> Locked] : Recursive(h, T, s, R)
  <2> HIDE DEF R
  <2> QED
    BY <1>1, <1>2, RecursionOnSubsets
<1>4. ASSUME NEW x \in SUBSET T, x # {}
      PROVE  R[<<Pick(x), h[x \ {Pick(x)}]>>] = Destroy(h[x \ {Pick(x)}], Pick(x))
  <2>1. <<Pick(x), h[x \ {Pick(x)}]>> \in T \X Locked
    BY <1>4 DEF Pick
  <2> QED
    BY <2>1
<1>5. Def(h)
  <2> HIDE DEF R
  <2> QED
    BY <1>3, <1>4 DEF Recursive
<1>6. Def(H)
  <2> HIDE DEF Def
  <2> QED
    BY <1>5
<1>7. DestroyAll(s, T) = H[T]
  BY DEF DestroyAll, FoldSet, MapThenFoldSet, Pick
<1> HIDE DEF H
<1> QED
  BY <1>6, <1>7

LEMMA DestroyAllCore ==
  ASSUME NEW s, NEW en, Core(s, en), \A f \in s.set : BoundIn(s, f) => s.flow[f].running
  PROVE  LET d == DestroyAll(s, s.set) IN
         Core(d, en) /\ d.set = {} /\ StillUsed(d, s)
<1> DEFINE T == s.set
<1>1. s \in Locked /\ s.flow \in [Flows -> FlowStates] /\ T \in SUBSET Flows
  BY CoreFacts
<1>2. PICK h : /\ DestroyAll(s, T) = h[T]
               /\ h = [x \in SUBSET T |-> IF x = {} THEN s ELSE
                         Destroy(h[x \ {Pick(x)}], Pick(x))]
  BY <1>1, DestroyAllUnfolds
<1> DEFINE Q == {x \in SUBSET T : AfterDestroys(h[x], s, x, en)}
<1>3. {} \in Q
  <2>1. h[{}] = s
    BY <1>2
  <2>2. s.flow = [f \in Flows |-> IF f \in {} THEN NewFlow ELSE s.flow[f]]
    BY <1>1
  <2>3. AfterDestroys(s, s, {}, en)
    BY <2>2 DEF AfterDestroys, StillUsed
  <2> QED
    BY <2>1, <2>3
<1>4. ASSUME NEW x \in SUBSET T, x # {}, x \ {Pick(x)} \in Q PROVE x \in Q
  <2>1. Pick(x) \in x /\ h[x] = Destroy(h[x \ {Pick(x)}], Pick(x))
    BY <1>2, <1>4 DEF Pick
  <2>2. AfterDestroys(h[x \ {Pick(x)}], s, x \ {Pick(x)}, en)
    BY <1>4
  <2>3. /\ Pick(x) \in Flows /\ Pick(x) \in s.set
        /\ BoundIn(s, Pick(x)) => s.flow[Pick(x)].running
    BY <1>1, <2>1
  <2>4. AfterDestroys(h[x], s, (x \ {Pick(x)}) \cup {Pick(x)}, en)
    BY <2>1, <2>2, <2>3, OneMoreDestroyed
  <2>5. (x \ {Pick(x)}) \cup {Pick(x)} = x
    BY <2>1
  <2> QED
    BY <1>4, <2>4, <2>5
<1>5. IsFiniteSet(T)
  BY CoreFacts
<1>6. T \in Q
  <2> HIDE DEF Q
  <2> QED
    BY <1>3, <1>4, <1>5, SubsetInduction
<1> QED
  BY <1>2, <1>6 DEF AfterDestroys

-----------------------------------------------------------------------------
(* All flows at once.                                                      *)

LEMMA StopFields ==
  ASSUME NEW s \in Locked, NEW M
  PROVE  LET d == StopAsync(s, M) IN
         /\ FlowsOnly(d, s) /\ d.new = s.new
         /\ \A f \in Flows : d.flow[f] = IF f \in M /\ s.flow[f].running
                                         THEN Unpolled(s.flow[f]) ELSE s.flow[f]
         /\ \A f \in Flows : d.flow[f].running = s.flow[f].running
<1> DEFINE w == [f \in Flows |-> IF f \in M /\ s.flow[f].running
                                 THEN Unpolled(s.flow[f]) ELSE s.flow[f]]
<1>1. \A f \in Flows : /\ w[f] \in FlowStates /\ w[f].fd = s.flow[f].fd
                       /\ w[f].running = s.flow[f].running
  BY FlowFields DEF Unpolled, FlowStates
<1>2. w \in [Flows -> FlowStates]
  BY <1>1
<1>3. StopAsync(s, M) = [s EXCEPT !.flow = w]
  BY DEF StopAsync, Locked
<1>4. \A f \in Flows : w[f] = IF f \in M /\ s.flow[f].running
                              THEN Unpolled(s.flow[f]) ELSE s.flow[f]
  OBVIOUS
<1> HIDE DEF w
<1> DEFINE x == [s EXCEPT !.flow = w]
<1>5. /\ x \in Locked /\ x.set = s.set /\ x.flow = w /\ x.new = s.new
      /\ x.open = s.open /\ x.uses = s.uses /\ x.failed = s.failed
  BY <1>2, WithFlow
<1> HIDE DEF x
<1>6. StopAsync(s, M) = x
  BY <1>3 DEF x
<1> QED
  BY <1>1, <1>4, <1>5, <1>6 DEF FlowsOnly

LEMMA ActivateFields ==
  ASSUME NEW s \in Locked, NEW M
  PROVE  LET d == Activate(s, M) IN
         /\ FlowsOnly(d, s) /\ d.new = s.new
         /\ \A f \in Flows : d.flow[f].entry = s.flow[f].entry
         /\ \A f \in Flows \ M : d.flow[f] = s.flow[f]
         /\ \A f \in M \cap Flows : BoundIn(s, f) => d.flow[f].running
<1> DEFINE w == [f \in Flows |-> IF f \in M /\ s.flow[f].fd # NoFD
                  THEN [s.flow[f] EXCEPT !.running = TRUE, !.input = TRUE]
                  ELSE s.flow[f]]
<1>1. \A f \in Flows : /\ w[f] \in FlowStates /\ w[f].fd = s.flow[f].fd
                       /\ w[f].entry = s.flow[f].entry
                       /\ f \notin M => w[f] = s.flow[f]
                       /\ f \in M /\ s.flow[f].fd # NoFD => w[f].running
  BY FlowFields DEF FlowStates
<1>2. w \in [Flows -> FlowStates]
  BY <1>1
<1>3. Activate(s, M) = [s EXCEPT !.flow = w]
  BY DEF Activate, Locked
<1> HIDE DEF w
<1> DEFINE x == [s EXCEPT !.flow = w]
<1>4. /\ x \in Locked /\ x.set = s.set /\ x.flow = w /\ x.new = s.new
      /\ x.open = s.open /\ x.uses = s.uses /\ x.failed = s.failed
  BY <1>2, WithFlow
<1> HIDE DEF x
<1>5. Activate(s, M) = x
  BY <1>3 DEF x
<1> QED
  BY <1>1, <1>4, <1>5 DEF FlowsOnly, BoundIn

-----------------------------------------------------------------------------
(* The steps of the network and of the main thread.                        *)

LEMMA InvNext ==
  ASSUME Types', Core(fm', ended'),
         phase' # "failed" =>
           /\ MainInv(fm', phase', socket', ended')
           /\ QueueInv(inbox', phase') /\ ReaderInv(fm', reader')
  PROVE  IInv'
  BY DEF IInv, MainInv, Numbered, OneSocketEach, Bound, Opened, Connected, Last,
         Users, QueueInv, ReaderInv, Core, CountedUses, FlowSockets, Locked, Lost

\* What the flows do with their sockets does not matter to the main thread.
LEMMA FlowsOnlyMain ==
  ASSUME NEW s, NEW en, Core(s, en), NEW d, FlowsOnly(d, s),
         NEW ph, NEW next, MainInv(s, ph, next, en),
         \A f \in s.set : s.flow[f].running => d.flow[f].running
  PROVE  MainInv(d, ph, next, en)
<1>1. Core(d, en) /\ \A e : Users(d, e) = Users(s, e)
  BY SameCore
<1>2. d.set = s.set /\ d.open = s.open /\ s.set \in SUBSET Flows /\ Last(d) = Last(s)
  BY CoreFacts DEF FlowsOnly, Last
<1>3. \A f \in s.set : d.flow[f].fd = s.flow[f].fd
  BY <1>2 DEF FlowsOnly
<1>4. Numbered(d, ph) /\ (Lost(en) \/ OneSocketEach(d))
  BY <1>2 DEF MainInv, Numbered, OneSocketEach
<1>5. ph \in {"connect", "set"} => Last(s) \in s.set
  BY DEF MainInv, Numbered
<1>6. Bound(d, ph)
  BY <1>2, <1>3, <1>5 DEF MainInv, Bound
<1>7. Opened(d, ph, next)
  BY <1>1, <1>2 DEF MainInv, Opened
<1>8. Lost(en) \/ Connected(d, ph, next, en)
  BY <1>2, <1>3, <1>5 DEF MainInv, Connected
<1> QED
  BY <1>4, <1>6, <1>7, <1>8 DEF MainInv

LEMMA InitInv == Init => IInv
<1> SUFFICES ASSUME Init PROVE IInv
  OBVIOUS
<1>1. /\ fm.set = {} /\ fm.flow = [f \in Flows |-> NewFlow] /\ DOMAIN fm.new = {}
      /\ fm.new = [fd \in {} |-> NewSocket]
      /\ fm.uses = [fd \in Sockets |-> 0] /\ fm.open = [fd \in FDs |-> NoConn]
      /\ fm.failed = {}
      /\ fm = [set |-> fm.set, flow |-> fm.flow, new |-> fm.new,
               uses |-> fm.uses, open |-> fm.open, failed |-> fm.failed]
  BY DEF Init, SharedInit, Sockets
<1>2. /\ inbox = [k \in Conns |-> <<>>] /\ ended = {} /\ phase = "create"
      /\ socket = NoFD
      /\ reader = [pc |-> "collect", polled |-> {}, ready |-> {}, todo |-> {}]
  BY DEF Init, SharedInit
<1>3. fm \in Locked
  <2>1. fm.flow \in [Flows -> FlowStates] /\ fm.uses \in [Sockets -> Nat]
    BY <1>1, NewFlowType
  <2>2. fm.new \in [{} -> Unidentified]
    BY <1>1
  <2>3. fm.open \in [FDs -> {NoConn} \cup Conns]
    BY <1>1
  <2> QED
    BY <1>1, <2>1, <2>2, <2>3 DEF Locked
<1>4. \A e : Users(fm, e) = {} /\ Cardinality(Users(fm, e)) = 0
  BY <1>1, FS_EmptySet DEF Users
<1>5. Core(fm, ended)
  <2>1. CountedUses(fm, ended)
    BY <1>1, <1>4 DEF CountedUses, Sockets
  <2> QED
    BY <1>1, <1>3, <2>1 DEF Core, FlowSockets
<1>6. Last(fm) = 0 /\ fm.set = 1..Last(fm)
  BY <1>1, FS_EmptySet DEF Last
<1>7. MainInv(fm, phase, socket, ended)
  <2>1. Numbered(fm, phase) /\ Bound(fm, phase)
    BY <1>1, <1>2, <1>6 DEF Numbered, Bound
  <2>2. /\ OneSocketEach(fm) /\ Opened(fm, phase, socket)
        /\ Connected(fm, phase, socket, ended)
    BY <1>1, <1>2 DEF OneSocketEach, Opened, Connected
  <2> QED
    BY <2>1, <2>2 DEF MainInv
<1>8. QueueInv(inbox, phase)
  BY <1>2 DEF QueueInv
<1>9. Types /\ ReaderInv(fm, reader)
  <2>1. inbox \in [Conns -> Seq(Messages)]
    BY <1>2
  <2>2. reader \in [pc : {"collect", "poll", "lock", "handle"},
                    polled : SUBSET FDs, ready : SUBSET FDs, todo : SUBSET Handles]
    BY <1>2
  <2> QED
    BY <1>2, <2>1, <2>2 DEF Types, Phases, Creating, ReaderInv
<1> QED
  BY <1>5, <1>7, <1>8, <1>9 DEF IInv

LEMMA PeerSendsInv ==
  ASSUME IInv, NEW f \in Flows, PeerSends(f)
  PROVE  IInv'
<1>1. /\ UNCHANGED <<fm, ended, reader, phase, socket>> /\ phase = "running"
      /\ inbox' = [inbox EXCEPT ![Conn[f]] = Append(@, Data(f))]
      /\ inbox \in [Conns -> Seq(Messages)] /\ Conn[f] \in Conns
  BY ConstantsAssumption DEF PeerSends, IInv, Types
<1>2. /\ Data(f) \in Messages /\ Data(f).type = "data" /\ Data(f).flow = f
  BY DEF Data, Messages
<1>3. inbox[Conn[f]] \in Seq(Messages)
  BY <1>1
<1>4. inbox' \in [Conns -> Seq(Messages)]
  <2>1. Append(inbox[Conn[f]], Data(f)) \in Seq(Messages)
    BY <1>2, <1>3
  <2> QED
    BY <1>1, <2>1
<1>5. ASSUME NEW k \in Conns, NEW i \in DOMAIN inbox'[k]
      PROVE  inbox'[k][i].type = "data" /\ Conn[inbox'[k][i].flow] = k
  <2>1. CASE k = Conn[f]
    <3> DEFINE q == inbox[k]
               m == Data(f)
    <3>1. inbox'[k] = Append(q, m) /\ q \in Seq(Messages) /\ m \in Messages
      BY <1>1, <1>2, <1>3, <2>1
    <3>2. \A j \in DOMAIN q : q[j].type = "data" /\ Conn[q[j].flow] = k
      BY <1>1 DEF IInv, QueueInv
    <3>3. m.type = "data" /\ Conn[m.flow] = k
      BY <1>2, <2>1
    <3> HIDE DEF q, m
    <3>4. inbox'[k][i] = m \/ (i \in DOMAIN q /\ inbox'[k][i] = q[i])
      BY <1>5, <3>1
    <3> QED
      BY <3>2, <3>3, <3>4
  <2>2. CASE k # Conn[f]
    <3>1. inbox'[k] = inbox[k]
      BY <1>1, <2>2
    <3> QED
      BY <1>1, <1>5, <3>1 DEF IInv, QueueInv
  <2> QED
    BY <2>1, <2>2
<1>6. QueueInv(inbox', phase')
  BY <1>1, <1>5 DEF IInv, QueueInv, Creating
<1>7. Types'
  BY <1>1, <1>4 DEF IInv, Types
<1>8. /\ Core(fm', ended') /\ MainInv(fm', phase', socket', ended')
      /\ ReaderInv(fm', reader')
  BY <1>1 DEF IInv
<1> QED
  BY <1>6, <1>7, <1>8, InvNext

LEMMA ConnectionIsLostInv ==
  ASSUME IInv, NEW k \in Conns, ConnectionIsLost(k)
  PROVE  IInv'
<1>1. /\ UNCHANGED <<fm, inbox, reader, phase, socket>>
      /\ ended' = ended \cup {k}
  BY DEF ConnectionIsLost
<1>2. Lost(ended) => Lost(ended')
  BY <1>1, LostGrows
<1>3. Types' /\ Core(fm, ended')
  BY <1>1, <1>2 DEF IInv, Types, Core, CountedUses, FlowSockets
<1>4. ASSUME phase # "failed"
      PROVE  MainInv(fm, phase, socket, ended')
  <2>1. Lost(ended) \/ Connected(fm, phase, socket, ended')
    BY <1>1, <1>4 DEF IInv, MainInv, Connected
  <2> QED
    BY <1>2, <1>4, <2>1 DEF IInv, MainInv
<1>5. phase # "failed" => QueueInv(inbox, phase) /\ ReaderInv(fm, reader)
  BY DEF IInv
<1> QED
  BY <1>1, <1>3, <1>4, <1>5, InvNext

\* The flows so far.
LEMMA LastFacts ==
  ASSUME IInv, phase \notin {"done", "failed"}
  PROVE  /\ Last(fm) \in Nat /\ Count = Last(fm) /\ fm.set = 1..Last(fm)
         /\ Last(fm) + 1 \notin fm.set
         /\ phase \in {"connect", "set"} => Last(fm) \in Flows /\ Last(fm) \in fm.set
<1>1. IsFiniteSet(fm.set) /\ fm.set \in SUBSET Flows
  BY CoreFacts DEF IInv
<1>2. Last(fm) \in Nat /\ Count = Last(fm)
  BY <1>1, FS_CardinalityType DEF Last, Count
<1>3. fm.set = 1..Last(fm)
  BY DEF IInv, MainInv, Numbered
<1>4. phase \in {"connect", "set"} => Last(fm) \in fm.set
  BY DEF IInv, MainInv, Numbered
<1> QED
  BY <1>1, <1>2, <1>3, <1>4

LEMMA CreateFlowInv ==
  ASSUME IInv, CreateFlow
  PROVE  IInv'
<1> DEFINE f == Last(fm) + 1
           d == AddFlow(fm, f)
<1>1. /\ phase = "create" /\ phase' = "connect"
      /\ UNCHANGED <<inbox, ended, reader, socket>>
  BY DEF CreateFlow
<1>2. /\ Last(fm) \in Nat /\ fm.set = 1..Last(fm) /\ f \notin fm.set
      /\ Count = Last(fm)
  BY <1>1, LastFacts
<1>3. f \in Flows /\ fm' = d
  BY <1>2 DEF CreateFlow
<1>4. /\ Core(d, ended) /\ d.set = fm.set \cup {f} /\ d.open = fm.open
      /\ d.flow[f].fd = NoFD /\ \A g \in fm.set : d.flow[g] = fm.flow[g]
      /\ \A e \in FDs : Users(d, e) = Users(fm, e)
  BY <1>2, <1>3, AddFlowCore DEF IInv
<1>5. Last(d) = f
  <2>1. Cardinality(fm.set \cup {f}) = Cardinality(fm.set) + 1
    BY <1>2, CoreFacts, FS_AddElement DEF IInv
  <2> QED
    BY <1>4, <2>1 DEF Last
<1> HIDE DEF d
<1>6. d.set = 1..Last(d) /\ Last(d) \in d.set
  <2>1. 1..f = (1..Last(fm)) \cup {f}
    BY <1>2
  <2> HIDE DEF f
  <2> QED
    BY <1>2, <1>4, <1>5, <2>1
<1> HIDE DEF f
<1>7. MainInv(d, "connect", socket, ended)
  <2>1. Numbered(d, "connect")
    BY <1>6 DEF Numbered
  <2>2. Lost(ended) \/ OneSocketEach(d)
    BY <1>1, <1>4 DEF IInv, MainInv, OneSocketEach
  <2>3. Bound(d, "connect")
    BY <1>1, <1>4, <1>5 DEF IInv, MainInv, Bound
  <2>4. Opened(d, "connect", socket)
    BY <1>1, <1>4 DEF IInv, MainInv, Opened
  <2>5. Lost(ended) \/ Connected(d, "connect", socket, ended)
    BY <1>1, <1>4, <1>5 DEF IInv, MainInv, Connected
  <2> QED
    BY <2>1, <2>2, <2>3, <2>4, <2>5 DEF MainInv
<1>8. ReaderInv(d, reader)
  BY <1>1, <1>4 DEF IInv, ReaderInv
<1>9. QueueInv(inbox, "connect")
  BY <1>1 DEF IInv, QueueInv, Creating
<1>10. Types'
  BY <1>1 DEF IInv, Types, Phases, Creating
<1> QED
  BY <1>1, <1>3, <1>4, <1>7, <1>8, <1>9, <1>10, InvNext

LEMMA NextFDIsFree ==
  ASSUME NEW s, FreeFDs(s) # {}
  PROVE  NextFD(s) \in FDs /\ s.open[NextFD(s)] = NoConn
<1>1. FreeFDs(s) \in SUBSET Nat
  BY ConstantsAssumption DEF FreeFDs, FDs
<1>2. \E fd \in FreeFDs(s) : \A e \in FreeFDs(s) : fd <= e
  BY <1>1, LeastNumberPrinciple
<1>3. NextFD(s) \in FreeFDs(s)
  BY <1>2 DEF NextFD
<1> QED
  BY <1>3 DEF FreeFDs

\* No flow has a descriptor that is free, unless an association is lost.
LEMMA FreeSocket ==
  ASSUME NEW s, NEW en, Core(s, en), ~Lost(en), NEW fd \in FDs, s.open[fd] = NoConn
  PROVE  Users(s, fd) = {}
<1> SUFFICES ASSUME NEW f \in Flows, f \in s.set, s.flow[f].fd = fd PROVE FALSE
  BY DEF Users
<1>1. s.open[fd] = Conn[f]
  BY Descriptors DEF Core, FlowSockets, Sockets
<1> QED
  BY <1>1, ConstantsAssumption

\* socket() for a connection that no flow has yet.
LEMMA OpenCore ==
  ASSUME NEW s, NEW en, Core(s, en), NEW fd \in FDs, s.open[fd] = NoConn, NEW k \in Conns
  PROVE  LET d == [s EXCEPT !.open[fd] = k] IN
         /\ Core(d, en) /\ d.set = s.set /\ d.flow = s.flow
         /\ d.open = [s.open EXCEPT ![fd] = k]
         /\ \A e : Users(d, e) = Users(s, e)
<1> DEFINE o == [s.open EXCEPT ![fd] = k]
           d == [s EXCEPT !.open = o]
<1>1. o \in [FDs -> {NoConn} \cup Conns]
  BY CoreFacts
<1>2. [s EXCEPT !.open[fd] = k] = d
  BY CoreFacts DEF Locked
<1>3. o[fd] = k /\ \A e \in FDs \ {fd} : o[e] = s.open[e]
  BY CoreFacts
<1> HIDE DEF o
<1>4. /\ d \in Locked /\ d.set = s.set /\ d.flow = s.flow /\ d.new = s.new
      /\ d.uses = s.uses /\ d.failed = s.failed /\ d.open = o
  BY <1>1, CoreFacts DEF Locked
<1> HIDE DEF d
<1>5. \A e : Users(d, e) = Users(s, e)
  BY <1>4 DEF Users
<1>6. CountedUses(d, en)
  BY <1>4, <1>5 DEF Core, CountedUses
<1>7. FlowSockets(d, en)
  <2> SUFFICES ASSUME NEW f \in s.set, s.flow[f].fd # NoFD
               PROVE  /\ s.flow[f].fd \in FDs
                      /\ Lost(en) \/ o[s.flow[f].fd] = Conn[f]
    BY <1>4 DEF FlowSockets
  <2>1. s.flow[f].fd \in FDs /\ (Lost(en) \/ s.open[s.flow[f].fd] = Conn[f])
    BY DEF Core, FlowSockets
  <2>2. f \in Users(s, s.flow[f].fd)
    BY CoreFacts DEF Users
  <2>3. Lost(en) \/ s.flow[f].fd # fd
    BY <2>2, FreeSocket
  <2> QED
    BY <1>3, <2>1, <2>3
<1>8. Core(d, en)
  BY <1>4, <1>6, <1>7 DEF Core
<1>9. d.open = [s.open EXCEPT ![fd] = k]
  BY <1>4 DEF o
<1> QED
  BY <1>2, <1>4, <1>5, <1>8, <1>9

LEMMA ConnectInv ==
  ASSUME IInv, Connect
  PROVE  IInv'
<1> DEFINE n == Last(fm)
           k == Conn[n]
<1>1. /\ phase = "connect" /\ phase' = "set" /\ UNCHANGED <<inbox, ended, reader>>
  BY DEF Connect
<1>2. n \in Nat /\ fm.set = 1..n /\ n \in Flows /\ n \in fm.set /\ Count = n
  BY <1>1, LastFacts
<1>3. k \in Conns /\ k # NoConn
  BY <1>2, ConstantsAssumption
<1>4. /\ Core(fm, ended) /\ Numbered(fm, "connect")
      /\ Bound(fm, "connect") /\ Opened(fm, "connect", socket)
      /\ \/ Lost(ended)
         \/ OneSocketEach(fm) /\ Connected(fm, "connect", socket, ended)
      /\ ReaderInv(fm, reader) /\ QueueInv(inbox, "connect")
  BY <1>1 DEF IInv, MainInv
<1>5. QueueInv(inbox, "set")
  BY <1>4 DEF QueueInv, Creating
<1> HIDE DEF n, k
<1>6. CASE n > 1 /\ k = Conn[n - 1]
  <2>1. n - 1 \in fm.set /\ n - 1 # n
    BY <1>2, <1>6
  <2>2. fm' = fm /\ socket' = fm.flow[n - 1].fd
    BY <1>2, <1>6 DEF Connect, k
  <2>3. socket' \in {NoFD} \cup FDs
    BY <1>4, <2>1, <2>2 DEF Core, FlowSockets
  <2>4. Lost(ended) \/ k \in ended \/ (socket' \in FDs /\ fm.open[socket'] = k)
    <3>1. Lost(ended) \/ k \in ended \/ fm.flow[n - 1].fd # NoFD
      BY <1>4, <1>6, <2>1 DEF Connected, n
    <3> QED
      BY <1>4, <1>6, <2>1, <2>2, <3>1 DEF Core, FlowSockets
  <2>5. MainInv(fm, "set", socket', ended)
    <3>1. Numbered(fm, "set") /\ Bound(fm, "set")
      BY <1>4 DEF Numbered, Bound
    <3>2. Opened(fm, "set", socket')
      BY <1>4 DEF Opened
    <3>3. Lost(ended) \/ Connected(fm, "set", socket', ended)
      BY <1>4, <2>4 DEF Connected, n, k
    <3> QED
      BY <1>4, <3>1, <3>2, <3>3 DEF MainInv
  <2>6. Types'
    BY <1>1, <2>3 DEF IInv, Types, Phases, Creating
  <2> QED
    BY <1>1, <1>4, <1>5, <2>2, <2>5, <2>6, InvNext
<1>7. CASE ~(n > 1 /\ k = Conn[n - 1])
  <2> DEFINE fd == NextFD(fm)
             d  == [fm EXCEPT !.open[fd] = k]
  <2>1. FreeFDs(fm) # {} /\ socket' = fd /\ fm' = d
    BY <1>2, <1>7 DEF Connect, k
  <2>2. fd \in FDs /\ fm.open[fd] = NoConn
    BY <2>1, NextFDIsFree
  <2> HIDE DEF fd
  <2>3. /\ Core(d, ended) /\ d.set = fm.set /\ d.flow = fm.flow
        /\ d.open = [fm.open EXCEPT ![fd] = k]
        /\ \A e : Users(d, e) = Users(fm, e)
    BY <1>3, <1>4, <2>2, OpenCore
  <2> HIDE DEF d
  <2>4. d.open[fd] = k /\ \A e \in FDs \ {fd} : d.open[e] = fm.open[e]
    BY <1>4, <2>2, <2>3, CoreFacts
  <2>5. ASSUME ~Lost(ended), NEW e \in FDs, fm.open[e] = k PROVE FALSE
    <3>1. Users(fm, e) # {}
      BY <1>3, <1>4, <2>5 DEF Opened
    <3>2. PICK f \in Flows : f \in fm.set /\ fm.flow[f].fd = e
      BY <3>1 DEF Users
    <3>3. e # NoFD
      BY Descriptors DEF Sockets
    <3>4. Conn[f] = k /\ f # n
      BY <1>4, <2>5, <3>2, <3>3 DEF Core, FlowSockets, Bound, n
    <3>5. f \in 1..n /\ n > 1 /\ n - 1 \in f..n
      BY <1>2, <3>2, <3>4
    <3>6. Conn[n - 1] = k
      BY <1>2, <3>4, <3>5, ActiveAssumption DEF k
    <3> QED
      BY <1>7, <3>5, <3>6
  <2>6. Lost(ended) \/ OneSocketEach(d)
    BY <1>4, <2>4, <2>5 DEF OneSocketEach
  <2>7. Last(d) = n
    BY <2>3 DEF Last, n
  <2>8. MainInv(d, "set", fd, ended)
    <3>1. Numbered(d, "set") /\ Bound(d, "set")
      BY <1>4, <2>3, <2>7 DEF Numbered, Bound, n
    <3>2. Opened(d, "set", fd)
      <4>1. \A e \in FDs : d.open[e] # NoConn => Users(d, e) # {} \/ fd = e
        BY <1>4, <2>3, <2>4 DEF Opened
      <4> QED
        BY <4>1 DEF Opened
    <3>3. Lost(ended) \/ Connected(d, "set", fd, ended)
      BY <1>4, <2>2, <2>3, <2>4, <2>7 DEF Connected, n, k
    <3> QED
      BY <2>6, <3>1, <3>2, <3>3 DEF MainInv
  <2>9. ReaderInv(d, reader)
    BY <1>4, <2>3 DEF ReaderInv
  <2>10. Types'
    BY <1>1, <2>1, <2>2 DEF IInv, Types, Phases, Creating
  <2> QED
    BY <1>1, <1>5, <2>1, <2>3, <2>8, <2>9, <2>10, InvNext
<1> QED
  BY <1>6, <1>7

LEMMA SetSocketDescriptorInv ==
  ASSUME IInv, SetSocketDescriptor
  PROVE  IInv'
<1> DEFINE n == Last(fm)
<1>1. /\ phase = "set" /\ UNCHANGED <<inbox, ended, reader>> /\ socket' = NoFD
  BY DEF SetSocketDescriptor
<1>2. n \in Flows /\ n \in fm.set /\ Count = n
  BY <1>1, LastFacts
<1>3. /\ Core(fm, ended) /\ Numbered(fm, "set")
      /\ Bound(fm, "set") /\ Opened(fm, "set", socket)
      /\ \/ Lost(ended)
         \/ OneSocketEach(fm) /\ Connected(fm, "set", socket, ended)
      /\ ReaderInv(fm, reader) /\ QueueInv(inbox, "set")
  BY <1>1 DEF IInv, MainInv
<1> HIDE DEF n
<1>4. CASE socket = NoFD \/ Conn[n] \in ended
  <2>1. phase' = "failed" /\ fm' = fm
    BY <1>2, <1>4 DEF SetSocketDescriptor
  <2>2. Types'
    BY <1>1, <2>1 DEF IInv, Types, Phases
  <2> QED
    BY <1>1, <1>3, <2>1, <2>2, InvNext
<1>5. CASE ~(socket = NoFD \/ Conn[n] \in ended)
  <2> DEFINE d == Bind(fm, n, socket)
  <2>1. phase' = "create" /\ fm' = d
    BY <1>2, <1>5 DEF SetSocketDescriptor, Bind
  <2>2. /\ socket \in FDs /\ (Lost(ended) \/ fm.open[socket] = Conn[n])
        /\ fm.flow[n].fd = NoFD
    BY <1>3, <1>5 DEF Connected, Bound, n, IInv, Types
  <2>3. /\ Core(d, ended) /\ d.set = fm.set /\ d.open = fm.open
        /\ d.flow[n].fd = socket /\ \A g \in fm.set \ {n} : d.flow[g] = fm.flow[g]
        /\ \A e \in FDs : Users(fm, e) \subseteq Users(d, e)
        /\ n \in Users(d, socket)
    BY <1>2, <1>3, <2>2, BindCore DEF BoundIn
  <2> HIDE DEF d
  <2>4. Last(d) = n /\ socket # NoFD
    BY <1>5, <2>3 DEF Last, n
  <2>5. Numbered(d, "create") /\ (Lost(ended) \/ OneSocketEach(d))
    BY <1>3, <2>3, <2>4 DEF Numbered, OneSocketEach, n
  <2>6. Bound(d, "create")
    BY DEF Bound
  <2>7. Lost(ended) \/ Connected(d, "create", NoFD, ended)
    <3>1. ASSUME ~Lost(ended), NEW f \in d.set, Conn[f] \notin ended
          PROVE  d.flow[f].fd # NoFD
      <4>1. CASE f = n
        BY <2>3, <2>4, <4>1
      <4>2. CASE f # n
        BY <1>3, <2>3, <3>1, <4>2 DEF Connected, n
      <4> QED
        BY <4>1, <4>2
    <3> QED
      BY <3>1 DEF Connected
  <2>8. Opened(d, "create", NoFD)
    <3>1. ASSUME NEW e \in FDs, d.open[e] # NoConn PROVE Users(d, e) # {}
      BY <1>3, <2>3, <3>1 DEF Opened
    <3> QED
      BY <3>1 DEF Opened
  <2>9. MainInv(d, "create", NoFD, ended)
    BY <2>5, <2>6, <2>7, <2>8 DEF MainInv
  <2>10. ReaderInv(d, reader)
    <3>1. ASSUME NEW f \in Flows, <<"flow", f>> \in reader.todo
          PROVE  f \in d.set /\ d.flow[f].fd \in FDs
      <4>1. f \in fm.set /\ fm.flow[f].fd \in FDs
        BY <1>3, <3>1 DEF ReaderInv
      <4>2. f # n
        BY <2>2, <4>1, Descriptors DEF Sockets
      <4> QED
        BY <2>3, <4>1, <4>2
    <3> QED
      BY <1>3, <3>1 DEF ReaderInv
  <2>11. QueueInv(inbox, "create")
    BY <1>3 DEF QueueInv, Creating
  <2>12. Types'
    BY <1>1, <2>1 DEF IInv, Types, Phases, Creating
  <2> QED
    BY <1>1, <2>1, <2>3, <2>9, <2>10, <2>11, <2>12, InvNext
<1> QED
  BY <1>4, <1>5

LEMMA StartInv ==
  ASSUME IInv, Start
  PROVE  IInv'
<1> DEFINE d == Activate(fm, fm.set)
<1>1. /\ phase = "create" /\ phase' = "running" /\ fm' = d
      /\ Count = Cardinality(Flows) /\ UNCHANGED <<inbox, ended, reader, socket>>
  BY DEF Start
<1>2. /\ Core(fm, ended) /\ MainInv(fm, "create", socket, ended)
      /\ ReaderInv(fm, reader) /\ QueueInv(inbox, "create")
  BY <1>1 DEF IInv
<1>3. fm.set = Flows
  BY <1>1, LastFacts, ActiveAssumption
<1>4. /\ FlowsOnly(d, fm) /\ \A f \in fm.set : BoundIn(fm, f) => d.flow[f].running
  BY <1>2, <1>3, ActivateFields, CoreFacts
<1> HIDE DEF d
<1>5. Core(d, ended) /\ (\A e : Users(d, e) = Users(fm, e)) /\ d.set = fm.set
      /\ d.open = fm.open /\ Last(d) = Last(fm)
  BY <1>2, <1>4, SameCore DEF FlowsOnly, Last
<1>6. MainInv(d, "running", socket, ended)
  <2>1. Numbered(d, "running") /\ (Lost(ended) \/ OneSocketEach(d))
    BY <1>2, <1>3, <1>5 DEF MainInv, Numbered, OneSocketEach
  <2>2. Bound(d, "running")
    BY <1>2, <1>3, <1>4, <1>5 DEF MainInv, Bound, BoundIn, FlowsOnly
  <2>3. Opened(d, "running", socket)
    BY <1>2, <1>5 DEF MainInv, Opened
  <2>4. Lost(ended) \/ Connected(d, "running", socket, ended)
    BY <1>2, <1>3, <1>4, <1>5 DEF MainInv, Connected, FlowsOnly
  <2> QED
    BY <2>1, <2>2, <2>3, <2>4 DEF MainInv
<1>7. ReaderInv(d, reader)
  BY <1>2, <1>4, <1>5 DEF ReaderInv, FlowsOnly
<1>8. QueueInv(inbox, "running")
  BY <1>2 DEF QueueInv, Creating
<1>9. Types'
  BY <1>1 DEF IInv, Types, Phases
<1> QED
  BY <1>1, <1>5, <1>6, <1>7, <1>8, <1>9, InvNext

LEMMA StopInv ==
  ASSUME IInv, Stop
  PROVE  IInv'
<1> DEFINE d == StopAsync(fm, fm.set)
<1>1. /\ phase = "running" /\ phase' = "stopped" /\ fm' = d
      /\ UNCHANGED <<inbox, ended, reader, socket>>
  BY DEF Stop
<1>2. /\ Core(fm, ended) /\ MainInv(fm, "running", socket, ended)
      /\ ReaderInv(fm, reader) /\ QueueInv(inbox, "running")
  BY <1>1 DEF IInv
<1>3. /\ FlowsOnly(d, fm) /\ \A f \in Flows : d.flow[f].running = fm.flow[f].running
  BY <1>2, StopFields, CoreFacts
<1> HIDE DEF d
<1>4. Core(d, ended) /\ d.set = fm.set
  BY <1>2, <1>3, SameCore DEF FlowsOnly
<1>5. MainInv(d, "running", socket, ended)
  BY <1>2, <1>3, FlowsOnlyMain, CoreFacts
<1>6. MainInv(d, "stopped", socket, ended)
  BY <1>5 DEF MainInv, Numbered, Bound, Opened, Connected
<1>7. ReaderInv(d, reader)
  BY <1>2, <1>3, <1>4 DEF ReaderInv, FlowsOnly
<1>8. QueueInv(inbox, "stopped")
  BY <1>2 DEF QueueInv, Creating
<1>9. Types'
  BY <1>1 DEF IInv, Types, Phases
<1> QED
  BY <1>1, <1>4, <1>6, <1>7, <1>8, <1>9, InvNext

LEMMA DeleteFlowsInv ==
  ASSUME IInv, DeleteFlows
  PROVE  IInv'
<1> DEFINE d == DestroyAll(fm, fm.set)
<1>1. /\ phase = "stopped" /\ phase' = "done" /\ reader.pc # "handle"
      /\ UNCHANGED <<inbox, ended, reader, socket>>
  BY DEF DeleteFlows, MainHasLock
<1>2. fm' = d
  BY DEF DeleteFlows, DestroyAll
<1>3. /\ Core(fm, ended) /\ Bound(fm, "stopped")
      /\ Opened(fm, "stopped", socket)
      /\ ReaderInv(fm, reader) /\ QueueInv(inbox, "stopped")
  BY <1>1 DEF IInv, MainInv
<1>4. Core(d, ended) /\ d.set = {} /\ StillUsed(d, fm)
  <2>1. \A f \in fm.set : BoundIn(fm, f) => fm.flow[f].running
    BY <1>3 DEF Bound, BoundIn
  <2> QED
    BY <1>3, <2>1, DestroyAllCore
<1> HIDE DEF d
<1>5. \A e \in FDs : d.open[e] = NoConn
  <2>1. \A e : Users(d, e) = {}
    BY <1>4 DEF Users
  <2> QED
    BY <1>3, <1>4, <2>1 DEF StillUsed, Opened
<1>6. MainInv(d, "done", socket, ended)
  <2>1. Numbered(d, "done") /\ Bound(d, "done")
    BY <1>4 DEF Numbered, Bound
  <2>2. /\ OneSocketEach(d) /\ Opened(d, "done", socket)
        /\ Connected(d, "done", socket, ended)
    BY <1>4, <1>5 DEF OneSocketEach, Opened, Connected
  <2> QED
    BY <2>1, <2>2 DEF MainInv
<1>7. ReaderInv(d, reader)
  BY <1>1, <1>3 DEF ReaderInv
<1>8. QueueInv(inbox, "done")
  BY <1>3 DEF QueueInv, Creating
<1>9. Types'
  BY <1>1 DEF IInv, Types, Phases
<1> QED
  BY <1>1, <1>2, <1>4, <1>6, <1>7, <1>8, <1>9, InvNext

LEMMA MainThreadInv ==
  ASSUME IInv, MainThread
  PROVE  IInv'
  BY CreateFlowInv, ConnectInv, SetSocketDescriptorInv, StartInv, StopInv,
     DeleteFlowsInv DEF MainThread

-----------------------------------------------------------------------------
(* The steps of the reception thread.                                      *)

LEMMA CollectInv ==
  ASSUME IInv, phase # "failed", Collect, UNCHANGED <<phase, socket>>
  PROVE  IInv'
<1> DEFINE w == [f \in Flows |-> [fm.flow[f] EXCEPT !.entry = f \in PolledFlows]]
           m == [fd \in DOMAIN fm.new |->
                   [fm.new[fd] EXCEPT !.entry = fd # UDPSocket]]
           d == [fm EXCEPT !.flow = w, !.new = m]
<1>1. /\ fm' = d /\ ended' = ended /\ inbox' = inbox /\ reader.pc = "collect"
      /\ reader' = [reader EXCEPT !.pc = "poll",
           !.polled = {fm.flow[f].fd : f \in PolledFlows}
                      \cup (DOMAIN fm.new \ {UDPSocket})]
  BY CoreFacts DEF Collect, IInv, Locked
<1>2. /\ Core(fm, ended) /\ fm \in Locked /\ fm.set \in SUBSET Flows
      /\ fm.flow \in [Flows -> FlowStates] /\ DOMAIN fm.new = {}
      /\ fm.new \in UNION {[D -> Unidentified] : D \in SUBSET Sockets}
  BY CoreFacts DEF IInv, Core, Locked
<1>3. ASSUME NEW f \in Flows
      PROVE  /\ w[f] \in FlowStates /\ w[f].fd = fm.flow[f].fd
             /\ w[f].running = fm.flow[f].running
  <2>1. fm.flow[f] \in FlowStates /\ (f \in PolledFlows) \in BOOLEAN
    BY <1>2
  <2>2. PICK b \in BOOLEAN : w[f] = [fm.flow[f] EXCEPT !.entry = b]
    BY <2>1, Zenon
  <2> QED
    BY <2>1, <2>2 DEF FlowStates
<1>4. m = fm.new
  BY <1>2, Zenon
<1>5. w \in [Flows -> FlowStates]
  BY <1>3
<1> HIDE DEF w, m
<1>6. FlowsOnly(d, fm) /\ d.flow = w
  BY <1>2, <1>3, <1>4, <1>5 DEF Locked, FlowsOnly
<1> HIDE DEF d
<1>7. Core(d, ended)
  BY <1>2, <1>6, SameCore
<1>8. MainInv(d, phase, socket, ended)
  <2>1. MainInv(fm, phase, socket, ended)
    BY DEF IInv
  <2>2. \A f \in fm.set : fm.flow[f].running => d.flow[f].running
    BY <1>2, <1>3, <1>6
  <2> QED
    BY <1>2, <1>6, <2>1, <2>2, FlowsOnlyMain
<1>9. {fm.flow[f].fd : f \in PolledFlows} \cup (DOMAIN fm.new \ {UDPSocket})
        \subseteq FDs
  <2>1. \A f \in PolledFlows : f \in fm.set /\ fm.flow[f].fd # NoFD
    BY DEF PolledFlows, ToPoll
  <2> QED
    BY <1>2, <2>1 DEF Core, FlowSockets
<1>10. /\ reader' \in [pc : {"collect", "poll", "lock", "handle"}, polled : SUBSET FDs,
                       ready : SUBSET FDs, todo : SUBSET Handles]
       /\ reader'.pc = "poll" /\ reader'.todo = {}
  <2>1. reader.todo = {}
    BY <1>1 DEF IInv, ReaderInv
  <2> QED
    BY <1>1, <1>9, <2>1 DEF IInv, Types
<1>11. Types' /\ ReaderInv(d, reader')
  BY <1>1, <1>10 DEF IInv, Types, ReaderInv
<1>12. QueueInv(inbox, phase)
  BY DEF IInv
<1> QED
  BY <1>1, <1>7, <1>8, <1>11, <1>12, InvNext

\* The steps that only change what the thread remembers.
LEMMA ReaderStep ==
  ASSUME IInv, UNCHANGED <<fm, inbox, ended, phase, socket>>,
         reader' \in [pc : {"collect", "poll", "lock", "handle"},
                      polled : SUBSET FDs, ready : SUBSET FDs, todo : SUBSET Handles],
         ReaderInv(fm, reader')
  PROVE  IInv'
<1>1. Types'
  BY DEF IInv, Types
<1>2. /\ Core(fm', ended')
      /\ phase # "failed" => /\ MainInv(fm', phase', socket', ended')
                             /\ QueueInv(inbox', phase')
  BY DEF IInv
<1> QED
  BY <1>1, <1>2, InvNext

LEMMA PollInv ==
  ASSUME IInv, phase # "failed", PollReturns \/ PollTimesOut \/ TakeLock \/ Unlock,
         UNCHANGED <<phase, socket>>
  PROVE  IInv'
<1> DEFINE R == [pc : {"collect", "poll", "lock", "handle"},
                 polled : SUBSET FDs, ready : SUBSET FDs, todo : SUBSET Handles]
<1>1. reader \in R /\ ReaderInv(fm, reader) /\ Core(fm, ended)
  BY DEF IInv, Types
<1>2. CASE PollReturns
  <2>1. PICK ready \in SUBSET FDs :
          reader' = [reader EXCEPT !.pc = "lock", !.polled = {}, !.ready = ready]
    BY <1>1, <1>2 DEF PollReturns
  <2>2. reader.todo = {} /\ UNCHANGED <<fm, inbox, ended>>
    BY <1>1, <1>2 DEF PollReturns, ReaderInv
  <2>3. reader' \in R /\ reader'.todo = {}
    BY <1>1, <2>1, <2>2
  <2>4. ReaderInv(fm, reader')
    BY <2>3 DEF ReaderInv
  <2> QED
    BY <2>2, <2>3, <2>4, ReaderStep
<1>3. CASE PollTimesOut \/ Unlock
  <2>1. reader.todo = {} /\ UNCHANGED <<fm, inbox, ended>>
    BY <1>1, <1>3 DEF PollTimesOut, Unlock, ReaderInv
  <2>2. reader' \in R /\ reader'.todo = {}
    BY <1>1, <1>3, <2>1 DEF PollTimesOut, Unlock
  <2>3. ReaderInv(fm, reader')
    BY <2>2 DEF ReaderInv
  <2> QED
    BY <2>1, <2>2, <2>3, ReaderStep
<1>4. CASE TakeLock
  <2> DEFINE E == {g \in fm.set : fm.flow[g].entry /\ fm.flow[g].fd \in reader.ready}
             T == {<<"flow", f>> : f \in E}
  <2>1. /\ UNCHANGED <<fm, inbox, ended>>
        /\ reader' = [reader EXCEPT !.pc = "handle", !.ready = {}, !.todo = T]
    <3>1. {<<"new", fd>> : fd \in {e \in DOMAIN fm.new :
              fm.new[e].entry /\ e \in reader.ready}} = {}
      BY <1>1 DEF Core
    <3> QED
      BY <1>4, <3>1 DEF TakeLock
  <2>2. fm.set \in SUBSET Flows /\ T \in SUBSET Handles
    BY <1>1, CoreFacts DEF Handles
  <2>3. reader' \in R /\ reader'.todo = T /\ reader'.pc = "handle"
    BY <1>1, <2>1, <2>2
  <2>4. reader.ready \in SUBSET FDs
    BY <1>1
  <2>5. ASSUME NEW f \in Flows, <<"flow", f>> \in T
        PROVE  f \in fm.set /\ fm.flow[f].fd \in FDs
    <3>1. f \in E
      BY <2>5
    <3> QED
      BY <2>4, <3>1
  <2>6. \A fd \in FDs : <<"new", fd>> \notin T
    OBVIOUS
  <2>7. ReaderInv(fm, reader')
    BY <2>3, <2>5, <2>6 DEF ReaderInv
  <2> QED
    BY <2>1, <2>3, <2>7, ReaderStep
<1> QED
  BY <1>2, <1>3, <1>4

\* The end of a connection switches off the input of a flow.
InputOff(d, s) ==
  FlowsOnly(d, s) /\ \A f \in Flows : d.flow[f].running = s.flow[f].running

LEMMA EndFields ==
  ASSUME NEW s \in Locked, NEW fd, NEW m, m.type = "end"
  PROVE  InputOff(HandleData(s, fd, m), s)
<1> DEFINE w == [f \in Flows |-> IF f \in FlowAt(s, fd, 0)
                                 THEN [s.flow[f] EXCEPT !.input = FALSE] ELSE s.flow[f]]
           x == [s EXCEPT !.flow = w]
<1>1. \A f \in Flows : /\ w[f] \in FlowStates /\ w[f].fd = s.flow[f].fd
                       /\ w[f].running = s.flow[f].running
  BY FlowFields DEF FlowStates
<1>2. w \in [Flows -> FlowStates]
  BY <1>1
<1>3. HandleData(s, fd, m) = x
  BY DEF HandleData, Locked
<1> HIDE DEF w
<1>4. /\ x \in Locked /\ x.set = s.set /\ x.flow = w /\ x.new = s.new
      /\ x.open = s.open /\ x.uses = s.uses /\ x.failed = s.failed
  BY <1>2, WithFlow
<1> HIDE DEF x
<1> QED
  BY <1>1, <1>3, <1>4 DEF InputOff, FlowsOnly

\* What a flow that is polled reads: data, or the end of its connection, unless
\* an association is lost and its descriptor is another's by now.
LEMMA ReadFacts ==
  ASSUME IInv, phase # "failed", NEW f \in Flows, f \in fm.set,
         fm.flow[f].fd \in FDs, Readable(fm, fm.flow[f].fd)
  PROVE  LET fd == fm.flow[f].fd
             m  == MessageOn(fm, fd)
         IN /\ fm.open[fd] \in Conns /\ InputOff(HandleData(fm, fd, m), fm)
            /\ Lost(ended) \/ DataOkay(fm, fd, m) \/ Conn[f] \in ended
<1> DEFINE fd == fm.flow[f].fd
           m  == MessageOn(fm, fd)
           k  == fm.open[fd]
           q  == inbox[k]
<1>1. /\ Core(fm, ended) /\ Numbered(fm, phase) /\ QueueInv(inbox, phase)
      /\ Lost(ended) \/ (OneSocketEach(fm) /\ Connected(fm, phase, socket, ended))
      /\ inbox \in [Conns -> Seq(Messages)]
  BY DEF IInv, Types, MainInv
<1>2. Lost(ended) \/ k = Conn[f]
  BY <1>1, Descriptors DEF Core, FlowSockets, Sockets
<1>3. k \in Conns /\ k # NoConn /\ q \in Seq(Messages)
  BY <1>1, CoreFacts DEF Readable
<1>4. m = IF q = <<>> THEN End ELSE Head(q)
  BY DEF MessageOn
<1>5. CASE q = <<>>
  <2>1. m.type = "end"
    BY <1>4, <1>5 DEF End
  <2>2. InputOff(HandleData(fm, fd, m), fm)
    <3> HIDE DEF m, fd
    <3> QED
      BY <1>1, <2>1, EndFields, CoreFacts
  <2>3. k \in ended
    BY <1>5 DEF Readable
  <2> QED
    BY <1>2, <1>3, <2>2, <2>3
<1>6. CASE q # <<>>
  <2>1. m = q[1] /\ 1 \in DOMAIN q /\ m \in Messages
    BY <1>3, <1>4, <1>6
  <2> HIDE DEF m
  <2>2. m.flow \in Flows /\ m.type = "data" /\ Conn[m.flow] = k
    BY <1>1, <1>3, <2>1 DEF QueueInv, Messages
  <2>3. HandleData(fm, fd, m) = fm
    BY <2>2 DEF HandleData
  <2>4. InputOff(fm, fm)
    BY <1>1, CoreFacts DEF InputOff, FlowsOnly
  <2>5. ASSUME ~Lost(ended), Conn[f] \notin ended PROVE DataOkay(fm, fd, m)
    <3>1. phase \in {"running", "stopped"}
      <4>1. phase \notin Creating /\ phase # "done"
        BY <1>1, <1>3, <1>6 DEF QueueInv, Numbered
      <4> QED
        BY <4>1 DEF IInv, Types, Phases
    <3>2. m.flow \in fm.set
      BY <1>1, <2>2, <3>1 DEF Numbered
    <3>3. fm.flow[m.flow].fd # NoFD
      BY <1>1, <1>2, <2>2, <2>5, <3>1, <3>2 DEF Connected
    <3>4. fm.flow[m.flow].fd \in FDs /\ fm.open[fm.flow[m.flow].fd] = k
      BY <1>1, <2>2, <2>5, <3>2, <3>3 DEF Core, FlowSockets
    <3>5. fm.flow[m.flow].fd = fd
      BY <1>1, <1>3, <2>5, <3>4 DEF OneSocketEach
    <3>6. m.flow \in FlowAt(fm, fd, Stream[m.flow])
      BY <2>2, <3>2, <3>5 DEF FlowAt
    <3> QED
      BY <2>2, <3>6 DEF DataOkay
  <2> HIDE DEF fd
  <2> QED
    BY <1>3, <2>3, <2>4, <2>5 DEF m, fd
<1> QED
  BY <1>5, <1>6

\* What is left to read is what waited before.
LEMMA ConsumeQueue ==
  ASSUME NEW box \in [Conns -> Seq(Messages)], NEW k \in Conns,
         NEW ph, QueueInv(box, ph)
  PROVE  LET b == [box EXCEPT ![k] = IF @ = <<>> THEN @ ELSE Tail(@)]
         IN b \in [Conns -> Seq(Messages)] /\ QueueInv(b, ph)
<1> DEFINE q == box[k]
           r == IF q = <<>> THEN q ELSE Tail(q)
           b == [box EXCEPT ![k] = IF @ = <<>> THEN @ ELSE Tail(@)]
<1>1. q \in Seq(Messages) /\ r \in Seq(Messages)
  OBVIOUS
<1>2. ASSUME NEW i \in DOMAIN r PROVE \E j \in DOMAIN q : r[i] = q[j]
  <2>1. CASE q = <<>>
    BY <1>2, <2>1
  <2>2. CASE q # <<>>
    <3>1. r = Tail(q)
      BY <2>2
    <3>2. i + 1 \in DOMAIN q /\ Tail(q)[i] = q[i + 1]
      BY <1>1, <1>2, <2>2, <3>1
    <3> QED
      BY <3>1, <3>2
  <2> QED
    BY <2>1, <2>2
<1>3. b = [box EXCEPT ![k] = r] /\ (q = <<>> => r = <<>>)
  OBVIOUS
<1>4. \A e \in Conns : b[e] = IF e = k THEN r ELSE box[e]
  BY <1>3
<1>5. b \in [Conns -> Seq(Messages)]
  BY <1>1, <1>3
<1> HIDE DEF r, b
<1>6. ASSUME NEW e \in Conns, NEW i \in DOMAIN b[e]
      PROVE  b[e][i].type = "data" /\ Conn[b[e][i].flow] = e
  <2>1. CASE e = k
    <3>1. PICK j \in DOMAIN q : b[e][i] = q[j]
      BY <1>2, <1>4, <1>6, <2>1
    <3> QED
      BY <2>1, <3>1 DEF QueueInv
  <2>2. CASE e # k
    BY <1>4, <1>6, <2>2 DEF QueueInv
  <2> QED
    BY <2>1, <2>2
<1>7. ph \in Creating => \A e \in Conns : b[e] = <<>>
  BY <1>3, <1>4 DEF QueueInv
<1>8. QueueInv(b, ph)
  BY <1>6, <1>7 DEF QueueInv
<1> QED
  BY <1>5, <1>8 DEF b

\* A flow whose connection is lost gives back its use or its socket.
LEMMA DisconnectMain ==
  ASSUME NEW s, Core(s, ended), MainInv(s, phase, socket, ended),
         NEW f \in Flows, f \in s.set, s.flow[f].fd \in FDs,
         Lost(ended) \/ Conn[f] \in ended
  PROVE  LET d == Disconnect(s, f) IN
         /\ Core(d, ended) /\ MainInv(d, phase, socket, ended)
         /\ d.set = s.set /\ \A g \in s.set \ {f} : d.flow[g] = s.flow[g]
<1> DEFINE d  == Disconnect(s, f)
           fd == s.flow[f].fd
<1>1. /\ Core(s, ended) /\ Numbered(s, phase) /\ Bound(s, phase)
      /\ Opened(s, phase, socket)
      /\ Lost(ended) \/ (OneSocketEach(s) /\ Connected(s, phase, socket, ended))
  BY DEF MainInv
<1>2. fd # NoFD /\ (Lost(ended) \/ s.open[fd] = Conn[f])
  BY <1>1, Descriptors DEF Core, FlowSockets, Sockets
<1>3. Lost(ended) \/ Users(s, fd) \subseteq {f}
  <2>1. ASSUME ~Lost(ended), NEW g \in Flows, g \in s.set, s.flow[g].fd = fd
        PROVE  g = f
    <3>1. Conn[g] = Conn[f]
      BY <1>1, <1>2, <2>1 DEF Core, FlowSockets
    <3> QED
      BY <2>1, <3>1 DEF Lost
  <2> QED
    BY <2>1 DEF Users
<1>4. /\ Core(d, ended) /\ d.set = s.set
      /\ \A g \in s.set \ {f} : d.flow[g] = s.flow[g]
      /\ \/ Lost(ended) /\ d.open = s.open /\ d.flow = s.flow
         \/ /\ d.open = Closed(s.open, fd)
            /\ d.flow[f].running = s.flow[f].running /\ d.flow[f].fd = NoFD
            /\ \A e \in FDs \ {fd} : Users(d, e) = Users(s, e)
  BY <1>1, <1>3, DisconnectCore
<1> HIDE DEF d, fd
<1>5. Last(d) = Last(s) /\ Numbered(d, phase)
  BY <1>1, <1>4 DEF Numbered, Last
<1>6. CASE Lost(ended) /\ d.open = s.open /\ d.flow = s.flow
  <2>1. \A e : Users(d, e) = Users(s, e)
    BY <1>4, <1>6 DEF Users
  <2>2. Bound(d, phase) /\ Opened(d, phase, socket)
    BY <1>1, <1>4, <1>5, <1>6, <2>1 DEF Bound, Opened
  <2> QED
    BY <1>4, <1>5, <1>6, <2>2 DEF MainInv, d
<1>7. CASE /\ d.open = Closed(s.open, fd)
           /\ d.flow[f].running = s.flow[f].running /\ d.flow[f].fd = NoFD
           /\ \A e \in FDs \ {fd} : Users(d, e) = Users(s, e)
  <2>1. /\ \A e \in FDs \ {fd} : d.open[e] = s.open[e]
        /\ fd \in FDs => d.open[fd] = NoConn
    BY <1>7 DEF Closed
  <2>2. phase \in {"connect", "set"} => Last(s) \in s.set /\ Last(s) # f
    BY <1>1, <1>2 DEF Bound, Numbered, fd
  <2>3. Bound(d, phase)
    BY <1>1, <1>4, <1>5, <1>7, <2>2 DEF Bound
  <2>4. Opened(d, phase, socket)
    <3>1. ASSUME NEW e \in FDs, d.open[e] # NoConn
          PROVE  Users(d, e) # {} \/ (phase = "set" /\ socket = e)
      <4>1. e # fd /\ s.open[e] # NoConn
        BY <2>1, <3>1
      <4> QED
        BY <1>1, <1>7, <4>1 DEF Opened
    <3> QED
      BY <3>1 DEF Opened
  <2>5. Lost(ended) \/ OneSocketEach(d)
    BY <1>1, <2>1 DEF OneSocketEach, fd
  <2>6. Lost(ended) \/ Connected(d, phase, socket, ended)
    <3> SUFFICES ASSUME ~Lost(ended) PROVE Connected(d, phase, socket, ended)
      OBVIOUS
    <3>1. Connected(s, phase, socket, ended) /\ Conn[f] \in ended
      BY <1>1
    <3>2. ASSUME NEW g \in d.set, Conn[g] \notin ended,
                 phase \in {"connect", "set"} => g # Last(d)
          PROVE  d.flow[g].fd # NoFD
      BY <1>4, <1>5, <3>1, <3>2 DEF Connected
    <3>3. ASSUME phase = "set", Conn[Last(d)] \notin ended
          PROVE  socket \in FDs /\ d.open[socket] = Conn[Last(d)]
      <4>1. socket \in FDs /\ s.open[socket] = Conn[Last(d)]
        BY <1>5, <3>1, <3>3 DEF Connected
      <4>2. socket # fd
        BY <1>2, <3>1, <3>3, <4>1
      <4> QED
        BY <2>1, <4>1, <4>2
    <3> QED
      BY <3>2, <3>3 DEF Connected
  <2> QED
    BY <1>4, <1>5, <2>3, <2>4, <2>5, <2>6 DEF MainInv, d
<1> QED
  BY <1>4, <1>6, <1>7

LEMMA HandleFlowInv ==
  ASSUME IInv, phase # "failed", NEW f \in Flows, HandleFlow(f),
         UNCHANGED <<phase, socket>>
  PROVE  IInv'
<1> DEFINE fd == fm.flow[f].fd
           m  == MessageOn(fm, fd)
           d  == HandleData(fm, fd, m)
<1>1. /\ reader.pc = "handle" /\ <<"flow", f>> \in reader.todo /\ Readable(fm, fd)
      /\ ended' = ended /\ reader' = [reader EXCEPT !.todo = @ \ {<<"flow", f>>}]
      /\ Consume(fm, fd)
  BY DEF HandleFlow
<1>2. fm' = IF DataOkay(fm, fd, m) THEN d ELSE Disconnect(d, f)
  BY DEF HandleFlow
<1>3. /\ Core(fm, ended) /\ MainInv(fm, phase, socket, ended)
      /\ ReaderInv(fm, reader)
      /\ QueueInv(inbox, phase) /\ inbox \in [Conns -> Seq(Messages)]
  BY DEF IInv, Types
<1>4. f \in fm.set /\ fd \in FDs
  BY <1>1, <1>3 DEF ReaderInv
<1>5. /\ fm.open[fd] \in Conns /\ InputOff(d, fm)
      /\ Lost(ended) \/ DataOkay(fm, fd, m) \/ Conn[f] \in ended
  BY <1>1, <1>4, ReadFacts
<1>6. inbox' \in [Conns -> Seq(Messages)] /\ QueueInv(inbox', phase')
  <2>1. inbox' = [inbox EXCEPT ![fm.open[fd]] = IF @ = <<>> THEN @ ELSE Tail(@)]
    BY <1>1 DEF Consume
  <2> QED
    BY <1>3, <1>5, <2>1, ConsumeQueue
<1> HIDE DEF d, m, fd
<1>7. /\ Core(fm', ended') /\ MainInv(fm', phase', socket', ended')
      /\ fm'.set = fm.set /\ \A g \in fm.set \ {f} : fm'.flow[g].fd = fm.flow[g].fd
  <2>1. /\ FlowsOnly(d, fm) /\ d.set = fm.set /\ fm.set \in SUBSET Flows
        /\ \A g \in fm.set : /\ d.flow[g].fd = fm.flow[g].fd
                             /\ d.flow[g].running = fm.flow[g].running
    BY <1>3, <1>5, CoreFacts DEF InputOff, FlowsOnly
  <2>2. Core(d, ended) /\ MainInv(d, phase, socket, ended)
    BY <1>3, <2>1, SameCore, FlowsOnlyMain
  <2>3. CASE fm' = d
    BY <1>1, <2>1, <2>2, <2>3
  <2>4. CASE fm' = Disconnect(d, f) /\ (Lost(ended) \/ Conn[f] \in ended)
    <3>1. d.flow[f].fd \in FDs
      BY <1>4, <2>1 DEF fd
    <3>2. /\ Core(fm', ended) /\ MainInv(fm', phase, socket, ended) /\ fm'.set = d.set
          /\ \A g \in d.set \ {f} : fm'.flow[g] = d.flow[g]
      BY <1>4, <2>1, <2>2, <2>4, <3>1, DisconnectMain
    <3> QED
      BY <1>1, <2>1, <3>2
  <2> QED
    BY <1>2, <1>5, <2>3, <2>4
<1>8. /\ reader' \in [pc : {"collect", "poll", "lock", "handle"}, polled : SUBSET FDs,
                      ready : SUBSET FDs, todo : SUBSET Handles]
      /\ reader'.pc = "handle" /\ reader'.todo = reader.todo \ {<<"flow", f>>}
  BY <1>1 DEF IInv, Types
<1>9. ReaderInv(fm', reader')
  <2>1. ASSUME NEW g \in Flows, <<"flow", g>> \in reader'.todo
        PROVE  g \in fm'.set /\ fm'.flow[g].fd \in FDs
    <3>1. g \in fm.set /\ fm.flow[g].fd \in FDs /\ g # f
      BY <1>3, <1>8, <2>1 DEF ReaderInv
    <3> QED
      BY <1>7, <3>1
  <2>2. \A e \in FDs : <<"new", e>> \notin reader'.todo
    BY <1>3, <1>8 DEF ReaderInv
  <2> QED
    BY <1>8, <2>1, <2>2 DEF ReaderInv
<1>10. Types'
  BY <1>6, <1>8 DEF IInv, Types
<1> QED
  BY <1>1, <1>6, <1>7, <1>9, <1>10, InvNext

LEMMA ReceivingInv ==
  ASSUME IInv, Receiving
  PROVE  IInv'
<1>1. phase # "failed" /\ Reception /\ UNCHANGED <<phase, socket>>
  BY DEF Receiving
<1>2. ASSUME NEW fd \in FDs, HandleUnidentified(fd) PROVE FALSE
  BY <1>1, <1>2 DEF HandleUnidentified, IInv, ReaderInv
<1>3. ASSUME NEW f \in Flows, HandleFlow(f) PROVE IInv'
  BY <1>1, <1>3, HandleFlowInv
<1>4. ASSUME Collect PROVE IInv'
  BY <1>1, <1>4, CollectInv
<1>5. ASSUME PollReturns \/ PollTimesOut \/ TakeLock \/ Unlock PROVE IInv'
  BY <1>1, <1>5, PollInv
<1> QED
  BY <1>1, <1>2, <1>3, <1>4, <1>5 DEF Reception

-----------------------------------------------------------------------------

\* IInv holds in every reachable state, whichever connections are lost: no
\* socket has more uses than flows, and every open socket is that of a flow or
\* about to be.  Until an association of several flows is lost the flows of a
\* connection that lives have one socket, and all uses are counted.
THEOREM SocketsInvariant == Spec => []IInv
<1>1. ASSUME IInv, [Next]_vars PROVE IInv'
  <2>1. CASE Network
    BY <1>1, <2>1, PeerSendsInv, ConnectionIsLostInv DEF Network
  <2>2. CASE UNCHANGED vars
    <3>1. UNCHANGED <<fm, inbox, ended, reader, phase, socket>>
      BY <2>2 DEF vars, sharedVars
    <3>2. Types' /\ Core(fm', ended')
      BY <1>1, <3>1 DEF IInv, Types
    <3>3. phase # "failed" =>
            /\ MainInv(fm', phase', socket', ended')
            /\ QueueInv(inbox', phase') /\ ReaderInv(fm', reader')
      BY <1>1, <3>1 DEF IInv
    <3> QED
      BY <3>1, <3>2, <3>3, InvNext
  <2> QED
    BY <1>1, <2>1, <2>2, ReceivingInv, MainThreadInv DEF Next
<1> QED
  BY <1>1, InitInv, PTL DEF Spec

\* UsesAreCounted: while the main thread creates, runs, stops and deletes the
\* flows, the MessageReader never counts more uses of a socket than flows have
\* it, whatever is lost; and it counts the use of each of them as long as no
\* association of several flows is lost.
THEOREM UsesAreCountedAlways == Spec => []UsesAreCounted
<1>1. IInv => UsesAreCounted
  <2> SUFFICES ASSUME IInv, NEW fd \in FDs
               PROVE  /\ fm.uses[fd] <= UsesOf(fd)
                      /\ ~AssociationIsLost => fm.uses[fd] = UsesOf(fd)
    BY DEF UsesAreCounted
  <2>1. UsesOf(fd) = Cardinality(Users(fm, fd)) /\ (Lost(ended) => AssociationIsLost)
    BY DEF UsesOf, Users, Lost, AssociationIsLost
  <2>2. /\ fm.uses[fd] <= Cardinality(Users(fm, fd))
        /\ Lost(ended) \/ fm.uses[fd] = Cardinality(Users(fm, fd))
    BY DEF IInv, Core, CountedUses
  <2> QED
    BY <2>1, <2>2
<1> QED
  BY <1>1, SocketsInvariant, PTL

\* NothingIsLeft: when the main thread has deleted the flows no socket is open
\* or known to the MessageReader, whichever connections were lost before, those
\* of several flows, too, and whatever the reception thread had given up.
THEOREM NothingIsLeftHolds == Spec => []NothingIsLeft
<1>1. IInv => NothingIsLeft
  <2> SUFFICES ASSUME IInv, phase = "done", NEW fd \in FDs
               PROVE  fm.uses[fd] = 0 /\ fm.open[fd] = NoConn
    BY DEF NothingIsLeft
  <2>1. fm.set = {}
    BY DEF IInv, MainInv, Numbered
  <2>2. Users(fm, fd) = {}
    BY <2>1 DEF Users
  <2>3. fm.uses[fd] = 0
    <3>1. fm.uses[fd] <= 0
      BY <2>2, FS_EmptySet DEF IInv, Core, CountedUses
    <3>2. fm.uses[fd] \in Nat
      BY CoreFacts DEF IInv
    <3> QED
      BY <3>1, <3>2
  <2>4. fm.open[fd] = NoConn
    BY <2>2 DEF IInv, MainInv, Opened
  <2> QED
    BY <2>3, <2>4
<1> QED
  BY <1>1, SocketsInvariant, PTL
=================================================================================
