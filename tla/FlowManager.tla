------------------------------ MODULE FlowManager ------------------------------
(***************************************************************************)
(* The data sockets of one node: the FlowManager's flows and unidentified  *)
(* sockets, the use counts of its MessageReader, the descriptor table, and *)
(* the reception thread FlowManager::run(), which polls without the lock.  *)
(* What the main thread does is in PassiveNode and in ActiveNode.          *)
(*                                                                         *)
(* All of the state that the FlowManager's lock protects is one record,    *)
(* fm: what the program does to it under one lock() is a composition of    *)
(* operators that take such a record and return the next one.              *)
(*                                                                         *)
(* A definition named after the next one and a fault is a wrong variant of *)
(* it, in no behaviour of the specifications (see the README).             *)
(***************************************************************************)
EXTENDS Integers, Sequences, FiniteSets, FiniteSetsExt

CONSTANTS
  Conn,        \* flow |-> the connection that it uses
  Stream,      \* flow |-> its stream there; 0 unless it uses SCTP
  Protocol,    \* connection |-> "TCP", "UDP" or "SCTP"
  NumFDs,      \* descriptors that are free when the node starts
  Accepting,   \* the passive node: flows are isAcceptedIncomingFlow()
  MaxQueue     \* bound on the messages that wait in a connection

Flows == DOMAIN Conn
Conns == DOMAIN Protocol
FDs   == 1..NumFDs

UDPSocket == 0     \* the passive node has one socket for all UDP flows
NoFD      == -1
NoConn    == 0     \* open[fd] of a free descriptor

\* The first flow of a connection has stream 0.
ASSUME ConstantsAssumption ==
  /\ Flows \subseteq Nat \ {0} /\ IsFiniteSet(Flows)
  /\ \A f \in Flows : Conn[f] \in Conns
  /\ NoConn \notin Conns
  /\ \A k \in Conns : Protocol[k] \in {"TCP", "UDP", "SCTP"}
  /\ Stream \in [Flows -> Nat]
  /\ \A f, g \in Flows : f # g /\ Conn[f] = Conn[g] =>
       Protocol[Conn[f]] = "SCTP" /\ Stream[f] # Stream[g]
  /\ \A f \in Flows : \E g \in Flows :
       g <= f /\ Conn[g] = Conn[f] /\ Stream[g] = 0
  /\ NumFDs \in Nat \ {0} /\ MaxQueue \in Nat \ {0}
  /\ Accepting \in BOOLEAN

VARIABLES
  fm,      \* what the FlowManager's lock protects, and the descriptors
  inbox,   \* connection |-> messages that wait in it
  ended,   \* connections that the other node has closed
  reader   \* the reception thread

sharedVars == <<fm, inbox, ended, reader>>

\* fm.set     FlowSet; the flows of a connection are in it in the order of
\*            their numbers, and the order of the others does not matter
\* fm.flow    the flows: descriptor, running thread, InputStatus # Off,
\*            PollFDEntry # nullptr
\* fm.new     UnidentifiedSockets: entry, ToBeRemoved, ToBeClosed
\* fm.uses    UseCount of the MessageReader; 0: it does not know the socket
\* fm.open    descriptor |-> connection
\* fm.failed  where an assertion failed: the process has aborted
FlowStates == [fd : {NoFD, UDPSocket} \cup FDs, running : BOOLEAN,
               input : BOOLEAN, entry : BOOLEAN]

Unidentified == [entry : BOOLEAN, remove : BOOLEAN, close : BOOLEAN]

NewSocket == [entry |-> FALSE, remove |-> FALSE, close |-> FALSE]

NewFlow == [fd |-> NoFD, running |-> FALSE, input |-> TRUE, entry |-> FALSE]

Alive == fm.failed = {}

Identify(f) == [type |-> "identify", flow |-> f]
Data(f)     == [type |-> "data", flow |-> f]
Messages    == [type : {"identify", "data"}, flow : Flows]
End         == [type |-> "end", flow |-> 0]

Handles == {<<"flow", f>> : f \in Flows} \cup {<<"new", fd>> : fd \in FDs}

SharedTypeOK ==
  /\ fm.set \subseteq Flows
  /\ fm.flow \in [Flows -> FlowStates]
  /\ DOMAIN fm.new \subseteq {UDPSocket} \cup FDs
  /\ \A fd \in DOMAIN fm.new : fm.new[fd] \in Unidentified
  /\ fm.uses \in [{UDPSocket} \cup FDs -> Nat]
  /\ fm.open \in [FDs -> {NoConn} \cup Conns]
  /\ fm.failed \subseteq {"accept", "identify", "read", "exit"}
  /\ inbox \in [Conns -> Seq(Messages)]
  /\ ended \subseteq Conns
  /\ reader \in [pc : {"collect", "poll", "lock", "handle"},
                 polled : SUBSET FDs, ready : SUBSET FDs,
                 todo : SUBSET Handles]

SharedInit(udp) ==
  /\ fm = [set |-> {}, flow |-> [f \in Flows |-> NewFlow],
           new  |-> [fd \in IF udp THEN {UDPSocket} ELSE {} |-> NewSocket],
           uses |-> [fd \in {UDPSocket} \cup FDs |->
                       IF udp /\ fd = UDPSocket THEN 1 ELSE 0],
           open |-> [fd \in FDs |-> NoConn],
           failed |-> {}]
  /\ inbox = [k \in Conns |-> <<>>]
  /\ ended = {}
  /\ reader = [pc |-> "collect", polled |-> {}, ready |-> {}, todo |-> {}]

\* The main thread gets the lock, unless the reception thread has it.
MainHasLock == Alive /\ reader.pc # "handle"

-----------------------------------------------------------------------------
(* The MessageReader and the descriptor table.                             *)

\* registerSocket() with mustBeNew = false.
Register(s, fd) == [s EXCEPT !.uses[fd] = @ + 1]

DeregisterUnchecked(s, fd) ==
  IF fd = NoFD THEN s ELSE [s EXCEPT !.uses[fd] = @ - 1]

\* deregisterSocket(): a socket that is not known is none of its business.
Deregister(s, fd) ==
  IF fd = NoFD \/ s.uses[fd] = 0 THEN s ELSE [s EXCEPT !.uses[fd] = @ - 1]

Close(s, fd) ==
  [s EXCEPT !.open = [d \in FDs |-> IF d = fd THEN NoConn ELSE @[d]]]

\* accept(), socket(): the lowest descriptor that is free.
FreeFDs(s) == {fd \in FDs : s.open[fd] = NoConn}
NextFD(s)  == CHOOSE fd \in FreeFDs(s) : \A d \in FreeFDs(s) : fd <= d

-----------------------------------------------------------------------------
(* Flows.  The shutdown() of the socket of a deactivated flow is left out: *)
(* all flows of an association are deactivated together, and then none of  *)
(* them is polled.                                                         *)

AddFlow(s, f) == [s EXCEPT !.set = @ \cup {f}, !.flow[f] = NewFlow]

Unpolled(flow) == [flow EXCEPT !.input = FALSE, !.entry = FALSE]

\* deactivate(true) of the flows of a measurement: their threads are told to
\* stop, but not awaited.
StopAsync(s, measurement) ==
  [s EXCEPT !.flow = [f \in Flows |->
     IF f \in measurement /\ @[f].running THEN Unpolled(@[f]) ELSE @[f]]]

DeactivateKeepingUse(s, f) ==
  IF s.flow[f].running
  THEN [s EXCEPT !.flow[f] = [Unpolled(@) EXCEPT !.running = FALSE]]
  ELSE s

\* deactivate(): wait for the thread and give the socket back.
Deactivate(s, f) ==
  IF s.flow[f].running
  THEN Deregister([s EXCEPT !.flow[f] = [Unpolled(@) EXCEPT !.running = FALSE]],
                  s.flow[f].fd)
  ELSE s

\* activate() of the flows of a measurement that begins.
Activate(s, measurement) ==
  [s EXCEPT !.flow = [f \in Flows |->
     IF f \in measurement /\ @[f].fd # NoFD
     THEN [@[f] EXCEPT !.running = TRUE, !.input = TRUE] ELSE @[f]]]

RemoveFlow(s, f) ==
  [Deactivate(s, f) EXCEPT !.flow[f].entry = FALSE,
                           !.set = @ \ {f}]

\* OriginalSocketDescriptor, as removeFlow() finds it.
IsOriginal(s, f) ==
  \A g \in s.set : s.flow[g].fd # s.flow[f].fd

DeleteWhenFinished(f) == ~(Accepting /\ Protocol[Conn[f]] = "UDP")

DestroyAlways(s, f) ==
  LET r  == RemoveFlow(s, f)
      fd == r.flow[f].fd
      d  == IF fd # NoFD /\ DeleteWhenFinished(f)
            THEN Close(Deregister(r, fd), fd) ELSE r
  IN [d EXCEPT !.flow[f] = NewFlow]

DestroyWithoutDeregister(s, f) ==
  LET r  == RemoveFlow(s, f)
      fd == r.flow[f].fd
      d  == IF fd # NoFD /\ IsOriginal(r, f) /\ DeleteWhenFinished(f)
            THEN Close(r, fd) ELSE r
  IN [d EXCEPT !.flow[f] = NewFlow]

\* ~Flow(): it removes the flow, again if need be, and closes its socket if
\* no other flow uses it.  (The model keeps a destroyed flow as a new one.)
Destroy(s, f) ==
  LET r  == RemoveFlow(s, f)
      fd == r.flow[f].fd
      d  == IF fd # NoFD /\ IsOriginal(r, f) /\ DeleteWhenFinished(f)
            THEN Close(Deregister(r, fd), fd) ELSE r
  IN [d EXCEPT !.flow[f] = NewFlow]

\* removeUnidentifiedSocket(): the reception thread will take it out.
MarkForRemoval(s, fd, close) ==
  IF fd \notin DOMAIN s.new THEN s
  ELSE IF s.new[fd].remove THEN [s EXCEPT !.failed = @ \cup {"identify"}]
  ELSE [s EXCEPT !.new[fd].remove = TRUE, !.new[fd].close = close]

IdentifySocketUnregistered(s, f, fd) ==
  IF s.flow[f].fd # NoFD THEN s
  ELSE LET b == [Deactivate(s, f) EXCEPT !.flow[f].fd = fd]
       IN IF Protocol[Conn[f]] = "UDP" THEN b ELSE MarkForRemoval(b, fd, FALSE)

\* identifySocket(): the first Identify binds the flow to the socket.
IdentifySocket(s, f, fd) ==
  IF s.flow[f].fd # NoFD THEN s
  ELSE LET b == Register([Deactivate(s, f) EXCEPT !.flow[f].fd = fd], fd)
       IN IF Protocol[Conn[f]] = "UDP" THEN b ELSE MarkForRemoval(b, fd, FALSE)

-----------------------------------------------------------------------------
(* handleNetPerfMeterData(): what it makes of a message, and whether it    *)
(* returns true.                                                           *)

FlowAt(s, fd, stream) ==
  {f \in s.set : s.flow[f].fd = fd /\ Stream[f] = stream}

DataOkayAtEnd(s, fd, m) ==
  CASE m.type = "identify" -> m.flow \in s.set
    [] m.type = "data" -> FlowAt(s, fd, Stream[m.flow]) # {}
    [] OTHER -> FlowAt(s, fd, 0) # {}

DataOkay(s, fd, m) ==
  CASE m.type = "identify" -> m.flow \in s.set
    [] m.type = "data" -> FlowAt(s, fd, Stream[m.flow]) # {}
    [] OTHER -> Accepting /\ FlowAt(s, fd, 0) # {}

HandleData(s, fd, m) ==
  CASE m.type = "identify" /\ m.flow \in s.set -> IdentifySocket(s, m.flow, fd)
    [] m.type = "end" -> [s EXCEPT !.flow =
         [f \in Flows |-> IF f \in FlowAt(s, fd, 0)
                          THEN [@[f] EXCEPT !.input = FALSE] ELSE @[f]]]
    [] OTHER -> s

Readable(s, fd) ==
  s.open[fd] # NoConn /\ (inbox[s.open[fd]] # <<>> \/ s.open[fd] \in ended)

\* receiveMessage() on a connection that is readable.
MessageOn(s, fd) ==
  LET queue == inbox[s.open[fd]] IN IF queue = <<>> THEN End ELSE Head(queue)

Consume(s, fd) ==
  inbox' = [inbox EXCEPT ![s.open[fd]] = IF @ = <<>> THEN @ ELSE Tail(@)]

-----------------------------------------------------------------------------
(* The reception thread.                                                   *)

\* It polls the socket of a flow whose input is on, once for all the flows
\* that share it; the global UDP socket is left to the main loop.
ToPoll(f) == /\ fm.flow[f].input /\ fm.flow[f].fd # NoFD
             /\ ~(Accepting /\ Protocol[Conn[f]] = "UDP")

PolledFlowsEach == {f \in fm.set : ToPoll(f)}

PolledFlows ==
  {f \in fm.set : /\ ToPoll(f)
                  /\ \A g \in fm.set : g < f /\ ToPoll(g) =>
                                       fm.flow[g].fd # fm.flow[f].fd}

\* run(): collect the sockets, under the lock.
Collect ==
  /\ Alive /\ reader.pc = "collect"
  /\ fm' = [fm EXCEPT
       !.flow = [f \in Flows |-> [@[f] EXCEPT !.entry = f \in PolledFlows]],
       !.new  = [fd \in DOMAIN @ |->
                   [@[fd] EXCEPT !.entry = fd # UDPSocket]]]
  /\ reader' = [reader EXCEPT !.pc = "poll",
       !.polled = {fm.flow[f].fd : f \in PolledFlows}
                  \cup (DOMAIN fm.new \ {UDPSocket})]
  /\ UNCHANGED <<inbox, ended>>

\* poll() returns, without the lock, with some of the sockets ...
PollReturns ==
  /\ Alive /\ reader.pc = "poll"
  /\ LET ready == {fd \in reader.polled : Readable(fm, fd)} IN
       /\ ready # {}
       /\ reader' = [reader EXCEPT !.pc = "lock", !.polled = {}, !.ready = ready]
  /\ UNCHANGED <<fm, inbox, ended>>

\* ... or with a timeout: then there is nothing to handle.
PollTimesOut ==
  /\ Alive /\ reader.pc = "poll"
  /\ \A fd \in reader.polled : ~Readable(fm, fd)
  /\ reader' = [reader EXCEPT !.pc = "collect", !.polled = {}]
  /\ UNCHANGED <<fm, inbox, ended>>

\* The lock is taken again: what has still an entry that is ready.
TakeLock ==
  /\ Alive /\ reader.pc = "lock"
  /\ reader' = [reader EXCEPT !.pc = "handle", !.ready = {}, !.todo =
       {<<"flow", f>> : f \in {g \in fm.set :
            fm.flow[g].entry /\ fm.flow[g].fd \in reader.ready}}
       \cup {<<"new", fd>> : fd \in {d \in DOMAIN fm.new :
            fm.new[d].entry /\ d \in reader.ready}}]
  /\ UNCHANGED <<fm, inbox, ended>>

DisconnectKeepingDescriptor(s, f) ==
  LET fd == s.flow[f].fd
      d  == Deregister(s, fd)
  IN IF d.uses[fd] = 0 THEN Close(d, fd)
     ELSE IF Protocol[Conn[f]] = "SCTP" THEN d
     ELSE [d EXCEPT !.failed = @ \cup {"read"}]

\* run(), on a message that it could not handle on the socket of a flow: one
\* use less; the last one closes the socket.  Only SCTP may have other uses.
Disconnect(s, f) ==
  LET fd == s.flow[f].fd
      d  == Deregister(s, fd)
  IN IF d.uses[fd] = 0
     THEN [Close(d, fd) EXCEPT !.flow[f].fd = NoFD]
     ELSE IF Protocol[Conn[f]] = "SCTP" THEN d
     ELSE [d EXCEPT !.failed = @ \cup {"read"}]

\* One polled flow, in any order, since no two of them share a socket; the
\* message may be for another flow of the association.
HandleFlow(f) ==
  /\ Alive /\ reader.pc = "handle"
  /\ <<"flow", f>> \in reader.todo
  /\ LET fd == fm.flow[f].fd
         m  == MessageOn(fm, fd)
         s  == HandleData(fm, fd, m)
     IN /\ Readable(fm, fd)
        /\ fm' = IF DataOkay(fm, fd, m) THEN s ELSE Disconnect(s, f)
        /\ Consume(fm, fd)
  /\ reader' = [reader EXCEPT !.todo = @ \ {<<"flow", f>>}]
  /\ UNCHANGED ended

TakeOut(s, fd) ==
  LET d == Deregister([s EXCEPT !.new = [x \in DOMAIN @ \ {fd} |-> @[x]]], fd)
  IN IF ~s.new[fd].close THEN d
     ELSE Close([d EXCEPT !.failed =
                   IF d.uses[fd] = 0 THEN @ ELSE @ \cup {"read"}], fd)

HandleUnidentifiedKeepingBroken(fd) ==
  /\ Alive /\ reader.pc = "handle"
  /\ <<"new", fd>> \in reader.todo
  /\ \A f \in Flows : <<"flow", f>> \notin reader.todo
  /\ LET m == MessageOn(fm, fd)
         s == HandleData(fm, fd, m)
     IN /\ Readable(fm, fd)
        /\ fm' = IF s.new[fd].remove THEN TakeOut(s, fd) ELSE s
        /\ Consume(fm, fd)
  /\ reader' = [reader EXCEPT !.todo = @ \ {<<"new", fd>>}]
  /\ UNCHANGED ended

HandleUnidentifiedNextRound(fd) ==
  /\ Alive /\ reader.pc = "handle"
  /\ <<"new", fd>> \in reader.todo
  /\ \A f \in Flows : <<"flow", f>> \notin reader.todo
  /\ LET m == MessageOn(fm, fd)
         h == HandleData(fm, fd, m)
     IN IF fm.new[fd].remove
        THEN fm' = TakeOut(fm, fd) /\ UNCHANGED inbox
        ELSE /\ fm' = IF DataOkay(fm, fd, m) THEN h
                      ELSE [h EXCEPT !.new[fd].remove = TRUE,
                                     !.new[fd].close = TRUE]
             /\ Consume(fm, fd)
  /\ reader' = [reader EXCEPT !.todo = @ \ {<<"new", fd>>}]
  /\ UNCHANGED ended

\* One polled unidentified socket, after the flows: it is taken out when a
\* flow has been bound to it, and closed when the message was no good.  That
\* is in the pass that marked it, so that no socket is marked before.
HandleUnidentified(fd) ==
  /\ Alive /\ reader.pc = "handle"
  /\ <<"new", fd>> \in reader.todo
  /\ \A f \in Flows : <<"flow", f>> \notin reader.todo
  /\ LET m == MessageOn(fm, fd)
         h == HandleData(fm, fd, m)
         s == IF DataOkay(fm, fd, m) THEN h
              ELSE [h EXCEPT !.new[fd].remove = TRUE, !.new[fd].close = TRUE]
     IN /\ Readable(fm, fd)
        /\ fm' = IF s.new[fd].remove THEN TakeOut(s, fd) ELSE s
        /\ Consume(fm, fd)
  /\ reader' = [reader EXCEPT !.todo = @ \ {<<"new", fd>>}]
  /\ UNCHANGED ended

Unlock ==
  /\ Alive /\ reader.pc = "handle" /\ reader.todo = {}
  /\ reader' = [reader EXCEPT !.pc = "collect"]
  /\ UNCHANGED <<fm, inbox, ended>>

Reception == \/ Collect \/ PollReturns \/ PollTimesOut \/ TakeLock \/ Unlock
             \/ \E f \in Flows : HandleFlow(f)
             \/ \E fd \in FDs : HandleUnidentified(fd)

-----------------------------------------------------------------------------
(* Properties of both nodes.                                               *)

\* What the reception thread is about to read from, with the lock held and
\* long after poll() saw it, is still open and has something to read: the
\* thread never blocks in recv(), nor reads from a descriptor that now is
\* another connection.
NeverBlocks ==
  \A h \in reader.todo :
    LET fd == IF h[1] = "flow" THEN fm.flow[h[2]].fd ELSE h[2]
    IN Readable(fm, fd) /\ fm.uses[fd] > 0

\* A flow's descriptor is that of its connection, as long as it has one: a
\* descriptor that was closed, and perhaps accepted anew, is in no flow.
NoDanglingFD ==
  \A f \in fm.set :
    fm.flow[f].fd \in FDs => fm.open[fm.flow[f].fd] = Conn[f]
================================================================================
