# NetPerfMeter in TLA+

NetPerfMeter measures the performance of transport protocols: an *active* node
connects to a *passive* one, sets up flows over UDP, DCCP, TCP, MPTCP, QUIC or
SCTP, lets them transmit frames in one or both directions for a while, stops
them and collects the results of both sides. This directory holds TLA+ modules
of its core, the TLC runs that check them on small instances, and theorems
about them that TLAPS checks. Line numbers below are of the files in `src/`.

## 1. Inventory

| Component | State it keeps | Operations | Hard parts | What makes it correct |
|---|---|---|---|---|
| Control protocol (`control.cc`) | nothing of its own: the phase is the program counter of the active node; the passive node's state is in the FlowManager | `performNetPerfMeterAddFlow/IdentifyFlow/Start/Stop`, the download functions, `awaitNetPerfMeterAcknowledge`; `handleNetPerfMeterAddFlow/Identify/Start/Stop/RemoveFlow`, the upload functions, `handleControlAssocShutdown` | Identify travels over the (lossy) data socket, its answer over the control association; answers do not name the request; waits without timeout; either node may die; several files in a row without a name | no stale answer is taken for another one; both nodes agree on who is bound, running, stopped; results complete or an error; the passive node forgets every session |
| Main program (`netperfmeter.cc`) | lists of accepted sockets, stop flags, stop time | `activeMode`, `passiveMode`, `mainLoop`, `createFlow` | abort and interrupt at any moment | every session ends, in order |
| Transfer (`transfer.cc`) and Defragmenter (`defragmenter.cc`) | sequence numbers of the sender; frames and fragments, next expected numbers and counters of losses of the receiver | `transmitFrame`, `sendNetPerfMeterData`, `handleNetPerfMeterData`, `updateStatistics`; `addFragment`, `getFirst/NextFragment`, `purge` | loss, reordering, repetition, late packets, failed sends, 32-bit wrap | the losses reported are the losses of the network |
| FlowManager and Flow (`flowmanager.cc`, `flow.cc`, `thread.cc`) | flow set, measurement set, unidentified sockets, poll entries; per flow: socket, input and output status, thread | `addFlow`, `removeFlow`, `identifySocket`, `addUnidentifiedSocket`, `beginMeasurement`, `removeAllMeasurements`, `run`, `activate`, `deactivate`, `handleStatusChangeEvent` | three kinds of threads; sockets shared by the flows of an SCTP association; poll without the lock | no descriptor is used after it was closed or read by nobody; a deactivated flow stays silent |
| MessageReader (`messagereader.cc`) | per socket: use count, framing state, partial message | `registerSocket`, `deregisterSocket`, `receiveMessage` | messages arrive in pieces; one reader for several protocols | a message is delivered whole and once, or an error is |
| Measurement, OutputFile (`measurement.cc`, `outputfile.cc`) | open file, name, write error | `initialize`, `printf`, `write`, `finish` | `finish()` called repeatedly, to rewind or to close | an incomplete file is never uploaded as complete |
| Traffic specification (`flowtrafficspec.cc`), on/off schedule and sender thread (`flow.cc`) | on/off events; per flow the next event, the time of the last frame, output status | `Flow::run`, `handleStatusChangeEvent`, `scheduleNextTransmissionEvent`, `deactivate` | the thread works with a time that may be old; `deactivate()` changes the same status; blocked sends | events at their time, none skipped; a failed sender sends no more; a stop ends the thread |
| Statistics (`flowmanager.cc`, `flowbandwidthstats.cc`, `measurement.cc`) | per flow current and last counters; timers; global counters | `handleEvents`, `writeVectorStatistics`, `writeScalarStatistics` | the flows count while their rows are written; timers are handled late; flows come and go | relative rows add up to absolute ones; one row per time |
| Summary tools (`createsummary.cc`, `combinesummaries.cc`, `extractvectors.cc`, `runtimeestimator.cc`, `inputfile.cc`, `redblacktree*.h`) | values by scalar name and parameter setting, in a red-black tree; open files; what has failed | commands; insert, remove, find; grouping; writing of results | tree balance with a shared null node; keys; errors in the middle of an input or output | each value appears once in the right table; a failure is noted |
| Tools (`tools.cc`) | break flag | break detector, names, `pollTimeout`, random numbers | signal against loop; arithmetic at the edge | |
| CPU status, logging, socket wrappers | system counters | read, print | none of its own | |

The components interact by calls under the FlowManager's lock, by one thread
that reads the data sockets (`FlowManager::run`), one sender thread per running
flow (`Flow::run`), and the main thread, which handles the control messages.
`PROJECT.json` lists the hazards of this code with their lines, and the
properties that cover them, or why there is none.

## 2. Plan

1. `Session`, `ControlProtocol`: the protocol between the nodes, with proofs. *Done.*
2. `LossAccounting`: sender, network and Defragmenter of one direction of a flow.
   *Done.*
3. `FlowManager`, and on top of it `PassiveNode` and `ActiveNode`: sockets, use
   counts, descriptors, the reception thread. *Done.*
4. `MessageReader`, `OutputFile` and their composition `ResultsTransfer`, with
   `Channel`, a queue of whole messages, as the abstract specification. *Done.*
5. `Sender`: the sender thread and its schedule against `deactivate()`, with
   proofs. *Done.*
6. `Statistics`: rows and timers of measurements, with proofs. *Done.*
7. `RedBlackTree`, `InputFile` and `CreateSummary`. *Done.*
8. Proofs about the sockets of both nodes, the accounting of losses, the results
   and the statistics. *Done.*
9. The same without conditions on when nodes end and what is lost, and the
   failures of the active node while it collects results. *Done.*

## 3. Modules

### Session and ControlProtocol

`ControlProtocol` models one session: one MeasurementID on one control socket.
The passive node finds a measurement by both (`findMeasurement()`), but it finds
flows by their MeasurementID alone (`findFlow()`, `flowmanager.cc:158`, and
`beginMeasurement()`). That sessions share no state is therefore an assumption:
the active nodes draw their MeasurementIDs at random, and the model takes them to
be different. The active node is a sequential program: `phase` is its
program counter, with one action per send, per wait that succeeds and per wait
that fails; `cur` is the flow its loop is at and `trial` the trial of
`performNetPerfMeterIdentifyFlow()`. The passive node has one action per
handler, each with every call it makes: `HandleStop` finishes the measurement,
stops the flows, acknowledges and uploads. A flow's life on the passive node is
absent, added, bound, running, stopped; `measuring` stands for the entry in the
MeasurementSet.

The control association is a pair of FIFO sequences (SCTP or TCP). Identify
messages travel over the data sockets and are a set: they overtake control
messages, and those over UDP or DCCP may be lost or arrive twice. `Faults`
chooses what may go wrong: either process dies, the association breaks (a part
of what was in flight still arrives), Identify, Start or the active node's own
`beginMeasurement()` fails, the compressor reports a write error (`write` for the
files of the measurement, `flowWrite` for those of the flows), a file cannot be
read on the passive node (`read`), or cannot be created or written on the active
one (`file`). An error that the active node cannot go on from is `LOG_FATAL`:
`exit(1)`, which runs the destructor of the FlowManager. `Fail` is the report, in
phase `exit` the process is on its way out, and `Exit` ends it and closes its
sockets. When the error comes from the removal of a flow, the main thread still
holds the FlowManager's lock (`HoldsLock`), and the destructor waits for the
reception thread, which waits for the lock: that is the phase `exitLocked`, in
which the process hangs, with its control socket open, until it is killed
(`ActiveCrash`). Files are their names: a Results message carries the file it is a chunk
of, which the code does not send, so that a property can say whether it ends up
under the right name.

`Session` is what the protocol promises without messages, flows or files: the
passive node measures only for a session in preparation, results are collected
from a node that no longer measures. `ImplementsSession` is the refinement.

Names like `IdentifyRetryUncounted`, next to `IdentifyRetry`, are wrong variants
of a definition; every module has some. No behaviour of the specification uses them; each shows that
some property notices the corresponding mistake (the list is in
`PROJECT.json`, "mutants").

### LossAccounting

One direction of one flow. `Send` is `transmitFrame()`: it cuts a frame into
packets of at most `MaxMsgSize`, none shorter than the header, and may fail at
any of them; all packets of a frame carry the byte sequence number from before
the frame, as in `transfer.cc:108`. The network keeps a packet at most
`MaxDelay` ticks, may lose it and may repeat it. `Receive` is
`handleNetPerfMeterData()` with `updateStatistics()`: `addFragment()` and then
`purge()`, which erases frames in the order of their IDs, stops at the first
young one and derives the losses from gaps between sequence numbers. The loop
over the fragments is given in closed form for packets and frames (`After`,
`Counted`, `CountedPackets`) and as a fold for bytes (`ByteLoss`, over the latest
packets of the erased frames, `Latest`).

Two properties of the program that the model keeps and that may surprise:
`LastUpdate` of a frame is set when it is created, never updated; and the Add
Flow message carries no `DefragmentTimeout`, so the passive node uses the
default of `flowtrafficspec.cc:187` whatever the active node was told.
The flow and the network of a behaviour are a member of `Settings`, so that one
run covers several.

### FlowManager, PassiveNode and ActiveNode

`FlowManager` has what both nodes share. The state that the FlowManager's lock
protects is the record `fm`: the flow set, each flow's descriptor, input status,
poll entry and whether it has a thread, the unidentified sockets with their two marks, the MessageReader's use counts, and the descriptor table of
the process. Operations such as `Register`, `RemoveFlow` or `Destroy` take such a
record and return the next one, so that a handler is their composition, in the
order of its calls, and one action as long as it holds the lock.

The reception thread is `run()`: it collects what to poll under the lock, polls
without it, and takes it again to handle, one after the other, the flows and then
the unidentified sockets. The flow set has no order in the model: of the flows
that share a socket, the one with the lowest number is polled, which is the first
one in the code's set, too; and flows with different sockets are handled in any
order. Where all flows of a measurement are stopped or deleted the operators are
folds over a set (`FoldSet`), and do not depend on the order either. The main thread is excluded
only while the reception thread handles (`MainHasLock`), so everything that it
does may come between `poll()` and the use of its result.

`PassiveNode` adds the main thread of the passive node, one action per handler:
accepting a connection, each control message, the end of a control association,
the end of the program. `handleNetPerfMeterRemoveFlow()` is two actions, because
it sends results between removing the flow and deleting it. Of the active nodes
it has what they send over data connections, in the order that the control
protocol enforces, and their end, which may come in any phase. `unstarted` is a
history: the flows that had a socket but no thread when the association of their
active node went away. The program leaves uses of sockets behind for some of them,
and the properties say for which (`SharedUnstarted`, `UDPUnstarted`).
`ActiveNode` adds
`createFlow()`, in the three steps that other threads can see, and starting,
stopping and deleting of all flows. There the end of a connection is an error,
and `Disconnect` gives the socket up. Any connection may be lost; with an
association of several flows (`AssociationIsLost`) each polled flow gives back a
use, but only the one that gives back the last one loses its descriptor.

Accepted descriptors are reused at once, lowest first, as POSIX says. A message
is an Identify, data, or the end; pieces of messages are the business of
`MessageReader`. The `shutdown()` of a socket in
`deactivate()` is left out: its own flows are not polled from then on.
MPTCP and DCCP behave as TCP here, QUIC as SCTP. A lost connection also ends
sender threads and, unless configured otherwise, the active process; the models
let the process live on, which has more behaviours. Changes of the
MessageReader's map outside of the lock are single steps (see the hazards).

### MessageReader, OutputFile, ResultsTransfer and Channel

`MessageReader` is `receiveMessage()`: from the state of a socket and what one
read returns it computes the next state and the result (a message, a part of
one, an error). A byte is a unit that knows the message it belongs to, so that a
message put together from wrong pieces shows. On a TCP connection a read
returns any number of units up to what was asked for, on an SCTP one it does
not go beyond the end of a message; notifications come in between, without a
header. `OutputFile` is a record of format, rows and write error; `Write` of a
plain file may lose a row without noting it, that of a BZip2 file notes it, and
`Finish` reports it and rewinds or closes.

`ResultsTransfer` composes both with the nodes at the end of a measurement: the
passive node writes rows, handles Stop, acknowledges, and uploads the vector file
and the scalar file in chunks, a file being read until a `fread()` returns less
than asked for; the active node downloads the files it wants. The connection may
break, with any part of what is on the way still arriving; reading, sending and
writing may fail. As in the code, what `uploadOutputFile()` returns is ignored,
so that the second file is tried after the first one failed. `ControlProtocol`
has this exchange for whole messages and several flows, `ResultsTransfer` has it
for pieces of messages and one measurement.

`Channel` promises each node the messages sent to it, whole, once and in order,
possibly only the first ones. `ImplementsChannel` is the refinement: sent and
delivered messages are the histories of `ResultsTransfer`.

### Sender

`Sender` is `Flow::run()` of one flow, one action per step between which another
thread can come, next to the thread that begins and ends the measurement:
`deactivate()` in its three steps (status, `shutdown()`, `stop()`), first without
waiting for the thread and then with. The clock goes on between any two steps;
`thread.now` is the time the loop works with. A send succeeds, would block or
fails; after the node's own `shutdown()` it can only fail. `spec` is what the
code reads of the `TrafficSpec`. The unit of the clock is such that a second and
a millisecond (to which `pollTimeout()` rounds) are small multiples of it.
`late`, `changes`, `frame` and `failed` are histories.

### Statistics

`Statistics` has the counters of one node: the main thread adds, starts, stops
and removes flows and measurements and writes the scalars, the reception thread
handles the timers. Both hold the FlowManager's lock while they write, but each
row reads the counters of its flow under the flow's own lock only: so writing is
one action per flow, and `Count` comes between any two. One counter stands for
the nine of a `FlowBandwidthStats`, whose operators treat them alike.

### RedBlackTree, InputFile and CreateSummary

`RedBlackTree` is a record of children, parents, red nodes and the number of
elements. As in the code, the root is the left child of the one null node, whose
parent and colour rotations and removals write, too; mirrored halves of an
algorithm are one operator with the side as a parameter. `InputFile` is
`readLine()` with its buffer. `CreateSummary` is the program `createsummary`: one
action per command; reading a scalar file line by line into the tree; writing the
results in the order of the tree; and its errors (a missing file, a wrong line, a
results file that cannot be opened, written or closed), with the status files
that are removed. A scalar line has a base name, a number at the end of the name
and object numbers, which is what `getAggregate()` tells apart; a value is the
place where it was read. Left out are the header lines and line numbers of
results, the names of variables, quoting, and interactive mode; `--skip` has the
base of a name as its prefix.

## 4. Runs

| Run | Instance | Shows |
|---|---|---|
| `control` | 3 flows (1 reliable, 2 not), 5 trials (as in the code), files of up to 3 chunks, all faults but the write error of a flow's file | `NoStrayAnswer`, `DataHasReceiver`, `MeasurementReady`, `ResultsInRightFile`, `DoneIsComplete`, the inductive invariant, the refinement of `Session`, `SetupEnds`, `StopEnds`, `PassiveForgets`; no deadlock |
| `remove_wait_ends` | 1 flow, write errors of its file on the passive node | the active node may wait for ever (finding) |
| `fatal_error_ends` | 1 flow, errors of files on the active node | the active node may hang in `exit()` (finding) |
| `loss` | three settings: frames of 2 packets with delays below the timeout; the same with delays above it; frames of 1 packet and a network that repeats packets | `LossIsExact`, `FramesCountedOnce`, `ByteLossIsReal`, `BufferIsBounded`, `ArrivedIsNotLost` |
| `passive_safety` | 2 active nodes, one with 2 SCTP flows on an association and a UDP flow, one with a TCP flow, 2 descriptors; they end in any phase; the user may stop the passive node | type, `NeverBlocks`, `NoDanglingFD`, `AssertionsHold`, `UsesAreCounted`, `NoStaleEntry` |
| `passive_closing` | 1 active node, TCP and SCTP flow, 2 descriptors; ends in any phase | `SocketsAreClosed` |
| `active` | 2 SCTP flows on one association, TCP and UDP flow, 3 descriptors; any connection may be lost | `UsesAreCounted`, `NothingIsLeft`, `LostIsClosed` |
| `results_transfer` | TCP and SCTP, each file without, plain or compressed, up to 3 vector rows in chunks of 2, reads of any size, a break at any point | type, `ResultsAreWhole`, `ImplementsChannel`, `TransferEnds` |
| `sender` | TCP and UDP, no, saturated and rate traffic with intervals 1 and 3, three schedules with and without repetition | type, `ScheduleIsKept`, `FewFramesTooLate`, `FailureIsTheEnd`, `StopEnds` |
| `abort_is_unintentional` | the same | the program may end because of its own `shutdown()` (finding) |
| `statistics` | both nodes, 2 measurements, one of them with 2 flows | `StatisticsAddUp`, `TimersKeepPace` |
| `summary` | up to 2 inputs: short files with every kind of line, good and wrong, with and without a last line break, and 42 orders of seven keys | type, `StorageIsSound`, `SummaryIsExact`, `FailuresAreNoted` |

Bounds. Three flows are a first, a middle and a last one, which is all that the
loops of the active node distinguish; two of them may lose or repeat Identify
while a later flow is set up. A file of three chunks has a first, a middle and a
last one. Three frames of two packets give a frame that hides an older one, a
packet late behind two newer frames, and a gap at the beginning, middle and end.
`maxTime` lets the last packets expire.
In `PassiveNode`, two connections share two descriptors over their lives, so that
one is closed and reused while the other flow, or a poll result, is still there;
`NumFDs` is never above the number of accepted connections. Two flows on an association
are a first and a last user. `MaxQueue` bounds data that waits in a connection;
one message that is there and one that is not is all that `poll()` tells apart.
In `ResultsTransfer` a header of two units can be cut, a buffer of five holds the
longest message and the longest notification (four) exactly, and up to three rows
in chunks of two give a whole chunk, a part of one, and the empty last message
of a file that is a multiple of the chunk size. In `Sender` a second is three
units, so that the gap that is not caught up is above and below an interval, and
`MaxTime` lies beyond the last event of each schedule and the second after which
`poll()` wakes up. In `Statistics` the display and two measurements have timers
that start at different times; three intervals let each be handled in time, late
and very late; one count per flow is enough to be missed or counted twice. In
`CreateSummary`, `Capacity` 3 makes lines begin in one buffer and end in the next;
seven keys give trees of height four, from which every pair of nodes is removed;
`MaxLength` keeps two long files from being combined, and `MaxOptions` the options
that do not interact. A line longer than the buffer cannot occur: a character
stands for the text of a line.

`CHECK_DEADLOCK FALSE` stands where the bounds stop the system (frames and ticks
in `LossAccounting`, flows and connections in `PassiveNode` and `ActiveNode`,
where the process waits for the next active node, counts and ticks in
`Statistics`), where it really ends (`ResultsTransfer`, `Sender`,
`CreateSummary`), and in the runs whose finding is that the active node hangs
(`remove_wait_ends`, `fatal_error_ends`). `control` checks deadlock, and leaves out
the one fault after which there is one, the write error of a flow's file. A
process that hangs in `exitLocked` is no deadlock there because it may be killed.

Fairness. The active node is one sequential program and takes the step it is at;
the passive node's two threads loop over `poll()`, and each handler runs once its
message is there: weak fairness of both. None is assumed of the user (a run
without run time lasts until an interrupt), of the network (every Identify may
be lost; `SetupEnds` holds because the trials are counted) or of crashes.
A process in `exit()` ends unless it hangs (`Exit`).
In `PassiveNode` and `ActiveNode` the reception thread is weakly fair; the main
thread, which the lock may keep out again and again but not for ever, handles the
end of a control association and accepts a connection under strong fairness.
In `ResultsTransfer` both nodes are weakly fair and an association comes up; a
break need not happen. In `Sender` the clock goes on, the sender thread is
weakly fair except while it is in a `send()` on a stream that may block
(`CanBlock`), and `deactivate()`, once begun, goes on.
A wait that times out is an action without a clock: it may happen whenever no
answer is there, which covers every timing of a late answer.

## 5. Proofs

Each property below is proved for every value of the constants that the module's
assumption (`ASSUME`) allows. Where a theorem needs more, it says so as its own
hypothesis. Each inductive invariant was checked by TLC first.

### ControlProtocol_proofs

For all numbers of flows, trials and chunks, every set of unreliable flows and
every set of faults: `TypeCorrect`, `InductiveInvariant`, `NoStrayAnswerHolds`,
`DataHasReceiverHolds`, `MeasurementReadyHolds` and `SessionImplemented`.

None of the three properties is inductive: that no answer is left over in
`"running"` depends on what was in flight in all the phases before. `IInv` says,
per phase, what may be in flight (`InvConversation`, `InvPending`), how far the
flows have got on the passive node (`InvBinding`: earlier ones bound, later ones
absent, an Identify in flight only for flows up to the current one), when it
measures (`InvMeasuring`) and that a passive node that lost the association has
nothing (`InvGone`). The heart of the argument is that a passive flow is bound
only once and that only the binding Identify is acknowledged: so each flow has at
most one answer in flight in the identify phases, and none after the answer was
read, however many repeated Identify messages arrive later. The proof has one
lemma per group of actions; the refinement maps each action to a step of
`Session` or a stutter, using `IInv` where the abstract guard needs it (an
acknowledged Start implies a measuring passive node).

The second part of the module goes on from there to the end of a session:
`ResultsInRightFileHolds` and `DoneIsCompleteHolds`. A Results message does not say
which file it belongs to, so `RInv` is about the order of the chunks in flight:
only the last chunk of a file says so, and only the vector file of the
measurement is followed by another one (`Orderly`); so what the active node
finds next is of the file it is at (`InvAnswers`), the files it has gone past are
there in full (`InvComplete`), and the flows it has gone past are gone
(`InvRemoved`).

### ResultsTransfer_proofs

For every size of the header, of the chunks, of a buffer that holds both and of
notifications that fit into it (`ResultsTransferAssumption`), and any number of
rows. First what one `receiveMessage()` makes of a part of a message: it never
reads beyond the message it is at. From that `InvStream`: what a reader holds is
the beginning of the next message, and the units on the wire are the rest of it
and the messages after it, up to where the connection broke. `ChannelImplemented`
is the refinement of `Channel`, every step of `ResultsTransfer` being a sending, a
delivery or a stutter. On top of whole messages, `InvConversation` says that those
to the active node are the acknowledgement and then, file by file and without a
gap, what the passive node has read, and `InvActive` and `InvGot` that the active
node has the rows of those it has had: which gives `ResultsAreWholeHolds`.

### LossAccounting_proofs

For every size of headers, messages and frames, every timeout and delay, losses,
reordering and repetition. Once an arrived packet is in the buffer it stays there
until the counters have passed it (`Keeps`). A frame's fragments still in the
network bound the age of the frames before it (`Buffer`), so that with delays
below the timeout nothing in the network is behind the counters (`InvAhead`); then
the counters are, at every step, the numbers of packets and frames before them
that have not arrived (`InvLost`). `ArrivedIsNotLostHolds` needs no such bound on
the delays: it is about the difference that one `purge()` makes. The hypothesis of
all of them is `FewFrames`: there are fewer frames than frame IDs. At the wrap the
order of the frame map is wrong and the theorems would be false (section 7,
`defragmenter.cc:227`).

`ByteLossIsRealHolds` is about frames of one packet, as the property is (section 7,
`transfer.cc:108`). The sequence number of a packet is then what was transmitted
before it (`Offset`). The gaps that the loop of `purge()` adds up one by one
amount to what lies between the first expected byte and the end of the last erased
packet, less the bytes of the erased packets (`LossEquation`, by `SetInduction`:
the fold takes them in an order of its own). `InvBytes` says what that makes of the
counters: `NextByteSeqNumber` is the offset of the next expected packet and
`LostBytes` the part of it that has not arrived; and by `InvAhead` nothing that
has not arrived is still under way.

### PassiveNode_proofs

For any set of flows, connections, protocols, streams and active nodes, and any
number of descriptors: `TypesOK`, `NeverBlocksHolds`, `NoDanglingFDHolds`,
`AssertionsHoldAlways`, `UsesAreCountedAlways` and `NoStaleEntryHolds`, all from
`SocketsInvariant`, for active nodes that end in any phase.

The program leaves uses behind for some flows that were identified but never
started (section 7, `flow.cc:85` and `flow.cc:86`), so that the properties carry a
condition about the flows in `unstarted`: that of a shared association
(`SharedUnstarted`) or of the UDP socket (`UDPUnstarted`). The invariant accordingly
is about a set of sockets whose uses are exact (`Exact`): those that are open, also
the closed ones as long as no shared association was left behind, and the UDP
socket as long as no flow over UDP was. Of every other socket the uses are at least
those of its users.

The operators of `FlowManager` have a lemma each that says what they do to every
field of the record `fm`, and most have a second one that they keep `Core`: use
counts are users counted, for the sockets that are exact (`CountedUses`), a flow's
descriptor is open and its connection's (`FlowSockets`), a connection has one
descriptor. `Core` alone is not inductive. The rest of the invariant ties it to what happens outside of the lock:

- `SessionInv`: which flows are in the set, bound, running and polled in which
  phase of their active node. Most of all, a flow in the set whose socket is
  polled has all the flows of its node beside it, or its connection alone
  (`Polled`), which is why a data message always finds its flow, and `Disconnect`
  never hits a shared socket;
- `QueueInv`: what waits in a connection was sent for flows that were added, and
  data only once they are bound;
- `ReaderInv`: a flow or an unidentified socket that still has its poll entry,
  and whose descriptor `poll()` reported, can be read. This is what holds while
  the main thread works between `poll()` and the lock. `MainKeeps` says what it
  may do there: whatever still has an entry has its old descriptor, and a
  descriptor that is opened or closed has none.

A destructor gives back the one use that its flow has of a socket: with the
flow's thread if that was started, and otherwise only with the socket, when no
other flow has it. All flows of an active node that has ended were started or none
was (`Uniform`), so what is left behind when they are deleted is left by flows that
are in `unstarted` from then on (`OverGivesBack`). A user who stops the passive node
or an assertion that fails ends the program; what holds then are invariants of
their own (`Ended`, `Aborted`). The destructors of all flows of an active node,
and those at the end of the program, are folds over a set; they are reasoned about
with `SubsetInduction`.

### ActiveNode_proofs

For any number of flows and connections, whichever of them are lost:
`UsesAreCountedAlways` and `NothingIsLeftHolds`, from `SocketsInvariant`. One
condition is about the code: the flows of an association are created one after the
other (`ActiveAssumption`; the loop at `netperfmeter.cc:2211`), so that a flow that
is created finds the socket of its association with the flow before it.

What the program does with an association of several flows that is lost is wrong
(section 7, `flowmanager.cc:931`), and the invariant has two halves: what holds in
any case (no socket has more uses than flows, every open socket is one of a flow),
and what holds in addition until then (`Lost`: the uses are exactly those of the
flows, a flow's descriptor is its connection's, a connection has one descriptor).
The first half is what `NothingIsLeftHolds` needs.

The lemmas about the operators of `FlowManager` are stated again, as a node proves
them about its own constants. The invariant says how far the main thread is with
the flows (`Numbered`), that a running flow with a socket has its thread, which
gives the use back (`Bound`), that every open socket is one of a flow or
the one at hand (`Opened`), and that a flow has its socket unless its connection
ended or it is just being created (`Connected`). `QueueInv` says that what waits in
a connection is data for a flow of that connection.

### Sender_proofs

For all sets of intervals and schedules and any time up to the number that stands
for "never" (`SenderAssumption`): `TypeCorrect`, which has the assertion of
`handleStatusChangeEvent()`, and `FailureIsTheEndHolds`. The inductive invariant is
the types, the place in the schedule (`InSchedule`: there is a next event only
within the list) and `FailureEnds`: a thread that could not send is on its way to
the end and will not forget it. The danger is the catch-up loop of `run()`, which
overwrites the result of a failed frame with that of the next one; the lemma
`OneFrameAtATime` says why it does not: `transmitFrame()` has set
`LastTransmission` to the loop's own time, so with an interval of at least one
microsecond the next frame is later than that, and the loop ends after one frame.

`ScheduleIsKeptHolds` and `FewFramesTooLateHolds` rest on a second invariant,
`KeptInv`: the next event is the sum of the list, taken round and round, up to the
number of changes (`Awaits`), the output status is on after an odd number of them
(`OnAsScheduled`), and of the frames after the time of an event there may be one
by a thread that had looked at the clock before, and one by a thread that then
finds the event due (`FramesTooLate`). The times of the events are a recursive
function of their number; `Induction` of `NumberTheorems` gives its values.

### Statistics_proofs

For every finite set of flows, every assignment of them to measurements, every
interval and unbounded counts (`StatisticsAssumption`): `TimersKeepPaceHolds`,
`FlowRowsAddUpHolds` and `StatisticsAddUpHolds`. `TimersKeepPace` alone is not
inductive: a timer moves on by an interval without looking at the time, which
keeps it on pace only if it was due. `VectorIsDue` carries that fact over the rows
that are written in between: the measurement that is written stays due, since the
lock is held. For the sums over flows `SumsInv` says what they are half-way: the
sum so far and the counters of the flows still to come are together at most what
the flows of the measurement have counted (`Vector`), and at least the totals that
were written before (`Scalar`), while the flows count on between any two rows.

### NumberTheorems

The library's induction theorems take an operator, which the installed provers
cannot instantiate. `NumberTheorems` states them for sets: `Induction` over
numbers, `SetInduction` and `SubsetInduction` over the subsets of a finite set (with
an element to remove of one's own choice, or any), and `RecursionOnSubsets`, which
says that the recursion by which the community modules define `FoldSet` has the
value one expects; from these the sums over sets that `Statistics` and
`LossAccounting` need. It also has arithmetic in a ring (`%`), for the frame IDs and
schedules.

### What stays with TLC

Liveness and everything about fairness is out of the prover's reach
(`SetupEnds`, `StopEnds`, `PassiveForgets`, `SocketsAreClosed`, `LostIsClosed`,
`TransferEnds`), and so is what a recursive definition computes for every input:
the modules of `createsummary` (`RedBlackTree`, `InputFile`) use recursive
operators and have no theorems, so that `StorageIsSound`, `SummaryIsExact` and
`FailuresAreNoted` are model-checked only, with the types there.

## 6. Not modelled

Malformed messages (the peer is this program), address resolution, option
parsing and the parsing of flow specifications, socket options, random
distributions, jitter and delay averages, display and logging, CPU statistics,
the configuration file, packaging and plotting scripts. `combinesummaries`,
`extractvectors` and `runtimeestimator` translate lines to lines.

Outside of the models' assumptions: a frame rate above two million per second
(interval 0: the catch-up loop at `flow.cc:430` does not end) and a random rate
that is negative or zero (the conversion at `flow.cc:320` is undefined then).

## 7. Findings

Three have a run whose counterexample shows them.

1. `control.cc:751` (`remove_wait_ends`): `uploadResults()` sends the Acknowledge
   only after a successful `finish()`; the active node waits for it without
   timeout.
2. `flow.cc:362` (`abort_is_unintentional`): an on/off event that is handled
   between the first and the second step of `deactivate()` switches the flow on
   again; the send that fails because of the node's own `shutdown()` then ends the
   program with a fatal error, although the comment at `transfer.cc:183` wants that
   for unintentional aborts only.
3. `control.cc:587` (`fatal_error_ends`): `performNetPerfMeterStop()` takes the
   FlowManager's lock at `control.cc:578` and returns at 585-589 without giving it
   back, when a Remove Flow cannot be sent or is not acknowledged, or the vector
   file of the flow is not complete or cannot be created (`control.cc:60`) or
   written (`control.cc:89`). The main program then prints "FATAL ERROR - ABORTING!"
   (`netperfmeter.cc:2271`, `loglevel.h:73`) and calls `exit(1)`, and `~FlowManager()`
   (`flowmanager.cc:67-68`) joins the reception thread, which waits for that lock
   (`flowmanager.cc:816` or 892): the process hangs. If its association still works,
   as it does after a local file error, the passive node keeps the session.
   `StopEnds` and `PassiveForgets` say that nothing else goes wrong: the first
   admits that end, and the second is about active nodes that do end.

Met while modelling, and what the models and instances do about them:

- `transfer.cc:108`: all packets of a frame carry the same byte sequence number;
  bytes of all but the first are counted as lost (`defragmenter.cc:232`).
  `ByteLossIsReal` is about frames of one packet.
- `control.cc:556` and `control.cc:572`: when the download of a file of the
  measurement fails, the Measurement is deleted but stays in the MeasurementSet.
  `~FlowManager()` deletes it again, and the reception thread may use it before.
  `Exit` takes either for the end of the process.
- `flow.cc:85`: flows of one SCTP association that were identified but never
  started leave a use, and with it the MessageReader's entry of a closed
  descriptor; the next connection with that number reaches `abort()` in
  `registerSocket()`. `AssertionsHold`, `UsesAreCounted` and `NoStaleEntry` say that
  this happens only after two such flows (`SharedUnstarted`).
- `flow.cc:86`: a UDP flow that was identified but never started leaves a use of
  the global UDP socket, and the assertion at `flowmanager.cc:95` fails at exit;
  `AssertionsHold` and `UsesAreCounted` say that this happens only after such a flow
  (`UDPUnstarted`).
- `flowmanager.cc:931`: when an SCTP association with several flows is lost, each
  flow gives back a use as it is polled, but only the last one loses its
  descriptor, which it closes; the others keep one that is closed or has become
  another connection. `NoDanglingFD` is therefore a property of the passive node
  only. On the active node `UsesAreCounted` is an equality until then and an
  inequality afterwards, and `NothingIsLeft` holds all the same.
- `defragmenter.cc:227`: at the wrap of the frame ID the new frames are purged
  before the old ones, whose packets are counted as lost. `FrameIDs` is above
  the number of frames in `loss`, so that the wrap does not occur; `LossIsExact`
  does not hold beyond it.
- `control.cc:894`: the Remove Flow of a flow without vector file is not
  acknowledged; `README.md:99` says that they are. Both nodes agree on the
  silence, so nothing hangs (`StopEnds`).
- `flow.cc:422`: the loop that is to catch up with the frame rate never sends a
  second frame (`OneFrameAtATime`): after a delay, frames are lost to the rate.
- `flow.cc:433`: "Keep sending, even if there is a temporary failure" is true of
  UDP with a frame rate only: a saturated UDP sender ends with the first frame that
  could not be sent, also for `EAGAIN`.
- `flowmanager.cc:799`: the relative global values for the display are those since
  the last measurement that was written, not since the last display.
- `flow.cc:257`: the main thread may count a packet with a time from before the first
  statistics event; the unsigned difference is then a very large relative time.
- `outputfile.cc:191`: a failed `fwrite()` is not noted for a plain file, and
  `rewind()` clears the error of the stream before the upload looks at it; an
  incomplete file is acknowledged and uploaded. `ResultsAreWhole` therefore asks
  for all rows only of a compressed file.
- `control.cc:1003`: the result of the upload of the vector file is ignored; the
  scalar file is tried on the connection that was just shut down.
- `inputfile.cc:121`: a last line without a line break is dropped, and the error of
  a decompressor is the end of the file.
