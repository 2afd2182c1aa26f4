--------------------------- MODULE Statistics_proofs ----------------------------
(***************************************************************************)
(* Proofs about Statistics for every set of flows and measurements, every  *)
(* interval, and a clock and counters without a bound that matters.        *)
(*                                                                         *)
(* IInv is inductive: a timer is handled only when it is due, and it stays *)
(* due until then because the writer has the lock; the absolute row that a *)
(* flow had last is what its relative rows add up to.                      *)
(*                                                                         *)
(* SumsInv, inductive with it, is about the sums over flows: the sum that  *)
(* is being written and what the flows still to come have counted bound    *)
(* the totals from both sides, while the flows count on.                   *)
(***************************************************************************)
EXTENDS Statistics, NumberTheorems, TLAPS

TimerType == [first : Nat, last : Nat, next : Nat]

Typed ==
  /\ clock \in Nat /\ writer.now \in Nat
  /\ writer \in [job : {"idle", "scalar", "events", "vector"}, now : Nat,
                 m : {writer.m}, flows : {writer.flows},
                 measurements : {writer.measurements}, sum : {writer.sum}]
  /\ timer \in [Measurements -> TimerType]
  /\ display \in [timer : TimerType, global : {display.global},
                  rel : {display.rel}]

CountsTyped ==
  /\ stats \in [Flows -> [current : Nat, last : Nat]]
  /\ rows \in [Flows -> Nat]

\* The measurement whose rows are written is due.
VectorIsDue ==
  writer.job = "vector" /\ writer.m \in Measurements =>
    timer[writer.m].next <= writer.now

IInv == Typed /\ CountsTyped /\ VectorIsDue /\ TimersKeepPace /\ FlowRowsAddUp

\* Handling a timer that is due keeps it on pace.
LEMMA TimerOnPace ==
  ASSUME NEW t \in TimerType, NEW now \in Nat, OnPace(t), t.next <= now
  PROVE  Timer(t, now) \in TimerType /\ OnPace(Timer(t, now))
BY StatisticsAssumption DEF TimerType, OnPace, Timer

LEMMA NewTimerOnPace == NewTimer \in TimerType /\ OnPace(NewTimer)
BY DEF NewTimer, TimerType, OnPace

LEMMA InitIInv == Init => IInv
<1> SUFFICES ASSUME Init PROVE IInv
  OBVIOUS
<1>1. Typed
  BY NewTimerOnPace, StatisticsAssumption DEF Init, Typed, Idle
<1>2. CountsTyped /\ FlowRowsAddUp
  BY DEF Init, CountsTyped, FlowRowsAddUp
<1>3. VectorIsDue
  BY DEF Init, VectorIsDue, Idle
<1>4. TimersKeepPace
  BY NewTimerOnPace DEF Init, TimersKeepPace
<1> QED
  BY <1>1, <1>2, <1>3, <1>4 DEF IInv

\* What the main thread, the clock and the traffic do.
LEMMA OthersKeepIInv ==
  ASSUME IInv, MainThread \/ Tick \/ (\E f \in Flows : Count(f))
  PROVE  IInv'
<1> USE DEF IInv, TimersKeepPace
<1>1. ASSUME UNCHANGED <<clock, timer, display, writer, stats, rows>>
      PROVE  IInv'
  BY <1>1 DEF Typed, CountsTyped, VectorIsDue, FlowRowsAddUp
<1>2. ASSUME NEW f \in Flows, AddFlow(f) \/ RemoveFlow(f) PROVE IInv'
  BY <1>1, <1>2 DEF AddFlow, RemoveFlow, history
<1>3. ASSUME NEW m \in Measurements, StartMeasurement(m) PROVE IInv'
  BY <1>1, <1>3 DEF StartMeasurement, history
<1>4. ASSUME NEW m \in Measurements, StopMeasurement(m) PROVE IInv'
  BY <1>4 DEF StopMeasurement, history, Idle, Typed, CountsTyped, VectorIsDue,
     FlowRowsAddUp
<1>5. ASSUME NEW m \in Measurements, RemoveAll(m) PROVE IInv'
  BY <1>5, NewTimerOnPace DEF RemoveAll, history, Unlocked, Typed, CountsTyped,
     VectorIsDue, FlowRowsAddUp
<1>6. CASE WriteFlowScalar
  BY <1>6 DEF WriteFlowScalar, history, Typed, CountsTyped, VectorIsDue,
     FlowRowsAddUp
<1>7. CASE WriteTotalScalar
  BY <1>7, NewTimerOnPace DEF WriteTotalScalar, Idle, Typed, CountsTyped,
     VectorIsDue, FlowRowsAddUp
<1>8. CASE Tick
  BY <1>8 DEF Tick, history, Typed, CountsTyped, VectorIsDue, FlowRowsAddUp
<1>9. ASSUME NEW f \in Flows, Count(f) PROVE IInv'
  BY <1>9 DEF Count, history, Typed, CountsTyped, VectorIsDue, FlowRowsAddUp
<1> QED
  BY <1>2, <1>3, <1>4, <1>5, <1>6, <1>7, <1>8, <1>9 DEF MainThread

\* What the reception thread does.
LEMMA ReceptionKeepsIInv ==
  ASSUME IInv, ReceptionThread
  PROVE  IInv'
<1> USE DEF IInv, TimersKeepPace
<1>1. CASE HandleEvents
  BY <1>1 DEF HandleEvents, history, Idle, Typed, CountsTyped, VectorIsDue,
     FlowRowsAddUp
<1>2. CASE NextMeasurement
  <2>1. VectorIsDue'
    BY <1>2 DEF NextMeasurement, VectorIsDue, Typed
  <2> QED
    BY <1>2, <2>1 DEF NextMeasurement, history, Typed, CountsTyped, FlowRowsAddUp
<1>3. CASE WriteFlowRow
  <2>1. CountsTyped' /\ FlowRowsAddUp'
    <3> DEFINE f == First(writer.flows)
    <3>1. /\ rows' = [rows EXCEPT ![f] = @ + Relative(stats[f])]
          /\ stats' = [stats EXCEPT ![f].last = stats[f].current]
      BY <1>3 DEF WriteFlowRow
    <3> HIDE DEF f
    <3>2. CASE f \in Flows
      <4>1. rows[f] + Relative(stats[f]) = stats[f].current
        BY <3>2 DEF CountsTyped, FlowRowsAddUp, Relative
      <4> QED
        BY <3>1, <3>2, <4>1 DEF CountsTyped, FlowRowsAddUp
    <3>3. CASE f \notin Flows
      BY <3>1, <3>3 DEF CountsTyped, FlowRowsAddUp
    <3> QED
      BY <3>2, <3>3
  <2> QED
    BY <1>3, <2>1 DEF WriteFlowRow, Typed, VectorIsDue
<1>4. CASE WriteTotalRow
  <2>1. timer' \in [Measurements -> TimerType]
        /\ \A m \in Measurements : OnPace(timer[m])'
    BY <1>4, TimerOnPace DEF WriteTotalRow, Typed, VectorIsDue
  <2> QED
    BY <1>4, <2>1 DEF WriteTotalRow, Typed, CountsTyped, VectorIsDue,
       FlowRowsAddUp
<1>5. CASE Display
  <2>1. display.timer.next <= writer.now =>
          /\ Timer(display.timer, writer.now) \in TimerType
          /\ OnPace(Timer(display.timer, writer.now))
    BY TimerOnPace DEF Typed
  <2> QED
    BY <1>5, <2>1 DEF Display, history, Idle, Typed, CountsTyped, VectorIsDue,
       FlowRowsAddUp
<1> QED
  BY <1>1, <1>2, <1>3, <1>4, <1>5 DEF ReceptionThread

\* IInv holds in every reachable state.
THEOREM InductiveInvariant == Spec => []IInv
<1>1. IInv /\ [Next]_vars => IInv'
  <2> SUFFICES ASSUME IInv, [Next]_vars PROVE IInv'
    OBVIOUS
  <2>1. CASE UNCHANGED vars
    BY <2>1 DEF vars, history, IInv, Typed, CountsTyped, VectorIsDue,
       TimersKeepPace, FlowRowsAddUp
  <2> QED
    BY <2>1, OthersKeepIInv, ReceptionKeepsIInv DEF Next
<1> QED
  BY <1>1, InitIInv, PTL DEF Spec

\* TimersKeepPace: handleEvents() never writes two rows of a measurement for
\* one time, and no burst of rows after a delay, for every interval and number
\* of measurements.
THEOREM TimersKeepPaceHolds == Spec => []TimersKeepPace
BY InductiveInvariant, PTL DEF IInv

\* FlowRowsAddUp: the relative rows of a flow add up to its last absolute one,
\* whatever is counted while the rows are written.
THEOREM FlowRowsAddUpHolds == Spec => []FlowRowsAddUp
BY InductiveInvariant, PTL DEF IInv

-----------------------------------------------------------------------------
(* Sums over flows.                                                        *)

StatsType == [Flows -> [current : Nat, last : Nat]]

\* What the flows of S have counted, and what of it is in their rows.
CountedBy(S, st) == SumFunctionOnSet([f \in Flows |-> st[f].current], S)
WrittenOf(S, st) == SumFunctionOnSet([f \in Flows |-> st[f].last], S)

\* They are sums: nothing for no flow, and each flow adds its number.
LEMMA SumsOfFlows ==
  ASSUME NEW st \in StatsType, NEW S \in SUBSET Flows
  PROVE  /\ CountedBy(S, st) \in Nat /\ WrittenOf(S, st) \in Nat
         /\ CountedBy({}, st) = 0
         /\ \A f \in S :
              /\ CountedBy(S, st) = st[f].current + CountedBy(S \ {f}, st)
              /\ WrittenOf(S, st) = st[f].last + WrittenOf(S \ {f}, st)
<1> DEFINE C == [f \in Flows |-> st[f].current]
           L == [f \in Flows |-> st[f].last]
<1>1. /\ IsFiniteSet(S) /\ IsFiniteSet({})
      /\ \A f \in S : C[f] = st[f].current /\ L[f] = st[f].last
      /\ \A f \in S : C[f] \in Nat /\ L[f] \in Nat
      /\ \A f \in {} : C[f] \in Nat
  BY StatisticsAssumption, FS_Subset, FS_EmptySet DEF StatsType
<1> HIDE DEF C, L
<1>2. /\ SumFunctionOnSet(C, S) \in Nat /\ SumFunctionOnSet(L, S) \in Nat
      /\ SumFunctionOnSet(C, {}) = 0
  BY <1>1, SumOfPick
<1>3. ASSUME NEW f \in S
      PROVE  /\ SumFunctionOnSet(C, S) = C[f] + SumFunctionOnSet(C, S \ {f})
             /\ SumFunctionOnSet(L, S) = L[f] + SumFunctionOnSet(L, S \ {f})
  BY <1>1, SumWithoutOne
<1> QED
  BY <1>1, <1>2, <1>3 DEF CountedBy, WrittenOf, C, L

\* A sum is that of the numbers of its flows.
LEMMA SumsOfSameFlows ==
  ASSUME NEW st \in StatsType, NEW st2 \in StatsType, NEW S \in SUBSET Flows
  PROVE  /\ (\A f \in S : st2[f].current = st[f].current)
              => CountedBy(S, st2) = CountedBy(S, st)
         /\ (\A f \in S : st2[f].last = st[f].last)
              => WrittenOf(S, st2) = WrittenOf(S, st)
<1>0. IsFiniteSet(S)
  BY StatisticsAssumption, FS_Subset
<1>1. ASSUME \A f \in S : st2[f].current = st[f].current
      PROVE  CountedBy(S, st2) = CountedBy(S, st)
  <2> DEFINE g == [f \in Flows |-> st[f].current]
             k == [f \in Flows |-> st2[f].current]
  <2>1. (\A f \in S : g[f] \in Nat) /\ (\A f \in S : k[f] = g[f])
    BY <1>1 DEF StatsType
  <2> HIDE DEF g, k
  <2> QED
    BY <1>0, <2>1, SumCongruence DEF CountedBy, g, k
<1>2. ASSUME \A f \in S : st2[f].last = st[f].last
      PROVE  WrittenOf(S, st2) = WrittenOf(S, st)
  <2> DEFINE g == [f \in Flows |-> st[f].last]
             k == [f \in Flows |-> st2[f].last]
  <2>1. (\A f \in S : g[f] \in Nat) /\ (\A f \in S : k[f] = g[f])
    BY <1>2 DEF StatsType
  <2> HIDE DEF g, k
  <2> QED
    BY <1>0, <2>1, SumCongruence DEF WrittenOf, g, k
<1> QED
  BY <1>1, <1>2

\* Counting in one flow.
LEMMA SumsGrow ==
  ASSUME NEW st \in StatsType, NEW st2 \in StatsType, NEW f \in Flows,
         st2[f].current = st[f].current + 1,
         \A g \in Flows \ {f} : st2[g].current = st[g].current,
         NEW S \in SUBSET Flows
  PROVE  CountedBy(S, st2) = CountedBy(S, st) + (IF f \in S THEN 1 ELSE 0)
<1>1. S \ {f} \in SUBSET Flows /\ \A g \in S \ {f} : st2[g].current = st[g].current
  OBVIOUS
<1>2. CountedBy(S \ {f}, st2) = CountedBy(S \ {f}, st)
  BY <1>1, SumsOfSameFlows
<1>3. CASE f \notin S
  <2>1. S \ {f} = S
    BY <1>3
  <2>2. CountedBy(S, st) \in Nat
    BY SumsOfFlows
  <2>3. CountedBy(S, st2) = CountedBy(S, st)
    BY <1>2, <2>1
  <2> QED
    BY <1>3, <2>2, <2>3
<1>4. CASE f \in S
  <2>1. st[f].current \in Nat
    BY DEF StatsType
  <2>2. /\ CountedBy(S, st2) = st2[f].current + CountedBy(S \ {f}, st2)
        /\ CountedBy(S, st) = st[f].current + CountedBy(S \ {f}, st)
        /\ CountedBy(S \ {f}, st) \in Nat
    BY <1>4, SumsOfFlows
  <2> QED
    BY <1>2, <1>4, <2>1, <2>2
<1> QED
  BY <1>3, <1>4

-----------------------------------------------------------------------------
(* The totals.                                                             *)

SumType == [abs : Nat, last : Nat, rowsRel : Int]
Adds(sum) == sum.abs - sum.last = sum.rowsRel

SetsTyped ==
  /\ flowSet \subseteq Flows /\ measurementSet \subseteq Measurements
  /\ Unlocked => writer = Idle
  /\ writer.flows \subseteq FlowsOf(writer.m)
  /\ writer.measurements \subseteq measurementSet
  /\ writer.job = "vector" => writer.m \in measurementSet
  /\ writer.job = "scalar" => writer.m \in measurementSet \cap stopped

SumsTyped ==
  /\ writer.sum \in SumType /\ global \in [current : Int, last : Int]
  /\ totals \in [Measurements -> SumType] /\ scalars \in [Measurements -> Nat]

\* What is computed from the counters is what the relative rows add up to.
SumsAdd ==
  /\ global.current = WrittenOf(Flows, stats)
  /\ writer.job = "vector" => Adds(writer.sum)
  /\ \A m \in Measurements : Adds(totals[m])

\* The total of the vectors is not more than what the flows of the measurement
\* have counted: neither while its rows are written (Vector), nor until the
\* measurement stops (Open), nor while the scalars are added up (Scalar), nor,
\* on the passive node, when they are written (Closed).
Vector == writer.job = "vector" =>
  writer.sum.abs + CountedBy(writer.flows, stats)
    <= CountedBy(FlowsOf(writer.m), stats)
Open == \A m \in Measurements \ stopped :
  totals[m].abs <= CountedBy(FlowsOf(m), stats)
Scalar == writer.job = "scalar" =>
  totals[writer.m].abs <= writer.sum.abs + CountedBy(writer.flows, stats)
Closed == passive => \A m \in Measurements :
  scalars[m] > 0 => m \in stopped \ measurementSet /\ scalars[m] >= totals[m].abs

SumsInv == /\ SetsTyped /\ SumsTyped /\ SumsAdd
           /\ Vector /\ Open /\ Scalar /\ Closed

\* The next flow that is written.
LEMMA FirstInSet ==
  ASSUME NEW S \in SUBSET Nat, S # {}
  PROVE  First(S) \in S
BY LeastNumberPrinciple DEF First

\* Who writes, what is in the sets, and what this tells of the flows.
LEMMA SumsFacts ==
  ASSUME IInv, SumsInv
  PROVE  /\ stats \in StatsType /\ Flows \in SUBSET Flows
         /\ writer.flows \in SUBSET Flows
         /\ \A m : FlowsOf(m) \in SUBSET Flows
         /\ writer.flows # {} =>
              /\ First(writer.flows) \in writer.flows
              /\ First(writer.flows) \in Flows
         /\ writer.job \in {"vector", "scalar"} => writer.m \in Measurements
<1>1. /\ stats \in StatsType /\ writer.flows \in SUBSET Flows
      /\ \A m : FlowsOf(m) \in SUBSET Flows
      /\ writer.job \in {"vector", "scalar"} => writer.m \in Measurements
  BY DEF IInv, CountsTyped, StatsType, SumsInv, SetsTyped, FlowsOf
<1>2. writer.flows # {} => First(writer.flows) \in writer.flows
  BY <1>1, FirstInSet, StatisticsAssumption
<1> QED
  BY <1>1, <1>2

LEMMA InitSums == Init => SumsInv
<1> SUFFICES ASSUME Init PROVE SumsInv
  OBVIOUS
<1>1. WrittenOf(Flows, stats) = 0
  <2> DEFINE g == [f \in Flows |-> stats[f].last]
  <2>1. IsFiniteSet(Flows) /\ \A f \in Flows : g[f] = 0
    BY StatisticsAssumption DEF Init
  <2> HIDE DEF g
  <2> QED
    BY <2>1, SumOfZeros DEF WrittenOf, g
<1>2. stats \in StatsType /\ \A m : FlowsOf(m) = {}
  BY DEF Init, StatsType, FlowsOf
<1>3. Open
  <2> SUFFICES ASSUME NEW m \in Measurements
               PROVE  totals[m].abs <= CountedBy(FlowsOf(m), stats)
    BY DEF Open
  <2>1. totals[m].abs = 0
    BY DEF Init, NoTotals
  <2>2. CountedBy({}, stats) = 0
    BY <1>2, SumsOfFlows
  <2> QED
    BY <1>2, <2>1, <2>2
<1>4. writer = Idle /\ Idle.job = "idle" /\ Idle.flows = {} /\ Idle.measurements = {}
      /\ Idle.sum = NoTotals
  BY DEF Init, Idle
<1>5. SetsTyped
  BY <1>4 DEF Init, SetsTyped
<1>6. SumsTyped
  BY <1>4 DEF Init, SumsTyped, SumType, NoTotals
<1>7. SumsAdd
  BY <1>1, <1>4 DEF Init, SumsAdd, Adds, NoTotals
<1>8. Vector /\ Scalar /\ Closed
  BY <1>4 DEF Init, Vector, Scalar, Closed
<1> QED
  BY <1>3, <1>5, <1>6, <1>7, <1>8 DEF SumsInv

\* A step that leaves the sums, the counters and the sets of flows alone.
LEMMA SumsUnchanged ==
  ASSUME SumsInv, SetsTyped',
         UNCHANGED <<passive, flowSet, stats, stopped, writer, global, totals,
                     scalars>>,
         passive => measurementSet' \subseteq measurementSet
                    \/ \A m \in measurementSet' \ measurementSet : m \notin stopped
  PROVE  SumsInv'
<1>1. Open' /\ Vector' /\ Scalar'
  BY DEF SumsInv, Open, Vector, Scalar, FlowsOf
<1>2. Closed'
  BY DEF SumsInv, Closed
<1>3. SumsTyped' /\ SumsAdd'
  BY DEF SumsInv, SumsTyped, SumsAdd
<1> QED
  BY <1>1, <1>2, <1>3 DEF SumsInv

\* A new flow has counted nothing less than nothing.
LEMMA AddFlowKeepsSums ==
  ASSUME IInv, SumsInv, NEW f \in Flows, AddFlow(f)
  PROVE  SumsInv'
<1>1. /\ Unlocked /\ writer = Idle /\ f \notin flowSet
      /\ flowSet' = flowSet \cup {f}
      /\ UNCHANGED <<passive, clock, stopped, stats, measurementSet, timer,
                     display, global, writer, totals, scalars>>
  BY DEF AddFlow, history, SumsInv, SetsTyped
<1>2. stats \in StatsType /\ flowSet' \subseteq Flows
  BY <1>1, SumsFacts DEF SumsInv, SetsTyped
<1>3. writer.job = "idle" /\ writer.flows = {} /\ writer.measurements = {}
  BY <1>1 DEF Idle
<1>4. SetsTyped'
  BY <1>1, <1>2, <1>3 DEF SumsInv, SetsTyped, Unlocked
<1>5. Open'
  <2> SUFFICES ASSUME NEW m \in Measurements, m \notin stopped
               PROVE  totals[m].abs <= CountedBy(FlowsOf(m)', stats)
    BY <1>1 DEF Open, CountedBy
  <2>1. /\ totals[m].abs <= CountedBy(FlowsOf(m), stats)
        /\ totals[m].abs \in Nat
    BY DEF SumsInv, Open, SumsTyped, SumType
  <2>2. CASE MeasurementOf[f] # m
    <3>1. FlowsOf(m)' = FlowsOf(m)
      BY <1>1, <2>2 DEF FlowsOf
    <3> QED
      BY <2>1, <3>1
  <2>3. CASE MeasurementOf[f] = m
    <3>1. /\ FlowsOf(m)' = FlowsOf(m) \cup {f} /\ f \notin FlowsOf(m)
          /\ FlowsOf(m)' \in SUBSET Flows /\ FlowsOf(m) \in SUBSET Flows
      BY <1>1, <1>2, <2>3 DEF FlowsOf
    <3>2. /\ f \in FlowsOf(m)' /\ FlowsOf(m)' \ {f} = FlowsOf(m)
          /\ stats[f].current \in Nat
      BY <1>2, <3>1 DEF StatsType
    <3>3. CountedBy(FlowsOf(m)', stats)
            = stats[f].current + CountedBy(FlowsOf(m)' \ {f}, stats)
      BY <1>2, <3>1, <3>2, SumsOfFlows
    <3>4. CountedBy(FlowsOf(m), stats) \in Nat
      BY <1>2, <3>1, SumsOfFlows
    <3>5. CountedBy(FlowsOf(m)', stats)
            = stats[f].current + CountedBy(FlowsOf(m), stats)
      BY <3>2, <3>3
    <3> HIDE <3>3
    <3> QED
      BY <2>1, <3>2, <3>4, <3>5
  <2> QED
    BY <2>2, <2>3
<1>6. SumsTyped' /\ SumsAdd' /\ Vector' /\ Scalar' /\ Closed'
  BY <1>1, <1>3 DEF SumsInv, SumsTyped, SumsAdd, Vector, Scalar, Closed
<1> QED
  BY <1>4, <1>5, <1>6 DEF SumsInv

\* Flows leave only when their measurement has stopped.
LEMMA RemoveKeepsSums ==
  ASSUME IInv, SumsInv,
         \/ \E f \in Flows : RemoveFlow(f)
         \/ \E m \in Measurements : RemoveAll(m)
  PROVE  SumsInv'
<1>1. /\ Unlocked /\ writer = Idle /\ flowSet' \subseteq flowSet
      /\ \A f \in flowSet \ flowSet' : MeasurementOf[f] \in stopped'
      /\ stopped \subseteq stopped' /\ measurementSet' \subseteq measurementSet
      /\ UNCHANGED <<passive, stats, global, writer, totals, scalars>>
  <2>1. ASSUME NEW f \in Flows, RemoveFlow(f)
        PROVE  /\ Unlocked /\ flowSet' \subseteq flowSet
               /\ \A g \in flowSet \ flowSet' : MeasurementOf[g] \in stopped'
               /\ stopped \subseteq stopped' /\ measurementSet' \subseteq measurementSet
               /\ UNCHANGED <<passive, stats, global, writer, totals, scalars>>
    BY <2>1 DEF RemoveFlow, history
  <2>2. ASSUME NEW m \in Measurements, RemoveAll(m)
        PROVE  /\ Unlocked /\ flowSet' \subseteq flowSet
               /\ \A g \in flowSet \ flowSet' : MeasurementOf[g] \in stopped'
               /\ stopped \subseteq stopped' /\ measurementSet' \subseteq measurementSet
               /\ UNCHANGED <<passive, stats, global, writer, totals, scalars>>
    BY <2>2 DEF RemoveAll, history, FlowsOf
  <2> QED
    BY <2>1, <2>2 DEF SumsInv, SetsTyped
<1>2. writer.job = "idle" /\ writer.flows = {} /\ writer.measurements = {}
  BY <1>1 DEF Idle
<1>3. SetsTyped'
  BY <1>1, <1>2 DEF SumsInv, SetsTyped, Unlocked
<1>4. Open'
  <2> SUFFICES ASSUME NEW m \in Measurements, m \notin stopped'
               PROVE  totals[m].abs <= CountedBy(FlowsOf(m)', stats)
    BY <1>1 DEF Open, CountedBy
  <2>1. FlowsOf(m)' = FlowsOf(m)
    BY <1>1 DEF FlowsOf
  <2> QED
    BY <1>1, <2>1 DEF SumsInv, Open
<1>5. Closed'
  BY <1>1 DEF SumsInv, Closed
<1>6. SumsTyped' /\ SumsAdd' /\ Vector' /\ Scalar'
  BY <1>1, <1>2 DEF SumsInv, SumsTyped, SumsAdd, Vector, Scalar
<1> QED
  BY <1>3, <1>4, <1>5, <1>6 DEF SumsInv

\* Counting goes on at any time.
LEMMA CountKeepsSums ==
  ASSUME IInv, SumsInv, NEW f \in Flows, Count(f)
  PROVE  SumsInv'
<1>1. /\ stats' = [stats EXCEPT ![f].current = @ + 1]
      /\ UNCHANGED <<passive, stopped, flowSet, measurementSet, global, writer,
                     totals, scalars>>
  BY DEF Count, history
<1>2. /\ stats \in StatsType /\ stats' \in StatsType
      /\ stats'[f].current = stats[f].current + 1
      /\ \A g \in Flows \ {f} : stats'[g].current = stats[g].current
      /\ \A g \in Flows : stats'[g].last = stats[g].last
  BY <1>1, SumsFacts DEF StatsType
<1>3. ASSUME NEW S \in SUBSET Flows
      PROVE  /\ CountedBy(S, stats')
                  = CountedBy(S, stats) + (IF f \in S THEN 1 ELSE 0)
             /\ CountedBy(S, stats) \in Nat
             /\ WrittenOf(S, stats') = WrittenOf(S, stats)
  BY <1>2, SumsGrow, SumsOfFlows, SumsOfSameFlows
<1>4. ASSUME NEW m PROVE FlowsOf(m)' = FlowsOf(m) /\ FlowsOf(m) \in SUBSET Flows
  BY <1>1, SumsFacts DEF FlowsOf
<1>5. Open'
  <2> SUFFICES ASSUME NEW m \in Measurements, m \notin stopped
               PROVE  totals[m].abs <= CountedBy(FlowsOf(m), stats')
    BY <1>1, <1>4 DEF Open, CountedBy
  <2>1. totals[m].abs <= CountedBy(FlowsOf(m), stats) /\ totals[m].abs \in Nat
    BY DEF SumsInv, Open, SumsTyped, SumType
  <2> QED
    BY <1>3, <1>4, <2>1
<1>6. ASSUME writer.job = "vector"
      PROVE  writer.sum.abs + CountedBy(writer.flows, stats')
               <= CountedBy(FlowsOf(writer.m), stats')
  <2>1. /\ writer.sum.abs + CountedBy(writer.flows, stats)
             <= CountedBy(FlowsOf(writer.m), stats)
        /\ writer.flows \subseteq FlowsOf(writer.m) /\ writer.sum.abs \in Nat
    BY <1>6 DEF SumsInv, Vector, SetsTyped, SumsTyped, SumType
  <2>2. writer.flows \in SUBSET Flows /\ FlowsOf(writer.m) \in SUBSET Flows
    BY SumsFacts
  <2> QED
    BY <1>3, <2>1, <2>2
<1>7. ASSUME writer.job = "scalar"
      PROVE  totals[writer.m].abs <= writer.sum.abs + CountedBy(writer.flows, stats')
  <2>1. /\ totals[writer.m].abs <= writer.sum.abs + CountedBy(writer.flows, stats)
        /\ writer.sum.abs \in Nat /\ totals[writer.m].abs \in Nat
    BY <1>7, SumsFacts DEF SumsInv, Scalar, SumsTyped, SumType
  <2>2. writer.flows \in SUBSET Flows
    BY SumsFacts
  <2> QED
    BY <1>3, <2>1, <2>2
<1>8. SumsAdd'
  <2>1. WrittenOf(Flows, stats') = WrittenOf(Flows, stats)
    BY <1>3
  <2>2. global.current = WrittenOf(Flows, stats') 
    BY <2>1 DEF SumsInv, SumsAdd
  <2> QED
    BY <1>1, <2>2 DEF SumsInv, SumsAdd, WrittenOf
<1>9. Vector' /\ Scalar'
  BY <1>1, <1>4, <1>6, <1>7 DEF Vector, Scalar, CountedBy
<1>10. SetsTyped' /\ SumsTyped' /\ Closed'
  BY <1>1, <1>4 DEF SumsInv, SetsTyped, SumsTyped, Closed, Unlocked
<1> QED
  BY <1>5, <1>8, <1>9, <1>10 DEF SumsInv

\* A measurement starts, or stops: then its scalars are to be written.
LEMMA StartKeepsSums ==
  ASSUME IInv, SumsInv, NEW m \in Measurements, StartMeasurement(m)
  PROVE  SumsInv'
<1>1. /\ writer = Idle /\ m \notin stopped /\ measurementSet' = measurementSet \cup {m}
      /\ UNCHANGED <<passive, flowSet, stats, stopped, writer, global, totals,
                     scalars>>
  BY DEF StartMeasurement, history, SumsInv, SetsTyped
<1>2. SetsTyped'
  BY <1>1 DEF SumsInv, SetsTyped, Unlocked, FlowsOf, Idle
<1> QED
  BY <1>1, <1>2, SumsUnchanged

LEMMA StopKeepsSums ==
  ASSUME IInv, SumsInv, NEW m \in Measurements, StopMeasurement(m)
  PROVE  SumsInv'
<1>1. /\ m \in measurementSet /\ m \notin stopped
      /\ stopped' = stopped \cup {m}
      /\ writer' = [Idle EXCEPT !.job = "scalar", !.m = m, !.flows = FlowsOf(m)]
      /\ UNCHANGED <<passive, stats, flowSet, measurementSet, global, totals,
                     scalars>>
  BY DEF StopMeasurement, history
<1>2. /\ writer'.job = "scalar" /\ writer'.m = m /\ writer'.flows = FlowsOf(m)
      /\ writer'.measurements = {} /\ writer'.sum = NoTotals
  BY <1>1 DEF Idle
<1>3. \A n : FlowsOf(n)' = FlowsOf(n)
  BY <1>1 DEF FlowsOf
<1>4. SetsTyped'
  BY <1>1, <1>2, <1>3 DEF SumsInv, SetsTyped, Unlocked
<1>5. Open' /\ Closed' /\ Vector'
  BY <1>1, <1>2, <1>3 DEF SumsInv, Open, Closed, Vector
<1>6. Scalar'
  <2>1. totals[m].abs <= CountedBy(FlowsOf(m), stats)
    BY <1>1 DEF SumsInv, Open
  <2>2. CountedBy(FlowsOf(m), stats) \in Nat
    BY SumsFacts, SumsOfFlows
  <2>3. totals[m].abs <= NoTotals.abs + CountedBy(FlowsOf(m), stats)
    BY <2>1, <2>2 DEF NoTotals
  <2> QED
    BY <1>1, <1>2, <2>3 DEF Scalar
<1>7. SumsTyped' /\ SumsAdd'
  BY <1>1, <1>2 DEF SumsInv, SumsTyped, SumsAdd, NoTotals, SumType
<1> QED
  BY <1>4, <1>5, <1>6, <1>7 DEF SumsInv

\* The scalars of one flow, and the total.
LEMMA ScalarsKeepSums ==
  ASSUME IInv, SumsInv, WriteFlowScalar \/ WriteTotalScalar
  PROVE  SumsInv'
<1>1. CASE WriteFlowScalar
  <2> DEFINE f == First(writer.flows)
  <2>1. /\ writer.job = "scalar" /\ f \in writer.flows /\ f \in Flows
        /\ writer' = [writer EXCEPT !.flows = @ \ {f},
                                    !.sum.abs = @ + stats[f].current]
        /\ UNCHANGED <<passive, stopped, stats, flowSet, measurementSet, global,
                       totals, scalars>>
    BY <1>1, SumsFacts DEF WriteFlowScalar, history
  <2> HIDE DEF f
  <2>2. /\ writer \in [job : {"idle", "scalar", "events", "vector"}, now : Nat,
                 m : {writer.m}, flows : {writer.flows},
                 measurements : {writer.measurements}, sum : {writer.sum}]
        /\ writer.sum \in SumType /\ writer.m \in Measurements
        /\ stats[f].current \in Nat /\ writer.flows \in SUBSET Flows
        /\ totals[writer.m].abs \in Nat
    BY <2>1, SumsFacts DEF IInv, Typed, SumsInv, SumsTyped, StatsType, SumType
  <2>3. /\ writer'.job = "scalar" /\ writer'.m = writer.m
        /\ writer'.flows = writer.flows \ {f}
        /\ writer'.measurements = writer.measurements
        /\ writer'.sum \in SumType
        /\ writer'.sum.abs = writer.sum.abs + stats[f].current
    BY <2>1, <2>2 DEF SumType
  <2>4. \A n : FlowsOf(n)' = FlowsOf(n)
    BY <2>1 DEF FlowsOf
  <2>5. Scalar'
    <3>1. totals[writer.m].abs <= writer.sum.abs + CountedBy(writer.flows, stats)
      BY <2>1 DEF SumsInv, Scalar
    <3>2. CountedBy(writer.flows, stats)
            = stats[f].current + CountedBy(writer.flows \ {f}, stats)
      BY <2>1, <2>2, SumsFacts, SumsOfFlows
    <3>3. CountedBy(writer.flows \ {f}, stats) \in Nat
      BY <2>2, SumsFacts, SumsOfFlows
    <3>4. writer.sum.abs \in Nat
      BY <2>2 DEF SumType
    <3>5. totals[writer.m].abs
            <= writer'.sum.abs + CountedBy(writer.flows \ {f}, stats)
      BY <2>2, <2>3, <3>1, <3>2, <3>3, <3>4
    <3> QED
      BY <2>1, <2>3, <3>5 DEF Scalar, CountedBy
  <2>6. SetsTyped' /\ Open' /\ Closed' /\ Vector'
    BY <2>1, <2>3, <2>4 DEF SumsInv, SetsTyped, Open, Closed, Vector, Unlocked
  <2>7. SumsTyped' /\ SumsAdd'
    BY <2>1, <2>3 DEF SumsInv, SumsTyped, SumsAdd
  <2> QED
    BY <2>5, <2>6, <2>7 DEF SumsInv
<1>2. CASE WriteTotalScalar
  <2>1. /\ writer.job = "scalar" /\ writer.flows = {}
        /\ scalars' = [scalars EXCEPT ![writer.m] = writer.sum.abs]
        /\ measurementSet' = IF passive THEN measurementSet \ {writer.m}
                             ELSE measurementSet
        /\ writer' = Idle
        /\ UNCHANGED <<passive, stopped, flowSet, stats, global, totals>>
    BY <1>2 DEF WriteTotalScalar
  <2>2. /\ writer.m \in Measurements /\ writer.m \in stopped
        /\ writer.sum.abs \in Nat
    BY <2>1, SumsFacts DEF SumsInv, SetsTyped, SumsTyped, SumType
  <2>3. writer.sum.abs >= totals[writer.m].abs
    <3>1. CountedBy({}, stats) = 0 /\ totals[writer.m].abs \in Nat
      BY <2>2, SumsFacts, SumsOfFlows DEF SumsInv, SumsTyped, SumType
    <3>2. totals[writer.m].abs <= writer.sum.abs + CountedBy({}, stats)
      BY <2>1 DEF SumsInv, Scalar
    <3> QED
      BY <2>2, <3>1, <3>2
  <2>4. Closed'
    <3> SUFFICES ASSUME passive, NEW m \in Measurements, scalars'[m] > 0
                 PROVE  /\ m \in stopped \ measurementSet'
                        /\ scalars'[m] >= totals[m].abs
      BY <2>1 DEF Closed
    <3>1. scalars'[m] = IF m = writer.m THEN writer.sum.abs ELSE scalars[m]
      BY <2>1 DEF SumsInv, SumsTyped
    <3>2. CASE m = writer.m
      BY <2>1, <2>2, <2>3, <3>1, <3>2
    <3>3. CASE m # writer.m
      BY <2>1, <3>1, <3>3 DEF SumsInv, Closed
    <3> QED
      BY <3>2, <3>3
  <2>5. /\ Idle.job = "idle" /\ Idle.flows = {} /\ Idle.measurements = {}
        /\ Idle.sum = NoTotals
    BY DEF Idle
  <2>6. SetsTyped'
    BY <2>1, <2>5 DEF SumsInv, SetsTyped, Unlocked
  <2>7. Open'
    BY <2>1 DEF SumsInv, Open, FlowsOf
  <2>8. Vector' /\ Scalar' /\ SumsAdd'
    BY <2>1, <2>5 DEF SumsInv, Vector, Scalar, SumsAdd
  <2>9. SumsTyped'
    BY <2>1, <2>2, <2>5 DEF SumsInv, SumsTyped, SumType, NoTotals
  <2> QED
    BY <2>4, <2>6, <2>7, <2>8, <2>9 DEF SumsInv
<1> QED
  BY <1>1, <1>2

\* handleEvents() begins, and goes to the next measurement.
LEMMA EventsKeepSums ==
  ASSUME IInv, SumsInv, HandleEvents \/ NextMeasurement \/ Display
  PROVE  SumsInv'
<1>0. /\ writer \in [job : {"idle", "scalar", "events", "vector"}, now : Nat,
                 m : {writer.m}, flows : {writer.flows},
                 measurements : {writer.measurements}, sum : {writer.sum}]
      /\ Measurements \subseteq Nat
  BY StatisticsAssumption DEF IInv, Typed
<1>1. /\ UNCHANGED <<passive, flowSet, stats, stopped, measurementSet, global,
                     totals, scalars>>
      /\ \A n : FlowsOf(n)' = FlowsOf(n)
  BY DEF HandleEvents, NextMeasurement, Display, history, FlowsOf
<1>2. /\ Idle.job = "idle" /\ Idle.flows = {} /\ Idle.measurements = {}
      /\ Idle.sum = NoTotals /\ NoTotals \in SumType /\ Adds(NoTotals)
  BY DEF Idle, NoTotals, SumType, Adds
<1>3. CASE HandleEvents
  <2>1. /\ writer'.job = "events" /\ writer'.flows = {} /\ writer'.sum = NoTotals
        /\ writer'.measurements = measurementSet
    BY <1>3 DEF HandleEvents, Idle
  <2> QED
    BY <1>1, <1>2, <2>1 DEF SumsInv, SetsTyped, SumsTyped, SumsAdd, Vector, Open,
       Scalar, Closed, Unlocked
<1>4. CASE NextMeasurement
  <2> DEFINE m == First(writer.measurements)
  <2>1. m \in measurementSet /\ m \in Measurements
    <3>1. writer.measurements \in SUBSET Nat /\ writer.measurements # {}
      BY <1>0, <1>4 DEF NextMeasurement, SumsInv, SetsTyped
    <3> QED
      BY <3>1, FirstInSet DEF SumsInv, SetsTyped
  <2>2. /\ writer'.job \in {"vector", "events"} /\ writer'.m = m
        /\ writer'.flows = FlowsOf(m) /\ writer'.sum = NoTotals
        /\ writer'.measurements = writer.measurements \ {m}
    BY <1>0, <1>4 DEF NextMeasurement
  <2> HIDE DEF m
  <2>3. SetsTyped'
    BY <1>1, <2>1, <2>2 DEF SumsInv, SetsTyped, Unlocked
  <2>4. Vector'
    <3>1. CountedBy(FlowsOf(m), stats) \in Nat
      BY SumsFacts, SumsOfFlows
    <3>2. NoTotals.abs + CountedBy(FlowsOf(m), stats)
            <= CountedBy(FlowsOf(m), stats)
      BY <3>1 DEF NoTotals
    <3> QED
      BY <1>1, <2>2, <3>2 DEF Vector
  <2>5. SumsTyped' /\ SumsAdd' /\ Open' /\ Scalar' /\ Closed'
    BY <1>1, <1>2, <2>2 DEF SumsInv, SumsTyped, SumsAdd, Open, Scalar, Closed
  <2> QED
    BY <2>3, <2>4, <2>5 DEF SumsInv
<1>5. CASE Display
  <2>1. writer' = Idle
    BY <1>5 DEF Display
  <2> QED
    BY <1>1, <1>2, <2>1 DEF SumsInv, SetsTyped, SumsTyped, SumsAdd, Vector, Open,
       Scalar, Closed, Unlocked
<1> QED
  BY <1>3, <1>4, <1>5

\* The rows of one flow.
LEMMA FlowRowKeepsSums ==
  ASSUME IInv, SumsInv, WriteFlowRow
  PROVE  SumsInv'
<1> DEFINE f == First(writer.flows)
<1>1. /\ writer.job = "vector" /\ f \in writer.flows /\ f \in Flows
      /\ global' = [global EXCEPT !.current = @ + Relative(stats[f])]
      /\ stats' = [stats EXCEPT ![f].last = stats[f].current]
      /\ writer' = [writer EXCEPT !.flows = @ \ {f},
                      !.sum = [abs |-> @.abs + stats[f].current,
                               last |-> @.last + stats[f].last,
                               rowsRel |-> @.rowsRel + Relative(stats[f])]]
      /\ UNCHANGED <<passive, stopped, flowSet, measurementSet, totals, scalars>>
  BY SumsFacts DEF WriteFlowRow
<1> HIDE DEF f
<1>2. /\ writer \in [job : {"idle", "scalar", "events", "vector"}, now : Nat,
                 m : {writer.m}, flows : {writer.flows},
                 measurements : {writer.measurements}, sum : {writer.sum}]
      /\ writer.sum \in SumType /\ global \in [current : Int, last : Int]
      /\ stats[f].current \in Nat /\ stats[f].last \in Nat
      /\ stats \in StatsType /\ writer.flows \in SUBSET Flows
  BY <1>1, SumsFacts DEF IInv, Typed, SumsInv, SumsTyped, StatsType
<1>3. /\ stats' \in StatsType
      /\ \A g \in Flows : stats'[g].current = stats[g].current
      /\ \A g \in Flows \ {f} : stats'[g].last = stats[g].last
      /\ stats'[f].last = stats[f].current
  BY <1>1, <1>2 DEF StatsType
<1>4. /\ writer'.job = "vector" /\ writer'.m = writer.m
      /\ writer'.flows = writer.flows \ {f}
      /\ writer'.measurements = writer.measurements
      /\ writer'.sum = [abs |-> writer.sum.abs + stats[f].current,
                        last |-> writer.sum.last + stats[f].last,
                        rowsRel |-> writer.sum.rowsRel + Relative(stats[f])]
  BY <1>1, <1>2
<1>5. \A n : FlowsOf(n)' = FlowsOf(n)
  BY <1>1 DEF FlowsOf
<1>6. ASSUME NEW S \in SUBSET Flows PROVE CountedBy(S, stats') = CountedBy(S, stats)
  BY <1>2, <1>3, SumsOfSameFlows
<1>7. SetsTyped'
  BY <1>1, <1>4, <1>5 DEF SumsInv, SetsTyped, Unlocked
<1>8. SumsTyped'
  <2>1. writer'.sum \in SumType
    BY <1>2, <1>4 DEF SumType, Relative
  <2>2. global' \in [current : Int, last : Int]
    BY <1>1, <1>2 DEF Relative
  <2> QED
    BY <1>1, <2>1, <2>2 DEF SumsInv, SumsTyped
<1>9. SumsAdd'
  <2>1. global'.current = WrittenOf(Flows, stats')
    <3>1. /\ WrittenOf(Flows, stats) = stats[f].last + WrittenOf(Flows \ {f}, stats)
          /\ WrittenOf(Flows, stats') = stats'[f].last + WrittenOf(Flows \ {f}, stats')
          /\ WrittenOf(Flows \ {f}, stats) \in Nat
      <4>1. f \in Flows /\ Flows \in SUBSET Flows /\ Flows \ {f} \in SUBSET Flows
        BY <1>1
      <4>2. \A st \in StatsType :
              /\ WrittenOf(Flows, st) = st[f].last + WrittenOf(Flows \ {f}, st)
              /\ WrittenOf(Flows \ {f}, st) \in Nat
        BY <4>1, SumsOfFlows
      <4> QED
        BY <1>2, <1>3, <4>2
    <3>2. WrittenOf(Flows \ {f}, stats') = WrittenOf(Flows \ {f}, stats)
      <4>1. /\ Flows \ {f} \in SUBSET Flows
            /\ \A g \in Flows \ {f} : stats'[g].last = stats[g].last
        BY <1>3
      <4> QED
        BY <1>2, <1>3, <4>1, SumsOfSameFlows
    <3>3. global'.current = global.current + (stats[f].current - stats[f].last)
      BY <1>1, <1>2 DEF Relative
    <3>4. global.current = WrittenOf(Flows, stats)
      BY DEF SumsInv, SumsAdd
    <3> QED
      BY <1>2, <1>3, <3>1, <3>2, <3>3, <3>4
  <2>2. Adds(writer'.sum)
    <3>1. Adds(writer.sum)
      BY <1>1 DEF SumsInv, SumsAdd
    <3> QED
      BY <1>2, <1>4, <3>1 DEF Adds, SumType, Relative
  <2> QED
    BY <1>1, <2>1, <2>2 DEF SumsInv, SumsAdd, WrittenOf
<1>10. Vector'
  <2>1. writer.sum.abs + CountedBy(writer.flows, stats)
          <= CountedBy(FlowsOf(writer.m), stats)
    BY <1>1 DEF SumsInv, Vector
  <2>2. CountedBy(writer.flows, stats)
          = stats[f].current + CountedBy(writer.flows \ {f}, stats)
    BY <1>1, <1>2, SumsOfFlows
  <2>3. /\ CountedBy(writer.flows \ {f}, stats) \in Nat
        /\ CountedBy(FlowsOf(writer.m), stats) \in Nat
    BY <1>2, SumsFacts, SumsOfFlows
  <2>4. writer.sum.abs \in Nat /\ writer'.sum.abs = writer.sum.abs + stats[f].current
    BY <1>2, <1>4 DEF SumType
  <2>5. writer'.sum.abs + CountedBy(writer.flows \ {f}, stats)
          <= CountedBy(FlowsOf(writer.m), stats)
    BY <1>2, <2>1, <2>2, <2>3, <2>4
  <2>6. /\ CountedBy(writer.flows \ {f}, stats') = CountedBy(writer.flows \ {f}, stats)
        /\ CountedBy(FlowsOf(writer.m), stats') = CountedBy(FlowsOf(writer.m), stats)
    BY <1>2, <1>6, SumsFacts
  <2> QED
    BY <1>4, <1>5, <2>5, <2>6 DEF Vector
<1>11. Open'
  <2> SUFFICES ASSUME NEW m \in Measurements, m \notin stopped
               PROVE  totals[m].abs <= CountedBy(FlowsOf(m), stats')
    BY <1>1, <1>5 DEF Open
  <2>1. CountedBy(FlowsOf(m), stats') = CountedBy(FlowsOf(m), stats)
    BY <1>6, SumsFacts
  <2> QED
    BY <2>1 DEF SumsInv, Open
<1>12. Scalar' /\ Closed'
  BY <1>1, <1>4 DEF SumsInv, Scalar, Closed
<1> QED
  BY <1>7, <1>8, <1>9, <1>10, <1>11, <1>12 DEF SumsInv

\* The total row of a measurement, and the values for the display.
LEMMA TotalRowKeepsSums ==
  ASSUME IInv, SumsInv, WriteTotalRow
  PROVE  SumsInv'
<1>1. /\ writer.job = "vector" /\ writer.flows = {}
      /\ totals' = [totals EXCEPT ![writer.m] = writer.sum]
      /\ global' = [global EXCEPT !.last = global.current]
      /\ writer' = [writer EXCEPT !.job = "events"]
      /\ UNCHANGED <<passive, stopped, flowSet, stats, measurementSet, scalars>>
  BY DEF WriteTotalRow
<1>2. /\ writer \in [job : {"idle", "scalar", "events", "vector"}, now : Nat,
                 m : {writer.m}, flows : {writer.flows},
                 measurements : {writer.measurements}, sum : {writer.sum}]
      /\ writer.sum \in SumType /\ global \in [current : Int, last : Int]
      /\ writer.m \in Measurements /\ totals \in [Measurements -> SumType]
  BY <1>1, SumsFacts DEF IInv, Typed, SumsInv, SumsTyped
<1>3. /\ writer'.job = "events" /\ writer'.m = writer.m
      /\ writer'.flows = writer.flows /\ writer'.sum = writer.sum
      /\ writer'.measurements = writer.measurements
  BY <1>1, <1>2
<1>4. \A n : FlowsOf(n)' = FlowsOf(n)
  BY <1>1 DEF FlowsOf
<1>5. \A m \in Measurements :
         totals'[m] = IF m = writer.m THEN writer.sum ELSE totals[m]
  BY <1>1, <1>2
<1>6. SumsTyped' /\ SumsAdd'
  <2>1. totals' \in [Measurements -> SumType] /\ global' \in [current : Int, last : Int]
        /\ global'.current = global.current
    BY <1>1, <1>2
  <2> QED
    BY <1>1, <1>3, <1>5, <2>1 DEF SumsInv, SumsTyped, SumsAdd
<1>7. Open'
  <2> SUFFICES ASSUME NEW m \in Measurements, m \notin stopped
               PROVE  totals'[m].abs <= CountedBy(FlowsOf(m), stats)
    BY <1>1, <1>4 DEF Open
  <2>1. CASE m = writer.m
    <3>1. writer.sum.abs + CountedBy({}, stats) <= CountedBy(FlowsOf(m), stats)
      BY <1>1, <2>1 DEF SumsInv, Vector
    <3>2. CountedBy({}, stats) = 0 /\ writer.sum.abs \in Nat
      BY <1>2, SumsFacts, SumsOfFlows DEF SumType
    <3> QED
      BY <1>5, <2>1, <3>1, <3>2
  <2>2. CASE m # writer.m
    BY <1>5, <2>2 DEF SumsInv, Open
  <2> QED
    BY <2>1, <2>2
<1>8. Closed'
  <2>1. writer.m \in measurementSet
    BY <1>1 DEF SumsInv, SetsTyped
  <2> QED
    BY <1>1, <1>5, <2>1 DEF SumsInv, Closed
<1>9. SetsTyped' /\ Vector' /\ Scalar'
  BY <1>1, <1>3, <1>4 DEF SumsInv, SetsTyped, Vector, Scalar, Unlocked
<1> QED
  BY <1>6, <1>7, <1>8, <1>9 DEF SumsInv

\* SumsInv holds in every reachable state.
THEOREM SumsInvariant == Spec => []SumsInv
<1>1. IInv /\ SumsInv /\ [Next]_vars => SumsInv'
  <2> SUFFICES ASSUME IInv, SumsInv, [Next]_vars PROVE SumsInv'
    OBVIOUS
  <2>1. CASE UNCHANGED vars
    BY <2>1 DEF vars, history, SumsInv, SetsTyped, SumsTyped, SumsAdd, Vector,
       Open, Scalar, Closed, FlowsOf, Unlocked
  <2>2. CASE Tick
    <3>1. SetsTyped'
      BY <2>2 DEF Tick, history, SumsInv, SetsTyped, FlowsOf, Unlocked
    <3> QED
      BY <2>2, <3>1, SumsUnchanged DEF Tick, history
  <2>3. CASE MainThread
    BY <2>3, AddFlowKeepsSums, RemoveKeepsSums, StartKeepsSums, StopKeepsSums,
       ScalarsKeepSums DEF MainThread
  <2>4. CASE ReceptionThread
    BY <2>4, EventsKeepSums, FlowRowKeepsSums, TotalRowKeepsSums
       DEF ReceptionThread
  <2> QED
    BY <2>1, <2>2, <2>3, <2>4, CountKeepsSums DEF Next
<1> QED
  BY <1>1, InitSums, InductiveInvariant, PTL DEF Spec

\* StatisticsAddUp: whatever is counted while rows and scalars are written, the
\* relative rows add up to the absolute ones, for the flows, the measurements
\* and all together, and the scalars are not behind the vectors.
THEOREM StatisticsAddUpHolds == Spec => []StatisticsAddUp
<1>1. IInv /\ SumsInv => StatisticsAddUp
  <2> SUFFICES ASSUME IInv, SumsInv PROVE StatisticsAddUp
    OBVIOUS
  <2>1. FlowRowsAddUp
    BY DEF IInv
  <2>2. GlobalAddsUp
    BY DEF SumsInv, SumsAdd, GlobalAddsUp, WrittenOf, SumFunction
  <2>3. TotalsAddUp
    BY DEF SumsInv, SumsAdd, Closed, Adds, TotalsAddUp
  <2> QED
    BY <2>1, <2>2, <2>3 DEF StatisticsAddUp
<1> QED
  BY <1>1, InductiveInvariant, SumsInvariant, PTL
=================================================================================
