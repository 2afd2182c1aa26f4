------------------------------- MODULE Statistics ------------------------------
(***************************************************************************)
(* The bandwidth statistics of one node.  The reception thread writes the  *)
(* vector rows of all measurements and the display line when their timers  *)
(* are due (FlowManager::handleEvents()), the main thread writes the       *)
(* scalars when a measurement stops.  Both hold the FlowManager's lock;    *)
(* the counters of a flow have the flow's own lock only, so they go on     *)
(* between the rows of two flows.                                          *)
(*                                                                         *)
(* A FlowBandwidthStats is one counter here: its operators treat the nine  *)
(* it has alike.                                                           *)
(***************************************************************************)
EXTENDS Naturals, FiniteSets, Functions

CONSTANTS
  MeasurementOf,  \* flow |-> its MeasurementID
  Interval,       \* StatisticsInterval and DisplayInterval
  MaxCount,       \* bound: of a flow's counter
  MaxTime         \* bound: of the clock

Flows == DOMAIN MeasurementOf
Measurements == {MeasurementOf[f] : f \in Flows}

ASSUME StatisticsAssumption ==
  /\ Flows \subseteq Nat \ {0} /\ IsFiniteSet(Flows) /\ Measurements \subseteq Nat \ {0}
  /\ Interval \in Nat \ {0} /\ MaxCount \in Nat /\ MaxTime \in Nat

VARIABLES
  passive,   \* the node is the passive one: a measurement ends with Stop
  clock,
  flowSet,   \* FlowSet; the flows of a measurement are in their numbers' order
  stats,     \* flow |-> CurrentBandwidthStats and LastBandwidthStats
  measurementSet,
  stopped,   \* measurements that were stopped; their numbers are not used again
  timer,     \* measurement |-> First-, Last- and NextStatisticsEvent
  display,   \* the same for the display, GlobalStats and RelGlobalStats
  global,    \* CurrentGlobalStats and LastGlobalStats
  writer,    \* who has the FlowManager's lock, and its local variables
  rows,      \* history: flow |-> the sum of its relative rows
  totals,    \* history: measurement |-> its last total rows
  scalars    \* history: measurement |-> its total scalars

vars == <<passive, clock, flowSet, stats, measurementSet, stopped, timer,
          display, global, writer, rows, totals, scalars>>
history == <<rows, totals, scalars>>

\* writer.flows: those that are still to be written; writer.measurements: those
\* that handleEvents() still has to look at; the totals are those of the code,
\* and what the relative rows of the flows add up to.
NoTotals == [abs |-> 0, last |-> 0, rowsRel |-> 0]
Idle == [job |-> "idle", now |-> 0, m |-> 0, flows |-> {},
         measurements |-> {}, sum |-> NoTotals]
Unlocked == writer.job = "idle"
NewTimer == [first |-> 0, last |-> 0, next |-> 0]

Init ==
  /\ passive \in BOOLEAN /\ clock = Interval
  /\ flowSet = {} /\ measurementSet = {} /\ stopped = {}
  /\ stats = [f \in Flows |-> [current |-> 0, last |-> 0]]
  /\ timer = [m \in Measurements |-> NewTimer]
  /\ display = [timer |-> NewTimer, global |-> 0, rel |-> 0]
  /\ global = [current |-> 0, last |-> 0]
  /\ writer = Idle
  /\ rows = [f \in Flows |-> 0]
  /\ totals = [m \in Measurements |-> NoTotals]
  /\ scalars = [m \in Measurements |-> 0]

FlowsOf(m) == {f \in flowSet : MeasurementOf[f] = m}

First(S) == CHOOSE x \in S : \A y \in S : x <= y

(***************************************************************************)
(* The main thread                                                         *)
(***************************************************************************)

\* The flows of a measurement come in the order of their numbers.
AddFlow(f) ==
  /\ Unlocked /\ f \notin flowSet
  /\ \A g \in Flows : MeasurementOf[g] = MeasurementOf[f] /\ g < f => g \in flowSet
  /\ MeasurementOf[f] \notin measurementSet \cup stopped
  /\ flowSet' = flowSet \cup {f}
  /\ UNCHANGED <<passive, clock, stopped, stats, measurementSet, timer,
                 display, global, writer, history>>

\* Measurement::initialize() and addMeasurement()
StartMeasurement(m) ==
  /\ Unlocked /\ m \notin measurementSet \cup stopped /\ FlowsOf(m) # {}
  /\ measurementSet' = measurementSet \cup {m}
  /\ UNCHANGED <<passive, clock, stopped, flowSet, stats, timer, display,
                 global, writer, history>>

\* handleNetPerfMeterStop(), performNetPerfMeterStop(): the scalars are written
\* with the lock.
StopMeasurement(m) ==
  /\ Unlocked /\ m \in measurementSet \ stopped
  /\ stopped' = stopped \cup {m}
  /\ writer' = [Idle EXCEPT !.job = "scalar", !.m = m, !.flows = FlowsOf(m)]
  /\ UNCHANGED <<passive, clock, flowSet, stats, measurementSet, timer,
                 display, global, history>>

\* A flow of writeScalarStatistics()
WriteFlowScalar ==
  /\ writer.job = "scalar" /\ writer.flows # {}
  /\ LET f == First(writer.flows)
     IN writer' = [writer EXCEPT !.flows = @ \ {f},
                                 !.sum.abs = @ + stats[f].current]
  /\ UNCHANGED <<passive, clock, stopped, flowSet, stats, measurementSet,
                 timer, display, global, history>>

\* The total scalars; the passive node's measurement leaves the set under the
\* same lock.
WriteTotalScalar ==
  /\ writer.job = "scalar" /\ writer.flows = {}
  /\ scalars' = [scalars EXCEPT ![writer.m] = writer.sum.abs]
  /\ measurementSet' = IF passive THEN measurementSet \ {writer.m}
                       ELSE measurementSet
  /\ timer' = IF passive THEN [timer EXCEPT ![writer.m] = NewTimer] ELSE timer
  /\ writer' = Idle
  /\ UNCHANGED <<passive, clock, stopped, flowSet, stats, display, global,
                 rows, totals>>

\* Remove Flow follows a stop; removeAllMeasurements() comes at any time and
\* ends with the measurement.
RemoveFlow(f) ==
  /\ Unlocked /\ f \in flowSet
  /\ MeasurementOf[f] \in stopped
  /\ flowSet' = flowSet \ {f}
  /\ UNCHANGED <<passive, clock, stopped, stats, measurementSet, timer,
                 display, global, writer, history>>

RemoveAll(m) ==
  /\ Unlocked /\ m \in measurementSet
  /\ flowSet' = flowSet \ FlowsOf(m)
  /\ measurementSet' = measurementSet \ {m} /\ stopped' = stopped \cup {m}
  /\ timer' = [timer EXCEPT ![m] = NewTimer]
  /\ UNCHANGED <<passive, clock, stats, display, global, writer, history>>

\* updateTransmissionStatistics(), updateReceptionStatistics()
Count(f) ==
  /\ f \in flowSet /\ stats[f].current < MaxCount
  /\ stats' = [stats EXCEPT ![f].current = @ + 1]
  /\ UNCHANGED <<passive, clock, stopped, flowSet, measurementSet, timer,
                 display, global, writer, history>>

(***************************************************************************)
(* The reception thread                                                    *)
(***************************************************************************)
TimerOneInterval(t, now) ==
  [first |-> IF t.first = 0 THEN now ELSE t.first,
   last  |-> now,
   next  |-> t.next + Interval]

\* A timer that is due: it keeps its pace, unless that is over already.
Timer(t, now) ==
  [first |-> IF t.first = 0 THEN now ELSE t.first,
   last  |-> now,
   next  |-> IF t.next + Interval <= now THEN now + Interval
             ELSE t.next + Interval]

\* getNextEvent()
Due(now) == \/ display.timer.next <= now
            \/ \E m \in measurementSet : timer[m].next <= now

\* handleEvents(), called from run()
HandleEvents ==
  /\ Unlocked /\ Due(clock)
  /\ writer' = [Idle EXCEPT !.job = "events", !.now = clock,
                            !.measurements = measurementSet]
  /\ UNCHANGED <<passive, clock, stopped, flowSet, stats, measurementSet,
                 timer, display, global, history>>

\* writeVectorStatistics() of the next measurement, if it is due.
NextMeasurement ==
  /\ writer.job = "events" /\ writer.measurements # {}
  /\ LET m == First(writer.measurements)
     IN writer' = [writer EXCEPT
          !.measurements = @ \ {m},
          !.job = IF timer[m].next <= writer.now THEN "vector" ELSE "events",
          !.m = m, !.flows = FlowsOf(m), !.sum = NoTotals]
  /\ UNCHANGED <<passive, clock, stopped, flowSet, stats, measurementSet,
                 timer, display, global, history>>

SinceStart(s) == s.current

Relative(s) == s.current - s.last

\* The rows of one flow, under the flow's lock.
WriteFlowRow ==
  /\ writer.job = "vector" /\ writer.flows # {}
  /\ LET f   == First(writer.flows)
         rel == Relative(stats[f])
     IN /\ rows' = [rows EXCEPT ![f] = @ + rel]
        /\ global' = [global EXCEPT !.current = @ + rel]
        /\ stats' = [stats EXCEPT ![f].last = stats[f].current]
        /\ writer' = [writer EXCEPT !.flows = @ \ {f},
             !.sum = [abs |-> @.abs + stats[f].current,
                      last |-> @.last + stats[f].last,
                      rowsRel |-> @.rowsRel + rel]]
  /\ UNCHANGED <<passive, clock, stopped, flowSet, measurementSet, timer,
                 display, totals, scalars>>

\* The total rows, the values for the display, and the timer.
WriteTotalRow ==
  /\ writer.job = "vector" /\ writer.flows = {}
  /\ totals' = [totals EXCEPT ![writer.m] = writer.sum]
  /\ display' = [display EXCEPT !.global = global.current,
                                !.rel = global.current - global.last]
  /\ global' = [global EXCEPT !.last = global.current]
  /\ timer' = [timer EXCEPT ![writer.m] = Timer(@, writer.now)]
  /\ writer' = [writer EXCEPT !.job = "events"]
  /\ UNCHANGED <<passive, clock, stopped, flowSet, stats, measurementSet,
                 rows, scalars>>

\* The display line at last.
Display ==
  /\ writer.job = "events" /\ writer.measurements = {}
  /\ display' = IF display.timer.next <= writer.now
                THEN [display EXCEPT !.timer = Timer(@, writer.now), !.rel = 0]
                ELSE display
  /\ writer' = Idle
  /\ UNCHANGED <<passive, clock, stopped, flowSet, stats, measurementSet,
                 timer, global, history>>

\* Nobody reads the clock while the lock is held, so it may as well go on later.
Tick ==
  /\ Unlocked /\ clock < MaxTime /\ clock' = clock + 1
  /\ UNCHANGED <<passive, stopped, flowSet, stats, measurementSet, timer,
                 display, global, writer, history>>

MainThread ==
  \/ \E f \in Flows : AddFlow(f) \/ RemoveFlow(f)
  \/ \E m \in Measurements : \/ StartMeasurement(m) \/ StopMeasurement(m)
                             \/ RemoveAll(m)
  \/ WriteFlowScalar \/ WriteTotalScalar

ReceptionThread == \/ HandleEvents \/ NextMeasurement \/ WriteFlowRow
                   \/ WriteTotalRow \/ Display

Next == MainThread \/ ReceptionThread \/ Tick \/ \E f \in Flows : Count(f)

Spec == Init /\ [][Next]_vars

(***************************************************************************)
(* Properties                                                              *)
(***************************************************************************)

\* Whatever is counted while the rows are written: the relative rows of a flow
\* add up to its last absolute one; the global count is that of all flows there
\* ever were, none twice.
FlowRowsAddUp == \A f \in Flows : rows[f] = stats[f].last
GlobalAddsUp == Unlocked =>
  global.current = SumFunction([f \in Flows |-> stats[f].last])

\* The relative total row of a measurement is the sum of its flows' relative
\* rows, although it is computed from other counters; the total scalars of the
\* passive node, which end its measurement, never fall behind the vectors
\* written before.
TotalsAddUp ==
  \A m \in Measurements :
    /\ totals[m].abs - totals[m].last = totals[m].rowsRel
    /\ passive /\ scalars[m] > 0 => scalars[m] >= totals[m].abs

StatisticsAddUp == FlowRowsAddUp /\ GlobalAddsUp /\ TotalsAddUp

\* However late the events are handled, a timer is never due again at the time
\* it was handled with, nor later than an interval from then: no two rows of a
\* measurement for one time, and no burst of rows after a delay.
OnPace(t) == t.first # 0 =>
  t.first <= t.last /\ t.last < t.next /\ t.next <= t.last + Interval

TimersKeepPace == OnPace(display.timer) /\ \A m \in Measurements : OnPace(timer[m])
================================================================================
