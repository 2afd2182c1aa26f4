--------------------------------- MODULE Sender --------------------------------
(***************************************************************************)
(* The transmission thread of one flow, Flow::run(), and the thread that   *)
(* begins and ends the measurement.  Both change the flow: the thread by   *)
(* its on/off schedule, deactivate() by switching it off for good.         *)
(*                                                                         *)
(* The clock goes on between any two steps, so the time that a step works  *)
(* with may be old.  It is counted in a unit of which a second and the     *)
(* millisecond that poll() counts in are multiples.                        *)
(***************************************************************************)
EXTENDS Naturals, Sequences

CONSTANTS
  Intervals,    \* between two frames, by the configured frame rate
  Schedules,    \* on/off event lists: the times from one event to the next
  Second,
  Millisecond,
  MaxTime       \* bound: of the clock

Never == 1000000        \* ~0ULL
Start == Second + 1     \* TimeBase: more than a second after time 0

\* With an interval of 0 (above 2 million frames/s) the catch-up loop of run()
\* would not end; a list whose times are all 0 would never be on.
ASSUME SenderAssumption ==
  /\ Intervals \subseteq Nat \ {0} /\ Second \in Nat \ {0}
  /\ Millisecond \in Nat \ {0}
  /\ MaxTime \in Start..(Never - 1)
  /\ Schedules \subseteq Seq(Nat)
  /\ \A s \in Schedules : s # <<>> => \E i \in 1..Len(s) : s[i] > 0

VARIABLES
  spec,       \* the TrafficSpec: never changes
  clock,      \* getMicroTime()
  flow,       \* what the Flow object keeps
  thread,     \* Flow::run(): where it is, and its local variables
  main,       \* the thread that runs beginMeasurement() and deactivate()
  stopping,   \* Thread::Stopping
  shut,       \* ext_shutdown() has been called
  aborted,    \* the program has ended with LOG_FATAL
  changes,    \* history: how many status changes there were
  late,       \* history: frames sent since the next status change is due
  frame,      \* history: flips with every frame
  failed      \* history: a frame could not be sent completely

vars == <<spec, clock, flow, thread, main, stopping, shut, aborted, changes,
          late, frame, failed>>

Least(a, b) == IF a < b THEN a ELSE b

TypeOK ==
  /\ spec.protocol \in {"TCP", "UDP"} /\ spec.repeat \in BOOLEAN
  /\ spec.traffic \in {"none", "saturated", "rate"}
  /\ clock \in Start..MaxTime /\ thread.now \in 0..clock
  /\ flow.output \in {"On", "Off"} /\ flow.last \in 0..clock
  /\ flow.pointer \in 0..Len(spec.schedule)
  \* assure() of handleStatusChangeEvent()
  /\ flow.next # Never => flow.pointer < Len(spec.schedule)
  /\ thread.pc \in {"start", "schedule", "poll", "send", "transmit", "status",
                    "check", "finished"}
  /\ main.pc \in {"measuring", "off", "shut", "stopped", "join", "joined"}
  /\ <<stopping, shut, aborted, failed>> \in [1..4 -> BOOLEAN]

\* beginMeasurement(), up to the start of the thread.
Init ==
  /\ spec \in [protocol : {"TCP", "UDP"}, schedule : Schedules,
               repeat : BOOLEAN, traffic : {"none", "saturated", "rate"},
               errorOnAbort : BOOLEAN]
  /\ clock = Start
  /\ flow = [output |-> IF spec.schedule = <<>> THEN "On" ELSE "Off",
             pointer |-> 0, offset |-> 0, next |-> Never, last |-> 0]
  /\ thread = [pc |-> "start", now |-> 0, transmission |-> Never, wake |-> 0,
               lastEvent |-> 0, result |-> TRUE]
  /\ main = [pc |-> "measuring", async |-> FALSE]
  /\ stopping = FALSE /\ shut = FALSE /\ aborted = FALSE
  /\ changes = 0 /\ late = 0 /\ frame = 0 /\ failed = FALSE

(***************************************************************************)
(* The schedule                                                            *)
(***************************************************************************)

\* scheduleNextTransmissionEvent() for a rate that asks for this interval.
NextTransmission(f, interval) ==
  IF f.output # "On" \/ spec.traffic = "none" THEN Never
  ELSE IF spec.traffic = "saturated" THEN 0
  ELSE f.last + interval

\* As scheduleNextStatusChangeEvent() would be with times from now on.
StatusChangeFromNow(f, now) ==
  LET pointer == IF f.pointer >= Len(spec.schedule) /\ spec.repeat
                 THEN 0 ELSE f.pointer
  IN IF pointer < Len(spec.schedule)
     THEN [f EXCEPT !.pointer = pointer,
                    !.offset = @ + spec.schedule[pointer + 1],
                    !.next = now + spec.schedule[pointer + 1]]
     ELSE [f EXCEPT !.pointer = pointer, !.next = Never]

\* As it would be without ~0ULL at the end of the list.
StatusChangeWithoutEnd(f, now) ==
  LET pointer == IF f.pointer >= Len(spec.schedule) /\ spec.repeat
                 THEN 0 ELSE f.pointer
      offset  == f.offset + spec.schedule[pointer + 1]
  IN IF pointer < Len(spec.schedule)
     THEN [f EXCEPT !.pointer = pointer, !.offset = offset,
                    !.next = Start + offset]
     ELSE [f EXCEPT !.pointer = pointer]

\* scheduleNextStatusChangeEvent(): times count from the start of the
\* measurement.
StatusChange(f, now) ==
  LET pointer == IF f.pointer >= Len(spec.schedule) /\ spec.repeat
                 THEN 0 ELSE f.pointer
      offset  == f.offset + spec.schedule[pointer + 1]
  IN IF pointer < Len(spec.schedule)
     THEN [f EXCEPT !.pointer = pointer, !.offset = offset,
                    !.next = Start + offset]
     ELSE [f EXCEPT !.pointer = pointer, !.next = Never]

\* pollTimeout() rounds up to what poll() can wait for.
PollTimeout(now, event) ==
  ((Least(event, now + Second) - now + Millisecond - 1) \div Millisecond)
    * Millisecond

(***************************************************************************)
(* Flow::run()                                                             *)
(***************************************************************************)
At(step) == ~aborted /\ thread.pc = step
Goto(step) == thread' = [thread EXCEPT !.pc = step]

Begin ==
  /\ At("start") /\ Goto("schedule")
  /\ flow' = StatusChange(flow, clock)
  /\ UNCHANGED <<spec, clock, main, stopping, shut, aborted, changes, late,
                 frame, failed>>

Schedule ==
  /\ At("schedule")
  /\ \E interval \in Intervals :
       LET transmission == NextTransmission(flow, interval)
           event == Least(flow.next, transmission)
       IN thread' = [thread EXCEPT !.now = clock,
                       !.transmission = transmission,
                       !.pc = IF event > clock THEN "poll" ELSE "send",
                       !.wake = IF event > clock
                                THEN clock + PollTimeout(clock, event) ELSE 0]
  /\ UNCHANGED <<spec, clock, flow, main, stopping, shut, aborted, changes,
                 late, frame, failed>>

\* At the end of the modelled time, a poll that would wait for longer ends.
PollReturns ==
  /\ At("poll") /\ (clock >= thread.wake \/ clock = MaxTime)
  /\ thread' = [thread EXCEPT !.pc = "send", !.now = clock, !.wake = 0]
  /\ UNCHANGED <<spec, clock, flow, main, stopping, shut, aborted, changes,
                 late, frame, failed>>

DecideToSend ==
  /\ At("send")
  /\ thread' = [thread EXCEPT
       !.pc = IF /\ flow.output = "On"
                 /\ \/ spec.traffic = "saturated"
                    \/ spec.traffic = "rate" /\ thread.transmission <= thread.now
              THEN "transmit" ELSE "status",
       !.lastEvent = flow.last]
  /\ UNCHANGED <<spec, clock, flow, main, stopping, shut, aborted, changes,
                 late, frame, failed>>

FirstTransmitted(f, now) == IF f.last = 0 THEN [f EXCEPT !.last = now] ELSE f

\* updateTransmissionStatistics()
Transmitted(f, now) == [f EXCEPT !.last = now]

\* After a frame, the loop for frames that are behind schedule; a gap of more
\* than a second is not corrected.
AfterFrame(f, now, lastEvent, interval) ==
  IF /\ spec.traffic = "rate"
     /\ now - lastEvent <= Second
     /\ NextTransmission(f, interval) <= now
  THEN "transmit" ELSE "status"

\* transmitFrame(), and sendNetPerfMeterData() for each of its messages.  Without
\* a socket that can be written to, send() of a stream fails with EPIPE.
Transmit ==
  /\ At("transmit")
  /\ \E outcome \in {"sent", "again", "error"}, interval \in Intervals :
       LET f     == Transmitted(flow, thread.now)
           next  == AfterFrame(f, thread.now, thread.lastEvent, interval)
           abort == outcome = "error" /\ spec.errorOnAbort /\ flow.output = "On"
       IN /\ shut => outcome = "error"
          /\ aborted' = abort
          /\ IF abort THEN UNCHANGED <<flow, thread, failed>>
             ELSE /\ flow' = f
                  /\ thread' = [thread EXCEPT !.pc = next,
                       !.result = \/ outcome = "sent"
                                  \/ /\ spec.traffic = "rate"
                                     /\ spec.protocol = "UDP"
                                     /\ next = "status"]
                  /\ failed' = (failed \/ outcome # "sent")
  /\ frame' = 1 - frame
  /\ late' = IF flow.next <= clock THEN late + 1 ELSE late
  /\ UNCHANGED <<spec, clock, main, stopping, shut, changes>>

\* handleStatusChangeEvent(): one event of the list.
HandleStatusChange ==
  /\ At("status") /\ Goto("check")
  /\ IF flow.next <= thread.now
     THEN /\ flow' = StatusChange(
                [flow EXCEPT !.output = IF @ = "Off" THEN "On" ELSE "Off",
                             !.pointer = @ + 1], thread.now)
          /\ changes' = changes + 1 /\ late' = 0
     ELSE UNCHANGED <<flow, changes, late>>
  /\ UNCHANGED <<spec, clock, main, stopping, shut, aborted, frame, failed>>

CheckForEnd ==
  /\ At("check")
  /\ Goto(IF thread.result /\ ~stopping THEN "schedule" ELSE "finished")
  /\ UNCHANGED <<spec, clock, flow, main, stopping, shut, aborted, changes,
                 late, frame, failed>>

(***************************************************************************)
(* The other thread: deactivate(), when the measurement stops without      *)
(* waiting for the thread, and when the flow goes.                         *)
(***************************************************************************)
SwitchOff(async) ==
  /\ ~aborted
  /\ main.pc = "measuring" \/ (main.pc = "stopped" /\ ~async)
  /\ main' = [pc |-> "off", async |-> async]
  /\ flow' = [flow EXCEPT !.output = "Off"]
  /\ UNCHANGED <<spec, clock, thread, stopping, shut, aborted, changes, late,
                 frame, failed>>

WithoutShutdown == FALSE

\* The one UDP socket stays as it is.
ShutsDown == spec.protocol # "UDP"

ShutDown ==
  /\ ~aborted /\ main.pc = "off"
  /\ main' = [main EXCEPT !.pc = "shut"]
  /\ shut' = (shut \/ ShutsDown)
  /\ UNCHANGED <<spec, clock, flow, thread, stopping, aborted, changes, late,
                 frame, failed>>

StopThread ==
  /\ ~aborted /\ main.pc = "shut"
  /\ main' = [main EXCEPT !.pc = IF main.async THEN "stopped" ELSE "join"]
  /\ stopping' = TRUE
  /\ UNCHANGED <<spec, clock, flow, thread, shut, aborted, changes, late, frame,
                 failed>>

WaitForFinish ==
  /\ ~aborted /\ main.pc = "join" /\ thread.pc = "finished"
  /\ main' = [main EXCEPT !.pc = "joined"]
  /\ UNCHANGED <<spec, clock, flow, thread, stopping, shut, aborted, changes,
                 late, frame, failed>>

Tick ==
  /\ clock < MaxTime /\ clock' = clock + 1
  /\ UNCHANGED <<spec, flow, thread, main, stopping, shut, aborted, changes,
                 late, frame, failed>>

Run == \/ Begin \/ Schedule \/ PollReturns \/ DecideToSend \/ Transmit
       \/ HandleStatusChange \/ CheckForEnd
Deactivate == SwitchOff(FALSE) \/ ShutDown \/ StopThread \/ WaitForFinish

Next == Run \/ SwitchOff(TRUE) \/ Deactivate \/ Tick

\* A send() over a stream may block for ever, unless the socket is shut down;
\* everything else goes on.
CanBlock == thread.pc = "transmit" /\ spec.protocol # "UDP" /\ ~shut

Fairness == /\ WF_vars(Run /\ ~CanBlock) /\ WF_vars(Tick)
            /\ WF_vars(main.pc # "measuring" /\ Deactivate)

Spec == Init /\ [][Next]_vars /\ Fairness

(***************************************************************************)
(* Properties                                                              *)
(***************************************************************************)

\* The time of the n-th event of the schedule.
EventTime(n) ==
  LET time[i \in 0..n] ==
        IF i = 0 THEN Start
        ELSE time[i - 1] + spec.schedule[((i - 1) % Len(spec.schedule)) + 1]
  IN time[n]

\* However late the thread handles its events, the next one is at its time from
\* the start of the measurement, none is skipped or repeated, and until it is
\* deactivated the flow is on or off as the events handled so far say.
ScheduleIsKept ==
  /\ thread.pc # "start" =>
       flow.next = IF spec.schedule # <<>>
                      /\ (spec.repeat \/ changes < Len(spec.schedule))
                   THEN EventTime(changes + 1) ELSE Never
  /\ main.pc = "measuring" =>
       (flow.output = "On" <=> (spec.schedule = <<>> \/ changes % 2 = 1))

\* When a flow is due to be switched off, at most two more frames are sent: one
\* with the time from before, one before the event is handled.
FewFramesTooLate == late <= 2

\* A frame that could not be sent ends the thread, which sends no other one,
\* except that UDP goes on at its frame rate.
FailureIsTheEnd ==
  [][failed /\ ~(spec.protocol = "UDP" /\ spec.traffic = "rate")
       => UNCHANGED frame]_vars

\* deactivate() gets the thread to end, whatever it does at the time: waiting,
\* blocked by a stream, behind schedule, or just switching its flow on again.
StopEnds == main.pc = "off" ~> (thread.pc = "finished" \/ aborted)

\* "Check, whether flow has been aborted unintentionally" (transfer.cc:183): the
\* program does not die from what its own deactivate() has done to the socket.
AbortIsUnintentional == ~(aborted /\ shut)
================================================================================
