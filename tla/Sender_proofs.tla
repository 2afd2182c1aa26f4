----------------------------- MODULE Sender_proofs ------------------------------
(***************************************************************************)
(* Proofs about Sender for all frame rates and schedules, and however long *)
(* it runs (MaxTime is any time below the ~0ULL that stands for "never").  *)
(*                                                                         *)
(* IInv is inductive.  Besides the types it has the two facts the results  *)
(* rest on: there is a next event only within the list, and a thread that  *)
(* could not send is on its way to the end.  KeptInv, inductive with it,   *)
(* is about time: the next event is at its time from the start, the status *)
(* is that of the events so far, and frames after it are counted.          *)
(***************************************************************************)
EXTENDS Sender, NumberTheorems, TLAPS

FlowType == [output : {"On", "Off"}, pointer : Nat, offset : Nat, next : Nat,
             last : Nat]
ThreadType(transmission, wake) ==
  [pc : {"start", "schedule", "poll", "send", "transmit", "status", "check",
         "finished"},
   now : Nat, transmission : {transmission}, wake : {wake}, lastEvent : Nat,
   result : BOOLEAN]

\* (Two variables of the thread have values that do not matter here.)
Typed ==
  /\ spec \in [protocol : {"TCP", "UDP"}, schedule : Schedules,
               repeat : BOOLEAN, traffic : {"none", "saturated", "rate"},
               errorOnAbort : BOOLEAN]
  /\ clock \in Start..MaxTime
  /\ flow \in FlowType
  /\ thread \in ThreadType(thread.transmission, thread.wake)
  /\ main \in [pc : {"measuring", "off", "shut", "stopped", "join", "joined"},
               async : BOOLEAN]
  /\ stopping \in BOOLEAN /\ shut \in BOOLEAN /\ aborted \in BOOLEAN
  /\ failed \in BOOLEAN
  /\ thread.now <= clock /\ flow.last <= clock

\* A place in the list that the schedule may be at: what assure() in
\* handleStatusChangeEvent() asks for.
InSchedule(f) ==
  /\ f.pointer <= Len(spec.schedule)
  /\ f.next # Never => f.pointer < Len(spec.schedule)

GoesOn == spec.protocol = "UDP" /\ spec.traffic = "rate"

FailureEnds ==
  failed /\ ~GoesOn =>
    thread.pc \in {"status", "check", "finished"} /\ ~thread.result

IInv == Typed /\ InSchedule(flow) /\ FailureEnds

LEMMA Times ==
  /\ Start \in Nat /\ Never \in Nat /\ MaxTime \in Nat
  /\ Start <= MaxTime /\ MaxTime < Never
BY SenderAssumption, SMT DEF Start, Never

LEMMA Later ==
  ASSUME NEW a \in Nat, NEW b \in Nat, NEW c \in Nat
  PROVE  a + b \in Nat /\ c + (a + b) \in Nat
OBVIOUS

\* A flow that has handled an event of its list.
LEMMA NextInList ==
  ASSUME NEW f \in FlowType, NEW output \in {"On", "Off"}
  PROVE  LET g == [f EXCEPT !.output = output, !.pointer = @ + 1]
         IN g \in FlowType /\ g.last = f.last /\ g.pointer = f.pointer + 1
<1> DEFINE next == f.pointer + 1
<1>1. next \in Nat
  <2>1. f.pointer \in Nat
    BY DEF FlowType
  <2> QED
    BY <2>1
<1> HIDE DEF next
<1>2. LET g == [f EXCEPT !.output = output, !.pointer = next]
      IN g \in FlowType /\ g.last = f.last /\ g.pointer = next
  BY <1>1 DEF FlowType
<1> QED
  BY <1>2 DEF next

\* scheduleNextStatusChangeEvent() stays within the list.
LEMMA StatusChangeInSchedule ==
  ASSUME Typed,
         NEW f \in FlowType, f.pointer <= Len(spec.schedule), NEW now
  PROVE  /\ StatusChange(f, now) \in FlowType
         /\ StatusChange(f, now).last = f.last
         /\ InSchedule(StatusChange(f, now))
<1> USE DEF FlowType
<1>1. /\ spec.schedule \in Seq(Nat) /\ Start \in Nat /\ Never \in Nat
      /\ \A i \in 1..Len(spec.schedule) : spec.schedule[i] \in Nat
  <2>1. spec.schedule \in Schedules
    BY DEF Typed
  <2>2. spec.schedule \in Seq(Nat)
    BY <2>1, SenderAssumption
  <2> QED
    BY <2>2, Times
<1> DEFINE pointer == IF f.pointer >= Len(spec.schedule) /\ spec.repeat
                      THEN 0 ELSE f.pointer
           offset  == f.offset + spec.schedule[pointer + 1]
<1>2. pointer \in Nat /\ pointer <= Len(spec.schedule)
  BY <1>1
<1>3. CASE pointer < Len(spec.schedule)
  <2>1. StatusChange(f, now) = [f EXCEPT !.pointer = pointer,
                                         !.offset = offset,
                                         !.next = Start + offset]
    BY <1>3 DEF StatusChange
  <2> HIDE DEF pointer
  <2>2. spec.schedule[pointer + 1] \in Nat
    <3>1. pointer + 1 \in 1..Len(spec.schedule)
      BY <1>1, <1>2, <1>3
    <3> QED
      BY <1>1, <3>1
  <2>3. offset \in Nat /\ Start + offset \in Nat
    <3>1. f.offset \in Nat
      OBVIOUS
    <3> QED
      BY <1>1, <2>2, <3>1, Later
  <2> HIDE DEF offset
  <2> QED
    BY <1>2, <1>3, <2>1, <2>3 DEF InSchedule
<1>4. CASE ~(pointer < Len(spec.schedule))
  <2>1. StatusChange(f, now) = [f EXCEPT !.pointer = pointer, !.next = Never]
    BY <1>4 DEF StatusChange
  <2> HIDE DEF pointer
  <2> QED
    BY <1>1, <1>2, <1>4, <2>1 DEF InSchedule
<1> QED
  BY <1>3, <1>4

\* The catch-up loop of run() never sends a second frame: the first one has set
\* the time from which the next one counts.
LEMMA OneFrameAtATime ==
  ASSUME Typed, NEW interval \in Intervals, NEW lastEvent
  PROVE  AfterFrame(Transmitted(flow, thread.now), thread.now, lastEvent,
                    interval) = "status"
<1>1. /\ thread.now \in Nat /\ thread.now < Never /\ Never \in Nat
      /\ interval \in Nat /\ interval > 0
  BY SenderAssumption, Times DEF Typed, ThreadType
<1>2. Transmitted(flow, thread.now).last = thread.now
  BY DEF Typed, FlowType, Transmitted
<1> QED
  BY <1>1, <1>2 DEF AfterFrame, NextTransmission

LEMMA InitIInv == Init => IInv
<1> SUFFICES ASSUME Init PROVE IInv
  OBVIOUS
<1>2. spec.schedule \in Seq(Nat)
  BY SenderAssumption DEF Init
<1>3. flow \in FlowType /\ flow.last = 0
  BY Times DEF Init, FlowType
<1>4. thread \in ThreadType(thread.transmission, thread.wake) /\ thread.now = 0
  BY DEF Init, ThreadType
<1>5. main \in [pc : {"measuring", "off", "shut", "stopped", "join", "joined"},
                async : BOOLEAN]
  BY DEF Init
<1>6. clock \in Start..MaxTime /\ 0 <= clock
  BY Times DEF Init
<1>7. spec \in [protocol : {"TCP", "UDP"}, schedule : Schedules,
                repeat : BOOLEAN, traffic : {"none", "saturated", "rate"},
                errorOnAbort : BOOLEAN]
  BY DEF Init
<1>8. stopping = FALSE /\ shut = FALSE /\ aborted = FALSE /\ failed = FALSE
  BY DEF Init
<1>9. Typed
  BY <1>3, <1>4, <1>5, <1>6, <1>7, <1>8 DEF Typed
<1> QED
  BY <1>2, <1>9 DEF Init, IInv, InSchedule, FailureEnds

\* The steps of the thread.
LEMMA RunKeepsIInv ==
  ASSUME IInv, Run
  PROVE  IInv'
<1> USE DEF IInv, FlowType, ThreadType
<1>1. /\ clock \in Nat /\ clock < Never /\ Never \in Nat
      /\ spec.schedule \in Seq(Nat)
  BY SenderAssumption, Times DEF Typed
<1>2. CASE Begin
  BY <1>2, StatusChangeInSchedule
     DEF Begin, At, Goto, Typed, InSchedule, FailureEnds, GoesOn
<1>3. CASE Schedule
  <2>1. /\ thread' \in ThreadType(thread'.transmission, thread'.wake)
        /\ thread'.now = clock
    BY <1>1, <1>3 DEF Schedule, Typed
  <2>2. thread.pc = "schedule" /\ thread'.result = thread.result
    BY <1>3 DEF Schedule, At, Typed
  <2> QED
    BY <1>3, <2>1, <2>2 DEF Schedule, Typed, InSchedule, FailureEnds, GoesOn
<1>4. CASE PollReturns
  <2>1. /\ thread' \in ThreadType(thread'.transmission, thread'.wake)
        /\ thread'.now = clock
    BY <1>1, <1>4 DEF PollReturns, Typed, ThreadType
  <2> QED
    BY <1>4, <2>1 DEF PollReturns, At, Typed, InSchedule, FailureEnds, GoesOn
<1>5. CASE DecideToSend
  <2>1. PICK step \in {"transmit", "status"} :
          thread' = [thread EXCEPT !.pc = step, !.lastEvent = flow.last]
    BY <1>5 DEF DecideToSend
  <2>2. /\ thread' \in ThreadType(thread'.transmission, thread'.wake)
        /\ thread'.now = thread.now
    BY <2>1 DEF Typed, ThreadType, FlowType
  <2> QED
    BY <1>5, <2>2 DEF DecideToSend, At, Typed, InSchedule, FailureEnds, GoesOn
<1>6. CASE Transmit
  <2>1. PICK outcome \in {"sent", "again", "error"}, interval \in Intervals :
          IF aborted' THEN UNCHANGED <<flow, thread, failed>>
          ELSE /\ flow' = Transmitted(flow, thread.now)
               /\ thread' = [thread EXCEPT !.pc = "status",
                    !.result = outcome = "sent" \/ GoesOn]
               /\ failed' = (failed \/ outcome # "sent")
    BY <1>6, OneFrameAtATime DEF Transmit, GoesOn
  <2>2. aborted' \in BOOLEAN
    BY <1>6 DEF Transmit, Typed
  <2>3. UNCHANGED <<spec, clock, main, stopping, shut>> /\ thread.pc = "transmit"
    BY <1>6 DEF Transmit, At
  <2>4. Typed'
    <3>1. flow' \in FlowType /\ flow'.last <= clock
      BY <2>1 DEF Typed, ThreadType, FlowType, Transmitted
    <3>2. /\ thread' \in ThreadType(thread'.transmission, thread'.wake)
          /\ thread'.now = thread.now
      <4>1. CASE aborted'
        BY <2>1, <4>1 DEF Typed
      <4>2. CASE ~aborted'
        <5>1. PICK result \in BOOLEAN :
                thread' = [thread EXCEPT !.pc = "status", !.result = result]
          BY <2>1, <4>2 DEF GoesOn
        <5> QED
          BY <5>1 DEF Typed, ThreadType
      <4> QED
        BY <4>1, <4>2
    <3>3. failed' \in BOOLEAN
      BY <2>1 DEF Typed
    <3> QED
      BY <2>2, <2>3, <3>1, <3>2, <3>3 DEF Typed
  <2>5. InSchedule(flow)'
    BY <2>1, <2>3 DEF Typed, InSchedule, Transmitted
  <2>6. FailureEnds'
    BY <2>1, <2>3 DEF Typed, FailureEnds, GoesOn
  <2> QED
    BY <2>4, <2>5, <2>6
<1>7. CASE HandleStatusChange
  <2>1. CASE flow.next <= thread.now
    <3> DEFINE output == IF flow.output = "Off" THEN "On" ELSE "Off"
               f == [flow EXCEPT !.output = output, !.pointer = @ + 1]
    <3>1. flow.next # Never
      BY <1>1, <2>1 DEF Typed
    <3>2. f \in FlowType /\ f.last = flow.last
      <4>1. flow \in FlowType /\ output \in {"On", "Off"}
        BY DEF Typed
      <4> HIDE DEF output, FlowType
      <4> QED
        BY <4>1, NextInList
    <3>3. f.pointer <= Len(spec.schedule)
      BY <1>1, <3>1 DEF Typed, InSchedule
    <3>4. flow' = StatusChange(f, thread.now)
      BY <1>7, <2>1 DEF HandleStatusChange
    <3> HIDE DEF f
    <3>5. /\ flow' \in FlowType /\ flow'.last = flow.last
          /\ InSchedule(flow')
      BY <3>2, <3>3, <3>4, StatusChangeInSchedule
    <3> QED
      BY <1>7, <3>5
         DEF HandleStatusChange, At, Goto, Typed, InSchedule, FailureEnds, GoesOn
  <2>2. CASE ~(flow.next <= thread.now)
    BY <1>7, <2>2
       DEF HandleStatusChange, At, Goto, Typed, InSchedule, FailureEnds, GoesOn
  <2> QED
    BY <2>1, <2>2
<1>8. CASE CheckForEnd
  BY <1>8 DEF CheckForEnd, At, Goto, Typed, InSchedule, FailureEnds, GoesOn
<1> QED
  BY <1>2, <1>3, <1>4, <1>5, <1>6, <1>7, <1>8 DEF Run

\* The steps of the other thread, and the clock.
LEMMA OthersKeepIInv ==
  ASSUME IInv, SwitchOff(TRUE) \/ Deactivate \/ Tick
  PROVE  IInv'
<1> USE DEF IInv, FlowType, ThreadType
<1>1. ASSUME NEW async \in BOOLEAN, SwitchOff(async) PROVE IInv'
  BY <1>1 DEF SwitchOff, Typed, InSchedule, FailureEnds, GoesOn
<1>2. CASE ShutDown
  BY <1>2 DEF ShutDown, ShutsDown, Typed, InSchedule, FailureEnds, GoesOn
<1>3. CASE StopThread
  BY <1>3 DEF StopThread, Typed, InSchedule, FailureEnds, GoesOn
<1>4. CASE WaitForFinish
  BY <1>4 DEF WaitForFinish, Typed, InSchedule, FailureEnds, GoesOn
<1>5. CASE Tick
  <2>1. clock \in Nat /\ clock' \in Start..MaxTime /\ clock <= clock'
    BY <1>5, Times DEF Tick, Typed
  <2> QED
    BY <1>5, <2>1 DEF Tick, Typed, InSchedule, FailureEnds, GoesOn
<1> QED
  BY <1>1, <1>2, <1>3, <1>4, <1>5 DEF Deactivate

\* IInv holds in every reachable state.
THEOREM InductiveInvariant == Spec => []IInv
<1>1. IInv /\ [Next]_vars => IInv'
  <2> SUFFICES ASSUME IInv, [Next]_vars PROVE IInv'
    OBVIOUS
  <2>1. CASE UNCHANGED vars
    BY <2>1 DEF vars, IInv, Typed, InSchedule, FailureEnds, GoesOn
  <2> QED
    BY <2>1, RunKeepsIInv, OthersKeepIInv DEF Next
<1> QED
  BY <1>1, InitIInv, PTL DEF Spec

\* TypeOK, with the assertion of handleStatusChangeEvent(), for every schedule.
THEOREM TypeCorrect == Spec => []TypeOK
<1>1. IInv => TypeOK
  BY Times DEF IInv, Typed, InSchedule, TypeOK, FlowType, ThreadType
<1> QED
  BY <1>1, InductiveInvariant, PTL

\* FailureIsTheEnd: the thread sends no frame after one that it could not send,
\* except for UDP at a frame rate, whatever the rate and the schedule.
THEOREM FailureIsTheEndHolds == Spec => FailureIsTheEnd
<1>1. IInv /\ [Next]_vars =>
        [failed /\ ~(spec.protocol = "UDP" /\ spec.traffic = "rate")
           => UNCHANGED frame]_vars
  <2> SUFFICES ASSUME IInv, Next, failed, ~GoesOn PROVE UNCHANGED frame
    BY DEF GoesOn
  <2>1. thread.pc # "transmit"
    BY DEF IInv, FailureEnds
  <2> QED
    BY <2>1 DEF Next, Run, Begin, Schedule, PollReturns, DecideToSend, Transmit,
       HandleStatusChange, CheckForEnd, At, Deactivate, SwitchOff, ShutDown,
       StopThread, WaitForFinish, Tick
<1> QED
  BY <1>1, InductiveInvariant, PTL DEF Spec, FailureIsTheEnd

(***************************************************************************)
(* The times of the events                                                 *)
(***************************************************************************)

\* From the event before the i-th one to the i-th one, in a list s.
Gap(s, i) == s[((i - 1) % Len(s)) + 1]

\* f are the times of the first n events, as EventTime defines them.
IsTimes(s, f, n) ==
  f = [i \in 0..n |-> IF i = 0 THEN Start ELSE f[i - 1] + Gap(s, i)]

TimesTo(s, n) == CHOOSE f : IsTimes(s, f, n)
TimeOf(s, n)  == TimesTo(s, n)[n]

LEMMA EventTimeIsTimeOf ==
  ASSUME NEW n PROVE EventTime(n) = TimeOf(spec.schedule, n)
BY DEF EventTime, TimeOf, TimesTo, IsTimes, Gap

LEMMA GapType ==
  ASSUME NEW s \in Seq(Nat), s # <<>>, NEW i \in Nat \ {0}
  PROVE  Gap(s, i) \in Nat
<1> DEFINE L == Len(s)
           c == i - 1
<1>2. L \in Nat \ {0} /\ c \in Nat
  OBVIOUS
<1>3. (c % L) + 1 \in 1..L
  <2> HIDE DEF L, c
  <2>1. c % L \in 0..(L - 1)
    BY <1>2, NextInRing
  <2> QED
    BY <1>2, <2>1
<1> QED
  BY <1>3 DEF Gap

\* A longer list of times goes on where a shorter one ends.
LEMMA TimesAgree ==
  ASSUME NEW s, NEW n \in Nat, NEW m \in Nat, n <= m, NEW f, NEW g,
         IsTimes(s, f, n), IsTimes(s, g, m)
  PROVE  \A i \in 0..n : f[i] = g[i]
<1> DEFINE S == {i \in Nat : i <= n => f[i] = g[i]}
<1>1. 0 \in S
  BY DEF IsTimes
<1>2. ASSUME NEW i \in S PROVE i + 1 \in S
  BY <1>2 DEF IsTimes
<1>3. S = Nat
  <2> HIDE DEF S
  <2>1. S \in SUBSET Nat
    BY DEF S
  <2> QED
    BY <1>1, <1>2, <2>1, Induction
<1> QED
  BY <1>3

LEMMA TimesExist ==
  ASSUME NEW s, NEW n \in Nat
  PROVE  IsTimes(s, TimesTo(s, n), n)
<1> DEFINE S == {i \in Nat : \E f : IsTimes(s, f, i)}
<1>1. 0 \in S
  <2>1. IsTimes(s, [i \in 0..0 |-> Start], 0)
    BY DEF IsTimes
  <2> QED
    BY <2>1
<1>2. ASSUME NEW k \in S PROVE k + 1 \in S
  <2>1. PICK f : IsTimes(s, f, k)
    OBVIOUS
  <2> DEFINE g == [i \in 0..(k + 1) |-> IF i = k + 1 THEN f[k] + Gap(s, k + 1)
                                        ELSE f[i]]
  <2>2. IsTimes(s, g, k + 1)
    <3>1. ASSUME NEW i \in 0..(k + 1)
          PROVE  g[i] = IF i = 0 THEN Start ELSE g[i - 1] + Gap(s, i)
      BY <2>1 DEF IsTimes
    <3> QED
      BY <3>1 DEF IsTimes
  <2> QED
    BY <2>2
<1>3. S = Nat
  <2> HIDE DEF S
  <2>1. S \in SUBSET Nat
    BY DEF S
  <2> QED
    BY <1>1, <1>2, <2>1, Induction
<1> QED
  BY <1>3 DEF TimesTo

\* What the definition of EventTime means: it adds up the list, going around.
LEMMA TimesAddUp ==
  ASSUME NEW s
  PROVE  /\ TimeOf(s, 0) = Start
         /\ \A n \in Nat : TimeOf(s, n + 1) = TimeOf(s, n) + Gap(s, n + 1)
<1>1. TimeOf(s, 0) = Start
  BY TimesExist DEF IsTimes, TimeOf
<1>2. ASSUME NEW n \in Nat
      PROVE  TimeOf(s, n + 1) = TimeOf(s, n) + Gap(s, n + 1)
  <2>1. IsTimes(s, TimesTo(s, n), n) /\ IsTimes(s, TimesTo(s, n + 1), n + 1)
    BY TimesExist
  <2>2. TimesTo(s, n)[n] = TimesTo(s, n + 1)[n]
    BY <2>1, TimesAgree
  <2>3. TimesTo(s, n + 1)[n + 1] = TimesTo(s, n + 1)[n] + Gap(s, n + 1)
    BY <2>1 DEF IsTimes
  <2> QED
    BY <2>2, <2>3 DEF TimeOf
<1> QED
  BY <1>1, <1>2

\* Where a flow is in its list when n events have been handled.
Place(n) == IF spec.repeat THEN n % Len(spec.schedule) ELSE n

\* f has handled n events and knows the time of the next one.
AwaitsNext(f, n) ==
  IF spec.schedule # <<>> /\ (spec.repeat \/ n < Len(spec.schedule))
  THEN /\ f.pointer = Place(n)
       /\ Start + f.offset = TimeOf(spec.schedule, n + 1)
       /\ f.next = TimeOf(spec.schedule, n + 1)
  ELSE f.next = Never /\ (spec.schedule = <<>> => n = 0)

\* scheduleNextStatusChangeEvent() after n events: f still is at the time of the
\* last one, and at the place after it, which may be the end of the list.
LEMMA StatusChangeAwaitsNext ==
  ASSUME Typed, NEW f \in FlowType, NEW now, NEW n \in Nat,
         spec.schedule # <<>>, Start + f.offset = TimeOf(spec.schedule, n),
         \/ f.pointer = Place(n) /\ f.pointer <= Len(spec.schedule)
         \/ f.pointer = Len(spec.schedule) /\ spec.repeat /\ Place(n) = 0
  PROVE  AwaitsNext(StatusChange(f, now), n)
<1> DEFINE L == Len(spec.schedule)
           pointer == IF f.pointer >= L /\ spec.repeat THEN 0 ELSE f.pointer
           offset  == f.offset + spec.schedule[pointer + 1]
<1>1. /\ spec.schedule \in Seq(Nat) /\ L \in Nat \ {0} /\ spec.repeat \in BOOLEAN
      /\ f.offset \in Nat /\ f.pointer \in Nat /\ Start \in Nat
  BY SenderAssumption, Times DEF Typed, FlowType
<1>2. n % L \in 0..(L - 1) /\ (n < L => n % L = n)
  <2> HIDE DEF L
  <2>1. n % L \in 0..(L - 1)
    BY <1>1, NextInRing
  <2>2. ASSUME n < L PROVE n % L = n
    <3>1. n \in 0..(L - 1)
      BY <1>1, <2>2
    <3> QED
      BY <1>1, <3>1, WithinRing
  <2> QED
    BY <2>1, <2>2
<1>3. CASE spec.repeat \/ n < L
  <2>1. pointer = Place(n) /\ pointer < L /\ pointer = n % L
    <3> DEFINE m == n % L
    <3>1. m \in 0..(L - 1) /\ Place(n) = m
      BY <1>2, <1>3 DEF Place
    <3> HIDE DEF m, L
    <3>2. f.pointer <= L => f.pointer = m \/ (f.pointer = L /\ spec.repeat /\ m = 0)
      BY <3>1 DEF L
    <3>3. f.pointer = Place(n) => f.pointer < L
      BY <1>1, <3>1
    <3>4. pointer = m
      BY <1>1, <3>1, <3>2, <3>3 DEF L
    <3> QED
      BY <1>1, <3>1, <3>4 DEF m
  <2>2. StatusChange(f, now) = [f EXCEPT !.pointer = pointer,
                                         !.offset = offset,
                                         !.next = Start + offset]
    BY <2>1 DEF StatusChange
  <2>3. spec.schedule[pointer + 1] = Gap(spec.schedule, n + 1) /\ Gap(spec.schedule, n + 1) \in Nat
    <3>1. Gap(spec.schedule, n + 1) = spec.schedule[(n % L) + 1]
      <4>1. (n + 1) - 1 = n
        OBVIOUS
      <4> QED
        BY <4>1 DEF Gap
    <3>2. Gap(spec.schedule, n + 1) \in Nat
      BY <1>1, GapType
    <3> HIDE DEF pointer, L
    <3> QED
      BY <2>1, <3>1, <3>2
  <2> HIDE DEF pointer, L
  <2>4. Start + offset = TimeOf(spec.schedule, n + 1)
    <3>1. TimeOf(spec.schedule, n + 1)
            = TimeOf(spec.schedule, n) + Gap(spec.schedule, n + 1)
      BY TimesAddUp
    <3> QED
      BY <1>1, <2>3, <3>1
  <2> HIDE DEF offset
  <2>5. /\ StatusChange(f, now).pointer = pointer
        /\ StatusChange(f, now).offset = offset
        /\ StatusChange(f, now).next = Start + offset
    BY <2>2 DEF FlowType
  <2> QED
    BY <1>3, <2>1, <2>4, <2>5 DEF AwaitsNext, L
<1>4. CASE ~(spec.repeat \/ n < L)
  <2>1. pointer = n /\ ~(pointer < L)
    BY <1>1, <1>4 DEF Place
  <2>2. StatusChange(f, now) = [f EXCEPT !.pointer = pointer, !.next = Never]
    BY <2>1 DEF StatusChange
  <2> QED
    BY <1>4, <2>2 DEF AwaitsNext, FlowType
<1> QED
  BY <1>3, <1>4

(***************************************************************************)
(* ScheduleIsKept and FewFramesTooLate: what they need besides IInv.       *)
(***************************************************************************)

\* A thread that has begun awaits the event after those it has handled.
Awaits ==
  /\ changes \in Nat
  /\ thread.pc = "start" => changes = 0 /\ flow.pointer = 0 /\ flow.offset = 0
  /\ thread.pc # "start" => AwaitsNext(flow, changes)

OnAsScheduled ==
  main.pc = "measuring" =>
    (flow.output = "On" <=> (spec.schedule = <<>> \/ changes % 2 = 1))

\* Frames sent since the event that is due: none for a thread that has waited,
\* at most one that had looked at the clock before; a second one only by a
\* thread that then finds the event due.
FramesTooLate ==
  /\ late \in 0..2
  /\ late > 0 => flow.next <= clock
  /\ ~aborted =>
       /\ thread.pc \in {"start", "poll"} => late = 0
       /\ thread.pc \in {"schedule", "check", "finished"} => late <= 1
       /\ thread.pc \in {"send", "transmit"} =>
            late = 0 \/ (late = 1 /\ flow.next <= thread.now)
       /\ thread.pc = "status" => late <= 1 \/ flow.next <= thread.now

KeptInv == Awaits /\ OnAsScheduled /\ FramesTooLate

LEMMA InitKept == Init => KeptInv
<1> SUFFICES ASSUME Init PROVE KeptInv
  OBVIOUS
<1>1. Awaits
  BY DEF Init, Awaits
<1>2. OnAsScheduled
  BY DEF Init, OnAsScheduled
<1>3. FramesTooLate
  BY DEF Init, FramesTooLate
<1> QED
  BY <1>1, <1>2, <1>3 DEF KeptInv

\* A step that leaves the flow's place in its list alone.
LEMMA KeepsAwaiting ==
  ASSUME Awaits, thread.pc # "start", thread'.pc # "start",
         UNCHANGED <<spec, changes>>, flow'.pointer = flow.pointer,
         flow'.offset = flow.offset, flow'.next = flow.next
  PROVE  Awaits'
BY DEF Awaits, AwaitsNext, Place

\* handleStatusChangeEvent() when an event is due.
LEMMA HandleStatusChangeAwaits ==
  ASSUME IInv, Awaits, HandleStatusChange, flow.next <= thread.now
  PROVE  Awaits' /\ spec.schedule # <<>> /\ flow.next # Never
<1> DEFINE L == Len(spec.schedule)
           output == IF flow.output = "Off" THEN "On" ELSE "Off"
           f == [flow EXCEPT !.output = output, !.pointer = @ + 1]
<1>1. /\ clock \in Nat /\ clock < Never /\ Never \in Nat
      /\ thread.now \in Nat /\ thread.now <= clock
      /\ spec.schedule \in Seq(Nat) /\ spec.repeat \in BOOLEAN
      /\ thread.pc = "status" /\ spec' = spec /\ thread'.pc = "check"
  BY SenderAssumption, Times
     DEF IInv, Typed, ThreadType, HandleStatusChange, At, Goto
<1>2. flow.next # Never
  BY <1>1
<1>3. /\ spec.schedule # <<>> /\ (spec.repeat \/ changes < L)
      /\ flow.pointer = Place(changes) /\ changes \in Nat
      /\ Start + flow.offset = TimeOf(spec.schedule, changes + 1)
      /\ flow.pointer < L
  BY <1>1, <1>2 DEF Awaits, AwaitsNext, IInv, InSchedule
<1>4. flow' = StatusChange(f, thread.now) /\ changes' = changes + 1
  BY <1>1 DEF HandleStatusChange
<1>5. f \in FlowType /\ f.pointer = flow.pointer + 1 /\ f.offset = flow.offset
  <2>1. flow \in FlowType /\ output \in {"On", "Off"}
    BY DEF IInv, Typed
  <2>2. f.offset = flow.offset
    BY <2>1 DEF FlowType
  <2> HIDE DEF output
  <2> QED
    BY <2>1, <2>2, NextInList
<1>6. \/ f.pointer = Place(changes + 1) /\ f.pointer <= L
      \/ f.pointer = L /\ spec.repeat /\ Place(changes + 1) = 0
  <2>1. L \in Nat \ {0} /\ flow.pointer \in Nat
    BY <1>1, <1>3 DEF IInv, Typed, FlowType
  <2> HIDE DEF f, L
  <2>2. CASE spec.repeat
    <3> DEFINE r == changes % L
               p == (changes + 1) % L
    <3>1. flow.pointer = r /\ Place(changes + 1) = p
      BY <1>3, <2>2 DEF Place, L
    <3>2. p = IF r = L - 1 THEN 0 ELSE r + 1
      BY <1>3, <2>1, NextInRing
    <3> HIDE DEF r, p
    <3> QED
      BY <1>3, <1>5, <2>1, <2>2, <3>1, <3>2
  <2>3. CASE ~spec.repeat
    BY <1>3, <1>5, <2>1, <2>3 DEF Place
  <2> QED
    BY <2>2, <2>3
<1> HIDE DEF f
<1>7. AwaitsNext(flow', changes')
  <2>1. changes + 1 \in Nat
    BY <1>3
  <2> QED
    BY <1>3, <1>4, <1>5, <1>6, <2>1, StatusChangeAwaitsNext DEF IInv
<1>8. AwaitsNext(flow, changes)'
  BY <1>1, <1>7 DEF AwaitsNext, Place
<1> QED
  BY <1>1, <1>2, <1>3, <1>4, <1>8 DEF Awaits

\* Awaits, of every step.
LEMMA StepsKeepAwaiting ==
  ASSUME IInv, Awaits, Next
  PROVE  Awaits'
<1>1. flow \in FlowType /\ thread \in ThreadType(thread.transmission, thread.wake)
  BY DEF IInv, Typed
<1>2. CASE Begin
  <2>1. /\ thread.pc = "start" /\ thread'.pc = "schedule" /\ spec' = spec
        /\ flow' = StatusChange(flow, clock) /\ changes' = changes
    BY <1>1, <1>2 DEF Begin, At, Goto, ThreadType
  <2>2. changes = 0 /\ flow.pointer = 0 /\ flow.offset = 0
    BY <2>1 DEF Awaits
  <2>3. AwaitsNext(flow', changes)
    <3>1. CASE spec.schedule = <<>>
      <4>1. flow'.next = Never
        BY <1>1, <2>1, <2>2, <3>1 DEF StatusChange, FlowType
      <4> QED
        BY <2>2, <3>1, <4>1 DEF AwaitsNext
    <3>2. CASE spec.schedule # <<>>
      <4>1. /\ spec.schedule \in Seq(Nat) /\ Len(spec.schedule) \in Nat \ {0}
            /\ Start \in Nat /\ 0 % Len(spec.schedule) = 0
        <5>1. spec.schedule \in Seq(Nat) /\ Len(spec.schedule) \in Nat \ {0}
          BY <3>2, SenderAssumption DEF IInv, Typed
        <5>2. 0 \in 0..(Len(spec.schedule) - 1)
          BY <5>1
        <5> QED
          BY <5>1, <5>2, Times, WithinRing
      <4>2. Place(0) = 0 /\ Start + 0 = TimeOf(spec.schedule, 0)
        <5>1. Place(0) = 0
          BY <4>1 DEF Place
        <5>2. TimeOf(spec.schedule, 0) = Start
          BY TimesAddUp
        <5> QED
          BY <4>1, <5>1, <5>2
      <4>3. 0 <= Len(spec.schedule)
        BY <4>1
      <4> QED
        BY <1>1, <2>1, <2>2, <3>2, <4>2, <4>3, StatusChangeAwaitsNext DEF IInv
    <3> QED
      BY <3>1, <3>2
  <2> QED
    BY <2>1, <2>2, <2>3 DEF Awaits, AwaitsNext, Place
<1>3. CASE Transmit
  <2>1. /\ thread.pc = "transmit" /\ UNCHANGED <<spec, changes>>
        /\ thread'.pc \in {"transmit", "status"}
        /\ flow' = flow \/ flow' = Transmitted(flow, thread.now)
    BY <1>1, <1>3 DEF Transmit, At, AfterFrame, ThreadType
  <2> QED
    BY <1>1, <2>1, KeepsAwaiting DEF Transmitted, FlowType
<1>4. CASE HandleStatusChange
  <2>1. CASE flow.next <= thread.now
    BY <1>4, <2>1, HandleStatusChangeAwaits
  <2>2. CASE ~(flow.next <= thread.now)
    BY <1>1, <1>4, <2>2, KeepsAwaiting DEF HandleStatusChange, At, Goto, ThreadType
  <2> QED
    BY <2>1, <2>2
<1>5. CASE Schedule \/ PollReturns \/ DecideToSend \/ CheckForEnd
  BY <1>1, <1>5, KeepsAwaiting
     DEF Schedule, PollReturns, DecideToSend, CheckForEnd, At, Goto, ThreadType
<1>6. ASSUME NEW async \in BOOLEAN, SwitchOff(async) PROVE Awaits'
  BY <1>1, <1>6 DEF SwitchOff, FlowType, Awaits, AwaitsNext, Place
<1>7. CASE ShutDown \/ StopThread \/ WaitForFinish \/ Tick
  BY <1>7 DEF ShutDown, StopThread, WaitForFinish, Tick, Awaits, AwaitsNext, Place
<1> QED
  BY <1>2, <1>3, <1>4, <1>5, <1>6, <1>7 DEF Next, Run, Deactivate

\* OnAsScheduled, of every step: only an event that is due, and the thread that
\* ends the measurement, switch the flow.
LEMMA StepsKeepOnAsScheduled ==
  ASSUME IInv, Awaits, OnAsScheduled, Next
  PROVE  OnAsScheduled'
<1>1. flow \in FlowType /\ changes \in Nat
  BY DEF IInv, Typed, Awaits
<1>2. CASE HandleStatusChange /\ flow.next <= thread.now
  <2>1. spec.schedule # <<>> /\ spec' = spec /\ main' = main
    BY <1>2, HandleStatusChangeAwaits DEF HandleStatusChange
  <2>2. changes' = changes + 1 /\ (changes' % 2 = 1 <=> changes % 2 # 1)
    BY <1>1, <1>2 DEF HandleStatusChange
  <2>3. flow'.output = IF flow.output = "Off" THEN "On" ELSE "Off"
    BY <1>1, <1>2 DEF HandleStatusChange, StatusChange, FlowType
  <2>4. flow.output \in {"On", "Off"}
    BY <1>1 DEF FlowType
  <2> QED
    BY <2>1, <2>2, <2>3, <2>4 DEF OnAsScheduled
<1>3. CASE HandleStatusChange /\ ~(flow.next <= thread.now)
  BY <1>3 DEF HandleStatusChange, OnAsScheduled
<1>4. CASE Begin
  <2>1. flow'.output = flow.output
    BY <1>1, <1>4 DEF Begin, StatusChange, FlowType
  <2> QED
    BY <1>4, <2>1 DEF Begin, OnAsScheduled
<1>5. CASE Transmit
  <2>1. flow'.output = flow.output /\ UNCHANGED <<spec, main, changes>>
    BY <1>1, <1>5 DEF Transmit, Transmitted, FlowType
  <2> QED
    BY <2>1 DEF OnAsScheduled
<1>6. CASE Schedule \/ PollReturns \/ DecideToSend \/ CheckForEnd
  BY <1>6 DEF Schedule, PollReturns, DecideToSend, CheckForEnd, OnAsScheduled
<1>7. ASSUME NEW async \in BOOLEAN, SwitchOff(async) PROVE OnAsScheduled'
  BY <1>7 DEF SwitchOff, OnAsScheduled
<1>8. CASE ShutDown \/ StopThread \/ WaitForFinish
  <2>1. main'.pc # "measuring"
    BY <1>8 DEF ShutDown, StopThread, WaitForFinish, IInv, Typed
  <2> QED
    BY <2>1 DEF OnAsScheduled
<1>9. CASE Tick
  BY <1>9 DEF Tick, OnAsScheduled
<1> QED
  BY <1>2, <1>3, <1>4, <1>5, <1>6, <1>7, <1>8, <1>9 DEF Next, Run, Deactivate

\* FramesTooLate, of every step.
LEMMA StepsKeepFramesTooLate ==
  ASSUME IInv, Awaits, FramesTooLate, Next
  PROVE  FramesTooLate'
<1>1. /\ flow \in FlowType /\ thread \in ThreadType(thread.transmission, thread.wake)
      /\ clock \in Nat /\ thread.now \in Nat /\ thread.now <= clock
      /\ clock < Never /\ Never \in Nat /\ late \in 0..2 /\ flow.next \in Nat
  BY Times DEF IInv, Typed, FramesTooLate, FlowType, ThreadType
<1>2. CASE Begin
  <2>1. late = 0 /\ late' = 0 /\ thread'.pc = "schedule"
    BY <1>1, <1>2 DEF Begin, At, Goto, FramesTooLate, ThreadType
  <2> QED
    BY <2>1 DEF FramesTooLate
<1>3. CASE Schedule
  <2>1. PICK interval \in Intervals :
          thread'.pc = IF Least(flow.next, NextTransmission(flow, interval))
                            > clock THEN "poll" ELSE "send"
    BY <1>1, <1>3 DEF Schedule, ThreadType
  <2>2. /\ late <= 1 /\ thread'.now = clock /\ UNCHANGED <<late, flow, clock>>
        /\ aborted' = aborted
    BY <1>1, <1>3 DEF Schedule, At, FramesTooLate, ThreadType
  <2>3. NextTransmission(flow, interval) \in Nat
    <3>1. interval \in Nat /\ flow.last \in Nat
      BY <1>1, SenderAssumption DEF FlowType
    <3> QED
      BY <3>1, <1>1 DEF NextTransmission
  <2> DEFINE t == NextTransmission(flow, interval)
  <2> HIDE DEF t
  <2>4. flow.next <= clock => thread'.pc = "send"
    <3>1. t \in Nat /\ thread'.pc = IF Least(flow.next, t) > clock
                                    THEN "poll" ELSE "send"
      BY <2>1, <2>3 DEF t
    <3> QED
      BY <1>1, <3>1 DEF Least
  <2>5. thread'.pc \in {"poll", "send"}
    BY <2>1
  <2> QED
    BY <1>1, <2>2, <2>4, <2>5 DEF FramesTooLate
<1>4. CASE PollReturns
  <2>1. /\ late = 0 /\ late' = 0 /\ thread'.pc = "send" /\ thread'.now = clock
    BY <1>1, <1>4 DEF PollReturns, At, FramesTooLate, ThreadType
  <2> QED
    BY <2>1 DEF FramesTooLate
<1>5. CASE DecideToSend
  <2>1. /\ thread.pc = "send" /\ thread'.pc \in {"transmit", "status"}
        /\ thread'.now = thread.now /\ UNCHANGED <<late, flow, clock>>
        /\ ~aborted /\ ~aborted'
    BY <1>1, <1>5 DEF DecideToSend, At, ThreadType
  <2> QED
    BY <1>1, <2>1 DEF FramesTooLate
<1>6. CASE Transmit
  <2>1. /\ thread.pc = "transmit" /\ ~aborted /\ clock' = clock
        /\ late' = IF flow.next <= clock THEN late + 1 ELSE late
    BY <1>6 DEF Transmit, At
  <2>2. flow'.next = flow.next /\ thread'.now = thread.now
    BY <1>1, <1>6 DEF Transmit, Transmitted, FlowType, ThreadType
  <2>3. aborted' \/ thread'.pc = "status"
    <3>1. \A interval \in Intervals :
            AfterFrame(Transmitted(flow, thread.now), thread.now,
                       thread.lastEvent, interval) = "status"
      BY OneFrameAtATime DEF IInv
    <3> QED
      BY <1>1, <1>6, <3>1 DEF Transmit, ThreadType
  <2>4. late = 0 \/ (late = 1 /\ flow.next <= thread.now)
    BY <2>1 DEF FramesTooLate
  <2> QED
    BY <1>1, <2>1, <2>2, <2>3, <2>4 DEF FramesTooLate
<1>7. CASE HandleStatusChange
  <2>1. /\ thread.pc = "status" /\ thread'.pc = "check" /\ ~aborted /\ ~aborted'
        /\ clock' = clock
    BY <1>1, <1>7 DEF HandleStatusChange, At, Goto, ThreadType
  <2>2. CASE flow.next <= thread.now
    <3>1. late' = 0
      BY <1>7, <2>2 DEF HandleStatusChange
    <3> QED
      BY <2>1, <3>1 DEF FramesTooLate
  <2>3. CASE ~(flow.next <= thread.now)
    <3>1. UNCHANGED <<late, flow>> /\ late <= 1
      BY <1>7, <2>1, <2>3 DEF HandleStatusChange, FramesTooLate
    <3> QED
      BY <2>1, <3>1 DEF FramesTooLate
  <2> QED
    BY <2>2, <2>3
<1>8. CASE CheckForEnd
  <2>1. /\ thread'.pc \in {"schedule", "finished"} /\ UNCHANGED <<late, flow, clock>>
        /\ late <= 1
    BY <1>1, <1>8 DEF CheckForEnd, At, Goto, FramesTooLate, ThreadType
  <2> QED
    BY <2>1 DEF FramesTooLate
<1>9. ASSUME NEW async \in BOOLEAN, SwitchOff(async) PROVE FramesTooLate'
  <2>1. flow'.next = flow.next
    BY <1>1, <1>9 DEF SwitchOff, FlowType
  <2> QED
    BY <1>9, <2>1 DEF SwitchOff, FramesTooLate
<1>10. CASE ShutDown \/ StopThread \/ WaitForFinish
  BY <1>10 DEF ShutDown, StopThread, WaitForFinish, FramesTooLate
<1>11. CASE Tick
  BY <1>1, <1>11 DEF Tick, FramesTooLate
<1> QED
  BY <1>2, <1>3, <1>4, <1>5, <1>6, <1>7, <1>8, <1>9, <1>10, <1>11
     DEF Next, Run, Deactivate

\* KeptInv holds in every reachable state.
THEOREM KeptInvariant == Spec => []KeptInv
<1>1. IInv /\ KeptInv /\ [Next]_vars => KeptInv'
  <2> SUFFICES ASSUME IInv, KeptInv, [Next]_vars PROVE KeptInv'
    OBVIOUS
  <2>1. CASE UNCHANGED vars
    BY <2>1 DEF vars, KeptInv, Awaits, AwaitsNext, Place, OnAsScheduled,
       FramesTooLate
  <2>2. CASE Next
    BY <2>2, StepsKeepAwaiting, StepsKeepOnAsScheduled, StepsKeepFramesTooLate
       DEF KeptInv
  <2> QED
    BY <2>1, <2>2
<1> QED
  BY <1>1, InitKept, InductiveInvariant, PTL DEF Spec

\* ScheduleIsKept: every on/off event is at its time from the start of the
\* measurement, however late the thread handles it and whatever the list, and
\* the flow is on or off as the events handled so far say.
THEOREM ScheduleIsKeptHolds == Spec => []ScheduleIsKept
<1>1. KeptInv => ScheduleIsKept
  <2> SUFFICES ASSUME KeptInv PROVE ScheduleIsKept
    OBVIOUS
  <2>1. changes \in Nat /\ (thread.pc # "start" => AwaitsNext(flow, changes))
    BY DEF KeptInv, Awaits
  <2>2. EventTime(changes + 1) = TimeOf(spec.schedule, changes + 1)
    BY <2>1, EventTimeIsTimeOf
  <2> QED
    BY <2>1, <2>2 DEF KeptInv, OnAsScheduled, ScheduleIsKept, AwaitsNext
<1> QED
  BY <1>1, KeptInvariant, PTL

\* FewFramesTooLate: whatever the threads and the clock do, at most two frames
\* are sent after the time at which the flow is to be switched off.
THEOREM FewFramesTooLateHolds == Spec => []FewFramesTooLate
<1>1. KeptInv => FewFramesTooLate
  BY DEF KeptInv, FramesTooLate, FewFramesTooLate
<1> QED
  BY <1>1, KeptInvariant, PTL
=================================================================================
