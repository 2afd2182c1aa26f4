SPECIFICATION Spec
CONSTANTS
  Intervals = {1, 3}
  Schedules <- MCSchedules
  Second = 3
  Millisecond = 2
  MaxTime = 8
INVARIANTS
  TypeOK
  ScheduleIsKept
  FewFramesTooLate
PROPERTIES
  FailureIsTheEnd
  StopEnds
CHECK_DEADLOCK FALSE
