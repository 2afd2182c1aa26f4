SPECIFICATION Spec
CONSTANTS
  MeasurementOf <- MCMeasurementOf
  Interval = 2
  MaxCount = 1
  MaxTime = 6
INVARIANTS
  StatisticsAddUp
  TimersKeepPace
CHECK_DEADLOCK FALSE
