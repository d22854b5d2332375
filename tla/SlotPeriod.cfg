SPECIFICATION Spec
CONSTANTS
  frame_length = 500
  second = 500
  Instants <- MCInstants
  MaxLate = 20
  MaxCalls = 1
  MaxFailures = 1
INVARIANT PeriodIsSet
CHECK_DEADLOCK FALSE
