SPECIFICATION Spec
CONSTANTS
  frame_length = 500
  second = 500
  Instants <- MCInstants
  MaxLate = 20
  MaxCalls = 1
  MaxFailures = 1
INVARIANTS RequestInOrder GrantDecodes ReportCoversData
PROPERTIES SlotOfInstant MainReachesLoop TBOrFrozenSlot
CHECK_DEADLOCK FALSE
