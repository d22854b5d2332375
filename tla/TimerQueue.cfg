SPECIFICATION Spec
CONSTANTS
  slot = slot
  perf = perf
  Thread = {t1, t2}
  Name <- MCName
  Kind <- MCKind
  Cells = 3
  MaxDelay = 2
  MaxTime = 2
  MaxCalls = 3
  Unlocked = Unlocked
  None = None
  Off = Off
  Zeroed = Zeroed
INVARIANTS VectorIsSequence TimerCoversHead
CHECK_DEADLOCK FALSE
PROPERTIES EventsInOrder NoRecovery  EventsFire
