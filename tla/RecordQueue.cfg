CONSTANTS
  QUEMAXSIZE = 7
  Length = 2
  r1 = r1
  r2 = r2
  r3 = r3
  Zero = Zero
  None = None
  Record <- MCRecord
  Cell <- MCCell
SPECIFICATION Spec
INVARIANT CrashOnlyAfterWrap
PROPERTY OneSlotSpec
CHECK_DEADLOCK FALSE
