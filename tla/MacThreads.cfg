SPECIFICATION Spec
CONSTANTS
  UE = {a, b}
  NoUE = NoUE
  WAVE_NUM = 2
  PER_WAVE_MAX_NUM = 2
  RecordLen = 26
  MaxRequests = 1
INVARIANTS CoherentUnlessRaced CrashNeedsRace RACHNeverServes RLCNeverReceives
PROPERTY SubframesGoOn
CHECK_DEADLOCK FALSE
