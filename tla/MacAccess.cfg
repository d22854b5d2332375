\* RNTIs 1 and 5 share local index 1, which is also a wave; RNTI 3 has index 3,
\* which no wave has.
CONSTANTS
  RNTI = {1, 3, 5}
  RNTI_LOW = 4
  Service = {"VIDEO", "WEB", "BACKGROUND"}
  Wave = {0, 1}
  PER_WAVE_MAX_NUM = 3
  NoUE = NoUE
  MaxAttempts = 4
SPECIFICATION Spec
INVARIANTS TypeOK ActivePrefix RowIsOneUser RegisteredHasRow SortsAreBubbleSorts
PROPERTY UsersKept

