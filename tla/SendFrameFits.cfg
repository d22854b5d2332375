CONSTANTS
  QUEMAXSIZE = 64
  Cell = {}
  a = a
  b = b
  d = d
  User <- MCUser
  Wave_num <- MCWave_num
  WAVE_NUM = 4
  WAVE_NUM_PER_BBU = 3
  PER_WAVE_MAX_NUM = 2
  Interference <- MCInterference
  RB_TOTALNUM = 1
  SCH_RB_NUM = 3
  per_RB_ByteNum = 16
  PER_UE_MAX_DL_VOLUME = 64
  DataLen = {16, 32}
  ReportLen = 15
  GrantLen = 28
  EntryLen = 40
  RBNum = {1, 2}
  NoGrant = NoGrant
  Nobody = Nobody
  Overwritten = Overwritten
  WAVE_TOTALNUM = 600
  COVERAGE_WIDTH = 1200
  COVERAGE_HEIGHT = 1200
  INTERFERENCE_TH = 60
  UE_TOTALNUM = 3
  Positions <- MCPositions
  MaxPackets = 2
  MaxInputs = 4
  MaxRequests = 2
SPECIFICATION MCSpec
INVARIANT SendFrameFits
CHECK_DEADLOCK FALSE
