CONSTANTS
  Datagrams <- MCDatagrams
  QUEMAXSIZE = 600
  BBU_UE_MAXNUM = 250
  MaxPayload = 40
  MaxDatagrams = 2
  None = None
  Endless = Endless
SPECIFICATION AirSpec
INVARIANTS EachPartOnce EndsAtByte33
PROPERTIES ReceiveEnds
CHECK_DEADLOCK FALSE
