CONSTANTS
  QUEMAXSIZE = 15
  MaxDatagrams = 5
  a = a
  b = b
  c = c
  Zero = Zero
  Garbled = Garbled
  Message <- MCMessage
  FrameLen <- MCFrameLen
  Cell <- MCCell
SPECIFICATION Spec
INVARIANT ExactlyOnceWhileYoung
PROPERTY ReplayIsFatal
CHECK_DEADLOCK FALSE
