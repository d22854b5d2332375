SPECIFICATION Spec
CONSTANTS
  SSB_num = 4
  OccasionsPerSSB = 4
  msg1_fdm = 4
  ra_preambletransMax = 3
  MaxSpurious = 2
  Responses <- MCResponses
INVARIANTS SuccessIsAnswered AtMostTwoPreambles ResponseRoundTrip
PROPERTY AnsweredWhenListening
CHECK_DEADLOCK FALSE
