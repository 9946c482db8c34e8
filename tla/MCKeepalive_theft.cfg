\* Nothing is lost or late: a packet meets a keepalive that has just expired.
SPECIFICATION Spec
CONSTANTS
  Period = 3
  NonceMod = 4
  TxDepth = 2
  MaxTicks = 12
  MaxPackets = 3
  MaxLoss = 0
  LateAnswers = FALSE
INVARIANTS
  PhoneAnswersKept
\* Time is bounded.
CHECK_DEADLOCK FALSE
