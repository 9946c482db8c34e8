\* Four periods of three ticks, nonces of two bits, three packets, two losses.
SPECIFICATION Spec
CONSTANTS
  Period = 3
  NonceMod = 4
  TxDepth = 2
  MaxTicks = 12
  MaxPackets = 3
  MaxLoss = 2
  LateAnswers = TRUE
INVARIANTS
  TypeOK
  SilenceBounded
  SwallowBudget
  AnswersReachTheirOwner
\* Time is bounded.
CHECK_DEADLOCK FALSE
