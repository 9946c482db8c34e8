\* A queue fills while its phone is not draining; fair scheduling.
SPECIFICATION FairSpec
CONSTANTS
  c1 = c1
  NoConn = NoConn
  Conn = {c1}
  MaxConns = 1
  QueueDepth = 1
  ProxyId = {}
  Nonce <- JustConfig
  ArenaBytes = 4
  MaxFrames = 4
  TxDepth = 1
  Burst <- TinyBurst
  StaleTail <- NoTail
  LiveFrames <- OnePacket
  RandomNonce = {0, 9}
  BootRaces = FALSE
  MaxInputs = 5
  MaxLoss = 0
PROPERTIES
  FullQueueDrains
\* The environment may stop: the number of its events is bounded.
CHECK_DEADLOCK FALSE
