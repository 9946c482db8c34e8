\* Two phones, fair scheduling, no loss: what must eventually happen.
SPECIFICATION FairSpec
CONSTANTS
  c1 = c1
  c2 = c2
  NoConn = NoConn
  Conn = {c1, c2}
  MaxConns = 2
  QueueDepth = 1
  ProxyId = {1}
  Nonce <- PlainNonces
  ArenaBytes = 4
  MaxFrames = 4
  TxDepth = 1
  Burst <- ShortBurst
  StaleTail <- NoTail
  LiveFrames <- TwoPackets
  RandomNonce = {0, 9}
  BootRaces = FALSE
  MaxInputs = 4
  MaxLoss = 0
INVARIANTS
  StoredNonceIsOwn
PROPERTIES
  TargetedDelivery
  FetchEnds
  PendingIsServed
  ReplayCompletes
\* The environment may stop: the number of its events is bounded.
CHECK_DEADLOCK FALSE
