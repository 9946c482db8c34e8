\* A parked phone leaves and its bt_conn object is used again.
SPECIFICATION Spec
CONSTANTS
  c1 = c1
  c2 = c2
  NoConn = NoConn
  Conn = {c1, c2}
  MaxConns = 2
  QueueDepth = 1
  ProxyId = {}
  Nonce <- PhoneNonces
  ArenaBytes = 4
  MaxFrames = 4
  TxDepth = 1
  Burst <- ShortBurst
  StaleTail <- NoTail
  LiveFrames <- AnyLive
  RandomNonce = {0, 9}
  BootRaces = FALSE
  MaxInputs = 5
  MaxLoss = 0
SYMMETRY ConnSymmetry
INVARIANTS
  ReplaysAreRequested
\* The environment may stop: the number of its events is bounded.
CHECK_DEADLOCK FALSE
