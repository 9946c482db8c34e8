\* Phones and node act at every point of the boot, over a lossy line, with a cache
\* that is too small for the burst.
SPECIFICATION Spec
CONSTANTS
  c1 = c1
  c2 = c2
  NoConn = NoConn
  Conn = {c1, c2}
  MaxConns = 2
  QueueDepth = 1
  ProxyId = {}
  Nonce <- JustConfig
  ArenaBytes = 3
  MaxFrames = 2
  TxDepth = 1
  Burst <- ShortBurst
  StaleTail <- NoTail
  LiveFrames <- OnePacket
  RandomNonce = {9}
  BootRaces = TRUE
  MaxInputs = 4
  MaxLoss = 1
SYMMETRY ConnSymmetry
INVARIANTS
  ReplayFromReadyCache
PROPERTIES
  ImplementsService
  ConfigBroadcastOnlyInBoot
\* The environment may stop: the number of its events is bounded.
CHECK_DEADLOCK FALSE
