\* Two phones and the node after an undisturbed boot, with the end of an earlier burst
\* still on the line: every mix of five events.
SPECIFICATION Spec
CONSTANTS
  c1 = c1
  c2 = c2
  NoConn = NoConn
  Conn = {c1, c2}
  MaxConns = 2
  QueueDepth = 1
  ProxyId = {}
  Nonce <- PhoneNonces
  ArenaBytes = 6
  MaxFrames = 6
  TxDepth = 1
  Burst <- ShortBurst
  StaleTail <- EarlierTail
  LiveFrames <- AnyLive
  RandomNonce = {1}
  BootRaces = FALSE
  MaxInputs = 5
  MaxLoss = 0
SYMMETRY ConnSymmetry
INVARIANTS
  TypeOK
  SlotAccounting
  AdvertisesWhileFree
  ReplayDelivers
  CompleteEchoesRequest
  PendingIsRemembered
  ReadyCacheHoldsBurst
\* The environment may stop: the number of its events is bounded.
CHECK_DEADLOCK FALSE
