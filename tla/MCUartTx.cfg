\* Two threads that send, a queue of two, five packets.
SPECIFICATION FairSpec
CONSTANTS
  bt = bt
  main = main
  Caller = {bt, main}
  TxDepth = 2
  MaxPackets = 5
INVARIANTS
  TypeOK
  FlagIsOwnership
  FrameBufStable
  NoLostWakeup
PROPERTIES
  ImplementsChannel
  EveryPacketLeaves
\* With every packet sent the transmitter is idle.
CHECK_DEADLOCK FALSE
