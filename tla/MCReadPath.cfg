\* A queue of two, an arena for two frames, six events.
SPECIFICATION Spec
CONSTANTS
  Frames <- ThreeFrames
  Complete <- CompleteIs
  ArenaBytes = 4
  MaxFrames = 2
  QueueDepth = 2
  MaxPacket = 3
  Chunk = 2
  MaxInputs = 6
INVARIANTS
  TypeOK
  IdleOnlyIfUntold
PROPERTIES
  ImplementsStream
\* The environment may stop: the number of its events is bounded.
CHECK_DEADLOCK FALSE
