\* Three frames, two faults, buffers smaller than a frame.
SPECIFICATION Spec
CONSTANTS
  Base = 4
  MAGIC1 = 3
  MAGIC2 = 2
  MaxPayload = 2
  DmaSize = 2
  RingSize = 2
  Payload <- Payloads
  Noise <- NoiseBursts
  MaxFrames = 3
  MaxFaults = 2
INVARIANTS
  TypeOK
  PayloadInBounds
  DmaBuffersDistinct
  NoLostWakeup
  NothingLeftLying
PROPERTIES
  ImplementsRxLink
  IntactFrameDelivered
\* With every frame sent the receiver is idle.
CHECK_DEADLOCK FALSE
