\* Two phones, identifiers of two bytes, payloads of seven, lengths of four bits.
SPECIFICATION Spec
CONSTANTS
  Slots = {1, 2}
  Byte = {0, 1}
  Text <- ShortTexts
  Message <- EqualBytes
  PROXY_ID_SIZE = 2
  PROXY_PRACTICAL_MAX = 7
  LenMod = 16
  MemorySize = 8
INVARIANTS
  TypeOK
  BuildStaysInside
  HeaderIsWholePayload
  BuiltIsUnderstood
  ReachesAddressee
