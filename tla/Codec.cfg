SPECIFICATION Spec
CONSTANTS
  N = 8
  F = 4
  THRESHOLD = 2
  Chars = 3
  Space = 0
  MAX_FREQ = 8
  Messages <- MCMessages
  Positions <- MCPositions
  ChunkSize = 3
  Damage <- MCDamage
  Frames <- MCFrames
  Reads <- MCReads
INVARIANTS
  RoundTrip
  DamageSeen
  FramesThrough
  TreesSound
CHECK_DEADLOCK FALSE
