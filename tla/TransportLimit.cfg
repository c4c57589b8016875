SPECIFICATION Safe
CONSTANTS
  Ids = {i1, i2}
  Channels = 1
  QueueCap = 1
  WireCap = 1
  MaxWrites <- Writes00
SYMMETRY IdSymmetry
INVARIANTS AnsweredOnce Owned
CHECK_DEADLOCK FALSE
