SPECIFICATION Safe
CONSTANTS
  Ids = {i1}
  Channels = 0
  QueueCap = 1
  WireCap = 1
  MaxWrites <- Writes00
INVARIANTS NoPanic
CHECK_DEADLOCK FALSE
