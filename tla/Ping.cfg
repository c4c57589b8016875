SPECIFICATION Spec
CONSTANTS
  Duration = 3
  MaxAge = 8
  QueueCap = 2
INVARIANTS PingInv
PROPERTIES PingReturns
