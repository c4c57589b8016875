SPECIFICATION Spec
CONSTANTS
  Ids = {i1}
  Channels = 1
  QueueCap = 1
  WireCap = 1
  MaxWrites <- Writes02
INVARIANTS TransportInv NoOrphan
PROPERTIES DialReturns AbandonedFreed LinkLossEndsBoth
CHECK_DEADLOCK FALSE
