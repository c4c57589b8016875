SPECIFICATION Spec
CONSTANTS
  Window = 1
  MaxBody = 1
  MaxAnswer = 2
  MaxTunnel = 3
  MaxUint16 = 2
INVARIANTS ForwardInv  FramesReadBack
PROPERTIES CallReturns HandlerEnds EmptyReleased
CHECK_DEADLOCK FALSE
