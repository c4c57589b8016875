SPECIFICATION Spec
CONSTANTS
  Conns = {c1, c2}
  MaxUint16 = 300
INVARIANTS ServerInv NoLeakedConn ClientHelloReadBack HandshakeAgrees
PROPERTIES HelloBounded HandoffEnds CloseReturns
CHECK_DEADLOCK FALSE
