SPECIFICATION Spec
CONSTANTS
  Dials = {d1, d2, d3}
  Transports = {t1, t2}
  MaxUint = 2
INVARIANTS ClientInv NoneOutlives
PROPERTIES CloseFreesDials CloseEnds
CHECK_DEADLOCK FALSE
