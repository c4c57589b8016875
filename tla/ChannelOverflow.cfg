SPECIFICATION Safe
CONSTANTS
  Window <- Window22
  MaxUint16 = 2
  RecvBuf = 1
  SendConfirmCap = 1
  MaxBytes <- Bytes20
  CanJam = {}
INVARIANTS NoFalseOverflow
CHECK_DEADLOCK FALSE
