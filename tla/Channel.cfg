SPECIFICATION Safe
CONSTANTS
  Window <- Window63
  MaxUint16 = 2
  RecvBuf = 1
  SendConfirmCap = 1
  MaxBytes <- Bytes30
  CanJam = {}
INVARIANTS InOrder CreditConserved IndInv
PROPERTIES ImplementsStream
CHECK_DEADLOCK FALSE
