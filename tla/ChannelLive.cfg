SPECIFICATION Spec
CONSTANTS
  Window <- Window61
  MaxUint16 = 2
  RecvBuf = 1
  SendConfirmCap = 1
  MaxBytes <- Bytes20
  CanJam = {"client", "server"}
INVARIANTS WindowRespected
PROPERTIES Delivery CloseAgreement Released
CHECK_DEADLOCK FALSE
