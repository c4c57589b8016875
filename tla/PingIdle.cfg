SPECIFICATION IdleSpec
CONSTANTS
  Duration = 3
  MaxAge = 8
  QueueCap = 2
PROPERTIES IdlePinged
