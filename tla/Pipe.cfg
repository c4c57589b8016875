SPECIFICATION PSpec
CONSTANTS
  Readers = {r1, r2}
  Writers = {w1}
  Closers = {c1, c2}
  Byte = {0, 1}
  Zero = 0
  Cap = 3
  MaxSlice = 2
INVARIANTS PipeInv NoLostWakeup EOFIsFinal
PROPERTIES CloseUnblocks ImplementsQueue ShortReadEmpties
