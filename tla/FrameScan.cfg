SPECIFICATION Spec
CONSTANTS
  LF = LF
  CR = CR
  Bytes = {x, LF, CR}
  MaxLen = 7
  Buffers <- AllBuffers
INVARIANTS Correct
