CONSTANTS
  ElementBits <- MCElementBits
  Params <- MCParams
  Binary <- MCBinary
  GroupSize = 3
  Top = 6
  Threshold = 3
  MaxKernels = 2
  MaxLength = 4
SPECIFICATION Spec
CHECK_DEADLOCK FALSE
INVARIANTS ErasedAfterUsers OneElementCount VectorizedIffSupported VectorMatchesScalar
