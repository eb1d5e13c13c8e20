CONSTANTS
  Mems = {m1, m2}
  Contexts = {ctx}
  Width = 4
  Align = 4
  Sizes = {4}
  FlagSets <- OneFlag
  AllowWrap = FALSE
  MaxWrites = 0
  MaxRefs = 2
  Kernels = {k1}
  NumArgs = 2
  ArgKinds <- Scale
  PtrSize = 2
  ArgSizes = {1, 2, 7}
  MaxParam = 8
  Null = Null
  AValue = AValue
  NoBuffer = NoBuffer
SYMMETRY Handles
SPECIFICATION Spec
INVARIANTS TypeOK ArgsNameTheirBuffers ArgsWithinLimit
PROPERTY RefusedKeepsArgs
