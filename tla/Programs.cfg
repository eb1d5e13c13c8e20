CONSTANTS
  Progs = {p1, p2}
  Kernels = {k1, k2}
  Sources <- MCSources
  Names <- MCNames
  DeviceLists <- MCDevices
  Cpu = Cpu
  Other = Other
  Null = Null
  NoProg = NoProg
  MaxRefs = 2
  MaxBuilds = 2
  MaxFunctions = 24
SPECIFICATION Spec
CHECK_DEADLOCK FALSE
INVARIANTS KernelCodeLive SymbolsOfSource
PROPERTY BuildEnds
