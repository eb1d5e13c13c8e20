CONSTANTS
  Mems = {m1, m2}
  Contexts = {ctx}
  Width = 3
  Align = 2
  Sizes = {0, 1, 2}
  FlagSets <- MCFlags
  AllowWrap = FALSE
  MaxWrites = 2
  MaxRefs = 2
SYMMETRY Handles
SPECIFICATION MemSpec
INVARIANT HeldIsLive
PROPERTY ImplementsBufferStore
