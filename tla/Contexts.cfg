CONSTANTS
  Mems = {m1}
  Contexts = {c1, c2}
  Queues = {q1, q2}
  Width = 2
  Align = 2
  Sizes = {1}
  FlagSets <- MCFlags
  DeviceTypes <- MCDeviceTypes
  AllowWrap = FALSE
  MaxWrites = 1
  MaxRefs = 2
  MaxContexts = 4
  Null = Null
SYMMETRY Addresses
SPECIFICATION Spec
INVARIANT ContextsKeptApart
