CONSTANTS
  NumCUs = 5
  NumNodes = 2
  VL = 2
  Requests <- ThreeMixed
  Cells <- CubeCells
  MaxLaunches = 2
SPECIFICATION Spec
INVARIANTS TypeOK NoDanglingULT ArgsOfThisLaunch EveryItemApplied WorkGroupOnOneNode
