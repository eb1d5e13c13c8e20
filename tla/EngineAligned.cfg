CONSTANTS
  NumCUs = 2
  NumNodes = 1
  VL = 2
  Requests <- AlignedRequests
  Cells <- CrossCells
  MaxLaunches = 2
SPECIFICATION Spec
INVARIANTS SaxpyResult NoOverlap
PROPERTIES ImplementsInOrderLaunch LaunchReturns
