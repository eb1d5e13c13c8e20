CONSTANTS
  NumCUs = 2
  NumNodes = 1
  VL = 2
  Requests <- RowRequests
  Cells <- PlaneCells
  MaxLaunches = 1
SPECIFICATION Spec
INVARIANT SaxpyResult
