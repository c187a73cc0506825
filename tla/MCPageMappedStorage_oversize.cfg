\* calculate() and makeModelDef(): two operations of up to three
\* allocations of sizes 1..4, and models of up to two storage locations of
\* sizes 1..4, on pages of 3: allocations and locations larger than a page
\* included.
CONSTANTS
  PageSize = 3
  MaxLocs = 0
  MaxSize = 4
  MaxOps = 2
  MaxAllocs = 3
  MaxAllocSize = 4
  MaxLayoutLocs = 2
  FuncNames = {f1}
  MaxFuncOps = 0
SPECIFICATION Spec
INVARIANT PlacedWithinPage
