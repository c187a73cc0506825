\* pack(): up to five locations of sizes 1..7 on pages of 7, enough for
\* best fit and first fit to part ways and for exact fits to occur.
\* calculate() and makeModelDef(): two operations of up to three
\* allocations of sizes 1..8 on the same pages, an allocation larger than a
\* page included. Whole layouts: up to four locations, any of them weights.
CONSTANTS
  PageSize = 7
  MaxLocs = 5
  MaxSize = 7
  MaxOps = 2
  MaxAllocs = 3
  MaxAllocSize = 8
  MaxLayoutLocs = 4
  FuncNames = {f1, f2, f3}
  MaxFuncOps = 4
SPECIFICATION Spec
INVARIANT PackPartitions
INVARIANT PackIsBestFit
INVARIANT PagesNotMergeable
INVARIANT AllocsWithinCountedPages
INVARIANT WeightsLandOnTheirPages
INVARIANT SoFunctionsNumbered
