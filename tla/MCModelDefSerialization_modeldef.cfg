CONSTANTS
  Vals <- MCVals
  ElemVals <- MCElemVals
  Garbage <- MCGarbage
  FuncNames <- MCFuncNames
SPECIFICATION Spec
INVARIANT ModelDefRoundTrip
