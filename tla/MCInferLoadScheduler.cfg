CONSTANTS
  r1 = r1
  r2 = r2
  r3 = r3
  GPUs <- MCGPUs
  Models <- MCModels
  Requests <- MCRequests
  ReqModel <- MCReqModel
  Pages <- MCPages
  TotalPages = 1
  BatchSizes = {1, 2}
  MaxLoads = 2

SYMMETRY MCSymmetry

SPECIFICATION Spec

INVARIANT TypeOK
INVARIANT RequestAccounting
INVARIANT DemandsSurrendered

\* The run loop never blocks; a state without successors is a loop
\* iteration with nothing left to do (all requests answered, or the
\* MaxLoads bound reached).
CHECK_DEADLOCK FALSE
