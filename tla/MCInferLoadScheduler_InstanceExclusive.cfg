CONSTANTS
  GPUs <- MCGPUs
  Models <- MCModels
  Requests <- MCRequests
  ReqModel <- MCReqModel
  Pages <- MCPages
  TotalPages = 2
  BatchSizes = {1, 2}
  MaxLoads = 2

SPECIFICATION Spec

INVARIANT InstanceExclusive

CHECK_DEADLOCK FALSE
