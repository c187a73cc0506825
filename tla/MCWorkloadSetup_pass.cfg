CONSTANTS
  MaxCopies <- MCMaxCopies
  MaxClients <- MCMaxClients
  LoadBatch <- MCLoadBatch
  Intervals <- MCIntervals
  MaxRate <- MCMaxRate
SPECIFICATION Spec
INVARIANT ModelsPartitionedAmongClients
INVARIANT NoEmptyClient
INVARIANT EveryCopyStartedOnce
INVARIANT IntervalRatesBalanced
