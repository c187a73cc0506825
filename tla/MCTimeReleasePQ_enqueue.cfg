CONSTANTS
  Producers <- MCProducers
  Consumers <- MCConsumers
  Items <- MCItems
  MaxTime = 2
  NULL = NULL

SPECIFICATION Spec

PROPERTY EnqueueReportsAcceptance
