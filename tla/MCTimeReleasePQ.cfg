CONSTANTS
  Producers <- MCProducers
  Consumers <- MCConsumers
  Items <- MCItems
  MaxTime = 2
  NULL = NULL

SPECIFICATION Spec

INVARIANT TypeOK
INVARIANT NoMissedWakeup

PROPERTY RefinesTimeReleaseQueue
PROPERTY BlockedDequeueReturns
PROPERTY ShutdownReleasesDequeue
