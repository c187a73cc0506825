CONSTANTS
  rec1 = rec1
  rec2 = rec2
  rec3 = rec3
  NULL = NULL
  Records <- MCRecords
  LoggerSeq <- MCLoggerSeq
  FileLoggers <- MCFileLoggers
  Succeeded <- MCSucceeded
  Latency <- MCLatency
SPECIFICATION Spec
INVARIANT TypeOK
INVARIANT PrintedLinesAccountForRecords
PROPERTY RefinesAsyncLog
\* The logger thread leaves run() after shutdown and nothing more happens:
\* the system really does stop there.
CHECK_DEADLOCK FALSE
