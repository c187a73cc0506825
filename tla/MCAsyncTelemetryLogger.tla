----------------------- MODULE MCAsyncTelemetryLogger -----------------------
(* log_and_summarize(): a file logger, then a printer; three records.      *)
EXTENDS AsyncTelemetryLogger, TLC

CONSTANTS rec1, rec2, rec3

MCRecords == {rec1, rec2, rec3}
MCLoggerSeq == <<"file", "printer">>
MCFileLoggers == {"file"}
MCSucceeded == {rec1, rec2}
MCLatency == [r \in MCRecords |-> IF r = rec2 THEN 3 ELSE 1]
=============================================================================
