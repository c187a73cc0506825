------------------------ MODULE AsyncTelemetryLogger ------------------------
(***************************************************************************)
(* AsyncRequestTelemetryLogger and AsyncControllerActionTelemetryLogger    *)
(* (src/clockwork/telemetry/telemetry.cpp): threads hand telemetry records *)
(* to log(), which pushes them on a tbb::concurrent_queue; one logger      *)
(* thread runs run(), popping records and passing each to every logger of  *)
(* its vector in turn; shutdown() clears `alive` and shuts down every      *)
(* logger, which for a file logger closes its std::ofstream.               *)
(*                                                                         *)
(* The two classes have the same code; this module models both. A record  *)
(* is a model value; what a logger does with it is "it reaches that        *)
(* logger", a write to a file logger whose file is closed reaches nothing. *)
(* A push or a pop of the concurrent queue is atomic; logger->log(next) is *)
(* one step per logger. A RequestTelemetryPrinter buffers what reaches it  *)
(* and prints the buffer's statistics when print_interval has passed; a    *)
(* record carries only what print() reads of it: whether its result is     *)
(* clockworkSuccess and its latency, departure - arrival.                  *)
(***************************************************************************)
EXTENDS Naturals, Sequences, SequencesExt

CONSTANTS Records,      \* the telemetry records threads log, each once
          LoggerSeq,    \* the `loggers` vector, in the order of addLogger()
          FileLoggers,  \* those of them that write to a std::ofstream
          Succeeded,    \* the records whose result is clockworkSuccess
          Latency,      \* each record's departure - arrival
          NULL

Loggers == ToSet(LoggerSeq)

\* the other loggers are RequestTelemetryPrinters
Printers == Loggers \ FileLoggers

ASSUME IsInjective(LoggerSeq) /\ FileLoggers \subseteq Loggers
ASSUME Succeeded \subseteq Records /\ Latency \in [Records -> Nat]

VARIABLES queue,     \* the tbb::concurrent_queue
          alive,     \* the `alive` flag
          pushed,    \* every record log() has pushed, in push order
          written,   \* per logger: the records that reached it, in order
          open,      \* per logger: its output is open (only files close)
          tpc,       \* where the logger thread is in run()
          next,      \* run(): the record popped last
          li,        \* run(): the index of the logger being called
          spc,       \* where the thread calling shutdown() is
          si,        \* shutdown(): the index of the logger being shut down
          preShutdown, \* the records pushed before shutdown() began
          buffered,  \* per printer: its `buffered` queue
          lines,     \* per printer: the statistics of every line printed
          batches    \* per printer: the records each line was printed from

printerVars == <<buffered, lines, batches>>
vars == <<queue, alive, pushed, written, open, tpc, next, li, spc, si,
          preShutdown, buffered, lines, batches>>

Init ==
  /\ queue = <<>>
  /\ alive = TRUE
  /\ pushed = <<>>
  /\ written = [l \in Loggers |-> <<>>]
  /\ open = [l \in Loggers |-> TRUE]
  /\ tpc = "loop"
  /\ next = NULL
  /\ li = 1
  /\ spc = "idle"
  /\ si = 1
  /\ preShutdown = {}
  /\ buffered = [p \in Printers |-> <<>>]
  /\ lines = [p \in Printers |-> <<>>]
  /\ batches = [p \in Printers |-> <<>>]

----------------------------------------------------------------------------
\* log(telemetry): queue.push(telemetry), from any thread, at any time
Log(r) ==
  /\ r \notin ToSet(pushed)
  /\ queue' = Append(queue, r)
  /\ pushed' = Append(pushed, r)
  /\ UNCHANGED <<alive, written, open, tpc, next, li, spc, si, preShutdown, printerVars>>

----------------------------------------------------------------------------
(* run(): while (alive) { while (queue.try_pop(next)) for each logger:     *)
(* logger->log(next); usleep(1000); }                                      *)

LoopTest ==
  /\ tpc = "loop"
  /\ tpc' = IF alive THEN "pop" ELSE "done"
  /\ UNCHANGED <<queue, alive, pushed, written, open, next, li, spc, si,
                 preShutdown, printerVars>>

TryPopPeeking ==
  /\ tpc = "pop"
  /\ IF queue # <<>>
       THEN /\ next' = Head(queue)
            /\ li' = 1
            /\ tpc' = "log"
       ELSE /\ tpc' = "sleep"
            /\ UNCHANGED <<next, li>>
  /\ UNCHANGED <<queue, alive, pushed, written, open, spc, si, preShutdown, printerVars>>

TryPop ==
  /\ tpc = "pop"
  /\ IF queue # <<>>
       THEN /\ next' = Head(queue)
            /\ queue' = Tail(queue)
            /\ li' = 1
            /\ tpc' = "log"
       ELSE /\ tpc' = "sleep"
            /\ UNCHANGED <<queue, next, li>>
  /\ UNCHANGED <<alive, pushed, written, open, spc, si, preShutdown, printerVars>>

----------------------------------------------------------------------------
(* RequestTelemetryPrinter                                                 *)

\* UINT64_MAX, the initial min_latency: above every latency a record has
NoLatency == Max(Range(Latency)) + 1

PrintInitZeroMin ==
  [sum |-> 0, count |-> 0, violations |-> 0, min |-> 0, max |-> 0]

\* duration_sum, count, violations, min_latency, max_latency before the loop
PrintInit ==
  [sum |-> 0, count |-> 0, violations |-> 0, min |-> NoLatency, max |-> 0]

\* one iteration of print()'s loop over buffered.front()
PrintStep(acc, r) ==
  IF r \in Succeeded
    THEN [acc EXCEPT !.sum = @ + Latency[r], !.count = @ + 1,
                     !.min = Min({@, Latency[r]}), !.max = Max({@, Latency[r]})]
    ELSE [acc EXCEPT !.violations = @ + 1]

\* print(interval): the numbers the line shows (the throughput divides count
\* by the interval, which is the clock's); an empty buffer prints
\* "throughput=0", a buffer of failures only their number
PrintLine(buf) ==
  LET s == FoldLeft(PrintStep, PrintInit, buf) IN
  IF buf = <<>> THEN [count |-> 0]
  ELSE IF s.count = 0 THEN [count |-> 0, violations |-> s.violations]
  ELSE [count |-> s.count, violations |-> s.violations, min |-> s.min,
        max |-> s.max, mean |-> s.sum \div s.count]

\* log(telemetry): buffered.push(telemetry); if last_print + print_interval
\* <= util::now(), print(now - last_print), which pops the whole buffer.
\* Whether the interval has passed is the clock's choice.
PrinterLog(p, r) ==
  LET buf == Append(buffered[p], r) IN
  \/ /\ buffered' = [buffered EXCEPT ![p] = buf]
     /\ UNCHANGED <<lines, batches>>
  \/ /\ buffered' = [buffered EXCEPT ![p] = <<>>]
     /\ lines' = [lines EXCEPT ![p] = Append(@, PrintLine(buf))]
     /\ batches' = [batches EXCEPT ![p] = Append(@, buf)]

----------------------------------------------------------------------------
\* the for loop moves to the next logger, or back to try_pop after the last
AdvanceLogger ==
  IF li = Len(LoggerSeq)
    THEN tpc' = "pop" /\ li' = 1 /\ next' = NULL
    ELSE li' = li + 1 /\ UNCHANGED <<tpc, next>>

\* logger->log(next): RequestTelemetryFileLogger::log writes a line to its
\* ofstream (nothing, once closed); a printer buffers the record.
LogToLogger ==
  LET l == LoggerSeq[li] IN
  /\ tpc = "log"
  /\ written' = IF open[l] THEN [written EXCEPT ![l] = Append(@, next)]
                ELSE written
  /\ IF l \in Printers THEN PrinterLog(l, next) ELSE UNCHANGED printerVars
  /\ AdvanceLogger
  /\ UNCHANGED <<queue, alive, pushed, open, spc, si, preShutdown>>

Sleep ==
  /\ tpc = "sleep"
  /\ tpc' = "loop"
  /\ UNCHANGED <<queue, alive, pushed, written, open, next, li, spc, si,
                 preShutdown, printerVars>>

RunStep == LoopTest \/ TryPop \/ LogToLogger \/ Sleep

----------------------------------------------------------------------------
(* shutdown(awaitCompletion): alive = false; then logger->shutdown(true)   *)
(* for each logger: a file logger closes its file, a printer prints a line *)
(* or nothing. Neither waits for the logger thread.                        *)

ShutdownBegin ==
  /\ spc = "idle"
  /\ alive' = FALSE
  /\ preShutdown' = ToSet(pushed)
  /\ spc' = "closing"
  /\ UNCHANGED <<queue, pushed, written, open, tpc, next, li, si, printerVars>>

ShutdownLoggerAdvancingPastEnd ==
  LET l == LoggerSeq[si] IN
  /\ spc = "closing"
  /\ open' = IF l \in FileLoggers THEN [open EXCEPT ![l] = FALSE] ELSE open
  /\ si' = si + 1
  /\ spc' = IF si = Len(LoggerSeq) THEN "returned" ELSE spc
  /\ UNCHANGED <<queue, alive, pushed, written, tpc, next, li, preShutdown, printerVars>>

ShutdownLogger ==
  LET l == LoggerSeq[si] IN
  /\ spc = "closing"
  /\ open' = IF l \in FileLoggers THEN [open EXCEPT ![l] = FALSE] ELSE open
  /\ IF si = Len(LoggerSeq)
       THEN spc' = "returned" /\ UNCHANGED si
       ELSE si' = si + 1 /\ UNCHANGED spc
  /\ UNCHANGED <<queue, alive, pushed, written, tpc, next, li, preShutdown, printerVars>>

ShutdownStep == ShutdownBegin \/ ShutdownLogger

----------------------------------------------------------------------------
Next ==
  \/ \E r \in Records : Log(r)
  \/ RunStep
  \/ ShutdownStep

\* The logger thread, once started, keeps running: usleep(1000) returns and
\* the queue operations do not block. A shutdown() that has begun runs to
\* its end. Logging and calling shutdown() at all are up to the callers.
Fairness == WF_vars(RunStep) /\ WF_vars(ShutdownLogger)

Spec == Init /\ [][Next]_vars /\ Fairness

----------------------------------------------------------------------------
TypeOK ==
  /\ queue \in Seq(Records)
  /\ alive \in BOOLEAN
  /\ pushed \in Seq(Records)
  /\ written \in [Loggers -> Seq(Records)]
  /\ open \in [Loggers -> BOOLEAN]
  /\ tpc \in {"loop", "pop", "log", "sleep", "done"}
  /\ next \in Records \cup {NULL}
  /\ li \in 1..Len(LoggerSeq)
  /\ spc \in {"idle", "closing", "returned"}
  /\ si \in 1..Len(LoggerSeq)
  /\ preShutdown \subseteq Records
  /\ buffered \in [Printers -> Seq(Records)]
  /\ batches \in [Printers -> Seq(Seq(Records))]
  /\ DOMAIN lines = Printers

\* The async logger implements AsyncLog: every logger sees the records in the
\* order log() pushed them, each once and none skipped, until its file is
\* closed, and only after shutdown(); while alive, each record reaches each
\* logger. The single logger thread must pop each record from the concurrent
\* queue exactly once and hand it to every logger before the next pop.
Abs == INSTANCE AsyncLog WITH log <- pushed, delivered <- written

RefinesAsyncLog == Abs!Spec

\* A printer's lines account for every record that reached it, in order,
\* except those still buffered, and each line shows the count, violations,
\* minimum, maximum and mean latency of the records it was printed from:
\* print() must pop exactly the buffered records and start its minimum
\* above every latency.
PrintedLinesAccountForRecords ==
  \A p \in Printers :
    /\ FlattenSeq(batches[p]) \o buffered[p] = written[p]
    /\ \A i \in DOMAIN batches[p] :
         LET b == batches[p][i]
             ok == {k \in DOMAIN b : b[k] \in Succeeded}
             lat == [k \in ok |-> Latency[b[k]]]
         IN lines[p][i] =
              IF ok = {} THEN [count |-> 0, violations |-> Len(b)]
              ELSE [count |-> Cardinality(ok),
                    violations |-> Len(b) - Cardinality(ok),
                    min |-> Min(Range(lat)), max |-> Max(Range(lat)),
                    mean |-> FoldFunctionOnSet(+, 0, lat, ok) \div Cardinality(ok)]

\* shutdown(true) on the file loggers asks for completion: when shutdown()
\* returns, every record logged before it was called has reached every
\* logger.
ShutdownAwaitsCompletion ==
  spc = "returned" =>
    \A r \in preShutdown, l \in Loggers : r \in ToSet(written[l])

\* The logger thread never calls log() on a file logger whose ofstream
\* shutdown() has closed: the close and the write would race on the one
\* std::ofstream.
NoWriteAfterClose ==
  tpc = "log" => open[LoggerSeq[li]]
=============================================================================
