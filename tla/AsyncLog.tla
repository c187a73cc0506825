------------------------------ MODULE AsyncLog ------------------------------
(***************************************************************************)
(* What an asynchronous telemetry logger promises its callers, with no     *)
(* queue and no thread: log() appends a record to the log; each logger     *)
(* receives the log's records one at a time, in log order, never skipping  *)
(* one, until it is closed; the logger as a whole stops when it is shut    *)
(* down, and only then are its file loggers closed. While it has not been  *)
(* shut down, every logged record eventually reaches every logger.         *)
(***************************************************************************)
EXTENDS Naturals, Sequences, SequencesExt

CONSTANTS Records, Loggers, FileLoggers

VARIABLES log,        \* every record logged, in order
          delivered,  \* per logger: the prefix of log that has reached it
          open,       \* per logger: it still accepts records
          alive       \* shutdown() has not been called

vars == <<log, delivered, open, alive>>

Init ==
  /\ log = <<>>
  /\ delivered = [l \in Loggers |-> <<>>]
  /\ open = [l \in Loggers |-> TRUE]
  /\ alive = TRUE

Append1(r) ==
  /\ r \notin ToSet(log)
  /\ log' = Append(log, r)
  /\ UNCHANGED <<delivered, open, alive>>

\* the next record of the log reaches logger l
Deliver(l) ==
  /\ open[l]
  /\ Len(delivered[l]) < Len(log)
  /\ delivered' = [delivered EXCEPT ![l] = Append(@, log[Len(@) + 1])]
  /\ UNCHANGED <<log, open, alive>>

Stop ==
  /\ alive
  /\ alive' = FALSE
  /\ UNCHANGED <<log, delivered, open>>

Close(l) ==
  /\ ~alive
  /\ l \in FileLoggers
  /\ open[l]
  /\ open' = [open EXCEPT ![l] = FALSE]
  /\ UNCHANGED <<log, delivered, alive>>

Next ==
  \/ \E r \in Records : Append1(r)
  \/ \E l \in Loggers : Deliver(l) \/ Close(l)
  \/ Stop

\* Delivery is promised only while the logger is alive; a shutdown that has
\* begun closes every file logger.
Spec ==
  /\ Init /\ [][Next]_vars
  /\ \A l \in Loggers : WF_vars(alive /\ Deliver(l)) /\ WF_vars(Close(l))
=============================================================================
