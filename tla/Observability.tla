---------------------------- MODULE Observability ----------------------------
(***************************************************************************)
(* What calls of Query and Append report: the phases of a call, the lines  *)
(* each of them logs, the measurements it records on its way, and the span *)
(* that is finished at its end.  There are two loggers, a plain one and    *)
(* one that is given the context; they are safe for concurrent use, so the *)
(* lines of a phase are logged at once.  The measurements go, one by one,  *)
(* through the MetricsCollector of oteladapters, which creates the         *)
(* instrument of a metric when it is first used and keeps it in a map; all *)
(* calls of an EventStore share these maps, and nothing locks them.  A     *)
(* meter may refuse to create an instrument: then the measurement is lost, *)
(* silently, and the next one of its metric tries again.                   *)
(*                                                                         *)
(* Only the number of measurements of a series is kept, neither durations  *)
(* nor values.  What the database does is left open: every phase may end   *)
(* with any of its outcomes.                                               *)
(***************************************************************************)
EXTENDS Naturals, Sequences, FiniteSets

CONSTANTS
  Callers,  \* goroutines that call Query and Append
  MaxCalls, \* bound on the calls of all of them
  Refusable \* the metrics whose instrument the meter may refuse to create

ASSUME CallersAssumption  == IsFiniteSet(Callers)
ASSUME MaxCallsAssumption == MaxCalls \in Nat

VARIABLES
  call,         \* the call each goroutine is in
  counters,     \* how many measurements of each series have arrived
  lost,         \* how many of each series met a meter that refused
  instruments,  \* the metrics that have an instrument in one of the maps
  begun,        \* how many calls have started, each with a span
  spans,        \* how many spans were finished with each error type
  codes,        \* how many spans the tracing backend has with each code
  logs,         \* how many lines each logger has got at each level
  ended,        \* how many calls returned with each result
  crashed       \* whether the Go runtime has ended the process

vars == <<call, counters, lost, instruments, begun, spans, codes, logs, ended, crashed>>

-----------------------------------------------------------------------------
Ops == {"query", "append"}
Results == {"nil", "conflict", "canceled", "timeout", "error"}
Statuses == {"success", "canceled", "timeout", "error"}
Components == {"query_build", "sql_execution", "result_processing"}
Loggers == {"plain", "contextual"}
Levels == {"debug", "info", "warn", "error"}
SpanCodes == {"Ok", "Error", "Unset"}
SpanStatuses == {"success", "build_query", "cancelled", "timeout", "database_query",
                 "database_exec", "scan_results", "concurrency_conflict"}

(* A series is a metric, the operation and a label.                        *)
Series == {"calls", "errors", "canceled", "timeout", "conflicts", "events"} \X Ops \X {"all"}
     \cup {"sql", "method"} \X Ops \X Statuses
     \cup {"component"} \X Ops \X Components

(* The metrics of errors, conflicts and components have one name for both  *)
(* operations.                                                             *)
Metric(s) == IF s[1] \in {"errors", "conflicts", "component"} THEN <<s[1], "any">>
             ELSE <<s[1], s[2]>>

(* The map that holds the instrument of a metric: histograms for           *)
(* durations, gauges for values, counters for the rest.                    *)
MapOf(metric) == IF metric[1] \in {"sql", "method", "component"} THEN "histograms"
                 ELSE IF metric[1] = "events" THEN "gauges"
                 ELSE "counters"

Idle == [phase |-> "idle"]
Call == [op : Ops, phase : {"build", "execution", "completion", "end"},
         todo : Seq(Series), step : {"lookup", "insert"},
         span : SpanStatuses \cup {"open"}, result : Results \cup {"none"}]

Running(c) == call[c] # Idle /\ ~crashed
Pending(c) == call[c] # Idle /\ call[c].todo # << >>

-----------------------------------------------------------------------------
(* What recordError, recordCanceled or recordTimeout, and a success record.*)
Failed(op)    == << <<"sql", op, "error">>, <<"method", op, "error">>, <<"errors", op, "all">> >>
Stopped(op, cause) ==
  << <<"sql", op, cause>>, <<"method", op, cause>>, <<cause, op, "all">> >>
Succeeded(op) == << <<"sql", op, "success">>, <<"events", op, "all">>,
                    <<"method", op, "success">>, <<"events", op, "all">> >>
Component(op, component) == << <<"component", op, component>> >>
CountedOnly(op) == << <<"errors", op, "all">> >>

(* What a phase logs: a list of loggers and levels. *)
Plain(level) == << <<"plain", level>> >>
Both(level)  == << <<"plain", level>>, <<"contextual", level>> >>

(* The places of x in a list, counted from its end, and their number. *)
Places(list, x) == {k \in 1..Len(list) : list[Len(list) + 1 - k] = x}
Count(list, x)  == Cardinality(Places(list, x))

Log(op, lines) ==
  logs' = [x \in Loggers \X Ops \X Levels |->
             logs[x] + IF x[2] = op THEN Count(lines, <<x[1], x[3]>>) ELSE 0]

Init ==
  /\ call = [c \in Callers |-> Idle]
  /\ counters = [s \in Series |-> 0]
  /\ lost = [s \in Series |-> 0]
  /\ instruments = {}
  /\ begun = [op \in Ops |-> 0]
  /\ spans = [x \in Ops \X SpanStatuses |-> 0]
  /\ codes = [x \in Ops \X SpanCodes |-> 0]
  /\ logs = [x \in Loggers \X Ops \X Levels |-> 0]
  /\ ended = [x \in Ops \X Results |-> 0]
  /\ crashed = FALSE

(* setupQueryInstrumentation, setupAppendInstrumentation: the span is      *)
(* started and the call is counted.  (Append of no events returns before.) *)
Begin(c, op) ==
  /\ call[c] = Idle /\ ~crashed
  /\ begun["query"] + begun["append"] < MaxCalls
  /\ begun' = [begun EXCEPT ![op] = @ + 1]
  /\ call' = [call EXCEPT ![c] =
       [op |-> op, phase |-> "build", todo |-> << <<"calls", op, "all">> >>,
        step |-> "lookup", span |-> "open", result |-> "none"]]
  /\ UNCHANGED <<counters, lost, instruments, spans, codes, logs, ended, crashed>>

(* A phase starts when everything before it has been recorded.  It logs    *)
(* its lines, leaves its own measurements to do, and, if the call ends     *)
(* here, the error type of the span and the result of the call.            *)
Phase(c, from, to, lines, todo, span, result) ==
  /\ call[c].phase = from /\ call[c].todo = << >>
  /\ call' = [call EXCEPT ![c].phase = to, ![c].todo = todo,
                          ![c].span = span, ![c].result = result]
  /\ Log(call[c].op, lines)
  /\ UNCHANGED <<counters, lost, instruments, begun, spans, codes, ended, crashed>>

(* Mutant: buildAppendQuery leaves it at what has been counted. *)
AppendBuildFailureCounted == CountedOnly("append")

(* buildInsertQueryFor... has logged and counted the error (without any    *)
(* duration) before buildAppendQuery logs and records it once more.        *)
AppendBuildFailure == CountedOnly("append") \o Failed("append")

QueryBuild(c) ==
  /\ Running(c) /\ call[c].op = "query"
  /\ \/ Phase(c, "build", "execution", << >>, Component("query", "query_build"), "open", "none")
     \/ Phase(c, "build", "end", Both("error"), Failed("query"), "build_query", "error")

AppendBuild(c) ==
  /\ Running(c) /\ call[c].op = "append"
  /\ \/ Phase(c, "build", "execution", << >>, Component("append", "query_build"), "open", "none")
     \/ Phase(c, "build", "end", Plain("error") \o Both("error"), AppendBuildFailure,
              "build_query", "error")

(* Mutant: an aborted Query is recorded as an error, too. *)
QueryExecutionFailureTwice(cause) ==
  Failed("query") \o (IF cause = "error" THEN << >> ELSE Stopped("query", cause))

(* What is recorded of a failed SELECT. *)
QueryExecutionFailure(cause) ==
  IF cause = "error" THEN Failed("query") ELSE Stopped("query", cause)

(* Append has recorded an error in executeAppendQuery before it asks for   *)
(* the cause.                                                              *)
AppendExecutionFailure(cause) ==
  Failed("append") \o (IF cause = "error" THEN << >> ELSE Stopped("append", cause))

(* Mutant: the span is given the status the metrics use. *)
FailureStatusOfMetrics(op, cause) ==
  IF cause = "error" THEN IF op = "query" THEN "database_query" ELSE "database_exec"
  ELSE cause

(* The span's error type for a failed statement. *)
FailureStatus(op, cause) ==
  CASE cause = "canceled" -> "cancelled"
    [] cause = "timeout"  -> "timeout"
    [] cause = "error"    -> IF op = "query" THEN "database_query" ELSE "database_exec"

(* executeQuery logs the statement, and its error if there is one. *)
QueryExecution(c) ==
  /\ Running(c) /\ call[c].op = "query"
  /\ \/ Phase(c, "execution", "completion", Both("debug"),
              Component("query", "sql_execution"), "open", "none")
     \/ \E cause \in {"canceled", "timeout", "error"} :
          Phase(c, "execution", "end", Both("debug") \o Both("error"),
                QueryExecutionFailure(cause), FailureStatus("query", cause), cause)

AppendExecution(c) ==
  /\ Running(c) /\ call[c].op = "append"
  /\ \/ Phase(c, "execution", "completion", Both("debug"),
              Component("append", "sql_execution"), "open", "none")
     \/ \E cause \in {"canceled", "timeout", "error"} :
          Phase(c, "execution", "end", Both("debug") \o Both("error"),
                AppendExecutionFailure(cause), FailureStatus("append", cause), cause)

(* Mutant: the error of a row reaches both loggers. *)
RowFailureInBoth == Both("error")

(* A row that cannot be scanned or built, and an error of the iteration,   *)
(* go to the plain logger only.                                            *)
RowFailure == Plain("error")

(* closeRows warns the plain logger if it fails. *)
CloseWarnings == {<< >>, Plain("warn")}

(* Query reads its rows and closes them.  An error in between may well be  *)
(* the end of the context; it is recorded as an error.                     *)
QueryProcessing(c) ==
  /\ Running(c) /\ call[c].op = "query"
  /\ \E warning \in CloseWarnings :
       \/ Phase(c, "completion", "end", Both("info") \o warning,
                Component("query", "result_processing") \o Succeeded("query"), "success", "nil")
       \/ \E cause \in {"canceled", "timeout", "error"} :
            Phase(c, "completion", "end", RowFailure \o warning,
                  Failed("query"), "scan_results", cause)

(* Mutant: a conflict is recorded as an error. *)
ConflictAsError == Failed("append")

(* What validateAppendResult records of a conflict. *)
Conflict == << <<"conflicts", "append", "all">> >>

(* Append compares the affected rows with its events. *)
AppendValidation(c) ==
  /\ Running(c) /\ call[c].op = "append"
  /\ \/ Phase(c, "completion", "end", Both("info"), Succeeded("append"), "success", "nil")
     \/ Phase(c, "completion", "end", Both("info"), Conflict, "concurrency_conflict", "conflict")

(* The observers finish a span as a success or, with the error type as an  *)
(* attribute, as an error.                                                 *)
SpanStatus(errorType) == IF errorType = "success" THEN "success" ELSE "error"

(* setSpanStatus of the OpenTelemetry adapter. *)
SpanCode(status) ==
  CASE status \in {"ok", "success", "completed"} -> "Ok"
    [] status \in {"error", "failed", "failure", "cancelled", "canceled", "timeout",
                   "conflict"} -> "Error"
    [] OTHER -> "Unset"

(* The tracer finishes the span and the call returns. *)
Finish(c) ==
  /\ Running(c) /\ call[c].phase = "end" /\ call[c].todo = << >>
  /\ spans' = [spans EXCEPT ![<<call[c].op, call[c].span>>] = @ + 1]
  /\ codes' = [codes EXCEPT ![<<call[c].op, SpanCode(SpanStatus(call[c].span))>>] = @ + 1]
  /\ ended' = [ended EXCEPT ![<<call[c].op, call[c].result>>] = @ + 1]
  /\ call' = [call EXCEPT ![c] = Idle]
  /\ UNCHANGED <<counters, lost, instruments, begun, logs, crashed>>

-----------------------------------------------------------------------------
(* getOrCreateHistogram, getOrCreateCounter and getOrCreateGauge look the  *)
(* instrument up in their map and, if it is not there, create it and put   *)
(* it there.  Two of them race if they are at the same map at the same     *)
(* time and one of them is about to write it.                              *)
NextMetric(c) == Metric(Head(call[c].todo))

Races(c, d) ==
  /\ c # d /\ Pending(c) /\ Pending(d)
  /\ MapOf(NextMetric(c)) = MapOf(NextMetric(d))
  /\ call[c].step = "insert"

(* The method returns, and the next measurement is due. *)
Return(c) == call' = [call EXCEPT ![c].todo = Tail(@), ![c].step = "lookup"]

(* The instrument takes the measurement. *)
Taken(c) ==
  /\ counters' = [counters EXCEPT ![Head(call[c].todo)] = @ + 1]
  /\ Return(c)

Lookup(c) ==
  /\ Running(c) /\ Pending(c) /\ call[c].step = "lookup"
  /\ IF NextMetric(c) \in instruments
     THEN Taken(c)
     ELSE /\ call' = [call EXCEPT ![c].step = "insert"]
          /\ UNCHANGED counters
  /\ UNCHANGED <<lost, instruments, begun, spans, codes, logs, ended, crashed>>

(* The meter creates the instrument, which takes the measurement whatever  *)
(* a race leaves in the map: that is undefined.                            *)
Insert(c) ==
  /\ Running(c) /\ Pending(c) /\ call[c].step = "insert"
  /\ \/ instruments' = instruments \cup {NextMetric(c)}
     \/ /\ \E d \in Callers : Races(c, d)
        /\ UNCHANGED instruments
  /\ Taken(c)
  /\ UNCHANGED <<lost, begun, spans, codes, logs, ended, crashed>>

(* The meter refuses: there is no instrument, nothing is put into the map, *)
(* and the caller returns without having recorded anything.                *)
Refuse(c) ==
  /\ Running(c) /\ Pending(c) /\ call[c].step = "insert"
  /\ NextMetric(c) \in Refusable
  /\ lost' = [lost EXCEPT ![Head(call[c].todo)] = @ + 1]
  /\ Return(c)
  /\ UNCHANGED <<counters, instruments, begun, spans, codes, logs, ended, crashed>>

(* The runtime notices a race ("concurrent map read and map write",        *)
(* "concurrent map writes") and ends the process.                          *)
Crash ==
  /\ ~crashed
  /\ \E c, d \in Callers : Races(c, d)
  /\ crashed' = TRUE
  /\ UNCHANGED <<call, counters, lost, instruments, begun, spans, codes, logs, ended>>

Next ==
  \/ \E c \in Callers :
       \/ \E op \in Ops : Begin(c, op)
       \/ QueryBuild(c) \/ QueryExecution(c) \/ QueryProcessing(c)
       \/ AppendBuild(c) \/ AppendExecution(c) \/ AppendValidation(c)
       \/ Finish(c)
       \/ Lookup(c)
       \/ Insert(c)
       \/ Refuse(c)
  \/ Crash

Spec == Init /\ [][Next]_vars

-----------------------------------------------------------------------------
TypeOK ==
  /\ call \in [Callers -> Call \cup {Idle}]
  /\ counters \in [Series -> Nat]
  /\ lost \in [Series -> Nat]
  /\ instruments \subseteq {Metric(s) : s \in Series}
  /\ begun \in [Ops -> Nat]
  /\ spans \in [Ops \X SpanStatuses -> Nat]
  /\ codes \in [Ops \X SpanCodes -> Nat]
  /\ logs \in [Loggers \X Ops \X Levels -> Nat]
  /\ ended \in [Ops \X Results -> Nat]
  /\ crashed \in BOOLEAN

Quiet == \A c \in Callers : call[c] = Idle

(* The measurements of a series that the calls have made: the ones that    *)
(* have arrived and the ones that were lost.                               *)
Made(s) == counters[s] + lost[s]

Measured(metric, op) == Made(<<metric, op, "all">>)
Durations(metric, op) ==
  Made(<<metric, op, "success">>) + Made(<<metric, op, "canceled">>)
  + Made(<<metric, op, "timeout">>) + Made(<<metric, op, "error">>)
Aborted(op) == Measured("canceled", op) + Measured("timeout", op)
ErrorsReturned(op) == ended[<<op, "error">>] + ended[<<op, "canceled">>] + ended[<<op, "timeout">>]

(* Whenever no call is under way, the durations account for the calls:     *)
(* each Query has one duration of the method and one of its SQL; an Append *)
(* has none if it met a conflict, and two if it was cancelled or timed out.*)
(* What is missing in the backend is lost to a meter that refused.         *)
CallsAreAccountedFor ==
  Quiet =>
    /\ \A op \in Ops, metric \in {"method", "sql"} :
         /\ Measured("calls", op) = begun[op]
         /\ Durations(metric, op) + Measured("conflicts", op)
              = begun[op] + (IF op = "append" THEN Aborted(op) ELSE 0)
    /\ \A s \in Series : lost[s] > 0 => Metric(s) \in Refusable

(* Whenever no call is under way, metrics and traces tell the same story   *)
(* but for what a meter refused, and the success of a call is never        *)
(* mistaken: the success durations, the successful spans and the calls     *)
(* that returned without an error are the same number, so are conflicts;   *)
(* a cancelled span is that of a call that returned its cancellation, and  *)
(* the errors, cancellations and timeouts counted of Query are the errors  *)
(* it returned, each of them once.                                         *)
SignalsAgree ==
  Quiet =>
    /\ \A op \in Ops :
         /\ Made(<<"method", op, "success">>) = spans[<<op, "success">>]
         /\ spans[<<op, "success">>] = ended[<<op, "nil">>]
         /\ codes[<<op, "Ok">>] = ended[<<op, "nil">>]
         /\ codes[<<op, "Error">>] = ended[<<op, "conflict">>] + ErrorsReturned(op)
         /\ Measured("conflicts", op) = spans[<<op, "concurrency_conflict">>]
         /\ spans[<<op, "concurrency_conflict">>] = ended[<<op, "conflict">>]
         /\ Measured("canceled", op) = spans[<<op, "cancelled">>]
         /\ spans[<<op, "cancelled">>] <= ended[<<op, "canceled">>]
         /\ Measured("timeout", op) = spans[<<op, "timeout">>]
         /\ spans[<<op, "timeout">>] <= ended[<<op, "timeout">>]
    /\ Measured("errors", "query") + Aborted("query") = ErrorsReturned("query")

(* Whenever no call is under way, the logs account for the calls, and the  *)
(* two loggers differ where the code makes them differ only: each executed *)
(* statement has a debug line and each success or conflict an info line in *)
(* both; each error that a call returned has an error line in the          *)
(* contextual log unless it came up while Query read its rows; the plain   *)
(* log has each of them once, and one more for a failure to build Append's *)
(* statement.                                                              *)
LogsAgree ==
  Quiet => \A op \in Ops :
    /\ \A logger \in Loggers :
         /\ logs[<<logger, op, "debug">>] + spans[<<op, "build_query">>] = begun[op]
         /\ logs[<<logger, op, "info">>] = ended[<<op, "nil">>] + ended[<<op, "conflict">>]
    /\ logs[<<"contextual", op, "error">>] + spans[<<op, "scan_results">>] = ErrorsReturned(op)
    /\ logs[<<"plain", op, "error">>] =
         ErrorsReturned(op) + (IF op = "append" THEN spans[<<op, "build_query">>] ELSE 0)

(* No interleaving of calls ends the process: "All operations are          *)
(* thread-safe" (docs/api-reference.md:748).                               *)
ThreadSafe == ~crashed

=============================================================================
