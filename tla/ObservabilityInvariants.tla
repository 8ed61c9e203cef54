----------------------- MODULE ObservabilityInvariants -----------------------
(***************************************************************************)
(* What makes the laws of Observability hold at any time, also while calls *)
(* are under way: what a call has still to record, and the status its span *)
(* is going to be finished with, are added to what has been recorded.      *)
(***************************************************************************)
EXTENDS Observability

Todos == [c \in Callers |-> IF call[c] = Idle THEN << >> ELSE call[c].todo]

(* The measurements of a series that are still to come, each one a caller  *)
(* and a place in its list.                                                *)
Due(todos, s) == UNION {{c} \X Places(todos[c], s) : c \in Callers}
Total(metric, op, label) ==
  Made(<<metric, op, label>>) + Cardinality(Due(Todos, <<metric, op, label>>))

Logged(logger, op, level) == logs[<<logger, op, level>>]

(* The calls in given phases, and those whose outcome is decided. *)
In(op, phases) == {c \in Callers : call[c] # Idle /\ call[c].op = op /\ call[c].phase \in phases}
Ending(op, status) == {c \in In(op, {"end"}) : call[c].span = status}
Decided(op, status) == spans[<<op, status>>] + Cardinality(Ending(op, status))

Failures(op) == Decided(op, "build_query") + Decided(op, "database_query")
                + Decided(op, "database_exec") + Decided(op, "scan_results")
Aborts(op) == Decided(op, "cancelled") + Decided(op, "timeout")

(* Which statuses the span of a call can be finished with, and which       *)
(* results go with them.                                                   *)
Outcomes(op) ==
  {<<"success", "nil">>, <<"build_query", "error">>, <<"cancelled", "canceled">>,
   <<"timeout", "timeout">>}
  \cup IF op = "query"
       THEN {<<"database_query", "error">>} \cup {"scan_results"} \X {"canceled", "timeout", "error"}
       ELSE {<<"database_exec", "error">>, <<"concurrency_conflict", "conflict">>}

CallsAreInOrder ==
  \A c \in Callers : call[c] # Idle =>
    /\ call[c].phase # "end" => call[c].span = "open" /\ call[c].result = "none"
    /\ call[c].phase = "end" => <<call[c].span, call[c].result>> \in Outcomes(call[c].op)

(* Every measurement, lost or not, is caused by a call or by its outcome.  *)
(* That an Append which is cancelled or times out has an error as well is  *)
(* what the code does, and not what README.md:166 says of it ("Distinct    *)
(* tracking for cancellations vs timeouts vs regular errors").             *)
MeasurementsHaveCauses ==
  \A op \in Ops :
    /\ Total("calls", op, "all") = begun[op]
    /\ \A metric \in {"sql", "method"} :
         /\ Total(metric, op, "success") = Decided(op, "success")
         /\ Total(metric, op, "canceled") = Decided(op, "cancelled")
         /\ Total(metric, op, "timeout") = Decided(op, "timeout")
         /\ Total(metric, op, "error") =
              Failures(op) + (IF op = "append" THEN Aborts(op) ELSE 0)
    /\ Total("canceled", op, "all") = Decided(op, "cancelled")
    /\ Total("timeout", op, "all") = Decided(op, "timeout")
    /\ Total("conflicts", op, "all") = Decided(op, "concurrency_conflict")
    /\ Total("errors", op, "all") =
         Failures(op) + (IF op = "append" THEN Aborts(op) + Decided(op, "build_query") ELSE 0)

(* What is lost is lost to a meter that refused. *)
LossesHaveCauses == \A s \in Series : lost[s] > 0 => Metric(s) \in Refusable

(* Every line of a log is caused by an outcome, but for the debug lines,   *)
(* which are caused by statements.                                         *)
LinesHaveCauses ==
  \A op \in Ops :
    /\ \A logger \in Loggers :
         /\ Logged(logger, op, "debug") + Decided(op, "build_query")
              + Cardinality(In(op, {"build", "execution"})) = begun[op]
         /\ Logged(logger, op, "info") = Decided(op, "success") + Decided(op, "concurrency_conflict")
    /\ Logged("contextual", op, "error") + Decided(op, "scan_results") = Failures(op) + Aborts(op)
    /\ Logged("plain", op, "error") =
         Failures(op) + Aborts(op) + (IF op = "append" THEN Decided(op, "build_query") ELSE 0)

(* A call is undecided or has one of the outcomes of its operation. *)
CallsHaveOutcomes ==
  /\ \A op \in Ops :
       begun[op] = Cardinality(In(op, {"build", "execution", "completion"}))
                   + Decided(op, "success") + Decided(op, "concurrency_conflict")
                   + Failures(op) + Aborts(op)
  /\ \A status \in {"database_exec", "concurrency_conflict"} : Decided("query", status) = 0
  /\ \A status \in {"database_query", "scan_results"} : Decided("append", status) = 0

(* Spans, their codes and results are finished together. *)
SpansHaveResults ==
  \A op \in Ops :
    /\ spans[<<op, "success">>] = ended[<<op, "nil">>]
    /\ spans[<<op, "concurrency_conflict">>] = ended[<<op, "conflict">>]
    /\ spans[<<op, "cancelled">>] <= ended[<<op, "canceled">>]
    /\ spans[<<op, "timeout">>] <= ended[<<op, "timeout">>]
    /\ ErrorsReturned(op) =
         spans[<<op, "build_query">>] + spans[<<op, "database_query">>] + spans[<<op, "database_exec">>]
         + spans[<<op, "scan_results">>] + spans[<<op, "cancelled">>] + spans[<<op, "timeout">>]
    /\ codes[<<op, "Ok">>] = ended[<<op, "nil">>]
    /\ codes[<<op, "Error">>] = ended[<<op, "conflict">>] + ErrorsReturned(op)

(* All of it together is inductive. *)
AccountInv ==
  /\ CallsAreInOrder
  /\ MeasurementsHaveCauses
  /\ LossesHaveCauses
  /\ LinesHaveCauses
  /\ CallsHaveOutcomes
  /\ SpansHaveResults
=============================================================================
