--------------------------- MODULE MCObservability ---------------------------
(* Small instances of Observability for TLC. *)
EXTENDS ObservabilityInvariants, TLC

(* The counter of conflicts. *)
SomeMetrics == {<<"conflicts", "any">>}

Symmetric == Permutations(Callers)
=============================================================================
