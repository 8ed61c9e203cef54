-------------------------- MODULE MCQueryExecution --------------------------
(* A small instance of QueryExecution for TLC. *)
EXTENDS QueryExecution

CONSTANTS k1, k2

AllKinds  == [kinds |-> {k1, k2}, after |-> 0]
OneFilter == {AllKinds}
Pairs     == {<<k2, k1>>}
=============================================================================
