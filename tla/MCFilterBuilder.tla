--------------------------- MODULE MCFilterBuilder ---------------------------
(* Small instances of FilterBuilder for TLC. *)
EXTENDS FilterInvariants

(* Types 1 and 2 in the wrong order, repeated and with empty strings. *)
SomeTypes == {<<Empty>>, <<2, 1, Empty, 2>>}
OneType   == {<<1>>, <<2>>}

(* Predicates in the wrong order, repeated, and one without a value. *)
SomePreds == {<<P(2, 1), P(1, 1), P(2, Empty), P(2, 1)>>}

SampleRows ==
  [type : {1, 2, 3}, payload : {{}, {P(1, 1)}, {P(1, 1), P(2, 1)}}, time : {1, 2, 3}, seq : {1, 2}]
=============================================================================
