---------------------------- MODULE MCEventStore ----------------------------
(* Small instances of EventStore for TLC. *)
EXTENDS EventStoreInvariants, TLC

CONSTANTS k1, k2

(* A consistency boundary of one kind of event, one of every kind, and one *)
(* reopened for the events after the first (ReopenForSequenceFiltering).   *)
OnlyK1   == [kinds |-> {k1}, after |-> 0]
AllKinds == [kinds |-> {k1, k2}, after |-> 0]
Reopened == [kinds |-> {k1, k2}, after |-> 1]

Overlapping == {OnlyK1, Reopened}
OneFilter   == {AllKinds}

Single      == {<<k1>>}
SomeBatches == {<< >>, <<k1>>, <<k2, k1>>}

Symmetry == Permutations(Clients) \cup Permutations(Backends)
=============================================================================
