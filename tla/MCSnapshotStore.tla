--------------------------- MODULE MCSnapshotStore ---------------------------
(* Small instances of SnapshotStore for TLC. *)
EXTENDS SnapshotInvariants, TLC

CONSTANTS k1, k2, p1, p2

(* The second filter has a boundary of its own. *)
FilterAll  == [kinds |-> {k1, k2}, after |-> 0]
FilterFrom == [kinds |-> {k1, k2}, after |-> 1]

OneFilter  == {FilterAll}
BoundedFilter == {FilterFrom}
OneEvent   == {<<k1>>}

(* Distinct filters have distinct hashes. *)
OwnHash == [f \in Filters |-> f]

Symmetric == Permutations(Projections) \cup Permutations(Backends)
=============================================================================
