---------------------------- MODULE EventStreams ----------------------------
(***************************************************************************)
(* What a filter selects from the events table, and the number that stands *)
(* for the state of the selected stream.  A row of the table is an event:  *)
(* its sequence_number (the BIGSERIAL primary key) and its kind, which     *)
(* stands for everything the item expressions of a filter look at (event   *)
(* type, payload predicates, occurred_at).                                 *)
(***************************************************************************)
EXTENDS Naturals, Sequences

CONSTANT Kinds

Row == [seq : Nat, kind : Kinds]

(* A filter: the kinds its items and time range accept, and the sequence   *)
(* number of WithSequenceNumberHigherThan (0: no such condition).          *)
Filter == [kinds : SUBSET Kinds, after : Nat]

(* The WHERE clause: item expressions AND sequence expressions. *)
Where(f, r) == r.kind \in f.kinds /\ r.seq > f.after

Stream(f, rows) == {r \in rows : Where(f, r)}

(* Append's subquery: COALESCE(MAX(sequence_number), 0). *)
CoalesceMax(rows) ==
  IF rows = {} THEN 0
  ELSE CHOOSE n \in {r.seq : r \in rows} : \A r \in rows : r.seq <= n

(* Mutant: the rows are scanned in descending order. *)
LastOfDescending(rows) ==
  IF rows = {} THEN 0
  ELSE (CHOOSE r \in rows : \A s \in rows : r.seq <= s.seq).seq

(* Query's result loop over ORDER BY sequence_number ASC: the number of    *)
(* the row scanned last, 0 if no row was scanned.                          *)
LastSequence(rows) ==
  IF rows = {} THEN 0
  ELSE (CHOOSE r \in rows : \A s \in rows : s.seq <= r.seq).seq

=============================================================================
