------------------------- MODULE SnapshotInvariants -------------------------
(***************************************************************************)
(* The inductive invariant behind the properties of SnapshotStore.         *)
(***************************************************************************)
EXTENDS SnapshotStore, EventStoreInvariants

(* How many transactions a read of the given level sees. *)
Position(level) == IF level = "eventual" /\ HasReplica THEN applied ELSE Len(wal)

(* s holds only events in the scope of f of the first n transactions, its  *)
(* number is that of the last one or 0, and below it s lacks no event but  *)
(* those that have committed late.                                         *)
Sound(f, s, n) ==
  /\ s.data \subseteq Stream(Scope(f), RowsOf(n))
  /\ s.number \in {0, LastSequence(s.data)}
  /\ \A r \in Stream(Scope(f), Committed) \ s.data :
       r.seq < s.number => CommittedLate(r, s.data)

WritesAreSound ==
  \A i \in 1..Len(writes), f \in Filters :
    (writes[i].key = Hash[f] /\ writes[i].value # NoSnapshot)
      => Sound(f, writes[i].value, writes[i].at)

WritesAreOrdered ==
  /\ \A i \in 1..Len(writes) : writes[i].at \in 0..Len(wal)
  /\ \A i \in 1..replayed : writes[i].at <= applied

ProjectionsAreSound ==
  \A p \in Projections : projections[p] # Idle =>
    Sound(projections[p].filter, projections[p],
          IF projections[p].phase = "loaded" THEN Position(projections[p].level) ELSE Len(wal))

SnapshotInv ==
  /\ SnapshotTypeOK
  /\ WritesAreSound
  /\ WritesAreOrdered
  /\ ProjectionsAreSound

-----------------------------------------------------------------------------
(* What the theorems assume of the constants: filters have different       *)
(* hashes.                                                                 *)
DistinctHashes == \A f, g \in Filters : Hash[f] = Hash[g] => f = g
=============================================================================
