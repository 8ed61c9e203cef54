---------------------------- MODULE SnapshotStore ----------------------------
(***************************************************************************)
(* Snapshots on top of the event store: the snapshots table with its       *)
(* conditional upsert, and projections that use it the way                 *)
(* docs/snapshots.md lays out: load the snapshot, query the events above   *)
(* its number, fold them, save the result with the number the query        *)
(* returned.                                                               *)
(*                                                                         *)
(* A projection type is a part of the key like the hash, and projections   *)
(* of different types never meet; there is one here.  The data of a        *)
(* snapshot is the set of events folded into it: an event that is folded a *)
(* second time leaves no trace in it, but only a snapshot whose number is  *)
(* below its last event (NumberIsLastProcessed) makes that happen.         *)
(***************************************************************************)
EXTENDS EventStore

CONSTANTS
  Projections,  \* goroutines that build the projection
  Hash,         \* the hash of each filter
  NoSnapshot,   \* the result of a load that finds no row
  MaxWrites     \* bound on the writes to the snapshots table

ASSUME HashAssumption   == DOMAIN Hash = Filters
ASSUME WritesAssumption == MaxWrites \in Nat

VARIABLES
  writes,      \* the writes to the snapshots table, in the order they committed
  replayed,    \* how many of them the replica has replayed
  projections  \* what each projection is doing

snapshotVars == <<writes, replayed, projections>>
allVars == <<vars, snapshotVars>>

-----------------------------------------------------------------------------
Snapshot == [number : Nat, data : SUBSET Row]

(* A write leaves a snapshot, or none, under its key.  It was committed    *)
(* after at transactions of wal.                                           *)
Write == [at : Nat, key : {Hash[f] : f \in Filters}, value : Snapshot \cup {NoSnapshot}]

Idle == [phase |-> "idle"]
Projection == [phase : {"loaded", "folded"}, filter : Filters, level : Levels,
               number : Nat, data : SUBSET Row]

(* The row under a key after the first n writes. *)
RowAfter(n, key) ==
  LET of == {i \in 1..n : writes[i].key = key}
  IN  IF of = {} THEN NoSnapshot
      ELSE writes[CHOOSE i \in of : \A j \in of : j <= i].value

Stored(key) == RowAfter(Len(writes), key)

SnapshotInit ==
  /\ Init
  /\ writes = << >>
  /\ replayed = 0
  /\ projections = [p \in Projections |-> Idle]

-----------------------------------------------------------------------------
(* Mutant: QueryRow is not routed by the consistency level. *)
LoadableFromPrimary(f, level) == RowAfter(Len(writes), Hash[f])

(* The row LoadSnapshot reads: QueryRow is routed like Query. *)
Loadable(f, level) ==
  RowAfter(IF level = "eventual" /\ HasReplica THEN replayed ELSE Len(writes), Hash[f])

LoadSnapshot(p, f, level) ==
  /\ projections[p] = Idle
  /\ LET found == Loadable(f, level)
     IN  projections' = [projections EXCEPT ![p] =
           [phase |-> "loaded", filter |-> f, level |-> level,
            number |-> IF found = NoSnapshot THEN 0 ELSE found.number,
            data   |-> IF found = NoSnapshot THEN {} ELSE found.data]]
  /\ UNCHANGED <<vars, writes, replayed>>

(* The filter of the incremental query: ReopenForSequenceFiltering and     *)
(* WithSequenceNumberHigherThan replace the number of the filter.          *)
Reopened(f, number) == [f EXCEPT !.after = number]

(* What a projection is about: a boundary that the filter had itself is    *)
(* replaced, so it is lost as soon as a projection starts from nothing.    *)
Scope(f) == Reopened(f, 0)

(* The projection queries the events above the number of its snapshot and  *)
(* folds them; it goes on with the number that Query returned.             *)
Fold(p) ==
  /\ projections[p] # Idle /\ projections[p].phase = "loaded"
  /\ LET proj   == projections[p]
         events == Stream(Reopened(proj.filter, proj.number), Source(proj.level))
     IN  projections' = [projections EXCEPT
           ![p].phase = "folded", ![p].data = @ \cup events,
           ![p].number = LastSequence(events)]
  /\ UNCHANGED <<vars, writes, replayed>>

(* Mutant: the number of the saved snapshot always wins. *)
UpsertedUnprotected(old, new) ==
  IF old = NoSnapshot THEN new
  ELSE [number |-> new.number,
        data   |-> IF new.number >= old.number THEN new.data ELSE old.data]

(* INSERT ... ON CONFLICT DO UPDATE: the greatest number, and the data of  *)
(* the new snapshot unless its number is lower.  PostgreSQL locks the row  *)
(* and evaluates this on its newest version, so the upsert is one step.    *)
Upserted(old, new) ==
  IF old = NoSnapshot THEN new
  ELSE [number |-> IF new.number > old.number THEN new.number ELSE old.number,
        data   |-> IF new.number >= old.number THEN new.data ELSE old.data]

(* A write that leaves the row as it is needs no entry. *)
WriteRow(key, value) ==
  /\ IF value = Stored(key)
     THEN UNCHANGED writes
     ELSE /\ Len(writes) < MaxWrites
          /\ writes' = Append(writes, [at |-> Len(wal), key |-> key, value |-> value])
  /\ UNCHANGED <<vars, replayed>>

SaveSnapshot(p) ==
  /\ projections[p] # Idle /\ projections[p].phase = "folded"
  /\ LET key == Hash[projections[p].filter]
     IN  WriteRow(key, Upserted(Stored(key), [number |-> projections[p].number,
                                              data   |-> projections[p].data]))
  /\ projections' = [projections EXCEPT ![p] = Idle]

(* The query or the save ends with an error, and so does the projection. *)
ProjectionFails(p) ==
  /\ projections[p] # Idle
  /\ projections' = [projections EXCEPT ![p] = Idle]
  /\ UNCHANGED <<vars, writes, replayed>>

(* Anybody resets the projection, whether there is a snapshot or not. *)
DeleteSnapshot(f) ==
  /\ WriteRow(Hash[f], NoSnapshot)
  /\ UNCHANGED projections

(* The replica replays both tables in the order of the commits.            *)
ReplicaReplay ==
  /\ HasReplica
  /\ replayed < Len(writes)
  /\ writes[replayed + 1].at <= applied
  /\ replayed' = replayed + 1
  /\ UNCHANGED <<vars, writes, projections>>

InCommitOrder == \A i \in replayed + 1..Len(writes) : writes[i].at >= applied'

EventStoreStep ==
  /\ Next
  /\ applied' # applied => InCommitOrder
  /\ UNCHANGED snapshotVars

SnapshotNext ==
  \/ EventStoreStep
  \/ \E p \in Projections :
       \/ \E f \in Filters, level \in Levels : LoadSnapshot(p, f, level)
       \/ Fold(p)
       \/ SaveSnapshot(p)
       \/ ProjectionFails(p)
  \/ \E f \in Filters : DeleteSnapshot(f)
  \/ ReplicaReplay

SnapshotSpec == SnapshotInit /\ [][SnapshotNext]_allVars

-----------------------------------------------------------------------------
SnapshotTypeOK ==
  /\ writes \in Seq(Write)
  /\ replayed \in 0..Len(writes)
  /\ projections \in [Projections -> Projection \cup {Idle}]

(* r was committed after an event of rows that is numbered above it: two   *)
(* INSERTs run at the same time draw their numbers in one order and commit *)
(* in the other.                                                           *)
CommittedLate(r, rows) ==
  \E i, j \in 1..Len(wal) :
    /\ i < j
    /\ r \in wal[j].rows
    /\ \E s \in wal[i].rows \cap rows : r.seq < s.seq

(* A stored snapshot with a number holds the events in the scope of its    *)
(* filter up to that number, whoever has saved over whom, and no others.   *)
(* Of the events that are in the table by now it lacks only such that have *)
(* committed late.                                                         *)
SnapshotsMissOnlyLate ==
  \A f \in Filters : \A i \in 1..Len(writes) :
    (writes[i].key = Hash[f] /\ writes[i].value # NoSnapshot /\ writes[i].value.number > 0) =>
      LET s == writes[i].value
      IN  /\ LastSequence(s.data) = s.number
          /\ s.data \subseteq Stream(Scope(f), RowsOf(writes[i].at))
          /\ \A r \in Stream(Scope(f), Committed) \ s.data :
               r.seq <= s.number => CommittedLate(r, s.data)

(* A projection that continues from a snapshot sees the same events as one *)
(* that starts from nothing on the same database, but for those that have  *)
(* committed late: "your projections work with or without snapshots"       *)
(* (docs/snapshots.md).  These are the events in the scope of the filter,  *)
(* whatever boundary it has of its own.                                    *)
ProjectionsMissOnlyLate ==
  [][\A p \in Projections : (projections[p] # projections'[p] /\ Fold(p)) =>
       LET stream == Stream(Scope(projections[p].filter), Source(projections[p].level))
           folded == projections'[p].data
       IN  /\ folded \subseteq stream
           /\ \A r \in stream \ folded : CommittedLate(r, folded)]_allVars

(* What becomes of the two where INSERTs run one at a time: a snapshot is  *)
(* exact, and a projection complete.                                       *)
SnapshotsAreExact ==
  \A f \in Filters : \A i \in 1..Len(writes) :
    (writes[i].key = Hash[f] /\ writes[i].value # NoSnapshot /\ writes[i].value.number > 0) =>
      /\ LastSequence(writes[i].value.data) = writes[i].value.number
      /\ writes[i].value.data =
           {r \in Stream(Scope(f), RowsOf(writes[i].at)) : r.seq <= writes[i].value.number}

ProjectionsAreComplete ==
  [][\A p \in Projections : (projections[p] # projections'[p] /\ Fold(p)) =>
       projections'[p].data =
         Stream(Scope(projections[p].filter), Source(projections[p].level))]_allVars

(* The number of a stored snapshot is the one of the last event in it      *)
(* ("Last processed event sequence number", eventstore/snapshot.go:38).    *)
NumberIsLastProcessed ==
  \A i \in 1..Len(writes) :
    writes[i].value # NoSnapshot =>
      writes[i].value.number = LastSequence(writes[i].value.data)

(* A stored snapshot only changes together with its number: "it will be    *)
(* updated only if the new sequence number is higher"                      *)
(* (eventstore/postgresengine/postgres.go:873).                            *)
UpdatedOnlyIfHigher ==
  [][\A f \in Filters :
       LET old == Stored(Hash[f])
           new == Stored(Hash[f])'
       IN  (old # NoSnapshot /\ new # NoSnapshot /\ new # old) => new.number > old.number]_allVars
=============================================================================
