------------------------- MODULE SnapshotStoreProofs -------------------------
(***************************************************************************)
(* Proofs about SnapshotStore: it changes nothing about the event store,   *)
(* and snapshots and projections miss only events that committed late, for *)
(* any number of sessions, projections, filters and resets, and with a     *)
(* replica that lags as it likes.  With one session nothing commits late:  *)
(* snapshots are exact and projections complete.                           *)
(***************************************************************************)
EXTENDS SnapshotInvariants, EventStoreSerialProofs

(* The snapshots table and the projections only read what the event store  *)
(* keeps: everything that holds of EventStore still holds.                 *)
LEMMA StepsOfEventStore == [SnapshotNext]_allVars => [Next]_vars
  BY DEF SnapshotNext, allVars, EventStoreStep, LoadSnapshot, Fold, SaveSnapshot,
         ProjectionFails, DeleteSnapshot, WriteRow, ReplicaReplay

THEOREM SnapshotsRefineEventStore == SnapshotSpec => Spec
<1>1. SnapshotInit => Init
  BY DEF SnapshotInit
<1> QED BY <1>1, StepsOfEventStore, PTL DEF SnapshotSpec, Spec

-----------------------------------------------------------------------------
LEMMA NotIdle == \A q \in Projection \cup {Idle} : q # Idle <=> q \in Projection
  BY DEF Projection, Idle

(* A read of the table finds what one of the writes has left.              *)
LEMMA RowIsWritten ==
  ASSUME SnapshotTypeOK, NEW n \in 0..Len(writes), NEW key, RowAfter(n, key) # NoSnapshot
  PROVE  /\ RowAfter(n, key) \in Snapshot
         /\ \E i \in 1..n : writes[i].key = key /\ writes[i].value = RowAfter(n, key)
<1> DEFINE of == {i \in 1..n : writes[i].key = key}
<1>1. of # {} /\ of \subseteq Nat /\ n \in Nat /\ \A i \in of : i <= n
  BY DEF RowAfter
<1>2. \E i \in of : \A j \in of : j <= i
  <2> HIDE DEF of
  <2> QED BY <1>1, BoundedMax
<1>3. PICK i \in of : RowAfter(n, key) = writes[i].value
  BY <1>1, <1>2 DEF RowAfter
<1>4. writes[i] \in Write
  BY DEF SnapshotTypeOK
<1> QED BY <1>3, <1>4 DEF Write

(* Numbers and events of a query are typed. *)
LEMMA EventsTyped ==
  ASSUME TypeOK, Numbered, NEW f, NEW level
  PROVE  /\ Stream(f, Source(level)) \subseteq Row
         /\ LastSequence(Stream(f, Source(level))) \in Nat
<1>1. Stream(f, Source(level)) \subseteq Committed /\ Committed \subseteq Row
  BY SourceTyped DEF Stream
<1>2. Bounded(Stream(f, Source(level)), nextSeq)
  BY <1>1 DEF Bounded, Numbered, Drawn, Row, TypeOK
<1> QED BY <1>1, <1>2, LastIsNat

(* Where a write is added, the ones before it stay. *)
LEMMA WriteRowAdds ==
  ASSUME SnapshotTypeOK, NEW f \in Filters, NEW value \in Snapshot \cup {NoSnapshot},
         Len(wal) \in Nat, WriteRow(Hash[f], value)
  PROVE  /\ writes' \in Seq(Write) /\ replayed' \in 0..Len(writes')
         /\ Len(writes) \in Nat
         /\ \A i \in 1..Len(writes) : writes'[i] = writes[i]
         /\ Len(writes') = Len(writes) \/
              /\ Len(writes') = Len(writes) + 1
              /\ writes'[Len(writes')] = [at |-> Len(wal), key |-> Hash[f], value |-> value]
<1> DEFINE w == [at |-> Len(wal), key |-> Hash[f], value |-> value]
<1>1. writes \in Seq(Write) /\ replayed \in 0..Len(writes) /\ replayed' = replayed
  BY DEF SnapshotTypeOK, WriteRow
<1>2. CASE writes' = writes
  BY <1>1, <1>2
<1>3. CASE writes' = Append(writes, w)
  <2>1. w \in Write
    BY DEF Write
  <2> HIDE DEF w
  <2>2. /\ writes' \in Seq(Write) /\ Len(writes') = Len(writes) + 1 /\ Len(writes) \in Nat
        /\ \A i \in 1..Len(writes) : writes'[i] = writes[i]
        /\ writes'[Len(writes')] = w
    BY <1>1, <1>3, <2>1
  <2> QED BY <1>1, <2>2 DEF w
<1> QED BY <1>2, <1>3 DEF WriteRow

LEMMA SnapshotTypeStep ==
  ASSUME TypeOK, Numbered, SnapshotTypeOK, [SnapshotNext]_allVars
  PROVE  SnapshotTypeOK'
<1>0. Len(wal) \in Nat /\ Len(writes) \in Nat /\ \A p \in Projections : projections[p] # Idle => projections[p] \in Projection
  BY NotIdle DEF TypeOK, SnapshotTypeOK
<1>1. ASSUME NEW p \in Projections, NEW f \in Filters, NEW level \in Levels, LoadSnapshot(p, f, level)
      PROVE  SnapshotTypeOK'
  <2> DEFINE found == Loadable(f, level)
  <2>1. found # NoSnapshot => found \in Snapshot
    BY RowIsWritten DEF Loadable, SnapshotTypeOK
  <2>2. projections'[p] \in Projection
    BY <1>1, <2>1 DEF LoadSnapshot, SnapshotTypeOK, Projection, Snapshot
  <2> QED BY <1>1, <2>2 DEF LoadSnapshot, SnapshotTypeOK
<1>2. ASSUME NEW p \in Projections, Fold(p) PROVE SnapshotTypeOK'
  <2> DEFINE events == Stream(Reopened(projections[p].filter, projections[p].number),
                              Source(projections[p].level))
  <2>1. projections[p] \in Projection /\ events \subseteq Row /\ LastSequence(events) \in Nat
    BY <1>0, <1>2, EventsTyped DEF Fold
  <2> HIDE DEF events
  <2>2. projections' = [projections EXCEPT ![p].phase = "folded", ![p].data = @ \cup events,
                                           ![p].number = LastSequence(events)]
    BY <1>2 DEF Fold, events
  <2>3. projections'[p] \in Projection
    BY <2>1, <2>2 DEF SnapshotTypeOK, Projection
  <2> QED BY <1>2, <2>2, <2>3 DEF Fold, SnapshotTypeOK
<1>3. ASSUME NEW p \in Projections, SaveSnapshot(p) PROVE SnapshotTypeOK'
  <2> DEFINE f == projections[p].filter
             new == [number |-> projections[p].number, data |-> projections[p].data]
  <2>1. f \in Filters /\ new \in Snapshot
    BY <1>0, <1>3 DEF SaveSnapshot, Projection, Snapshot
  <2>2. Stored(Hash[f]) # NoSnapshot => Stored(Hash[f]) \in Snapshot
    BY <1>0, RowIsWritten DEF Stored
  <2>3. Upserted(Stored(Hash[f]), new) \in Snapshot
    BY <2>1, <2>2 DEF Upserted, Snapshot
  <2>4. WriteRow(Hash[f], Upserted(Stored(Hash[f]), new))
    BY <1>3 DEF SaveSnapshot
  <2> HIDE DEF f, new
  <2>5. writes' \in Seq(Write) /\ replayed' \in 0..Len(writes')
    BY <1>0, <2>1, <2>3, <2>4, WriteRowAdds
  <2> QED BY <1>3, <2>5 DEF SaveSnapshot, SnapshotTypeOK
<1>4. ASSUME NEW p \in Projections, ProjectionFails(p) PROVE SnapshotTypeOK'
  BY <1>4 DEF ProjectionFails, SnapshotTypeOK
<1>5. ASSUME NEW f \in Filters, DeleteSnapshot(f) PROVE SnapshotTypeOK'
  <2>1. writes' \in Seq(Write) /\ replayed' \in 0..Len(writes')
    BY <1>0, <1>5, WriteRowAdds DEF DeleteSnapshot
  <2> QED BY <1>5, <2>1 DEF DeleteSnapshot, SnapshotTypeOK
<1>6. ASSUME ReplicaReplay PROVE SnapshotTypeOK'
  BY <1>0, <1>6 DEF ReplicaReplay, SnapshotTypeOK
<1>7. ASSUME snapshotVars' = snapshotVars PROVE SnapshotTypeOK'
  BY <1>7 DEF snapshotVars, SnapshotTypeOK
<1> QED BY <1>1, <1>2, <1>3, <1>4, <1>5, <1>6, <1>7 DEF SnapshotNext, EventStoreStep, allVars

LEMMA SnapshotTypeInit == SnapshotInit => SnapshotTypeOK
  BY DEF SnapshotInit, SnapshotTypeOK

(* The snapshots table and the projections have their types in every       *)
(* behaviour.                                                              *)
THEOREM SnapshotTypeCorrect == SnapshotSpec => []SnapshotTypeOK
<1>1. GuardInv /\ SnapshotTypeOK /\ [SnapshotNext]_allVars => SnapshotTypeOK'
  BY SnapshotTypeStep DEF GuardInv
<1> QED BY <1>1, SnapshotTypeInit, SnapshotsRefineEventStore, GuardInvariant, PTL DEF SnapshotSpec

-----------------------------------------------------------------------------
(* The greatest number of a stream is not ambiguous. *)
LEMMA GreatestIsLast ==
  ASSUME NEW rows, NEW n, Bounded(rows, n), NEW r \in rows, \A s \in rows : s.seq <= r.seq
  PROVE  LastSequence(rows) = r.seq
<1>1. PICK s \in rows : s.seq = LastSequence(rows)
  BY LastIsGreatest
<1>2. r.seq <= s.seq
  BY <1>1, LastIsGreatest
<1> QED BY <1>1, <1>2 DEF Bounded

(* The streams of the first m transactions are numbered from 1 on, and a   *)
(* number stands for one row.                                              *)
LEMMA StreamNumbered ==
  ASSUME GuardInv, NEW f
  PROVE  /\ \A m \in 0..Len(wal) : RowsOf(m) \subseteq Committed
         /\ \A D : D \subseteq Committed => Bounded(D, nextSeq)
         /\ \A r \in Committed : r.seq \in Nat /\ r.seq > 0
         /\ \A r, s \in Committed : r.seq = s.seq => r = s
<1>1. Len(wal) \in Nat /\ Committed \subseteq Row /\ nextSeq \in Nat
  <2>1. TypeOK
    BY DEF GuardInv
  <2>2. Len(wal) \in Nat /\ nextSeq \in Nat
    BY <2>1 DEF TypeOK
  <2> QED BY <2>1, <2>2, RowsOfTyped DEF Committed
<1>2. \A m \in 0..Len(wal) : RowsOf(m) \subseteq Committed
  BY <1>1, RowsOfMonotone DEF Committed
<1>3. /\ \A r \in Committed : r.seq \in Nat /\ r.seq > 0 /\ r.seq < nextSeq
      /\ \A r, s \in Committed : r.seq = s.seq => r = s
  BY <1>1 DEF GuardInv, Numbered, Drawn, Row
<1> QED BY <1>1, <1>2, <1>3 DEF Bounded

(* Who is late for some rows is late for more rows, and stays it. *)
LEMMA LateStays ==
  ASSUME TypeOK, [Next]_vars, NEW r, NEW rows, CommittedLate(r, rows)
  PROVE  CommittedLate(r, rows)'
<1>1. /\ Len(wal) \in Nat /\ Len(wal') \in Nat /\ Len(wal) <= Len(wal')
      /\ \A i \in 1..Len(wal) : wal'[i] = wal[i]
  BY WalPrefix
<1>2. PICK i, j \in 1..Len(wal) :
        i < j /\ r \in wal[j].rows /\ \E s \in wal[i].rows \cap rows : r.seq < s.seq
  BY DEF CommittedLate
<1>3. i \in 1..Len(wal') /\ j \in 1..Len(wal') /\ wal'[i] = wal[i] /\ wal'[j] = wal[j]
  BY <1>1, <1>2
<1> QED BY <1>2, <1>3 DEF CommittedLate

LEMMA LateForMore ==
  ASSUME NEW r, NEW rows, NEW more, rows \subseteq more, CommittedLate(r, rows)
  PROVE  CommittedLate(r, more)
  BY DEF CommittedLate

(* A row that is not in the first m transactions is late for a row of them *)
(* that is numbered above it.                                              *)
LEMMA LateAfter ==
  ASSUME TypeOK, NEW m \in 0..Len(wal), NEW r \in Committed, r \notin RowsOf(m),
         NEW rows, NEW s \in rows, s \in RowsOf(m), r.seq < s.seq
  PROVE  CommittedLate(r, rows)
<1>1. PICK i \in 1..m : s \in wal[i].rows
  BY DEF RowsOf
<1>2. PICK j \in 1..Len(wal) : r \in wal[j].rows
  BY DEF Committed, RowsOf
<1>3. j \notin 1..m
  BY <1>2 DEF RowsOf
<1>4. i \in 1..Len(wal) /\ i < j
  BY <1>3 DEF TypeOK
<1> QED BY <1>1, <1>2, <1>4 DEF CommittedLate

(* What the incremental query reads of the stream in the scope of f. *)
LEMMA ReopenedSelects ==
  ASSUME GuardInv, NEW f \in Filters, NEW n, NEW m \in 0..Len(wal)
  PROVE  Stream(Reopened(f, n), RowsOf(m)) = {r \in Stream(Scope(f), RowsOf(m)) : r.seq > n}
<1>1. \A r \in RowsOf(m) : r.seq > 0
  BY StreamNumbered
<1>2. f \in Filter
  BY FiltersAssumption
<1>3. /\ Reopened(f, n).kinds = f.kinds /\ Reopened(f, n).after = n
      /\ Scope(f).kinds = f.kinds /\ Scope(f).after = 0
  BY <1>2 DEF Reopened, Scope, Filter
<1>4. \A r \in RowsOf(m) : Where(Reopened(f, n), r) <=> Where(Scope(f), r) /\ r.seq > n
  BY <1>1, <1>3 DEF Where
<1> QED BY <1>4 DEF Stream

(* The heart of incremental projections: what a sound snapshot lacks of    *)
(* the stream when the events above its number are added was late for it,  *)
(* and the number of these events fits the result.                         *)
LEMMA FoldIsSound ==
  ASSUME GuardInv, NEW f \in Filters, NEW s, NEW m \in 0..Len(wal), Sound(f, s, m),
         NEW new, new.data = s.data \cup Stream(Reopened(f, s.number), RowsOf(m)),
         new.number = LastSequence(Stream(Reopened(f, s.number), RowsOf(m)))
  PROVE  /\ Sound(f, new, m)
         /\ \A r \in Stream(Scope(f), RowsOf(m)) \ new.data : CommittedLate(r, new.data)
<1> DEFINE T == Stream(Scope(f), RowsOf(m))
           D == s.data
           E == {r \in T : r.seq > s.number}
<1>1. /\ RowsOf(m) \subseteq Committed /\ TypeOK
      /\ \A X : X \subseteq Committed => Bounded(X, nextSeq)
      /\ \A r \in Committed : r.seq \in Nat /\ r.seq > 0
      /\ \A r, q \in Committed : r.seq = q.seq => r = q
  BY StreamNumbered DEF GuardInv
<1>2. new.data = D \cup E /\ new.number = LastSequence(E)
  BY ReopenedSelects
<1>3. D \subseteq T /\ E \subseteq T /\ T \subseteq RowsOf(m) /\ T \subseteq Committed
  BY <1>1 DEF Sound, Stream
<1>4. s.number = 0 \/ \E d \in D : d.seq = s.number /\ \A r \in D : r.seq <= s.number
  <2>1. CASE D = {}
    BY <2>1, LastOfEmpty DEF Sound
  <2>2. CASE D # {}
    BY <1>1, <1>3, <2>2, LastIsGreatest DEF Sound
  <2> QED BY <2>1, <2>2
<1>5. s.number \in Nat
  BY <1>1, <1>3, <1>4
<1>6. ASSUME NEW r \in Stream(Scope(f), Committed), r \notin D, ~(r.seq > s.number)
      PROVE  CommittedLate(r, new.data)
  <2>1. r \in Committed /\ r.seq \in Nat /\ r.seq > 0
    BY <1>1 DEF Stream
  <2>2. r.seq # s.number
    BY <1>1, <1>3, <1>4, <1>6, <2>1
  <2>3. CommittedLate(r, D)
    BY <1>5, <1>6, <2>1, <2>2 DEF Sound
  <2> QED BY <1>2, <2>3, LateForMore
<1>7. ASSUME NEW r \in Stream(Scope(f), Committed), r \notin D, r.seq > s.number,
             r \notin E, r.seq < new.number
      PROVE  CommittedLate(r, new.data)
  <2>1. r \in Committed /\ r.seq \in Nat /\ r \notin RowsOf(m)
    BY <1>1, <1>7 DEF Stream
  <2>2. E # {} /\ Bounded(E, nextSeq)
    <3>1. E = {} => new.number = 0
      BY <1>2, LastOfEmpty
    <3> HIDE DEF E
    <3> QED BY <1>1, <1>3, <1>7, <2>1, <3>1
  <2>3. PICK e \in E : e.seq = new.number
    BY <1>2, <2>2, LastIsGreatest
  <2>4. e \in new.data /\ e \in RowsOf(m) /\ r.seq < e.seq
    BY <1>2, <1>3, <1>7, <2>3
  <2> QED BY <1>1, <2>1, <2>4, LateAfter
<1>8. new.number \in {0, LastSequence(new.data)}
  <2>1. CASE E = {}
    BY <1>2, <2>1, LastOfEmpty
  <2>2. CASE E # {}
    <3>0. Bounded(E, nextSeq)
      BY <1>1, <1>3
    <3>1. PICK e \in E : e.seq = LastSequence(E) /\ \A r \in E : r.seq <= e.seq
      <4> HIDE DEF E
      <4>1. PICK e \in E : e.seq = LastSequence(E)
        BY <2>2, <3>0, LastIsGreatest
      <4> QED BY <2>2, <3>0, <4>1, LastIsGreatest
    <3>2. e.seq \in Nat /\ s.number < e.seq
      BY <1>1, <1>3, <1>5, <3>1
    <3>3. ASSUME NEW r \in D PROVE r.seq <= e.seq
      <4>1. r.seq \in Nat /\ (r.seq <= s.number \/ r \in E)
        BY <1>1, <1>3, <1>4
      <4> QED BY <1>5, <3>1, <3>2, <4>1
    <3>4. \A r \in new.data : r.seq <= e.seq
      BY <1>2, <3>1, <3>3
    <3>5. Bounded(new.data, nextSeq) /\ e \in new.data
      BY <1>1, <1>2, <1>3
    <3>6. LastSequence(new.data) = e.seq
      BY <3>4, <3>5, GreatestIsLast
    <3> QED BY <1>2, <3>1, <3>6
  <2> QED BY <2>1, <2>2
<1>9. new.data \subseteq T
  BY <1>2, <1>3
<1>10. \A r \in T \ new.data : CommittedLate(r, new.data)
  <2> TAKE r \in T \ new.data
  <2>1. r \in Stream(Scope(f), Committed) /\ r \notin D /\ ~(r.seq > s.number)
    BY <1>1, <1>2 DEF Stream
  <2> QED BY <1>6, <2>1
<1>11. \A r \in Stream(Scope(f), Committed) \ new.data :
         r.seq < new.number => CommittedLate(r, new.data)
  BY <1>2, <1>6, <1>7
<1> QED BY <1>8, <1>9, <1>10, <1>11 DEF Sound

-----------------------------------------------------------------------------
(* A step of the event store leaves sound what is sound: a row that it     *)
(* commits below the number of a snapshot is late for it.  And a read      *)
(* never sees fewer transactions than a read before it.                    *)
LEMMA SoundKept ==
  ASSUME GuardInv, [Next]_vars
  PROVE  /\ Len(wal) \in Nat /\ Len(wal') \in Nat /\ Len(wal) <= Len(wal')
         /\ applied \in 0..Len(wal) /\ applied' \in Nat /\ applied <= applied'
         /\ \A level : /\ Position(level) \in 0..Len(wal)
                       /\ Position(level)' \in Nat /\ Position(level) <= Position(level)'
         /\ \A f, s : \A n \in 0..Len(wal) : Sound(f, s, n) => Sound(f, s, n)'
<1>1. /\ Len(wal) \in Nat /\ Len(wal') \in Nat /\ Len(wal) <= Len(wal') /\ TypeOK
      /\ \A i \in 1..Len(wal) : wal'[i] = wal[i]
      /\ \A n \in 0..Len(wal) : RowsOf(n)' = RowsOf(n)
  BY WalPrefix DEF GuardInv
<1>2. applied \in 0..Len(wal) /\ applied' \in Nat /\ applied <= applied'
  <2>1. applied' = applied \/ applied' = applied + 1
    BY DEF vars, Next, ClientStep, ServerStep, Query, QueryFails, AppendCall, Execute,
           InsertRow, Commit, Abort, Return, Cancel, Reap, ReplicaApply
  <2>2. applied \in 0..Len(wal)
    BY <1>1 DEF TypeOK
  <2> QED BY <1>1, <2>1, <2>2
<1>3. \A level : /\ Position(level) \in 0..Len(wal)
                 /\ Position(level)' \in Nat /\ Position(level) <= Position(level)'
  BY <1>1, <1>2 DEF Position
<1>4. ASSUME NEW f, NEW s, NEW n \in 0..Len(wal), Sound(f, s, n)
      PROVE  Sound(f, s, n)'
  <2>1. Stream(Scope(f), RowsOf(n))' = Stream(Scope(f), RowsOf(n))
    BY <1>1 DEF Stream
  <2>2. ASSUME NEW r \in Stream(Scope(f), Committed)', r \notin s.data, r.seq < s.number
        PROVE  CommittedLate(r, s.data)'
    <3>1. CASE r \in Committed
      <4>1. CommittedLate(r, s.data)
        BY <1>4, <2>2, <3>1 DEF Sound, Stream
      <4> QED BY <1>1, <4>1, LateStays
    <3>2. CASE r \notin Committed
      <4>1. TypeOK' /\ Numbered'
        BY GuardStep DEF GuardInv
      <4>2. PICK j \in 1..Len(wal') : r \in wal'[j].rows
        BY <2>2 DEF Stream, Committed, RowsOf
      <4>3. j \notin 1..Len(wal)
        BY <1>1, <3>2, <4>2 DEF Committed, RowsOf
      <4>4. r.seq \in Nat /\ r.seq > 0
        <5>1. r \in Row
          <6>1. wal'[j] \in Transaction
            BY <4>1, <4>2 DEF TypeOK
          <6> QED BY <4>2, <6>1 DEF Transaction
        <5>2. r \in Drawn'
          BY <2>2 DEF Stream, Drawn
        <5> QED BY <4>1, <5>1, <5>2 DEF Numbered, Row
      <4>5. s.number # 0
        BY <2>2, <4>4
      <4>6. s.data # {}
        BY <1>4, <4>5, LastOfEmpty DEF Sound
      <4>7. Bounded(s.data, nextSeq)
        BY <1>4, StreamNumbered DEF Sound, Stream
      <4>8. PICK d \in s.data : d.seq = s.number
        BY <1>4, <4>5, <4>6, <4>7, LastIsGreatest DEF Sound
      <4>9. PICK i \in 1..n : d \in wal[i].rows
        BY <1>4, <4>8 DEF Sound, Stream, RowsOf
      <4>10. i \in 1..Len(wal) /\ j \in 1..Len(wal') /\ j \notin 1..Len(wal)
        BY <4>2, <4>3, <4>9
      <4>11. i \in 1..Len(wal') /\ i < j
        BY <1>1, <4>10
      <4>12. d \in wal'[i].rows /\ r.seq < d.seq
        BY <1>1, <2>2, <4>8, <4>9, <4>10
      <4> QED BY <4>2, <4>8, <4>11, <4>12 DEF CommittedLate
    <3> QED BY <3>1, <3>2
  <2> QED BY <1>4, <2>1, <2>2 DEF Sound
<1> QED BY <1>1, <1>2, <1>3, <1>4

LEMMA SoundWidens ==
  ASSUME NEW f, NEW s, NEW n \in Nat, NEW m \in Nat, n <= m, Sound(f, s, n)
  PROVE  Sound(f, s, m)
  BY RowsOfMonotone DEF Sound, Stream

LEMMA SnapshotInvInit == SnapshotInit => SnapshotInv
<1> SUFFICES ASSUME SnapshotInit PROVE SnapshotInv
  OBVIOUS
<1> QED BY SnapshotTypeInit DEF SnapshotInit, SnapshotInv, WritesAreSound, WritesAreOrdered,
           ProjectionsAreSound

(* A read of the table on the primary or the replica finds something sound *)
(* as of what a query of the same level sees.                              *)
LEMMA LoadedIsSound ==
  ASSUME TypeOK, SnapshotInv, NEW f \in Filters, NEW level, Loadable(f, level) # NoSnapshot
  PROVE  Sound(f, Loadable(f, level), Position(level))
<1> DEFINE n == IF level = "eventual" /\ HasReplica THEN replayed ELSE Len(writes)
           found == RowAfter(n, Hash[f])
<1>1. n \in 0..Len(writes) /\ found # NoSnapshot /\ found = Loadable(f, level)
  BY DEF SnapshotInv, SnapshotTypeOK, Loadable
<1>2. PICK i \in 1..n : writes[i].key = Hash[f] /\ writes[i].value = found
  <2> HIDE DEF n
  <2> QED BY <1>1, RowIsWritten DEF SnapshotInv
<1>3. i \in 1..Len(writes) /\ writes[i].at \in 0..Len(wal)
  BY <1>1, <1>2 DEF SnapshotInv, WritesAreOrdered
<1>4. Sound(f, found, writes[i].at)
  BY <1>1, <1>2, <1>3 DEF SnapshotInv, WritesAreSound
<1>5. writes[i].at <= Position(level) /\ Position(level) \in Nat /\ writes[i].at \in Nat
  BY <1>2, <1>3 DEF SnapshotInv, WritesAreOrdered, Position, TypeOK
<1> QED BY <1>1, <1>4, <1>5, SoundWidens

(* Writing something sound, or nothing, keeps the table sound. *)
LEMMA WriteKeepsSound ==
  ASSUME DistinctHashes, TypeOK, SnapshotInv, UNCHANGED vars, NEW f \in Filters,
         NEW value \in Snapshot \cup {NoSnapshot}, WriteRow(Hash[f], value),
         value # NoSnapshot => Sound(f, value, Len(wal))
  PROVE  WritesAreSound' /\ WritesAreOrdered'
<1>0. Len(wal) \in Nat /\ wal' = wal /\ applied' = applied /\ applied \in 0..Len(wal)
  BY DEF vars, TypeOK
<1>1. /\ replayed' = replayed /\ replayed \in 0..Len(writes) /\ Len(writes) \in Nat
      /\ \A i \in 1..Len(writes) : writes'[i] = writes[i]
      /\ Len(writes') = Len(writes) \/
           /\ Len(writes') = Len(writes) + 1
           /\ writes'[Len(writes')] = [at |-> Len(wal), key |-> Hash[f], value |-> value]
  BY <1>0, WriteRowAdds DEF SnapshotInv, SnapshotTypeOK, WriteRow
<1>2. \A g, s, n : Sound(g, s, n)' <=> Sound(g, s, n)
  BY DEF vars, Sound, RowsOf, Stream, Committed, CommittedLate
<1>3. WritesAreSound'
  <2> SUFFICES ASSUME NEW i \in 1..Len(writes'), NEW g \in Filters,
                      writes'[i].key = Hash[g], writes'[i].value # NoSnapshot
               PROVE  Sound(g, writes'[i].value, writes'[i].at)
    BY <1>2 DEF WritesAreSound
  <2>1. CASE i \in 1..Len(writes)
    BY <1>1, <2>1 DEF SnapshotInv, WritesAreSound
  <2>2. CASE i \notin 1..Len(writes)
    <3>1. writes'[i] = [at |-> Len(wal), key |-> Hash[f], value |-> value]
      BY <1>1, <2>2
    <3>2. g = f
      BY <3>1 DEF DistinctHashes
    <3> QED BY <3>1, <3>2
  <2> QED BY <2>1, <2>2
<1>4. WritesAreOrdered'
  <2>1. \A i \in 1..Len(writes') : writes'[i].at \in 0..Len(wal)
    <3> TAKE i \in 1..Len(writes')
    <3>1. CASE i \in 1..Len(writes)
      BY <1>1, <3>1 DEF SnapshotInv, WritesAreOrdered
    <3>2. CASE i \notin 1..Len(writes)
      BY <1>0, <1>1, <3>2
    <3> QED BY <3>1, <3>2
  <2> QED BY <1>0, <1>1, <2>1 DEF SnapshotInv, WritesAreOrdered
<1> QED BY <1>3, <1>4

(* Every write to the table leaves it, and every read of it or of the      *)
(* events leaves a projection, with something sound.                       *)
LEMMA SnapshotInvStep ==
  ASSUME DistinctHashes, GuardInv, SnapshotInv, [SnapshotNext]_allVars
  PROVE  SnapshotInv'
<1> DEFINE Rest == WritesAreSound' /\ WritesAreOrdered' /\ ProjectionsAreSound'
           HorizonOf(q) == IF q.phase = "loaded" THEN Position(q.level) ELSE Len(wal)
<1>0. /\ TypeOK /\ Numbered /\ SnapshotTypeOK /\ Len(wal) \in Nat /\ Len(writes) \in Nat
      /\ applied \in 0..Len(wal)
      /\ \A p \in Projections : projections[p] # Idle => projections[p] \in Projection
  BY NotIdle DEF GuardInv, SnapshotInv, SnapshotTypeOK, TypeOK
<1>1. SnapshotTypeOK'
  BY <1>0, SnapshotTypeStep
(* What the steps that leave the event store alone have in common. *)
<1>2. ASSUME UNCHANGED vars
      PROVE  /\ \A level : Position(level)' = Position(level)
             /\ \A f, s, n : Sound(f, s, n)' <=> Sound(f, s, n)
             /\ Len(wal') = Len(wal) /\ applied' = applied
  BY <1>2 DEF vars, Position, Sound, RowsOf, Stream, Committed, CommittedLate
<1>3. ASSUME UNCHANGED vars, UNCHANGED <<writes, replayed>>
      PROVE  WritesAreSound' /\ WritesAreOrdered'
  BY <1>2, <1>3 DEF SnapshotInv, WritesAreSound, WritesAreOrdered
<1>4. ASSUME UNCHANGED vars, NEW p \in Projections,
             projections' = [projections EXCEPT ![p] = projections'[p]],
             projections'[p] # Idle =>
               Sound(projections'[p].filter, projections'[p], HorizonOf(projections'[p]))
      PROVE  ProjectionsAreSound'
  <2> SUFFICES ASSUME NEW q \in Projections, projections'[q] # Idle
               PROVE  Sound(projections'[q].filter, projections'[q], HorizonOf(projections'[q]))
    BY <1>2, <1>4 DEF ProjectionsAreSound, Idle
  <2>1. q # p => projections'[q] = projections[q]
    BY <1>0, <1>4 DEF SnapshotTypeOK
  <2> QED BY <1>4, <2>1 DEF SnapshotInv, ProjectionsAreSound
<1>5. ASSUME NEW p \in Projections, NEW f \in Filters, NEW level \in Levels, LoadSnapshot(p, f, level)
      PROVE  Rest
  <2> DEFINE found == Loadable(f, level)
             loaded == [phase |-> "loaded", filter |-> f, level |-> level,
                        number |-> IF found = NoSnapshot THEN 0 ELSE found.number,
                        data   |-> IF found = NoSnapshot THEN {} ELSE found.data]
  <2>1. projections' = [projections EXCEPT ![p] = loaded]
    BY <1>5 DEF LoadSnapshot
  <2>2. Sound(f, loaded, Position(level))
    <3>1. CASE found = NoSnapshot
      <4>1. loaded.data = {} /\ loaded.number = 0
        BY <3>1
      <4>2. \A r \in Stream(Scope(f), Committed) : ~(r.seq < 0)
        BY StreamNumbered DEF Stream
      <4> QED BY <4>1, <4>2 DEF Sound
    <3>2. CASE found # NoSnapshot
      BY <1>0, <3>2, LoadedIsSound DEF Sound
    <3> QED BY <3>1, <3>2
  <2>3. loaded.phase = "loaded" /\ loaded.filter = f /\ loaded.level = level
    OBVIOUS
  <2> HIDE DEF loaded, found
  <2>4. projections'[p] = loaded
    BY <1>0, <2>1 DEF SnapshotTypeOK
  <2>5. UNCHANGED vars /\ UNCHANGED <<writes, replayed>>
    BY <1>5 DEF LoadSnapshot
  <2> QED BY <1>3, <1>4, <2>1, <2>2, <2>3, <2>4, <2>5
<1>6. ASSUME NEW p \in Projections, Fold(p) PROVE Rest
  <2> DEFINE old == projections[p]
             m == Position(old.level)
             events == Stream(Reopened(old.filter, old.number), Source(old.level))
             new == [old EXCEPT !.phase = "folded", !.data = @ \cup events,
                                !.number = LastSequence(events)]
  <2>1. old \in Projection /\ old.phase = "loaded" /\ old.filter \in Filters /\ Sound(old.filter, old, m)
    BY <1>0, <1>6 DEF Fold, SnapshotInv, ProjectionsAreSound, Projection
  <2>2. Source(old.level) = RowsOf(m) /\ m \in 0..Len(wal)
    BY <1>0 DEF Source, Position, ReplicaRows, Committed
  <2>4. projections' = [projections EXCEPT ![p] = new]
    BY <1>6 DEF Fold
  <2>5. /\ new.phase = "folded" /\ new.filter = old.filter /\ new.data = old.data \cup events
        /\ new.number = LastSequence(events)
    BY <2>1 DEF Projection
  <2>6. UNCHANGED vars /\ UNCHANGED <<writes, replayed>>
    BY <1>6 DEF Fold
  <2> HIDE DEF new
  <2>7. Sound(old.filter, new, Len(wal))
    <3>1. Sound(old.filter, new, m)
      BY <2>1, <2>2, <2>5, FoldIsSound
    <3> QED BY <1>0, <2>2, <3>1, SoundWidens
  <2>8. projections'[p] = new
    BY <1>0, <2>4 DEF SnapshotTypeOK
  <2> QED BY <1>3, <1>4, <2>4, <2>5, <2>6, <2>7, <2>8
<1>7. ASSUME NEW p \in Projections, SaveSnapshot(p) PROVE Rest
  <2> DEFINE f == projections[p].filter
             new == [number |-> projections[p].number, data |-> projections[p].data]
             old == Stored(Hash[f])
  <2>1. f \in Filters /\ new \in Snapshot /\ Sound(f, new, Len(wal))
    <3>1. projections[p] \in Projection /\ Sound(f, projections[p], Len(wal))
      BY <1>0, <1>7 DEF SaveSnapshot, SnapshotInv, ProjectionsAreSound
    <3> QED BY <3>1 DEF Projection, Snapshot, Sound
  <2>2. old # NoSnapshot => old \in Snapshot /\ Sound(f, old, Len(wal))
    <3> SUFFICES ASSUME old # NoSnapshot PROVE old \in Snapshot /\ Sound(f, old, Len(wal))
      OBVIOUS
    <3>1. PICK i \in 1..Len(writes) : writes[i].key = Hash[f] /\ writes[i].value = old
      BY <1>0, RowIsWritten DEF Stored
    <3>2. Sound(f, old, writes[i].at) /\ writes[i].at \in 0..Len(wal)
      BY <2>1, <3>1 DEF SnapshotInv, WritesAreSound, WritesAreOrdered
    <3> QED BY <1>0, <3>2, RowIsWritten, SoundWidens DEF Stored
  <2>3. Upserted(old, new) \in Snapshot /\ Sound(f, Upserted(old, new), Len(wal))
    <3>1. new.number \in Nat
      BY <2>1 DEF Snapshot
    <3>2. CASE old = NoSnapshot
      BY <2>1, <3>2 DEF Upserted
    <3>3. CASE old # NoSnapshot
      <4>1. old \in Snapshot /\ old.number \in Nat /\ old = [number |-> old.number, data |-> old.data]
        BY <2>2, <3>3 DEF Snapshot
      <4> HIDE DEF old, new
      <4>2. new = [number |-> new.number, data |-> new.data]
        BY <2>1 DEF Snapshot
      <4>3. Upserted(old, new) = IF new.number >= old.number THEN new ELSE old
        BY <3>1, <3>3, <4>1, <4>2 DEF Upserted
      <4> QED BY <2>1, <2>2, <3>3, <4>3
    <3> QED BY <3>2, <3>3
  <2>4. WriteRow(Hash[f], Upserted(old, new)) /\ UNCHANGED vars
    BY <1>7 DEF SaveSnapshot, WriteRow
  <2>5. WritesAreSound' /\ WritesAreOrdered'
    <3> HIDE DEF f, new, old
    <3> QED BY <1>0, <2>1, <2>3, <2>4, WriteKeepsSound
  <2>6. projections' = [projections EXCEPT ![p] = Idle] /\ projections'[p] = Idle
    BY <1>0, <1>7 DEF SaveSnapshot, SnapshotTypeOK
  <2> QED BY <1>4, <2>4, <2>5, <2>6
<1>8. ASSUME NEW p \in Projections, ProjectionFails(p) PROVE Rest
  <2>1. projections' = [projections EXCEPT ![p] = Idle] /\ projections'[p] = Idle
    BY <1>0, <1>8 DEF ProjectionFails, SnapshotTypeOK
  <2>2. UNCHANGED vars /\ UNCHANGED <<writes, replayed>>
    BY <1>8 DEF ProjectionFails
  <2> QED BY <1>3, <1>4, <2>1, <2>2
<1>9. ASSUME NEW f \in Filters, DeleteSnapshot(f) PROVE Rest
  <2>1. WriteRow(Hash[f], NoSnapshot) /\ UNCHANGED vars /\ UNCHANGED projections
    BY <1>9 DEF DeleteSnapshot, WriteRow
  <2>2. WritesAreSound' /\ WritesAreOrdered'
    BY <1>0, <2>1, WriteKeepsSound
  <2>3. ProjectionsAreSound'
    BY <1>2, <2>1 DEF SnapshotInv, ProjectionsAreSound, Idle
  <2> QED BY <2>2, <2>3
<1>10. ASSUME ReplicaReplay PROVE Rest
  <2>1. UNCHANGED vars /\ UNCHANGED writes /\ UNCHANGED projections
        /\ replayed' = replayed + 1 /\ writes[replayed + 1].at <= applied /\ replayed \in Nat
    BY <1>0, <1>10 DEF ReplicaReplay, SnapshotTypeOK
  <2>2. WritesAreSound' /\ ProjectionsAreSound'
    BY <1>2, <2>1 DEF SnapshotInv, WritesAreSound, ProjectionsAreSound, Idle
  <2>3. WritesAreOrdered'
    <3>1. \A i \in 1..replayed' : i \in 1..replayed \/ i = replayed + 1
      BY <2>1
    <3> QED BY <1>2, <2>1, <3>1 DEF SnapshotInv, WritesAreOrdered
  <2> QED BY <2>2, <2>3
<1>11. ASSUME [Next]_vars, UNCHANGED snapshotVars PROVE Rest
  <2>1. writes' = writes /\ replayed' = replayed /\ projections' = projections
    BY <1>11 DEF snapshotVars
  <2>2. WritesAreOrdered'
    <3>1. Len(wal') \in Nat /\ Len(wal) <= Len(wal') /\ applied' \in Nat /\ applied <= applied'
      BY <1>0, <1>11, SoundKept
    <3>2. \A i \in 1..Len(writes) : writes[i].at \in 0..Len(wal')
      BY <1>0, <3>1 DEF SnapshotInv, WritesAreOrdered
    <3>3. \A i \in 1..replayed : writes[i].at <= applied'
      <4> TAKE i \in 1..replayed
      <4>1. i \in 1..Len(writes) /\ writes[i].at <= applied
        BY <1>0 DEF SnapshotInv, WritesAreOrdered, SnapshotTypeOK
      <4>2. writes[i].at \in Nat
        BY <3>2, <4>1
      <4> QED BY <1>0, <3>1, <4>1, <4>2
    <3> QED BY <2>1, <3>2, <3>3 DEF WritesAreOrdered
  <2>3. WritesAreSound'
    <3> SUFFICES ASSUME NEW i \in 1..Len(writes), NEW f \in Filters,
                        writes[i].key = Hash[f], writes[i].value # NoSnapshot
                 PROVE  Sound(f, writes[i].value, writes[i].at)'
      BY <2>1 DEF WritesAreSound
    <3>1. writes[i].at \in 0..Len(wal) /\ Sound(f, writes[i].value, writes[i].at)
      BY DEF SnapshotInv, WritesAreSound, WritesAreOrdered
    <3>2. \A s : \A n \in 0..Len(wal) : Sound(f, s, n) => Sound(f, s, n)'
      BY <1>0, <1>11, SoundKept
    <3> QED BY <2>1, <3>1, <3>2
  <2>4. ProjectionsAreSound'
    <3> SUFFICES ASSUME NEW p \in Projections, projections[p] # Idle
                 PROVE  (Sound(projections[p].filter, projections[p], HorizonOf(projections[p])))'
      BY <2>1 DEF ProjectionsAreSound, Idle
    <3> DEFINE q == projections[p]
    <3>1. Sound(q.filter, q, HorizonOf(q))
      BY DEF SnapshotInv, ProjectionsAreSound
    <3>2. HorizonOf(q) \in 0..Len(wal) /\ HorizonOf(q)' \in Nat /\ HorizonOf(q) <= HorizonOf(q)'
      BY <1>0, <1>11, <2>1, SoundKept
    <3>3. PICK n \in 0..Len(wal) : n = HorizonOf(q)
      BY <3>2
    <3>4. Sound(q.filter, q, n)' /\ n \in Nat /\ q' = q
      <4>1. \A f, s : Sound(f, s, n) => Sound(f, s, n)'
        BY <1>0, <1>11, SoundKept
      <4> QED BY <1>0, <2>1, <3>1, <3>3, <4>1
    <3>5. RowsOf(n)' \subseteq RowsOf(HorizonOf(q))'
      <4> DEFINE h == HorizonOf(q)'
      <4>1. h \in Nat /\ 1..n \subseteq 1..h
        BY <3>2, <3>3, <3>4
      <4> QED BY <4>1 DEF RowsOf
    <3> QED BY <3>4, <3>5 DEF Sound, Stream
  <2> QED BY <2>2, <2>3, <2>4
<1>12. Rest
  BY <1>5, <1>6, <1>7, <1>8, <1>9, <1>10, <1>11, StepsOfEventStore
     DEF SnapshotNext, EventStoreStep, allVars
<1> QED BY <1>1, <1>12 DEF SnapshotInv

(* SnapshotInv holds in every behaviour, with any number of sessions. *)
THEOREM SnapshotInvariant ==
  ASSUME DistinctHashes
  PROVE  SnapshotSpec => []SnapshotInv
<1>1. GuardInv /\ SnapshotInv /\ [SnapshotNext]_allVars => SnapshotInv'
  BY SnapshotInvStep
<1>2. SnapshotSpec => []GuardInv
  BY SnapshotsRefineEventStore, GuardInvariant, PTL
<1> QED BY <1>1, <1>2, SnapshotInvInit, PTL DEF SnapshotSpec

-----------------------------------------------------------------------------
(* A stored snapshot with a number holds nothing but events of its filter  *)
(* up to that number, and of these it lacks only such that have committed  *)
(* late, whoever has saved, reset or saved late.                           *)
LEMMA SoundIsMissingLate ==
  GuardInv /\ SnapshotInv => SnapshotsMissOnlyLate
<1> SUFFICES ASSUME GuardInv, SnapshotInv, NEW f \in Filters, NEW i \in 1..Len(writes),
                    writes[i].key = Hash[f], writes[i].value # NoSnapshot,
                    writes[i].value.number > 0
             PROVE  LET s == writes[i].value
                    IN  /\ LastSequence(s.data) = s.number
                        /\ s.data \subseteq Stream(Scope(f), RowsOf(writes[i].at))
                        /\ \A r \in Stream(Scope(f), Committed) \ s.data :
                             r.seq <= s.number => CommittedLate(r, s.data)
  BY DEF SnapshotsMissOnlyLate
<1> DEFINE s == writes[i].value
           n == writes[i].at
<1>1. n \in 0..Len(wal) /\ Sound(f, s, n)
  BY DEF SnapshotInv, WritesAreOrdered, WritesAreSound
<1>2. s.number = LastSequence(s.data)
  BY <1>1 DEF Sound
<1>3. s.data # {}
  <2>1. s.data = {} => s.number = 0
    BY <1>2, LastOfEmpty
  <2> QED BY <2>1
<1>4. s.data \subseteq Committed
  BY <1>1, StreamNumbered DEF Sound, Stream
<1>5. PICK d \in s.data : d.seq = s.number
  BY <1>2, <1>3, <1>4, StreamNumbered, LastIsGreatest
<1>6. ASSUME NEW r \in Stream(Scope(f), Committed), r \notin s.data, r.seq <= s.number
      PROVE  CommittedLate(r, s.data)
  <2>1. r \in Committed /\ d \in Committed /\ r # d
    BY <1>4, <1>6 DEF Stream
  <2>2. r.seq \in Nat /\ d.seq \in Nat /\ r.seq # d.seq
    BY <2>1, StreamNumbered
  <2>3. r.seq < s.number
    BY <1>5, <1>6, <2>2
  <2> QED BY <1>1, <1>6, <2>3 DEF Sound
<1> QED BY <1>1, <1>2, <1>6 DEF Sound

THEOREM SnapshotsLackOnlyLate ==
  ASSUME DistinctHashes
  PROVE  SnapshotSpec => []SnapshotsMissOnlyLate
<1>1. SnapshotSpec => []GuardInv
  BY SnapshotsRefineEventStore, GuardInvariant, PTL
<1> QED BY <1>1, SoundIsMissingLate, SnapshotInvariant, PTL

(* What Fold leaves a projection with, whatever the level it reads at. *)
LEMMA FoldedIsMissingLate ==
  ASSUME GuardInv, SnapshotInv, NEW p \in Projections, Fold(p)
  PROVE  LET stream == Stream(Scope(projections[p].filter), Source(projections[p].level))
             folded == projections'[p].data
         IN  /\ folded \subseteq stream /\ stream \subseteq Committed
             /\ \A r \in stream \ folded : CommittedLate(r, folded)
<1> DEFINE q == projections[p]
           m == Position(q.level)
           events == Stream(Reopened(q.filter, q.number), Source(q.level))
<1>1. q # Idle /\ q \in Projection
  BY NotIdle DEF Fold, SnapshotInv, SnapshotTypeOK
<1>2. q.phase = "loaded" /\ q.filter \in Filters /\ Sound(q.filter, q, m)
  BY <1>1 DEF Fold, SnapshotInv, ProjectionsAreSound, Projection
<1>3. Source(q.level) = RowsOf(m) /\ m \in 0..Len(wal)
  BY DEF Source, Position, ReplicaRows, Committed, GuardInv, TypeOK
<1>4. projections'[p].data = q.data \cup events /\ projections'[p].number = LastSequence(events)
  BY <1>1 DEF Fold, SnapshotInv, SnapshotTypeOK, Projection
<1> HIDE DEF m
<1>5. /\ Sound(q.filter, projections'[p], m)
      /\ \A r \in Stream(Scope(q.filter), RowsOf(m)) \ projections'[p].data :
           CommittedLate(r, projections'[p].data)
  BY <1>2, <1>3, <1>4, FoldIsSound
<1>6. RowsOf(m) \subseteq Committed
  BY <1>3, StreamNumbered
<1> QED BY <1>3, <1>5, <1>6 DEF Sound, Stream

(* A projection that continues from a snapshot, at either consistency      *)
(* level, ends with the same events as one that reads them all, but for    *)
(* those that have committed late.                                         *)
THEOREM ProjectionsLackOnlyLate ==
  ASSUME DistinctHashes
  PROVE  SnapshotSpec => ProjectionsMissOnlyLate
<1>1. GuardInv /\ SnapshotInv /\ [SnapshotNext]_allVars =>
        [\A p \in Projections : (projections[p] # projections'[p] /\ Fold(p)) =>
          LET stream == Stream(Scope(projections[p].filter), Source(projections[p].level))
              folded == projections'[p].data
          IN  /\ folded \subseteq stream
              /\ \A r \in stream \ folded : CommittedLate(r, folded)]_allVars
  BY FoldedIsMissingLate
<1>2. SnapshotSpec => []GuardInv
  BY SnapshotsRefineEventStore, GuardInvariant, PTL
<1> QED BY <1>1, <1>2, SnapshotInvariant, PTL DEF SnapshotSpec, ProjectionsMissOnlyLate

-----------------------------------------------------------------------------
(* With one session on the primary transactions commit in the order of     *)
(* their numbers, and nothing is late.                                     *)
LEMMA NothingIsLate ==
  ASSUME GuardInv, CommitOrder, NEW r, NEW rows, CommittedLate(r, rows)
  PROVE  FALSE
<1>1. PICK i, j \in 1..Len(wal) :
        i < j /\ r \in wal[j].rows /\ \E s \in wal[i].rows : r.seq < s.seq
  BY DEF CommittedLate
<1>2. PICK s \in wal[i].rows : r.seq < s.seq
  BY <1>1
<1>3. r \in Committed /\ s \in Committed
  BY <1>1 DEF Committed, RowsOf
<1>4. r.seq \in Nat /\ s.seq \in Nat
  BY <1>3, StreamNumbered
<1>5. s.seq < r.seq
  BY <1>1 DEF CommitOrder
<1> QED BY <1>2, <1>4, <1>5

(* A stored snapshot with a number holds exactly the events of its filter  *)
(* up to that number, whoever has saved, reset or saved late.              *)
THEOREM SnapshotsExact ==
  ASSUME OneSession, DistinctHashes
  PROVE  SnapshotSpec => []SnapshotsAreExact
<1>1. GuardInv /\ SerialInv /\ SnapshotInv => SnapshotsAreExact
  <2> SUFFICES ASSUME GuardInv, SerialInv, SnapshotInv, NEW f \in Filters,
                      NEW i \in 1..Len(writes), writes[i].key = Hash[f],
                      writes[i].value # NoSnapshot, writes[i].value.number > 0
               PROVE  /\ LastSequence(writes[i].value.data) = writes[i].value.number
                      /\ writes[i].value.data =
                           {r \in Stream(Scope(f), RowsOf(writes[i].at)) : r.seq <= writes[i].value.number}
    BY DEF SnapshotsAreExact
  <2> DEFINE s == writes[i].value
             T == Stream(Scope(f), RowsOf(writes[i].at))
  <2>1. /\ LastSequence(s.data) = s.number /\ s.data \subseteq T
        /\ \A r \in Stream(Scope(f), Committed) \ s.data :
             r.seq <= s.number => CommittedLate(r, s.data)
    BY SoundIsMissingLate DEF SnapshotsMissOnlyLate
  <2>2. T \subseteq Committed /\ T \subseteq Stream(Scope(f), Committed)
    BY StreamNumbered DEF SnapshotInv, WritesAreOrdered, Stream
  <2>3. \A r \in T : r.seq <= s.number => r \in s.data
    BY <2>1, <2>2, NothingIsLate DEF SerialInv
  <2>4. \A r \in s.data : r.seq <= s.number
    <3>1. Bounded(s.data, nextSeq)
      BY <2>1, <2>2, StreamNumbered
    <3> QED BY <2>1, <3>1, LastIsGreatest
  <2> QED BY <2>1, <2>3, <2>4
<1>2. SnapshotSpec => [](GuardInv /\ SerialInv)
  BY SnapshotsRefineEventStore, GuardInvariant, SerialInvariant, PTL
<1> QED BY <1>1, <1>2, SnapshotInvariant, PTL

(* A projection that continues from a snapshot, at either consistency      *)
(* level, ends with the same events as one that reads them all.            *)
THEOREM ProjectionsComplete ==
  ASSUME OneSession, DistinctHashes
  PROVE  SnapshotSpec => ProjectionsAreComplete
<1>1. GuardInv /\ SerialInv /\ SnapshotInv /\ [SnapshotNext]_allVars =>
        [\A p \in Projections : (projections[p] # projections'[p] /\ Fold(p)) =>
          projections'[p].data =
            Stream(Scope(projections[p].filter), Source(projections[p].level))]_allVars
  BY FoldedIsMissingLate, NothingIsLate DEF SerialInv
<1>2. SnapshotSpec => [](GuardInv /\ SerialInv)
  BY SnapshotsRefineEventStore, GuardInvariant, SerialInvariant, PTL
<1> QED BY <1>1, <1>2, SnapshotInvariant, PTL DEF SnapshotSpec, ProjectionsAreComplete
=============================================================================
