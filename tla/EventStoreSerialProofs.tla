------------------------ MODULE EventStoreSerialProofs ------------------------
(***************************************************************************)
(* With a single session on the primary, for any number of clients and     *)
(* with a replica that lags as it likes, no update is lost, and the event  *)
(* store implements the atomic check-and-append of ConsistencyBoundary.    *)
(***************************************************************************)
EXTENDS EventStoreProofs

(* The guard detects everything: a statement that may insert was decided   *)
(* on the complete stream.  Numbers follow the commit order, so a row that *)
(* the prefix read by the query lacks is numbered above all that it has.   *)
LEMMA GuardIsComplete ==
  ASSUME GuardInv, SerialInv, NEW c \in Clients, view[c] # NoView,
         GuardHolds(view[c], Committed)
  PROVE  view[c].seen = Stream(view[c].filter, Committed)
<1> DEFINE v == view[c]
<1>1. ReadFrom(v, Len(wal)) /\ Passed(v, Len(wal))
  BY GuardDecides DEF GuardInv, ViewsAreReads
<1>2. PICK n \in 0..Len(wal) : v.seen = Stream(v.filter, RowsOf(n))
  BY DEF SerialInv, ViewsArePrefixes
<1>3. v.seen \subseteq Stream(v.filter, Committed) /\ v.expected = LastSequence(v.seen)
  BY <1>1 DEF ReadFrom, Committed
<1>4. SUFFICES ASSUME NEW r \in Stream(v.filter, Committed), r \notin v.seen PROVE FALSE
  BY <1>3
<1>5. r.seq < v.expected /\ r \in Drawn /\ 0 < r.seq /\ r.seq \in Nat
  <2>1. r.seq < v.expected
    BY <1>1, <1>4 DEF Passed, Committed
  <2>2. r \in Drawn
    BY <1>4 DEF Drawn, Stream
  <2> QED BY <2>1, <2>2, DrawnTyped DEF GuardInv, Numbered, Row
<1>6. Bounded(v.seen, nextSeq)
  BY <1>3, DrawnTyped DEF Bounded, GuardInv, Numbered, TypeOK, Row, Drawn, Stream
<1>7. v.seen # {}
  <2>1. v.seen = {} => v.expected = 0
    BY <1>3, LastOfEmpty
  <2> QED BY <1>5, <2>1
<1>8. PICK m \in v.seen : m.seq = v.expected
  BY <1>3, <1>6, <1>7, LastIsGreatest
<1>9. PICK i \in 1..n : m \in wal[i].rows
  BY <1>2, <1>8 DEF Stream, RowsOf
<1>10. PICK j \in 1..Len(wal) : r \in wal[j].rows
  BY <1>4 DEF Stream, Committed, RowsOf
<1>11. j \notin 1..n
  BY <1>2, <1>4, <1>10 DEF Stream, RowsOf
<1>12. Len(wal) \in Nat
  BY DEF GuardInv, TypeOK
<1>13. i \in 1..Len(wal) /\ i < j
  BY <1>9, <1>10, <1>11, <1>12
<1>14. m.seq < r.seq
  BY <1>9, <1>10, <1>13 DEF SerialInv, CommitOrder
<1>15. m.seq \in Nat
  BY <1>6 DEF Bounded
<1> QED BY <1>5, <1>8, <1>14, <1>15

LEMMA RunsAloneStep ==
  OneSession /\ GuardInv /\ SerialInv /\ [Next]_vars => RunsAlone'
<1> SUFFICES ASSUME OneSession, GuardInv, SerialInv, [Next]_vars,
                    NEW a \in Backends, stmt'[a] # Free, stmt'[a].phase = "inserting"
             PROVE  /\ stmt'[a].base = Len(wal')
                    /\ stmt'[a].view.seen = Stream(stmt'[a].view.filter, Committed')
                    /\ \A r \in Committed', s \in stmt'[a].rows : r.seq < s.seq
  BY DEF RunsAlone, Stream, Where, Free
<1> DEFINE Goal == /\ stmt'[a].base = Len(wal')
                   /\ stmt'[a].view.seen = Stream(stmt'[a].view.filter, Committed')
                   /\ \A r \in Committed', s \in stmt'[a].rows : r.seq < s.seq
<1>0. TypeOK
  BY DEF GuardInv
<1>1. CASE stmt'[a] = stmt[a] /\ wal' = wal
  BY <1>1 DEF SerialInv, RunsAlone, Committed, RowsOf
<1>2. ASSUME NEW c \in Clients, NEW b \in Backends, Execute(c, b) PROVE Goal
  <2>1. a = b
    BY DEF OneSession
  <2>2. wal' = wal /\ Committed' = Committed
    BY <1>2 DEF Execute, Committed, RowsOf
  <2>3. /\ stmt'[a].base = Len(wal) /\ stmt'[a].view = view[c] /\ stmt'[a].rows = {}
        /\ GuardHolds(view[c], Committed)
    BY <1>0, <1>2, <2>1 DEF Execute, TypeOK
  <2>4. view[c] # NoView
    BY <1>2 DEF GuardInv, Decided, Execute, Busy
  <2> QED BY <2>2, <2>3, <2>4, GuardIsComplete
<1>3. ASSUME NEW b \in Backends, InsertRow(b) PROVE Goal
  <2>1. a = b
    BY DEF OneSession
  <2>2. wal' = wal /\ Committed' = Committed
    BY <1>3 DEF InsertRow, Committed, RowsOf
  <2>3. stmt[a] \in Statement /\ stmt[a] # Free /\ stmt[a].phase = "inserting"
    BY <1>0, <1>3, <2>1, StatementNotFree DEF InsertRow, TypeOK
  <2>4. /\ stmt'[a].base = stmt[a].base /\ stmt'[a].view = stmt[a].view
        /\ \A s \in stmt'[a].rows : s \in stmt[a].rows \/ s.seq = nextSeq
    BY <1>0, <1>3, <2>1, <2>3 DEF InsertRow, TypeOK, Statement
  <2>5. \A r \in Committed : r.seq < nextSeq
    BY DEF GuardInv, Numbered, Drawn
  <2> QED BY <2>2, <2>3, <2>4, <2>5 DEF SerialInv, RunsAlone
<1>4. ASSUME NEW b \in Backends, Commit(b) PROVE FALSE
  <2>1. a = b /\ stmt[a] \in Statement
    BY <1>0, <1>4, StatementNotFree DEF OneSession, Commit, TypeOK
  <2>2. stmt'[a].phase = "done"
    BY <1>0, <1>4, <2>1 DEF Commit, TypeOK, Statement
  <2> QED BY <2>2
<1>5. ASSUME NEW b \in Backends, Abort(b) PROVE FALSE
  <2>1. a = b /\ stmt[a] \in Statement
    BY <1>0, <1>5, StatementNotFree DEF OneSession, Abort, TypeOK
  <2>2. stmt'[a].phase = "failed"
    BY <1>0, <1>5, <2>1 DEF Abort, TypeOK, Statement
  <2> QED BY <2>2
<1>6. ASSUME NEW c \in Clients, NEW b \in Backends, Return(c, b) PROVE Goal
  BY <1>0, <1>1, <1>6 DEF Return, TypeOK
<1>7. ASSUME NEW b \in Backends, Reap(b) PROVE Goal
  BY <1>0, <1>1, <1>7 DEF Reap, TypeOK
<1> QED BY <1>1, <1>2, <1>3, <1>4, <1>5, <1>6, <1>7
        DEF Next, ClientStep, ServerStep, Query, QueryFails, AppendCall, Cancel,
            ReplicaApply, vars

LEMMA ViewsArePrefixesStep ==
  GuardInv /\ SerialInv /\ [Next]_vars => ViewsArePrefixes'
<1> SUFFICES ASSUME GuardInv, SerialInv, [Next]_vars,
                    NEW d \in Clients, view'[d] # NoView
             PROVE  \E n \in 0..Len(wal') :
                      view'[d].seen = Stream(view'[d].filter, RowsOf(n)')
  BY DEF ViewsArePrefixes, Stream, Where
<1>0. TypeOK
  BY DEF GuardInv
<1>1. CASE view'[d] = view[d]
  <2>1. PICK n \in 0..Len(wal) : view[d].seen = Stream(view[d].filter, RowsOf(n))
    BY <1>1 DEF SerialInv, ViewsArePrefixes
  <2>2. n \in 0..Len(wal') /\ RowsOf(n)' = RowsOf(n)
    BY <1>0, <2>1, WalPrefix
  <2> QED BY <1>1, <2>1, <2>2
<1>2. ASSUME NEW c \in Clients, NEW f \in Filters, NEW level \in Levels, Query(c, f, level),
             view'[d] # view[d]
      PROVE  \E n \in 0..Len(wal') :
               view'[d].seen = Stream(view'[d].filter, RowsOf(n)')
  <2>1. view'[d].filter = f /\ view'[d].seen = Stream(f, Source(level)) /\ wal' = wal
    BY <1>0, <1>2 DEF Query, TypeOK
  <2>2. \E n \in 0..Len(wal) : Source(level) = RowsOf(n)
    <3>1. applied \in 0..Len(wal) /\ Len(wal) \in 0..Len(wal)
      BY <1>0 DEF TypeOK
    <3>2. Source(level) = RowsOf(applied) \/ Source(level) = RowsOf(Len(wal))
      BY DEF Source, ReplicaRows, Committed
    <3> QED BY <3>1, <3>2
  <2>3. PICK n \in 0..Len(wal) : Source(level) = RowsOf(n)
    BY <2>2
  <2>4. RowsOf(n)' = RowsOf(n)
    BY <1>0, WalPrefix
  <2> QED BY <2>1, <2>3, <2>4
<1>3. ASSUME NEW c \in Clients, QueryFails(c), view'[d] # view[d] PROVE FALSE
  BY <1>0, <1>3 DEF QueryFails, TypeOK
<1> QED BY <1>1, <1>2, <1>3
        DEF Next, ClientStep, ServerStep, AppendCall, Execute, Return, Cancel,
            InsertRow, Commit, Abort, Reap, ReplicaApply, vars

LEMMA CommitOrderStep ==
  GuardInv /\ SerialInv /\ [Next]_vars => CommitOrder' /\ NoLostUpdate'
<1> SUFFICES ASSUME GuardInv, SerialInv, [Next]_vars PROVE CommitOrder' /\ NoLostUpdate'
  OBVIOUS
<1>0. TypeOK /\ Len(wal) \in Nat
  BY DEF GuardInv, TypeOK
<1>1. CASE wal' = wal
  BY <1>1 DEF SerialInv, CommitOrder, NoLostUpdate, StreamBefore, RowsOf
<1>2. ASSUME NEW b \in Backends, Commit(b) PROVE CommitOrder' /\ NoLostUpdate'
  <2>1. /\ Len(wal') = Len(wal) + 1
        /\ wal'[Len(wal')].rows = stmt[b].rows /\ wal'[Len(wal')].view = stmt[b].view
        /\ \A i \in 1..Len(wal) : wal'[i] = wal[i]
        /\ \A n \in 0..Len(wal) : RowsOf(n)' = RowsOf(n)
    BY <1>0, <1>2, CommitAdds, WalPrefix
  <2>2. /\ stmt[b].view.seen = Stream(stmt[b].view.filter, Committed)
        /\ \A r \in Committed, s \in stmt[b].rows : r.seq < s.seq
    BY <1>2 DEF SerialInv, RunsAlone, Commit
  <2>3. ASSUME NEW i \in 1..Len(wal'), NEW j \in 1..Len(wal'), i < j,
               NEW r \in wal'[i].rows, NEW s \in wal'[j].rows
        PROVE  r.seq < s.seq
    <3>1. i \in 1..Len(wal) /\ r \in wal[i].rows
      BY <1>0, <2>1, <2>3
    <3>2. CASE j = Len(wal')
      BY <2>1, <2>2, <2>3, <3>1, <3>2 DEF Committed, RowsOf
    <3>3. CASE j # Len(wal')
      <4>1. j \in 1..Len(wal) /\ s \in wal[j].rows
        BY <1>0, <2>1, <2>3, <3>3
      <4> QED BY <2>3, <3>1, <4>1 DEF SerialInv, CommitOrder
    <3> QED BY <3>2, <3>3
  <2>4. ASSUME NEW i \in 1..Len(wal')
        PROVE  Stream(wal'[i].view.filter, RowsOf(i - 1)') = wal'[i].view.seen
    <3>1. i - 1 \in 0..Len(wal) /\ RowsOf(i - 1)' = RowsOf(i - 1)
      BY <1>0, <2>1, <2>4
    <3>2. CASE i = Len(wal')
      <4>1. i - 1 = Len(wal)
        BY <1>0, <2>1, <3>2
      <4> QED BY <2>1, <2>2, <3>1, <3>2, <4>1 DEF Committed
    <3>3. CASE i # Len(wal')
      <4>1. i \in 1..Len(wal) /\ wal'[i] = wal[i]
        BY <1>0, <2>1, <2>4, <3>3
      <4> QED BY <3>1, <4>1 DEF SerialInv, NoLostUpdate, StreamBefore
    <3> QED BY <3>2, <3>3
  <2>5. CommitOrder'
    BY <2>3 DEF CommitOrder
  <2>6. NoLostUpdate'
    BY <2>4 DEF NoLostUpdate, StreamBefore, Stream, Where
  <2> QED BY <2>5, <2>6
<1> QED BY <1>0, <1>1, <1>2, WalGrows

LEMMA SerialInit == Init => SerialInv
  BY DEF Init, SerialInv, CommitOrder, RunsAlone, ViewsArePrefixes, NoLostUpdate

LEMMA SerialStep == OneSession /\ GuardInv /\ SerialInv /\ [Next]_vars => SerialInv'
  BY RunsAloneStep, ViewsArePrefixesStep, CommitOrderStep DEF SerialInv

(* With one session the serial invariant holds in every behaviour. *)
THEOREM SerialInvariant == ASSUME OneSession PROVE Spec => []SerialInv
<1>1. GuardInv /\ SerialInv /\ GuardInv' /\ [Next]_vars => SerialInv'
  BY SerialStep
<1> QED BY <1>1, SerialInit, GuardInvariant, PTL DEF Spec

(* With one session on the primary every append was decided on the whole   *)
(* stream of its filter as it was when the append committed.               *)
THEOREM OneSessionLosesNoUpdate == ASSUME OneSession PROVE Spec => []NoLostUpdate
<1>1. SerialInv => NoLostUpdate
  BY DEF SerialInv
<1> QED BY <1>1, SerialInvariant, PTL

-----------------------------------------------------------------------------
LEMMA LogIsWal ==
  ASSUME TypeOK
  PROVE  /\ Len(AppendLog) = Len(wal)
         /\ \A i \in 1..Len(wal) : /\ AppendLog[i].filter = wal[i].view.filter
                                   /\ AppendLog[i].seen = wal[i].view.seen
                                   /\ AppendLog[i].rows = wal[i].rows
         /\ Boundary!Stored = Committed
<1>1. Len(wal) \in Nat /\ Len(AppendLog) = Len(wal)
  BY DEF TypeOK, AppendLog
<1>2. \A i \in 1..Len(wal) : /\ AppendLog[i].filter = wal[i].view.filter
                             /\ AppendLog[i].seen = wal[i].view.seen
                             /\ AppendLog[i].rows = wal[i].rows
  BY DEF AppendLog
<1>3. Boundary!Stored = Committed
  BY <1>1, <1>2 DEF Boundary!Stored, Committed, RowsOf
<1> QED BY <1>1, <1>2, <1>3

(* A commit is the atomic check-and-append, every other step is a stutter. *)
LEMMA BoundaryStep ==
  ASSUME OneSession, GuardInv, SerialInv, [Next]_vars
  PROVE  [Boundary!CheckAndAppend]_AppendLog
<1>0. TypeOK /\ Len(wal) \in Nat
  BY DEF GuardInv, TypeOK
<1>1. CASE wal' = wal
  BY <1>1 DEF AppendLog
<1>2. ASSUME NEW b \in Backends, Commit(b) PROVE Boundary!CheckAndAppend
  <2> DEFINE n == Len(wal)
  <2>1. /\ Len(wal') = n + 1 /\ wal'[n + 1].view = stmt[b].view
        /\ wal'[n + 1].rows = stmt[b].rows /\ \A i \in 1..n : wal'[i] = wal[i]
    BY <1>0, <1>2, CommitAdds, WalPrefix
  <2>2. /\ Len(AppendLog') = n + 1
        /\ \A i \in 1..n : AppendLog'[i] = AppendLog[i]
        /\ AppendLog'[n + 1].filter = stmt[b].view.filter
        /\ AppendLog'[n + 1].seen = stmt[b].view.seen
        /\ AppendLog'[n + 1].rows = stmt[b].rows
    BY <1>0, <2>1 DEF AppendLog
  <2>3. /\ stmt[b].view.seen = Stream(stmt[b].view.filter, Committed)
        /\ \A r \in Committed, s \in stmt[b].rows : r.seq < s.seq
    BY <1>2 DEF SerialInv, RunsAlone, Commit
  <2>4. Len(AppendLog) = n /\ Boundary!Stored = Committed
    BY <1>0, LogIsWal
  <2> HIDE DEF n
  <2> QED BY <2>2, <2>3, <2>4 DEF Boundary!CheckAndAppend, Boundary!Stream, Boundary!Where,
             Stream, Where
<1> QED BY <1>0, <1>1, <1>2, WalGrows

(* With one session on the primary the event store implements the atomic   *)
(* check-and-append that the documentation describes.                      *)
THEOREM OneSessionImplementsBoundary ==
  ASSUME OneSession PROVE Spec => ImplementsBoundary
<1>1. Init => Boundary!Init
  BY DEF Init, Boundary!Init, AppendLog
<1>2. OneSession /\ GuardInv /\ SerialInv /\ [Next]_vars
        => [Boundary!CheckAndAppend]_AppendLog
  BY BoundaryStep
<1> QED BY <1>1, <1>2, GuardInvariant, SerialInvariant, PTL
        DEF Spec, ImplementsBoundary, Boundary!Spec
=============================================================================
