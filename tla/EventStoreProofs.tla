--------------------------- MODULE EventStoreProofs ---------------------------
(***************************************************************************)
(* Proofs about EventStore for any number of clients, sessions, filters    *)
(* and batches, with and without a replica.                                *)
(***************************************************************************)
EXTENDS EventStoreInvariants, WellFoundedInduction, TLAPS

-----------------------------------------------------------------------------
(* The numbers that stand for a stream: the greatest number exists, and    *)
(* Append's subquery and Query's result loop agree on it.                  *)

(* A bounded set of naturals that is not empty has a greatest element. *)
LEMMA BoundedMax ==
  ASSUME NEW S, S \subseteq Nat, S # {},
         NEW n \in Nat, \A m \in S : m <= n
  PROVE  \E m \in S : \A k \in S : k <= m
<1> DEFINE U == {u \in Nat : \A m \in S : m <= u}
<1>1. U \subseteq Nat /\ U # {}
  OBVIOUS
<1>2. \E x \in U : \A y \in U : ~ (<<y, x>> \in OpToRel(<, Nat))
  <2> HIDE DEF U
  <2> QED BY <1>1, NatLessThanWellFounded, WFMin
<1>3. PICK x \in U : \A y \in U : ~ (<<y, x>> \in OpToRel(<, Nat))
  BY <1>2
<1>4. x \in S
  <2> SUFFICES ASSUME x \notin S PROVE FALSE
    OBVIOUS
  <2>1. x \in Nat /\ \A m \in S : m < x
    OBVIOUS
  <2>2. x - 1 \in Nat /\ x - 1 < x /\ x - 1 \in U
    <3>1. PICK m \in S : m \in Nat /\ m < x
      BY <2>1
    <3>2. x - 1 \in Nat /\ x - 1 < x
      BY <2>1, <3>1
    <3>3. \A k \in S : k <= x - 1
      BY <2>1, <3>2
    <3> QED BY <3>2, <3>3
  <2>3. <<x - 1, x>> \in OpToRel(<, Nat)
    BY <2>1, <2>2 DEF OpToRel
  <2> QED BY <1>3, <2>2, <2>3
<1> QED BY <1>4

(* The rows have numbers, and all of them are below n. *)
Bounded(rows, n) == n \in Nat /\ \A r \in rows : r.seq \in Nat /\ r.seq < n

(* The last row of an ascending scan has the greatest number. *)
LEMMA LastIsGreatest ==
  ASSUME NEW rows, rows # {}, NEW n, Bounded(rows, n)
  PROVE  /\ \E r \in rows : r.seq = LastSequence(rows)
         /\ \A r \in rows : r.seq <= LastSequence(rows)
<1> DEFINE S == {r.seq : r \in rows}
<1>1. S \subseteq Nat /\ S # {} /\ n \in Nat /\ \A m \in S : m <= n
  BY DEF Bounded
<1>2. PICK m \in S : \A k \in S : k <= m
  <2> HIDE DEF S
  <2> QED BY <1>1, BoundedMax
<1>3. \E r \in rows : \A s \in rows : s.seq <= r.seq
  BY <1>2
<1> QED BY <1>3 DEF LastSequence

(* Append's COALESCE(MAX(...), 0) is the number Query reports for the same *)
(* rows.                                                                   *)
LEMMA MaxIsLast ==
  ASSUME NEW rows, NEW n, Bounded(rows, n)
  PROVE  CoalesceMax(rows) = LastSequence(rows)
<1>1. CASE rows = {}
  BY <1>1 DEF CoalesceMax, LastSequence
<1>2. CASE rows # {}
  <2> DEFINE Greatest(m) == m \in {r.seq : r \in rows} /\ \A r \in rows : r.seq <= m
  <2>1. Greatest(LastSequence(rows))
    BY <1>2, LastIsGreatest
  <2>2. \A i, j : Greatest(i) /\ Greatest(j) => i = j
    BY DEF Bounded
  <2>3. Greatest(CoalesceMax(rows))
    BY <1>2, <2>1 DEF CoalesceMax
  <2> QED BY <2>1, <2>2, <2>3
<1> QED BY <1>1, <1>2

(* An empty stream has number 0; with numbers from 1 on, no other has. *)
LEMMA LastOfEmpty == LastSequence({}) = 0
  BY DEF LastSequence

(* The number of a stream is a natural number. *)
LEMMA LastIsNat ==
  ASSUME NEW rows, NEW n, Bounded(rows, n)
  PROVE  LastSequence(rows) \in Nat
  BY LastIsGreatest, LastOfEmpty DEF Bounded

-----------------------------------------------------------------------------
(* Free is told apart from every statement by its phase. *)
LEMMA StatementNotFree ==
  \A s \in Statement \cup {Free} : s # Free <=> s \in Statement
  BY DEF Statement, Free

LEMMA RowsOfTyped ==
  ASSUME TypeOK, NEW n \in 0..Len(wal)
  PROVE  RowsOf(n) \subseteq Row
<1>1. \A i \in 1..n : wal[i] \in Transaction
  BY DEF TypeOK
<1>2. \A i \in 1..n : wal[i].rows \subseteq Row
  BY <1>1 DEF Transaction
<1> QED BY <1>2 DEF RowsOf

(* The rows of a prefix of the wal are rows of every longer one. *)
LEMMA RowsOfMonotone ==
  ASSUME NEW m \in Nat, NEW n \in Nat, m <= n
  PROVE  RowsOf(m) \subseteq RowsOf(n)
<1>1. 1..m \subseteq 1..n
  OBVIOUS
<1> QED BY <1>1 DEF RowsOf

LEMMA SourceTyped ==
  ASSUME TypeOK, NEW level
  PROVE  Source(level) \subseteq Committed /\ Committed \subseteq Row
<1>1. Len(wal) \in Nat /\ applied \in 0..Len(wal)
  BY DEF TypeOK
<1>2. ReplicaRows \subseteq Committed
  BY <1>1, RowsOfMonotone DEF ReplicaRows, Committed
<1>3. Committed \subseteq Row
  BY <1>1, RowsOfTyped DEF Committed
<1> QED BY <1>2, <1>3 DEF Source

(* Setting the status of the last call changes nothing else. *)
LEMMA SetStatusTyped ==
  ASSUME TypeOK, NEW c \in Clients, Last(c) > 0, NEW s \in Status, SetStatus(c, s)
  PROVE  /\ calls' \in [Clients -> Seq(Call)]
         /\ calls'[c] \in Seq(Call) /\ Len(calls'[c]) = Len(calls[c])
         /\ \A d \in Clients \ {c} : calls'[d] = calls[d]
         /\ \A k \in 1..Last(c) : calls'[c][k].events = calls[c][k].events
         /\ \A k \in 1..Last(c) - 1 : calls'[c][k] = calls[c][k]
         /\ calls'[c][Last(c)].status = s
<1> DEFINE q == calls[c]
           new == [q EXCEPT ![Len(q)].status = s]
<1>1. q \in Seq(Call) /\ Len(q) \in 1..Len(q)
  BY DEF TypeOK, Last
<1>2. calls' = [calls EXCEPT ![c] = new]
  BY DEF SetStatus, Last
<1>3. q[Len(q)] \in Call
  BY <1>1
<1>4. [q[Len(q)] EXCEPT !.status = s] \in Call
  BY <1>3 DEF Call
<1>5. new \in Seq(Call) /\ Len(new) = Len(q)
  BY <1>1, <1>4
<1>6. \A k \in 1..Len(q) : new[k].events = q[k].events
  BY <1>1, <1>3 DEF Call
<1>7. (\A k \in 1..Len(q) - 1 : new[k] = q[k]) /\ new[Len(q)].status = s
  BY <1>1, <1>3 DEF Call
<1>8. calls'[c] = new /\ \A d \in Clients \ {c} : calls'[d] = calls[d]
  BY <1>2 DEF TypeOK
<1>9. calls' \in [Clients -> Seq(Call)]
  BY <1>2, <1>5 DEF TypeOK
<1> HIDE DEF new
<1> QED BY <1>5, <1>6, <1>7, <1>8, <1>9 DEF Last

-----------------------------------------------------------------------------
LEMMA TypeInit == Init => TypeOK
  BY BoundsAssumption DEF Init, TypeOK, Free

LEMMA TypeStep == TypeOK /\ Numbered /\ Decided /\ [Next]_vars => TypeOK'
<1> SUFFICES ASSUME TypeOK, Numbered, Decided, [Next]_vars PROVE TypeOK'
  OBVIOUS
<1>0. /\ Len(wal) \in Nat
      /\ \A b \in Backends : stmt[b] # Free => stmt[b] \in Statement
      /\ \A c \in Clients : Last(c) \in Nat
  BY StatementNotFree DEF TypeOK, Last
<1>1. ASSUME NEW c \in Clients, NEW f \in Filters, NEW level \in Levels, Query(c, f, level)
      PROVE  TypeOK'
  <2> DEFINE seen == Stream(f, Source(level))
  <2>1. seen \subseteq Row
    BY SourceTyped DEF Stream
  <2>2. seen \subseteq Drawn
    BY SourceTyped DEF Drawn, Stream
  <2>3. Bounded(seen, nextSeq)
    BY <2>1, <2>2 DEF Bounded, Numbered, TypeOK, Row
  <2>4. LastSequence(seen) \in Nat
    BY <2>3, LastIsNat
  <2>5. [filter |-> f, seen |-> seen, expected |-> LastSequence(seen)] \in View
    BY <2>1, <2>4 DEF View
  <2> QED BY <1>1, <2>5 DEF Query, TypeOK
<1>2. ASSUME NEW c \in Clients, QueryFails(c) PROVE TypeOK'
  BY <1>2 DEF QueryFails, TypeOK
<1>3. ASSUME NEW c \in Clients, NEW events \in Batches, AppendCall(c, events)
      PROVE  TypeOK'
  <2> DEFINE call == [events |-> events,
                      status |-> IF events = << >> THEN "nil" ELSE "acquiring"]
  <2>1. call \in Call
    BY DEF Call, Status
  <2>2. Append(calls[c], call) \in Seq(Call)
    BY <2>1 DEF TypeOK
  <2> QED BY <1>3, <2>2 DEF AppendCall, TypeOK
<1>4. ASSUME NEW c \in Clients, NEW b \in Backends, Execute(c, b) PROVE TypeOK'
  <2>1. calls' \in [Clients -> Seq(Call)]
    BY <1>4, SetStatusTyped DEF Execute, Status
  <2>2. calls[c][Last(c)] \in Call
    BY <1>0, <1>4 DEF Execute, TypeOK, Last
  <2>3. view[c] \in View
    BY <1>4 DEF Execute, Decided, Busy, TypeOK
  <2>4. Last(c) \in Nat /\ Len(wal) \in Nat
    BY <1>0
  <2>5. stmt'[b] \in Statement
    BY <1>4, <2>2, <2>3, <2>4 DEF Execute, TypeOK, Statement, Call
  <2> QED BY <1>4, <2>1, <2>5 DEF Execute, TypeOK
<1>5. ASSUME NEW b \in Backends, InsertRow(b) PROVE TypeOK'
  <2> DEFINE n == stmt[b].affected + 1
             r == [seq |-> nextSeq, kind |-> stmt[b].events[n]]
  <2>1. stmt[b] \in Statement /\ stmt[b].affected < Len(stmt[b].events)
    BY <1>0, <1>5 DEF InsertRow
  <2>2. stmt[b].events \in Seq(Kinds) /\ n \in 1..Len(stmt[b].events)
    BY <2>1, BatchesAssumption DEF Statement
  <2>3. r \in Row
    BY <2>2 DEF Row, TypeOK
  <2>4. [stmt[b] EXCEPT !.rows = @ \cup {r}, !.affected = n] \in Statement
    <3> HIDE DEF r, n
    <3>1. stmt[b].rows \cup {r} \in SUBSET Row /\ n \in Nat
      BY <2>1, <2>2, <2>3 DEF Statement
    <3> QED BY <2>1, <3>1 DEF Statement
  <2>5. stmt' = [stmt EXCEPT ![b] = [stmt[b] EXCEPT !.rows = @ \cup {r}, !.affected = n]]
    BY <1>5, <2>1 DEF InsertRow, TypeOK, Statement
  <2>6. stmt' \in [Backends -> Statement \cup {Free}]
    BY <2>4, <2>5 DEF TypeOK
  <2>7. nextSeq' \in Nat \ {0}
    BY <1>5 DEF InsertRow, TypeOK
  <2>8. UNCHANGED <<wal, applied, view, calls>>
    BY <1>5 DEF InsertRow
  <2> QED BY <2>6, <2>7, <2>8 DEF TypeOK
<1>6. ASSUME NEW b \in Backends, Commit(b) PROVE TypeOK'
  <2> DEFINE t == [client |-> stmt[b].client, call |-> stmt[b].call,
                   view |-> stmt[b].view, base |-> stmt[b].base, rows |-> stmt[b].rows]
  <2>1. t \in Transaction
    BY <1>0, <1>6 DEF Commit, Statement, Transaction
  <2>2. wal' \in Seq(Transaction) /\ Len(wal') = Len(wal) + 1
    BY <1>6, <2>1 DEF Commit, TypeOK
  <2>3. stmt' \in [Backends -> Statement \cup {Free}]
    BY <1>0, <1>6 DEF Commit, TypeOK, Statement
  <2> QED BY <1>6, <2>2, <2>3 DEF Commit, TypeOK
<1>7. ASSUME NEW b \in Backends, Abort(b) PROVE TypeOK'
  BY <1>0, <1>7 DEF Abort, TypeOK, Statement
<1>8. ASSUME NEW c \in Clients, NEW b \in Backends, Return(c, b) PROVE TypeOK'
  <2>1. calls' \in [Clients -> Seq(Call)]
    BY <1>8, SetStatusTyped DEF Return, Serves, Executing, Status, Outcome
  <2> QED BY <1>8, <2>1 DEF Return, TypeOK
<1>9. ASSUME NEW c \in Clients, Cancel(c) PROVE TypeOK'
  <2>1. calls' \in [Clients -> Seq(Call)]
    BY <1>9, SetStatusTyped DEF Cancel, Busy, Status
  <2> QED BY <1>9, <2>1 DEF Cancel, TypeOK
<1>10. ASSUME NEW b \in Backends, Reap(b) PROVE TypeOK'
  BY <1>10 DEF Reap, TypeOK
<1>11. CASE ReplicaApply
  BY <1>0, <1>11 DEF ReplicaApply, TypeOK
<1>12. CASE UNCHANGED vars
  BY <1>12 DEF vars, TypeOK
<1> QED BY <1>1, <1>2, <1>3, <1>4, <1>5, <1>6, <1>7, <1>8, <1>9, <1>10, <1>11, <1>12
        DEF Next, ClientStep, ServerStep

-----------------------------------------------------------------------------
(* The wal only grows, and the rows of a prefix of it stay what they are.  *)
LEMMA WalGrows ==
  ASSUME TypeOK, [Next]_vars
  PROVE  wal' = wal \/ \E b \in Backends : Commit(b)
  BY DEF vars, Next, ClientStep, ServerStep, Query, QueryFails, AppendCall, Execute,
         InsertRow, Commit, Abort, Return, Cancel, Reap, ReplicaApply

(* What a commit adds to the rows that queries see. *)
LEMMA CommitAdds ==
  ASSUME TypeOK, NEW b \in Backends, Commit(b)
  PROVE  /\ Len(wal') = Len(wal) + 1
         /\ wal'[Len(wal')].view = stmt[b].view
         /\ wal'[Len(wal')].base = stmt[b].base
         /\ wal'[Len(wal')].rows = stmt[b].rows
         /\ Committed' = Committed \cup stmt[b].rows
<1> DEFINE t == [client |-> stmt[b].client, call |-> stmt[b].call,
                 view |-> stmt[b].view, base |-> stmt[b].base, rows |-> stmt[b].rows]
           n == Len(wal)
<1>1. wal' = Append(wal, t) /\ n \in Nat
  BY DEF Commit, TypeOK
<1>2. Len(wal') = n + 1 /\ wal'[n + 1] = t /\ \A i \in 1..n : wal'[i] = wal[i]
  BY <1>1 DEF TypeOK
<1>3. 1..n + 1 = 1..n \cup {n + 1}
  BY <1>1
<1>4. Committed' = UNION {wal'[i].rows : i \in 1..n + 1}
  BY <1>2 DEF Committed, RowsOf
<1>5. Committed' = Committed \cup t.rows
  BY <1>2, <1>3, <1>4 DEF Committed, RowsOf
<1> QED BY <1>2, <1>5

LEMMA WalPrefix ==
  ASSUME TypeOK, [Next]_vars
  PROVE  /\ Len(wal) \in Nat /\ Len(wal') \in Nat /\ Len(wal) <= Len(wal')
         /\ \A i \in 1..Len(wal) : wal'[i] = wal[i]
         /\ \A n \in 0..Len(wal) : RowsOf(n)' = RowsOf(n)
         /\ Committed \subseteq Committed'
<1>1. Len(wal) \in Nat
  BY DEF TypeOK
<1>2. CASE wal' = wal
  BY <1>1, <1>2 DEF RowsOf, Committed
<1>3. CASE \E b \in Backends : Commit(b)
  <2>1. PICK t : wal' = Append(wal, t)
    BY <1>3 DEF Commit
  <2>2. Len(wal') = Len(wal) + 1 /\ \A i \in 1..Len(wal) : wal'[i] = wal[i]
    BY <2>1 DEF TypeOK
  <2>3. \A n \in 0..Len(wal) : \A i \in 1..n : wal'[i] = wal[i]
    BY <2>2, <1>1
  <2>4. \A n \in 0..Len(wal) : RowsOf(n)' = RowsOf(n)
    BY <2>3 DEF RowsOf
  <2>5. Committed \subseteq Committed'
    BY <1>3, CommitAdds
  <2> QED BY <1>1, <2>2, <2>4, <2>5
<1> QED BY <1>2, <1>3, WalGrows

-----------------------------------------------------------------------------
LEMMA DrawnTyped == TypeOK => Drawn \subseteq Row
<1> SUFFICES ASSUME TypeOK PROVE Drawn \subseteq Row
  OBVIOUS
<1>1. Committed \subseteq Row
  BY SourceTyped
<1>2. \A b \in Backends : Held(b) \subseteq Row
  BY StatementNotFree DEF TypeOK, Held, Statement
<1> QED BY <1>1, <1>2 DEF Drawn

(* Row numbers: only InsertRow draws a number, and it draws a new one. *)
LEMMA NumberedStep == TypeOK /\ Numbered /\ [Next]_vars => Numbered'
<1> SUFFICES ASSUME TypeOK, Numbered, [Next]_vars PROVE Numbered'
  OBVIOUS
<1>0. ASSUME Drawn' \subseteq Drawn, nextSeq' = nextSeq PROVE Numbered'
  BY <1>0 DEF Numbered
<1>1. ASSUME NEW b \in Backends, InsertRow(b) PROVE Numbered'
  <2> DEFINE r == [seq |-> nextSeq, kind |-> stmt[b].events[stmt[b].affected + 1]]
  <2>1. stmt[b] \in Statement
    BY <1>1, StatementNotFree DEF InsertRow, TypeOK
  <2>2. /\ stmt'[b].rows = stmt[b].rows \cup {r} /\ stmt'[b] # Free
        /\ \A a \in Backends \ {b} : stmt'[a] = stmt[a]
    BY <1>1, <2>1 DEF InsertRow, TypeOK, Statement, Free
  <2>3. Held(b)' = Held(b) \cup {r} /\ \A a \in Backends \ {b} : Held(a)' = Held(a)
    <3>1. stmt[b] # Free
      BY <1>1 DEF InsertRow
    <3> HIDE DEF r
    <3> QED BY <2>2, <3>1 DEF Held
  <2>4. Committed' = Committed
    BY <1>1 DEF InsertRow, Committed, RowsOf
  <2>5. Drawn' \subseteq Drawn \cup {r}
    BY <2>3, <2>4 DEF Drawn
  <2>6. r.seq = nextSeq /\ nextSeq' = nextSeq + 1 /\ nextSeq \in Nat \ {0}
    BY <1>1 DEF InsertRow, TypeOK
  <2>7. \A s \in Drawn : s.seq \in Nat
    BY DrawnTyped DEF Row
  <2> HIDE DEF r
  <2> QED BY <2>5, <2>6, <2>7 DEF Numbered
<1>2. ASSUME NEW b \in Backends, Commit(b) PROVE Numbered'
  <2>1. stmt[b] \in Statement
    BY <1>2, StatementNotFree DEF Commit, TypeOK
  <2>2. \A a \in Backends : Held(a)' = Held(a)
    BY <1>2, <2>1 DEF Commit, Held, TypeOK, Statement, Free
  <2>3. Committed' = Committed \cup Held(b)
    BY <1>2, CommitAdds DEF Held, Commit
  <2> QED BY <1>0, <1>2, <2>2, <2>3 DEF Drawn, Commit
<1>3. ASSUME wal' = wal, nextSeq' = nextSeq, \A b \in Backends : Held(b)' \subseteq Held(b)
      PROVE  Numbered'
  BY <1>0, <1>3 DEF Drawn, Committed, RowsOf
<1>4. ASSUME NEW c \in Clients, NEW b \in Backends, Execute(c, b) PROVE Numbered'
  BY <1>3, <1>4 DEF Execute, Held, TypeOK
<1>5. ASSUME NEW b \in Backends, Abort(b) PROVE Numbered'
  <2>1. \A a \in Backends : Held(a)' = Held(a)
    BY <1>5, StatementNotFree DEF Abort, Held, TypeOK, Statement, Free
  <2> QED BY <1>3, <1>5, <2>1 DEF Abort
<1>6. ASSUME NEW c \in Clients, NEW b \in Backends, Return(c, b) PROVE Numbered'
  BY <1>3, <1>6 DEF Return, Held, TypeOK
<1>7. ASSUME NEW b \in Backends, Reap(b) PROVE Numbered'
  BY <1>3, <1>7 DEF Reap, Held, TypeOK
<1>8. ASSUME stmt' = stmt, wal' = wal, nextSeq' = nextSeq PROVE Numbered'
  BY <1>3, <1>8 DEF Held
<1> QED BY <1>1, <1>2, <1>4, <1>5, <1>6, <1>7, <1>8
        DEF Next, ClientStep, ServerStep, Query, QueryFails, AppendCall, Cancel,
            ReplicaApply, vars

LEMMA DecidedStep == TypeOK /\ Decided /\ [Next]_vars => Decided'
<1> SUFFICES ASSUME TypeOK, Decided, [Next]_vars, NEW d \in Clients, Busy(d)'
             PROVE  (view[d] # NoView /\ calls[d][Last(d)].events # << >>)'
  BY DEF Decided
<1> DEFINE Goal == (view[d] # NoView /\ calls[d][Last(d)].events # << >>)'
<1>0. Last(d) \in Nat
  BY DEF TypeOK, Last
<1>1. ASSUME calls'[d] = calls[d], view'[d] = view[d] PROVE Goal
  BY <1>1 DEF Decided, Busy, Last
<1>2. ASSUME NEW c \in Clients, ~Busy(c), calls' = calls,
             \A e \in Clients \ {c} : view'[e] = view[e]
      PROVE  Goal
  <2>1. d # c
    BY <1>2 DEF Busy, Last
  <2> QED BY <1>1, <1>2, <2>1
<1>3. ASSUME NEW c \in Clients, NEW events \in Batches, AppendCall(c, events) PROVE Goal
  <2>1. CASE d = c
    <3> DEFINE call == [events |-> events,
                        status |-> IF events = << >> THEN "nil" ELSE "acquiring"]
    <3>1. calls'[c] = Append(calls[c], call)
      BY <1>3 DEF AppendCall, TypeOK
    <3>2. Len(calls'[c]) = Len(calls[c]) + 1 /\ calls'[c][Len(calls'[c])] = call
      BY <3>1 DEF TypeOK
    <3>3. call.status \in {"acquiring", "executing"}
      BY <2>1, <3>2 DEF Busy, Last
    <3>4. call.events # << >>
      BY <3>3
    <3> QED BY <1>3, <2>1, <3>2, <3>4 DEF AppendCall, Last
  <2>2. CASE d # c
    BY <1>1, <1>3, <2>2 DEF AppendCall, TypeOK
  <2> QED BY <2>1, <2>2
<1>4. ASSUME NEW c \in Clients, Last(c) > 0, NEW s \in Status, SetStatus(c, s),
             view' = view, Busy(c)
      PROVE  Goal
  <2>1. CASE d = c
    <3>1. Last(d)' = Last(d) /\ Last(d) \in 1..Last(d)
      BY <1>0, <1>4, <2>1, SetStatusTyped DEF Last
    <3>2. calls'[d][Last(d)].events = calls[d][Last(d)].events
      BY <1>4, <2>1, <3>1, SetStatusTyped
    <3> QED BY <1>4, <2>1, <3>1, <3>2 DEF Decided
  <2>2. CASE d # c
    BY <1>1, <1>4, <2>2, SetStatusTyped
  <2> QED BY <2>1, <2>2
<1>5. ASSUME NEW c \in Clients, NEW b \in Backends, Execute(c, b) PROVE Goal
  BY <1>4, <1>5 DEF Execute, Busy, Status
<1>6. ASSUME NEW c \in Clients, NEW b \in Backends, Return(c, b) PROVE Goal
  <2>1. Outcome(stmt[b]) \in Status /\ Last(c) > 0 /\ Busy(c)
    BY <1>6 DEF Return, Serves, Executing, Busy, Outcome, Status
  <2> QED BY <1>4, <1>6, <2>1 DEF Return
<1>7. ASSUME NEW c \in Clients, Cancel(c) PROVE Goal
  BY <1>4, <1>7 DEF Cancel, Busy, Status
<1>8. ASSUME NEW c \in Clients, NEW f \in Filters, NEW level \in Levels, Query(c, f, level)
      PROVE  Goal
  BY <1>2, <1>8 DEF Query, TypeOK
<1>9. ASSUME NEW c \in Clients, QueryFails(c) PROVE Goal
  BY <1>2, <1>9 DEF QueryFails, TypeOK
<1> QED BY <1>1, <1>3, <1>5, <1>6, <1>7, <1>8, <1>9
        DEF Next, ClientStep, ServerStep, InsertRow, Commit, Abort, Reap, ReplicaApply, vars

-----------------------------------------------------------------------------
(* What is known of a view against a prefix of the wal stays known. *)
LEMMA GuardsKept ==
  ASSUME TypeOK, [Next]_vars, NEW v, NEW n \in 0..Len(wal)
  PROVE  /\ ReadFrom(v, n)' <=> ReadFrom(v, n)
         /\ Passed(v, n)' <=> Passed(v, n)
         /\ Refused(v, n)' <=> Refused(v, n)
<1>1. RowsOf(n)' = RowsOf(n)
  BY WalPrefix
<1> QED BY <1>1 DEF ReadFrom, Passed, Refused

LEMMA ViewsAreReadsStep ==
  TypeOK /\ ViewsAreReads /\ [Next]_vars => ViewsAreReads'
<1> SUFFICES ASSUME TypeOK, ViewsAreReads, [Next]_vars,
                    NEW d \in Clients, view'[d] # NoView
             PROVE  ReadFrom(view[d], Len(wal))'
  BY DEF ViewsAreReads
<1>1. CASE view'[d] = view[d]
  <2>1. ReadFrom(view[d], Len(wal))
    BY <1>1 DEF ViewsAreReads
  <2>2. Committed \subseteq Committed'
    BY WalPrefix
  <2> QED BY <1>1, <2>1, <2>2 DEF ReadFrom, Stream, Committed
<1>2. ASSUME NEW c \in Clients, NEW f \in Filters, NEW level \in Levels, Query(c, f, level),
             view'[d] # view[d]
      PROVE  ReadFrom(view[d], Len(wal))'
  <2> DEFINE seen == Stream(f, Source(level))
  <2>1. view'[d] = [filter |-> f, seen |-> seen, expected |-> LastSequence(seen)]
    BY <1>2 DEF Query, TypeOK
  <2>2. seen \subseteq Stream(f, Committed)
    BY SourceTyped DEF Stream
  <2>3. RowsOf(Len(wal))' = Committed
    BY <1>2 DEF Query, Committed, RowsOf
  <2> QED BY <2>1, <2>2, <2>3 DEF ReadFrom
<1>3. ASSUME NEW c \in Clients, QueryFails(c), view'[d] # view[d] PROVE FALSE
  BY <1>3 DEF QueryFails, TypeOK
<1> QED BY <1>1, <1>2, <1>3
        DEF Next, ClientStep, ServerStep, AppendCall, Execute, Return, Cancel,
            InsertRow, Commit, Abort, Reap, ReplicaApply, vars

(* The guard of the INSERT, on committed rows with distinct numbers: if it *)
(* holds, what the view has missed is numbered below what it expected; if  *)
(* it does not, the view has missed a row numbered above.                  *)
LEMMA GuardDecides ==
  ASSUME TypeOK, Numbered, NEW v, ReadFrom(v, Len(wal))
  PROVE  /\ GuardHolds(v, Committed) => Passed(v, Len(wal))
         /\ ~GuardHolds(v, Committed) => Refused(v, Len(wal))
<1> DEFINE T == Stream(v.filter, Committed)
<1>1. /\ v.seen \subseteq T /\ v.expected = LastSequence(v.seen)
      /\ T \subseteq Drawn /\ T \subseteq Row
  BY SourceTyped DEF ReadFrom, Committed, Drawn, Stream
<1>2. Bounded(T, nextSeq) /\ Bounded(v.seen, nextSeq)
  BY <1>1 DEF Bounded, Numbered, Row, TypeOK
<1>3. CoalesceMax(T) = LastSequence(T)
  BY <1>2, MaxIsLast
<1>4. v.expected \in Nat /\ LastSequence(T) \in Nat
  BY <1>1, <1>2, LastIsNat
<1>5. \A r \in T : r.seq \in Nat /\ 0 < r.seq /\ r.seq <= LastSequence(T)
  BY <1>1, <1>2, LastIsGreatest DEF Numbered, Bounded
<1>6. \A r \in v.seen : r.seq <= v.expected
  BY <1>1, <1>2, LastIsGreatest
<1>7. v.seen # {} => \E r \in v.seen : r.seq = v.expected
  BY <1>1, <1>2, LastIsGreatest
<1>8. \A r, s \in T : r.seq = s.seq => r = s
  BY <1>1 DEF Numbered
<1>9. CASE v.seen = T
  BY <1>1, <1>3, <1>9 DEF GuardHolds, Passed, Committed
<1>10. CASE v.seen # T
  <2>1. T # {}
    BY <1>1, <1>10
  <2>2. PICK m \in T : m.seq = LastSequence(T)
    BY <1>2, <2>1, LastIsGreatest
  <2>3. ASSUME LastSequence(T) = v.expected, NEW r \in T \ v.seen PROVE r.seq < v.expected
    <3>1. r.seq <= v.expected /\ r.seq \in Nat /\ 0 < r.seq
      BY <1>5, <2>3
    <3>2. v.seen # {}
      <4>1. v.seen = {} => v.expected = 0
        BY <1>1, LastOfEmpty
      <4> QED BY <3>1, <4>1
    <3>3. r.seq # v.expected
      BY <1>1, <1>7, <1>8, <2>3, <3>2
    <3> QED BY <1>4, <3>1, <3>3
  <2>4. ASSUME LastSequence(T) # v.expected PROVE m \notin v.seen /\ m.seq > v.expected
    <3>1. v.expected <= LastSequence(T)
      <4>1. CASE v.seen = {}
        BY <1>1, <1>4, <4>1, LastOfEmpty
      <4>2. CASE v.seen # {}
        BY <1>1, <1>5, <1>7, <4>2
      <4> QED BY <4>1, <4>2
    <3>2. m.seq > v.expected
      BY <1>4, <2>2, <2>4, <3>1
    <3> QED BY <1>4, <1>5, <1>6, <3>2
  <2> QED BY <1>3, <2>2, <2>3, <2>4 DEF GuardHolds, Passed, Refused, Committed
<1> QED BY <1>9, <1>10

LEMMA StatementsAreGuardedStep ==
  /\ TypeOK /\ Numbered /\ Decided /\ ViewsAreReads /\ StatementsAreGuarded
  /\ [Next]_vars
  => StatementsAreGuarded'
<1> SUFFICES ASSUME TypeOK, Numbered, Decided, ViewsAreReads, StatementsAreGuarded,
                    [Next]_vars, NEW a \in Backends, stmt'[a] # Free
             PROVE  /\ stmt'[a].base \in 0..Len(wal')
                    /\ ReadFrom(stmt[a].view, stmt[a].base)'
                    /\ stmt'[a].events # << >>
                    /\ stmt'[a].affected > 0 => stmt'[a].rows # {}
                    /\ stmt'[a].phase = "inserting" => Passed(stmt[a].view, stmt[a].base)'
                    /\ stmt'[a].phase = "done" /\ stmt'[a].rows = {} =>
                         Refused(stmt[a].view, stmt[a].base)'
  BY DEF StatementsAreGuarded, Free
<1> DEFINE Goal == /\ stmt'[a].base \in 0..Len(wal')
                   /\ ReadFrom(stmt[a].view, stmt[a].base)'
                   /\ stmt'[a].events # << >>
                   /\ stmt'[a].affected > 0 => stmt'[a].rows # {}
                   /\ stmt'[a].phase = "inserting" => Passed(stmt[a].view, stmt[a].base)'
                   /\ stmt'[a].phase = "done" /\ stmt'[a].rows = {} =>
                        Refused(stmt[a].view, stmt[a].base)'
<1>0. Len(wal) \in Nat /\ Len(wal') \in Nat /\ Len(wal) <= Len(wal')
  BY WalPrefix
(* The statement runs on, or changes nothing its guard depends on. *)
<1>1. ASSUME stmt[a] # Free,
             stmt'[a].view = stmt[a].view, stmt'[a].base = stmt[a].base,
             stmt'[a].events = stmt[a].events,
             stmt'[a].affected > 0 => stmt'[a].rows # {},
             stmt'[a].phase = "inserting" => stmt[a].phase = "inserting",
             stmt'[a].phase = "done" /\ stmt'[a].rows = {} =>
               stmt[a].phase = "done" /\ stmt[a].rows = {}
      PROVE  Goal
  <2> DEFINE v == stmt[a].view
             n == stmt[a].base
  <2>1. /\ n \in 0..Len(wal) /\ ReadFrom(v, n) /\ stmt[a].events # << >>
        /\ stmt[a].phase = "inserting" => Passed(v, n)
        /\ stmt[a].phase = "done" /\ stmt[a].rows = {} => Refused(v, n)
    BY <1>1 DEF StatementsAreGuarded
  <2>2. RowsOf(n)' = RowsOf(stmt[a].base)' /\ RowsOf(stmt[a].base)' = RowsOf(n)
    BY <1>1, <2>1, WalPrefix DEF RowsOf
  <2>3. /\ ReadFrom(stmt[a].view, stmt[a].base)' <=> ReadFrom(v, n)
        /\ Passed(stmt[a].view, stmt[a].base)' <=> Passed(v, n)
        /\ Refused(stmt[a].view, stmt[a].base)' <=> Refused(v, n)
    BY <1>1, <2>2 DEF ReadFrom, Passed, Refused
  <2> QED BY <1>0, <1>1, <2>1, <2>3
<1>2. CASE stmt'[a] = stmt[a]
  BY <1>1, <1>2 DEF StatementsAreGuarded
<1>3. ASSUME NEW c \in Clients, NEW b \in Backends, Execute(c, b) PROVE Goal
  <2>1. CASE a = b
    <3> DEFINE s == [phase |-> IF GuardHolds(view[c], Committed) THEN "inserting" ELSE "done",
                     client |-> c, call |-> Last(c), view |-> view[c], base |-> Len(wal),
                     events |-> calls[c][Last(c)].events, rows |-> {}, affected |-> 0]
    <3>1. stmt'[a] = s /\ wal' = wal
      BY <1>3, <2>1 DEF Execute, TypeOK
    <3>2. view[c] # NoView /\ calls[c][Last(c)].events # << >>
      BY <1>3 DEF Execute, Decided, Busy
    <3>3. ReadFrom(view[c], Len(wal))
      BY <3>2 DEF ViewsAreReads
    <3>4. RowsOf(stmt[a].base)' = Committed
      BY <3>1 DEF RowsOf, Committed
    <3>5. ReadFrom(stmt[a].view, stmt[a].base)'
      BY <3>1, <3>3, <3>4 DEF ReadFrom, Committed
    <3>6. /\ GuardHolds(view[c], Committed) => Passed(stmt[a].view, stmt[a].base)'
          /\ ~GuardHolds(view[c], Committed) => Refused(stmt[a].view, stmt[a].base)'
      BY <3>1, <3>3, <3>4, GuardDecides DEF Passed, Refused, Committed
    <3> QED BY <1>0, <3>1, <3>2, <3>5, <3>6
  <2>2. CASE a # b
    BY <1>2, <1>3, <2>2 DEF Execute, TypeOK
  <2> QED BY <2>1, <2>2
<1>4. ASSUME NEW b \in Backends, InsertRow(b) PROVE Goal
  <2>1. CASE a = b
    <3>1. stmt[a] \in Statement /\ stmt[a] # Free
      BY <1>4, <2>1, StatementNotFree DEF InsertRow, TypeOK
    <3>2. /\ stmt'[a].view = stmt[a].view /\ stmt'[a].base = stmt[a].base
          /\ stmt'[a].events = stmt[a].events /\ stmt'[a].phase = "inserting"
          /\ stmt[a].phase = "inserting" /\ stmt'[a].rows # {}
      BY <1>4, <2>1, <3>1 DEF InsertRow, TypeOK, Statement
    <3> QED BY <1>1, <3>1, <3>2
  <2>2. CASE a # b
    BY <1>2, <1>4, <2>2 DEF InsertRow, TypeOK
  <2> QED BY <2>1, <2>2
<1>5. ASSUME NEW b \in Backends, Commit(b) PROVE Goal
  <2>1. CASE a = b
    <3>1. stmt[a] \in Statement /\ stmt[a] # Free
      BY <1>5, <2>1, StatementNotFree DEF Commit, TypeOK
    <3>2. stmt[a].events \in Seq(Kinds) /\ stmt[a].events # << >>
      BY <3>1, BatchesAssumption DEF Statement, StatementsAreGuarded
    <3>3. stmt[a].affected > 0
      BY <1>5, <2>1, <3>2 DEF Commit
    <3>4. stmt[a].rows # {}
      BY <3>1, <3>3 DEF StatementsAreGuarded
    <3>5. stmt'[a] = [stmt[a] EXCEPT !.phase = "done"]
      BY <1>5, <2>1 DEF Commit, TypeOK
    <3>6. /\ stmt'[a].view = stmt[a].view /\ stmt'[a].base = stmt[a].base
          /\ stmt'[a].events = stmt[a].events /\ stmt'[a].phase = "done"
          /\ stmt'[a].rows = stmt[a].rows
      BY <3>1, <3>5 DEF Statement
    <3> QED BY <1>1, <3>1, <3>4, <3>6
  <2>2. CASE a # b
    BY <1>2, <1>5, <2>2 DEF Commit, TypeOK
  <2> QED BY <2>1, <2>2
<1>6. ASSUME NEW b \in Backends, Abort(b) PROVE Goal
  <2>1. CASE a = b
    <3>1. stmt[a] \in Statement /\ stmt[a] # Free
      BY <1>6, <2>1, StatementNotFree DEF Abort, TypeOK
    <3>2. stmt'[a] = [stmt[a] EXCEPT !.phase = "failed"]
      BY <1>6, <2>1 DEF Abort, TypeOK
    <3>3. /\ stmt'[a].view = stmt[a].view /\ stmt'[a].base = stmt[a].base
          /\ stmt'[a].events = stmt[a].events /\ stmt'[a].phase = "failed"
          /\ stmt'[a].affected = stmt[a].affected /\ stmt'[a].rows = stmt[a].rows
      BY <3>1, <3>2 DEF Statement
    <3> QED BY <1>1, <3>1, <3>3 DEF StatementsAreGuarded
  <2>2. CASE a # b
    BY <1>2, <1>6, <2>2 DEF Abort, TypeOK
  <2> QED BY <2>1, <2>2
<1>7. ASSUME NEW c \in Clients, NEW b \in Backends, Return(c, b) PROVE Goal
  BY <1>2, <1>7 DEF Return, TypeOK
<1>8. ASSUME NEW b \in Backends, Reap(b) PROVE Goal
  BY <1>2, <1>8 DEF Reap, TypeOK
<1> QED BY <1>2, <1>3, <1>4, <1>5, <1>6, <1>7, <1>8
        DEF Next, ClientStep, ServerStep, Query, QueryFails, AppendCall, Cancel,
            ReplicaApply, vars

LEMMA TransactionsAreGuardedStep ==
  /\ TypeOK /\ StatementsAreGuarded /\ TransactionsAreGuarded /\ [Next]_vars
  => TransactionsAreGuarded'
<1> SUFFICES ASSUME TypeOK, StatementsAreGuarded, TransactionsAreGuarded, [Next]_vars,
                    NEW i \in 1..Len(wal')
             PROVE  /\ wal'[i].base \in 0..i - 1
                    /\ ReadFrom(wal[i].view, wal[i].base)'
                    /\ Passed(wal[i].view, wal[i].base)'
  BY DEF TransactionsAreGuarded
<1>0. Len(wal) \in Nat
  BY WalPrefix
<1>1. CASE i \in 1..Len(wal)
  <2>1. wal'[i] = wal[i]
    BY <1>1, WalPrefix
  <2>2. wal[i].base \in 0..i - 1 /\ wal[i].base \in 0..Len(wal)
    BY <1>0, <1>1 DEF TransactionsAreGuarded
  <2>3. RowsOf(wal[i].base)' = RowsOf(wal[i].base)
    BY <2>1, <2>2, WalPrefix DEF RowsOf
  <2> QED BY <1>1, <2>1, <2>2, <2>3 DEF TransactionsAreGuarded, ReadFrom, Passed
<1>2. CASE i \notin 1..Len(wal)
  <2>1. PICK b \in Backends : Commit(b)
    BY <1>2, WalGrows
  <2>2. i = Len(wal) + 1 /\ i = Len(wal')
    BY <1>0, <1>2, <2>1, CommitAdds
  <2>3. wal'[i].view = stmt[b].view /\ wal'[i].base = stmt[b].base
    BY <2>1, <2>2, CommitAdds
  <2>4. /\ stmt[b].base \in 0..Len(wal) /\ ReadFrom(stmt[b].view, stmt[b].base)
        /\ Passed(stmt[b].view, stmt[b].base)
    BY <2>1 DEF StatementsAreGuarded, Commit
  <2>5. RowsOf(wal[i].base)' = RowsOf(stmt[b].base)
    <3>1. \A n \in 0..Len(wal) : UNION {wal'[j].rows : j \in 1..n} = RowsOf(n)
      BY WalPrefix DEF RowsOf
    <3> QED BY <2>3, <2>4, <3>1 DEF RowsOf
  <2> QED BY <1>0, <2>2, <2>3, <2>4, <2>5 DEF ReadFrom, Passed
<1> QED BY <1>1, <1>2

-----------------------------------------------------------------------------
(* The guard invariant is inductive. *)
LEMMA GuardInit == Init => GuardInv
<1> SUFFICES ASSUME Init PROVE GuardInv
  OBVIOUS
<1>1. wal = << >> /\ Len(wal) = 0 /\ Committed = {}
  BY DEF Init, Committed, RowsOf
<1>2. Drawn = {}
  BY <1>1 DEF Init, Drawn, Held
<1>3. \A c \in Clients : ~Busy(c)
  BY DEF Init, Busy, Last
<1> QED BY <1>1, <1>2, <1>3, TypeInit
        DEF Init, GuardInv, Numbered, Decided, ViewsAreReads, StatementsAreGuarded,
            TransactionsAreGuarded

LEMMA GuardStep == GuardInv /\ [Next]_vars => GuardInv'
  BY TypeStep, NumberedStep, DecidedStep, ViewsAreReadsStep, StatementsAreGuardedStep,
     TransactionsAreGuardedStep DEF GuardInv

THEOREM GuardInvariant == Spec => []GuardInv
  BY GuardInit, GuardStep, PTL DEF Spec

(* The variables of the event store have their types in every behaviour. *)
THEOREM TypeCorrect == Spec => []TypeOK
<1>1. GuardInv => TypeOK
  BY DEF GuardInv
<1> QED BY <1>1, GuardInvariant, PTL

(* With any number of sessions, an append has missed only events that were *)
(* committed while its statement ran or that are numbered below the number *)
(* it expected.                                                            *)
THEOREM MissedEventsAreConcurrent == Spec => []MissedOnlyConcurrent
<1>1. GuardInv => MissedOnlyConcurrent
  <2> SUFFICES ASSUME GuardInv, NEW i \in 1..Len(wal)
               PROVE  /\ wal[i].view.seen \subseteq StreamBefore(i)
                      /\ \A r \in StreamBefore(i) \ wal[i].view.seen :
                           r \notin RowsOf(wal[i].base) \/ r.seq < wal[i].view.expected
    BY DEF MissedOnlyConcurrent
  <2>1. /\ wal[i].base \in 0..i - 1 /\ i - 1 \in Nat
        /\ ReadFrom(wal[i].view, wal[i].base) /\ Passed(wal[i].view, wal[i].base)
    BY DEF GuardInv, TypeOK, TransactionsAreGuarded
  <2>2. RowsOf(wal[i].base) \subseteq RowsOf(i - 1)
    BY <2>1, RowsOfMonotone
  <2> QED BY <2>1, <2>2 DEF ReadFrom, Passed, StreamBefore, Stream
<1> QED BY <1>1, GuardInvariant, PTL

(* A conflict is reported only to a caller that has missed an event.       *)
THEOREM ConflictsHaveCauses == Spec => []ConflictHasCause
<1>1. GuardInv => ConflictHasCause
  BY DEF GuardInv, StatementsAreGuarded, Refused, ConflictHasCause
<1> QED BY <1>1, GuardInvariant, PTL
=============================================================================
