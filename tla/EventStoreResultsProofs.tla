------------------------ MODULE EventStoreResultsProofs ------------------------
(***************************************************************************)
(* Proofs that the results of Append tell the truth, for any number of     *)
(* clients and sessions, with calls cancelled and statements failing at    *)
(* any point: every statement and every transaction belongs to one call.   *)
(***************************************************************************)
EXTENDS EventStoreProofs

LEMMA SpellsAll ==
  ASSUME NEW rows, NEW batch
  PROVE  SpellsFirst(rows, batch, Len(batch)) <=> Spells(rows, batch)
  BY DEF SpellsFirst, Spells

(* No rows spell no events. *)
LEMMA SpellsNothing ==
  ASSUME NEW batch
  PROVE  SpellsFirst({}, batch, 0)
<1> DEFINE f == [i \in 1..0 |-> 0]
<1>1. f \in [1..0 -> {}]
  OBVIOUS
<1>2. 1..0 = {} /\ 2..0 = {}
  OBVIOUS
<1> HIDE DEF f
<1> QED BY <1>1, <1>2 DEF SpellsFirst

(* A row with a higher number than all before it spells one event more. *)
LEMMA SpellsOneMore ==
  ASSUME NEW rows \in SUBSET Row, NEW batch, NEW n \in Nat, SpellsFirst(rows, batch, n),
         NEW r \in Row, r.kind = batch[n + 1], \A s \in rows : s.seq < r.seq
  PROVE  SpellsFirst(rows \cup {r}, batch, n + 1)
<1>1. PICK f \in [1..n -> rows] :
        /\ \A s \in rows : \E i \in 1..n : f[i] = s
        /\ \A i \in 1..n : f[i].kind = batch[i]
        /\ \A i \in 2..n : f[i-1].seq < f[i].seq
  BY DEF SpellsFirst
<1> DEFINE g == [i \in 1..n + 1 |-> IF i \in 1..n THEN f[i] ELSE r]
<1>2. g \in [1..n + 1 -> rows \cup {r}]
  OBVIOUS
<1>3. (\A i \in 1..n : g[i] = f[i]) /\ g[n + 1] = r
  OBVIOUS
<1>4. \A s \in rows \cup {r} : \E i \in 1..n + 1 : g[i] = s
  <2> HIDE DEF g
  <2>1. \A i \in 1..n : i \in 1..n + 1
    OBVIOUS
  <2>2. n + 1 \in 1..n + 1
    OBVIOUS
  <2> QED BY <1>1, <1>3, <2>1, <2>2
<1>5. \A i \in 1..n + 1 : g[i].kind = batch[i]
  <2> HIDE DEF g
  <2>1. \A i \in 1..n + 1 : i \in 1..n \/ i = n + 1
    OBVIOUS
  <2> QED BY <1>1, <1>3, <2>1
<1>6. \A i \in 2..n + 1 : g[i-1].seq < g[i].seq
  <2> HIDE DEF g
  <2> SUFFICES ASSUME NEW i \in 2..n + 1 PROVE g[i-1].seq < g[i].seq
    OBVIOUS
  <2>1. i - 1 \in 1..n /\ f[i-1] \in rows
    OBVIOUS
  <2>2. CASE i = n + 1
    BY <1>3, <2>1, <2>2
  <2>3. CASE i # n + 1
    <3>1. i \in 2..n /\ i \in 1..n
      BY <2>3
    <3> QED BY <1>1, <1>3, <2>1, <3>1
  <2> QED BY <2>2, <2>3
<1> HIDE DEF g
<1> QED BY <1>2, <1>4, <1>5, <1>6 DEF SpellsFirst

-----------------------------------------------------------------------------
(* What the steps of a statement and of a call leave alone. *)
LEMMA TransactionsStay ==
  ASSUME wal' = wal
  PROVE  \A c, k : TransactionsOf(c, k)' = TransactionsOf(c, k)
  BY DEF TransactionsOf

(* The sessions, calls and transactions as they are typed. *)
LEMMA AttemptTypes ==
  ASSUME TypeOK
  PROVE  /\ Len(wal) \in Nat
         /\ \A b \in Backends : stmt[b] # Free => stmt[b] \in Statement
         /\ \A b \in Backends : stmt[b] # Free =>
              /\ stmt[b].client \in Clients /\ stmt[b].call \in Nat
              /\ stmt[b].affected \in Nat /\ stmt[b].events \in Seq(Kinds)
              /\ stmt[b].rows \in SUBSET Row
         /\ \A i \in 1..Len(wal) : wal[i].client \in Clients /\ wal[i].call \in Nat
         /\ \A c \in Clients : Last(c) \in Nat
<1>1. \A b \in Backends : stmt[b] # Free => stmt[b] \in Statement
  BY StatementNotFree DEF TypeOK
<1>2. \A i \in 1..Len(wal) : wal[i] \in Transaction
  BY DEF TypeOK
<1> QED BY <1>1, <1>2, BatchesAssumption DEF TypeOK, Statement, Transaction, Last

(* Calls that keep their events and statuses keep their transactions. *)
LEMMA OutcomesStay ==
  ASSUME TypeOK, AttemptInv, wal' = wal, calls' = calls
  PROVE  TransactionsAreAttempts' /\ AcknowledgedAreStored'
<1>1. \A c, k : TransactionsOf(c, k)' = TransactionsOf(c, k)
  BY TransactionsStay
<1>2. \A c : Last(c)' = Last(c)
  BY DEF Last
<1>3. ASSUME NEW i \in 1..Len(wal) PROVE IsOutcome(wal[i])'
  <2>1. IsOutcome(wal[i]) /\ wal'[i] = wal[i]
    BY DEF AttemptInv, TransactionsAreAttempts
  <2> QED BY <1>1, <1>2, <2>1 DEF IsOutcome
<1>4. AcknowledgedAreStored'
  BY <1>1, <1>2 DEF AttemptInv, AcknowledgedAreStored
<1> QED BY <1>3, <1>4 DEF TransactionsAreAttempts

(* A statement that is left alone stays an attempt of its call. *)
LEMMA AttemptStays ==
  ASSUME StatementsAreAttempts, wal' = wal, calls' = calls,
         NEW b \in Backends, stmt[b] # Free, stmt'[b] = stmt[b]
  PROVE  IsAttempt(stmt[b])'
<1>1. IsAttempt(stmt[b])
  BY DEF StatementsAreAttempts
<1>2. \A c, k : TransactionsOf(c, k)' = TransactionsOf(c, k)
  BY TransactionsStay
<1>3. \A c : Last(c)' = Last(c)
  BY DEF Last
<1> QED BY <1>1, <1>2, <1>3 DEF IsAttempt

(* The invariant carries over when nothing it speaks of changes. *)
LEMMA AttemptUndisturbed ==
  ASSUME TypeOK, AttemptInv, stmt' = stmt, wal' = wal, calls' = calls
  PROVE  AttemptInv'
<1>1. Free' = Free
  BY DEF Free
<1>2. OneStatementEach'
  BY <1>1 DEF AttemptInv, OneStatementEach, Belongs
<1>3. StatementsAreAttempts'
  <2> SUFFICES ASSUME NEW b \in Backends, stmt[b] # Free PROVE IsAttempt(stmt[b])'
    BY <1>1 DEF StatementsAreAttempts
  <2> QED BY AttemptStays DEF AttemptInv
<1> QED BY <1>2, <1>3, OutcomesStay DEF AttemptInv

(* A session that is freed takes a statement away. *)
LEMMA ReapAttempt ==
  ASSUME TypeOK, AttemptInv, NEW b \in Backends, Reap(b)
  PROVE  AttemptInv'
<1>1. /\ stmt'[b] = Free /\ \A a \in Backends \ {b} : stmt'[a] = stmt[a]
      /\ wal' = wal /\ calls' = calls
  BY DEF Reap, TypeOK
<1>2. OneStatementEach'
  BY <1>1 DEF AttemptInv, OneStatementEach, Belongs, Free
<1>3. StatementsAreAttempts'
  <2> SUFFICES ASSUME NEW a \in Backends, stmt'[a] # Free PROVE IsAttempt(stmt[a])'
    BY DEF StatementsAreAttempts, Free
  <2> QED BY <1>1, AttemptStays DEF AttemptInv
<1> QED BY <1>1, <1>2, <1>3, OutcomesStay DEF AttemptInv

LEMMA AbortAttempt ==
  ASSUME TypeOK, AttemptInv, NEW b \in Backends, Abort(b)
  PROVE  AttemptInv'
<1>1. /\ stmt[b] # Free /\ stmt[b] \in Statement /\ stmt[b].phase = "inserting"
      /\ stmt' = [stmt EXCEPT ![b] = [stmt[b] EXCEPT !.phase = "failed"]]
      /\ wal' = wal /\ calls' = calls
  BY AttemptTypes DEF Abort, TypeOK
<1>2. /\ stmt'[b].phase = "failed" /\ stmt'[b] # Free
      /\ stmt'[b].client = stmt[b].client /\ stmt'[b].call = stmt[b].call
      /\ stmt'[b].events = stmt[b].events /\ stmt'[b].rows = stmt[b].rows
      /\ stmt'[b].affected = stmt[b].affected
      /\ \A a \in Backends \ {b} : stmt'[a] = stmt[a]
  BY <1>1 DEF TypeOK, Statement, Free
<1>3. OneStatementEach'
  BY <1>1, <1>2 DEF AttemptInv, OneStatementEach, Belongs, Free
<1>4. StatementsAreAttempts'
  <2> SUFFICES ASSUME NEW a \in Backends, stmt'[a] # Free PROVE IsAttempt(stmt[a])'
    BY DEF StatementsAreAttempts, Free
  <2>1. CASE a = b
    <3>1. IsAttempt(stmt[b])
      BY <1>1 DEF AttemptInv, StatementsAreAttempts
    <3>2. \A c, k : TransactionsOf(c, k)' = TransactionsOf(c, k)
      BY <1>1, TransactionsStay
    <3>3. \A c : Last(c)' = Last(c)
      BY <1>1 DEF Last
    <3> QED BY <1>1, <1>2, <2>1, <3>1, <3>2, <3>3 DEF IsAttempt
  <2>2. CASE a # b
    BY <1>1, <1>2, <2>2, AttemptStays DEF AttemptInv
  <2> QED BY <2>1, <2>2
<1> QED BY <1>1, <1>3, <1>4, OutcomesStay DEF AttemptInv

(* The next event of the batch gets the highest number so far. *)
LEMMA InsertRowAttempt ==
  ASSUME TypeOK, Numbered, AttemptInv, NEW b \in Backends, InsertRow(b)
  PROVE  AttemptInv'
<1> DEFINE n == stmt[b].affected
           r == [seq |-> nextSeq, kind |-> stmt[b].events[n + 1]]
<1>1. /\ stmt[b] # Free /\ stmt[b] \in Statement /\ stmt[b].phase = "inserting"
      /\ n \in Nat /\ n < Len(stmt[b].events) /\ Len(stmt[b].events) \in Nat
      /\ stmt[b].events \in Seq(Kinds) /\ stmt[b].rows \in SUBSET Row
      /\ wal' = wal /\ calls' = calls
  BY AttemptTypes DEF InsertRow
<1>2. stmt' = [stmt EXCEPT ![b] = [stmt[b] EXCEPT !.rows = @ \cup {r}, !.affected = n + 1]]
  BY <1>1 DEF InsertRow, TypeOK, Statement
<1>3. /\ stmt'[b].phase = "inserting" /\ stmt'[b] # Free
      /\ stmt'[b].client = stmt[b].client /\ stmt'[b].call = stmt[b].call
      /\ stmt'[b].events = stmt[b].events /\ stmt'[b].rows = stmt[b].rows \cup {r}
      /\ stmt'[b].affected = n + 1
      /\ \A a \in Backends \ {b} : stmt'[a] = stmt[a]
  <2> HIDE DEF n, r
  <2> QED BY <1>1, <1>2 DEF TypeOK, Statement, Free
<1>4. IsAttempt(stmt[b])
  BY <1>1 DEF AttemptInv, StatementsAreAttempts
<1>5. SpellsFirst(stmt[b].rows \cup {r}, stmt[b].events, n + 1)
  <2>1. r \in Row /\ r.kind = stmt[b].events[n + 1] /\ r.seq = nextSeq
    BY <1>1 DEF Row, TypeOK
  <2>2. \A s \in stmt[b].rows : s.seq < nextSeq
    BY <1>1 DEF Numbered, Drawn, Held
  <2>3. SpellsFirst(stmt[b].rows, stmt[b].events, n)
    BY <1>4 DEF IsAttempt
  <2> HIDE DEF r, n
  <2> QED BY <1>1, <2>1, <2>2, <2>3, SpellsOneMore
<1> HIDE DEF r, n
<1>6. OneStatementEach'
  BY <1>1, <1>3 DEF AttemptInv, OneStatementEach, Belongs, Free
<1>7. StatementsAreAttempts'
  <2> SUFFICES ASSUME NEW a \in Backends, stmt'[a] # Free PROVE IsAttempt(stmt[a])'
    BY DEF StatementsAreAttempts, Free
  <2>1. CASE a = b
    <3>1. \A c, k : TransactionsOf(c, k)' = TransactionsOf(c, k)
      BY <1>1, TransactionsStay
    <3>2. \A c : Last(c)' = Last(c)
      BY <1>1 DEF Last
    <3>3. SpellsFirst(stmt'[a].rows, stmt'[a].events, stmt'[a].affected)
      BY <1>3, <1>5, <2>1
    <3>4. stmt'[a].affected <= Len(stmt'[a].events)
      BY <1>1, <1>3, <2>1
    <3>5. TransactionsOf(stmt[b].client, stmt[b].call) = {}
      BY <1>1, <1>4 DEF IsAttempt
    <3>6. TransactionsOf(stmt[a].client, stmt[a].call)' = {}
      BY <1>3, <2>1, <3>1, <3>5
    <3>7. /\ stmt'[a].call \in 1..Last(stmt[a].client)'
          /\ stmt'[a].events = calls'[stmt'[a].client][stmt'[a].call].events
          /\ calls'[stmt'[a].client][stmt'[a].call].status \in {"executing", "error"}
      BY <1>1, <1>3, <1>4, <2>1, <3>2 DEF IsAttempt
    <3> QED BY <1>3, <2>1, <3>3, <3>4, <3>6, <3>7 DEF IsAttempt
  <2>2. CASE a # b
    BY <1>1, <1>3, <2>2, AttemptStays DEF AttemptInv
  <2> QED BY <2>1, <2>2
<1> QED BY <1>1, <1>6, <1>7, OutcomesStay DEF AttemptInv

(* A commit adds one transaction, the first of its call. *)
LEMMA CommitAttempt ==
  ASSUME TypeOK, StatementsAreGuarded, AttemptInv, NEW b \in Backends, Commit(b)
  PROVE  AttemptInv'
<1> DEFINE n == Len(wal) + 1
           c == stmt[b].client
           k == stmt[b].call
<1>1. /\ stmt[b] # Free /\ stmt[b] \in Statement /\ stmt[b].phase = "inserting"
      /\ c \in Clients /\ k \in Nat /\ Len(wal) \in Nat
      /\ stmt[b].affected = Len(stmt[b].events) /\ stmt[b].affected # 0
      /\ calls' = calls
  <2>1. stmt[b] # Free /\ stmt[b].events \in Seq(Kinds) /\ stmt[b].events # << >>
    BY AttemptTypes DEF Commit, StatementsAreGuarded
  <2>2. Len(stmt[b].events) # 0
    BY <2>1
  <2> QED BY <2>1, <2>2, AttemptTypes DEF Commit
<1>2. /\ stmt'[b].phase = "done" /\ stmt'[b] # Free
      /\ stmt'[b].client = c /\ stmt'[b].call = k
      /\ stmt'[b].events = stmt[b].events /\ stmt'[b].rows = stmt[b].rows
      /\ stmt'[b].affected = stmt[b].affected
      /\ \A a \in Backends \ {b} : stmt'[a] = stmt[a]
  <2>1. stmt' = [stmt EXCEPT ![b] = [stmt[b] EXCEPT !.phase = "done"]]
    BY DEF Commit, TypeOK
  <2> QED BY <1>1, <2>1 DEF TypeOK, Statement, Free
<1>3. /\ Len(wal') = n /\ \A i \in 1..Len(wal) : wal'[i] = wal[i]
      /\ wal'[n].client = c /\ wal'[n].call = k /\ wal'[n].rows = stmt[b].rows
  <2> DEFINE t == [client |-> stmt[b].client, call |-> stmt[b].call, view |-> stmt[b].view,
                   base |-> stmt[b].base, rows |-> stmt[b].rows]
  <2>1. wal' = Append(wal, t)
    BY DEF Commit
  <2>2. Len(wal') = n /\ wal'[n] = t /\ \A i \in 1..Len(wal) : wal'[i] = wal[i]
    BY <2>1 DEF TypeOK
  <2> QED BY <2>2
<1>4. IsAttempt(stmt[b]) /\ TransactionsOf(c, k) = {}
  BY <1>1 DEF AttemptInv, StatementsAreAttempts, IsAttempt
<1>5. \A d, l : TransactionsOf(d, l)' = TransactionsOf(d, l)
                                        \cup (IF d = c /\ l = k THEN {n} ELSE {})
  <2>1. 1..n = 1..Len(wal) \cup {n}
    BY <1>1
  <2> HIDE DEF n, c, k
  <2> QED BY <1>3, <2>1 DEF TransactionsOf
<1>6. \A d : Last(d)' = Last(d)
  BY <1>1 DEF Last
<1> HIDE DEF n
<1>7. OneStatementEach'
  BY <1>1, <1>2 DEF AttemptInv, OneStatementEach, Belongs, Free
<1>8. StatementsAreAttempts'
  <2> SUFFICES ASSUME NEW a \in Backends, stmt'[a] # Free PROVE IsAttempt(stmt[a])'
    BY DEF StatementsAreAttempts, Free
  <2>1. CASE a = b
    <3>1. TransactionsOf(stmt[a].client, stmt[a].call)' # {}
      BY <1>2, <1>5, <2>1
    <3> QED BY <1>1, <1>2, <1>4, <1>6, <2>1, <3>1 DEF IsAttempt
  <2>2. CASE a # b
    <3>1. stmt[a] # Free /\ stmt'[a] = stmt[a]
      BY <1>2, <2>2
    <3>2. ~ (stmt[a].client = c /\ stmt[a].call = k)
      BY <1>1, <2>2, <3>1 DEF AttemptInv, OneStatementEach, Belongs
    <3>3. TransactionsOf(stmt[a].client, stmt[a].call)'
          = TransactionsOf(stmt[a].client, stmt[a].call)
      BY <1>5, <3>1, <3>2
    <3>4. IsAttempt(stmt[a])
      BY <3>1 DEF AttemptInv, StatementsAreAttempts
    <3> QED BY <1>1, <1>6, <3>1, <3>3, <3>4 DEF IsAttempt
  <2> QED BY <2>1, <2>2
<1>9. TransactionsAreAttempts'
  <2> SUFFICES ASSUME NEW i \in 1..n PROVE IsOutcome(wal[i])'
    BY <1>3 DEF TransactionsAreAttempts
  <2>1. CASE i = n
    <3>1. TransactionsOf(wal[i].client, wal[i].call)' = {n}
      BY <1>3, <1>4, <1>5, <2>1
    <3>2. Spells(wal'[i].rows, calls'[wal'[i].client][wal'[i].call].events)
      <4>1. SpellsFirst(stmt[b].rows, stmt[b].events, Len(stmt[b].events))
        BY <1>1, <1>4 DEF IsAttempt
      <4>2. Spells(stmt[b].rows, stmt[b].events)
        BY <4>1, SpellsAll
      <4>3. stmt[b].events = calls[c][k].events
        BY <1>4 DEF IsAttempt
      <4> QED BY <1>1, <1>3, <2>1, <4>2, <4>3
    <3>3. /\ wal'[i].call \in 1..Last(wal[i].client)'
          /\ calls'[wal'[i].client][wal'[i].call].status \in {"executing", "error", "nil"}
      BY <1>1, <1>3, <1>4, <1>6, <2>1 DEF IsAttempt
    <3> QED BY <3>1, <3>2, <3>3 DEF IsOutcome
  <2>2. CASE i # n
    <3>1. i \in 1..Len(wal) /\ wal'[i] = wal[i]
      BY <1>1, <1>3, <2>2 DEF n
    <3>2. IsOutcome(wal[i])
      BY <3>1 DEF AttemptInv, TransactionsAreAttempts
    <3>3. i \in TransactionsOf(wal[i].client, wal[i].call)
      BY <3>1 DEF TransactionsOf
    <3>4. ~ (wal[i].client = c /\ wal[i].call = k)
      BY <1>4, <3>3
    <3>5. TransactionsOf(wal[i].client, wal[i].call)'
          = TransactionsOf(wal[i].client, wal[i].call)
      BY <1>5, <3>1, <3>4
    <3> QED BY <1>1, <1>6, <3>1, <3>2, <3>5 DEF IsOutcome
  <2> QED BY <2>1, <2>2
<1>10. AcknowledgedAreStored'
  BY <1>1, <1>5, <1>6 DEF AttemptInv, AcknowledgedAreStored
<1> QED BY <1>7, <1>8, <1>9, <1>10 DEF AttemptInv

-----------------------------------------------------------------------------
(* A new call has neither a statement nor a transaction yet. *)
LEMMA AppendCallAttempt ==
  ASSUME TypeOK, AttemptInv, NEW c \in Clients, NEW events \in Batches, AppendCall(c, events)
  PROVE  AttemptInv'
<1> DEFINE call == [events |-> events,
                    status |-> IF events = << >> THEN "nil" ELSE "acquiring"]
<1>1. /\ calls' = [calls EXCEPT ![c] = Append(calls[c], call)] /\ stmt' = stmt /\ wal' = wal
      /\ calls[c] \in Seq(Call)
  BY DEF AppendCall, TypeOK
<1>2. /\ Last(c)' = Last(c) + 1 /\ Last(c) \in Nat
      /\ \A k \in 1..Last(c) : calls'[c][k] = calls[c][k]
      /\ calls'[c][Last(c) + 1] = call
      /\ \A d \in Clients \ {c} : calls'[d] = calls[d] /\ Last(d)' = Last(d)
  BY <1>1 DEF Last, TypeOK
<1>3. \A d \in Clients : \A k \in 1..Last(d) :
        k \in 1..Last(d)' /\ calls'[d][k] = calls[d][k]
  BY <1>2, AttemptTypes
<1>4. \A d, k : TransactionsOf(d, k)' = TransactionsOf(d, k)
  BY <1>1, TransactionsStay
<1>5. OneStatementEach'
  BY <1>1 DEF AttemptInv, OneStatementEach, Belongs, Free
<1>6. StatementsAreAttempts'
  <2> SUFFICES ASSUME NEW b \in Backends, stmt[b] # Free PROVE IsAttempt(stmt[b])'
    BY <1>1 DEF StatementsAreAttempts, Free
  <2>1. IsAttempt(stmt[b]) /\ stmt[b].client \in Clients /\ stmt'[b] = stmt[b]
    BY <1>1, AttemptTypes DEF AttemptInv, StatementsAreAttempts
  <2> QED BY <1>3, <1>4, <2>1 DEF IsAttempt
<1>7. TransactionsAreAttempts'
  <2> SUFFICES ASSUME NEW i \in 1..Len(wal) PROVE IsOutcome(wal[i])'
    BY <1>1 DEF TransactionsAreAttempts
  <2>1. IsOutcome(wal[i]) /\ wal[i].client \in Clients /\ wal'[i] = wal[i]
    BY <1>1, AttemptTypes DEF AttemptInv, TransactionsAreAttempts
  <2> QED BY <1>3, <1>4, <2>1 DEF IsOutcome
<1>8. AcknowledgedAreStored'
  <2> SUFFICES ASSUME NEW d \in Clients, NEW k \in 1..Last(d)',
                      calls'[d][k].status = "nil" /\ calls'[d][k].events # << >>
               PROVE  TransactionsOf(d, k) # {}
    BY <1>4 DEF AcknowledgedAreStored
  <2>1. CASE k \in 1..Last(d)
    BY <1>3, <2>1 DEF AttemptInv, AcknowledgedAreStored
  <2>2. CASE k \notin 1..Last(d)
    <3>1. d = c /\ k = Last(c) + 1
      BY <1>2, <2>2
    <3>2. call.status = "nil" /\ call.events # << >>
      BY <1>2, <3>1
    <3> QED BY <3>2
  <2> QED BY <2>1, <2>2
<1> QED BY <1>5, <1>6, <1>7, <1>8 DEF AttemptInv

(* Only the status of a client's last call ever changes. *)
LEMMA StatusChanges ==
  ASSUME TypeOK, NEW c \in Clients, Last(c) > 0, NEW s \in Status, SetStatus(c, s)
  PROVE  /\ \A d \in Clients : Last(d)' = Last(d)
         /\ \A d \in Clients : \A k \in 1..Last(d) :
              /\ calls'[d][k].events = calls[d][k].events
              /\ ~ (d = c /\ k = Last(c)) => calls'[d][k].status = calls[d][k].status
         /\ calls'[c][Last(c)].status = s /\ Last(c) \in 1..Last(c)
<1>1. \A d \in Clients : Last(d) \in Nat
  BY AttemptTypes
<1>2. Last(c)' = Last(c) /\ \A d \in Clients \ {c} : calls'[d] = calls[d] /\ Last(d)' = Last(d)
  BY SetStatusTyped DEF Last
<1>3. \A k \in 1..Last(c) : /\ calls'[c][k].events = calls[c][k].events
                            /\ k # Last(c) => calls'[c][k].status = calls[c][k].status
  BY <1>1, SetStatusTyped
<1>4. calls'[c][Last(c)].status = s /\ Last(c) \in 1..Last(c)
  BY <1>1, SetStatusTyped
<1> QED BY <1>2, <1>3, <1>4

(* A transaction survives a new status of a call that tells no lie about it.*)
LEMMA OutcomesAfterStatus ==
  ASSUME TypeOK, AttemptInv, wal' = wal,
         NEW c \in Clients, Last(c) > 0, NEW s \in Status, SetStatus(c, s),
         TransactionsOf(c, Last(c)) # {} => s \in {"executing", "error", "nil"},
         s = "nil" => TransactionsOf(c, Last(c)) # {}
  PROVE  TransactionsAreAttempts' /\ AcknowledgedAreStored'
<1>1. \A d, k : TransactionsOf(d, k)' = TransactionsOf(d, k)
  BY TransactionsStay
<1>2. ASSUME NEW i \in 1..Len(wal) PROVE IsOutcome(wal[i])'
  <2>1. IsOutcome(wal[i]) /\ wal[i].client \in Clients /\ wal'[i] = wal[i]
    BY AttemptTypes DEF AttemptInv, TransactionsAreAttempts
  <2>2. i \in TransactionsOf(wal[i].client, wal[i].call)
    BY DEF TransactionsOf
  <2>3. calls'[wal[i].client][wal[i].call].status \in {"executing", "error", "nil"}
    BY <2>1, <2>2, StatusChanges DEF IsOutcome
  <2>4. /\ calls'[wal[i].client][wal[i].call].events = calls[wal[i].client][wal[i].call].events
        /\ Last(wal[i].client)' = Last(wal[i].client)
    BY <2>1, StatusChanges DEF IsOutcome
  <2> QED BY <1>1, <2>1, <2>3, <2>4 DEF IsOutcome
<1>3. ASSUME NEW d \in Clients, NEW k \in 1..Last(d)',
             calls'[d][k].status = "nil" /\ calls'[d][k].events # << >>
      PROVE  TransactionsOf(d, k)' # {}
  <2>1. k \in 1..Last(d) /\ calls[d][k].events # << >>
    BY <1>3, StatusChanges
  <2>2. CASE d = c /\ k = Last(c)
    BY <1>1, <1>3, <2>2, StatusChanges
  <2>3. CASE ~ (d = c /\ k = Last(c))
    <3>1. calls[d][k].status = "nil"
      BY <1>3, <2>1, <2>3, StatusChanges
    <3> QED BY <1>1, <2>1, <3>1 DEF AttemptInv, AcknowledgedAreStored
  <2> QED BY <2>2, <2>3
<1> QED BY <1>2, <1>3 DEF TransactionsAreAttempts, AcknowledgedAreStored

(* A statement stays an attempt unless its own call gets another status.   *)
LEMMA AttemptAfterStatus ==
  ASSUME TypeOK, AttemptInv, wal' = wal,
         NEW c \in Clients, Last(c) > 0, NEW s \in Status, SetStatus(c, s),
         NEW b \in Backends, stmt[b] # Free, stmt'[b] = stmt[b],
         s \in {"executing", "error"} \/ ~Belongs(stmt[b], c, Last(c))
  PROVE  IsAttempt(stmt[b])'
<1>1. IsAttempt(stmt[b]) /\ stmt[b].client \in Clients
  BY AttemptTypes DEF AttemptInv, StatementsAreAttempts
<1>2. \A d, k : TransactionsOf(d, k)' = TransactionsOf(d, k)
  BY TransactionsStay
<1>3. /\ Last(stmt[b].client)' = Last(stmt[b].client)
      /\ calls'[stmt[b].client][stmt[b].call].events = calls[stmt[b].client][stmt[b].call].events
      /\ calls'[stmt[b].client][stmt[b].call].status \in {"executing", "error"}
  BY <1>1, StatusChanges DEF IsAttempt, Belongs
<1> QED BY <1>1, <1>2, <1>3 DEF IsAttempt

(* The INSERT of a call that waits for a connection is its first. *)
LEMMA ExecuteAttempt ==
  ASSUME TypeOK, Decided, AttemptInv, NEW c \in Clients, NEW b \in Backends, Execute(c, b)
  PROVE  AttemptInv'
<1> DEFINE s == [phase |-> IF GuardHolds(view[c], Committed) THEN "inserting" ELSE "done",
                 client |-> c, call |-> Last(c), view |-> view[c], base |-> Len(wal),
                 events |-> calls[c][Last(c)].events, rows |-> {}, affected |-> 0]
<1>1. /\ Last(c) > 0 /\ calls[c][Last(c)].status = "acquiring" /\ stmt[b] = Free
      /\ SetStatus(c, "executing") /\ "executing" \in Status /\ wal' = wal
      /\ stmt'[b] = s /\ \A a \in Backends \ {b} : stmt'[a] = stmt[a]
  BY DEF Execute, TypeOK, Status
<1>2. /\ s.client = c /\ s.call = Last(c) /\ s.rows = {} /\ s.affected = 0
      /\ s.events = calls[c][Last(c)].events /\ s # Free
  BY DEF Free
<1> HIDE DEF s
<1>3. \A a \in Backends : ~Belongs(stmt[a], c, Last(c))
  BY <1>1 DEF AttemptInv, StatementsAreAttempts, IsAttempt, Belongs
<1>4. TransactionsOf(c, Last(c)) = {}
  <2> SUFFICES ASSUME NEW i \in TransactionsOf(c, Last(c)) PROVE FALSE
    OBVIOUS
  <2>1. i \in 1..Len(wal) /\ wal[i].client = c /\ wal[i].call = Last(c)
    BY DEF TransactionsOf
  <2>2. IsOutcome(wal[i])
    BY <2>1 DEF AttemptInv, TransactionsAreAttempts
  <2> QED BY <1>1, <2>1, <2>2 DEF IsOutcome
<1>5. OneStatementEach'
  BY <1>1, <1>2, <1>3 DEF AttemptInv, OneStatementEach, Belongs, Free
<1>6. StatementsAreAttempts'
  <2> SUFFICES ASSUME NEW a \in Backends, stmt'[a] # Free PROVE IsAttempt(stmt[a])'
    BY DEF StatementsAreAttempts, Free
  <2>1. CASE a = b
    <3>1. SpellsFirst(stmt'[a].rows, stmt'[a].events, stmt'[a].affected)
      BY <1>1, <1>2, <2>1, SpellsNothing
    <3>2. TransactionsOf(stmt[a].client, stmt[a].call)' = {}
      BY <1>1, <1>2, <1>4, <2>1 DEF TransactionsOf
    <3>3. /\ Last(c)' = Last(c) /\ Last(c) \in 1..Last(c)
          /\ calls'[c][Last(c)].events = calls[c][Last(c)].events
          /\ calls'[c][Last(c)].status = "executing"
      BY <1>1, StatusChanges
    <3>4. Len(stmt'[a].events) \in Nat
      BY <1>1, <1>2, <2>1, AttemptTypes, BatchesAssumption DEF TypeOK, Call, Last
    <3>5. /\ stmt'[a].client = c /\ stmt'[a].call = Last(c) /\ stmt'[a].affected = 0
          /\ stmt'[a].events = calls[c][Last(c)].events
      BY <1>1, <1>2, <2>1
    <3>6. /\ stmt'[a].call \in 1..Last(stmt[a].client)'
          /\ stmt'[a].events = calls'[stmt'[a].client][stmt'[a].call].events
          /\ calls'[stmt'[a].client][stmt'[a].call].status \in {"executing", "error"}
          /\ stmt'[a].affected <= Len(stmt'[a].events)
      BY <3>3, <3>4, <3>5
    <3> QED BY <3>1, <3>2, <3>5, <3>6 DEF IsAttempt
  <2>2. CASE a # b
    BY <1>1, <2>2, AttemptAfterStatus
  <2> QED BY <2>1, <2>2
<1>7. TransactionsAreAttempts' /\ AcknowledgedAreStored'
  BY <1>1, <1>4, OutcomesAfterStatus
<1> QED BY <1>5, <1>6, <1>7 DEF AttemptInv

(* The call gets the outcome of its only statement. *)
LEMMA ReturnAttempt ==
  ASSUME TypeOK, StatementsAreGuarded, AttemptInv,
         NEW c \in Clients, NEW b \in Backends, Return(c, b)
  PROVE  AttemptInv'
<1> DEFINE s == Outcome(stmt[b])
<1>1. /\ Last(c) > 0 /\ stmt[b] # Free /\ stmt[b].client = c /\ stmt[b].call = Last(c)
      /\ stmt[b].phase \in {"done", "failed"}
      /\ SetStatus(c, s) /\ s \in Status /\ wal' = wal
      /\ stmt'[b] = Free /\ \A a \in Backends \ {b} : stmt'[a] = stmt[a]
  BY DEF Return, Serves, Executing, TypeOK, Status, Outcome
<1>2. /\ stmt[b].affected \in Nat /\ Len(stmt[b].events) \in Nat \ {0}
      /\ IsAttempt(stmt[b])
  <2>1. stmt[b].events \in Seq(Kinds) /\ stmt[b].events # << >> /\ stmt[b].affected \in Nat
    BY <1>1, AttemptTypes DEF StatementsAreGuarded
  <2>2. Len(stmt[b].events) \in Nat \ {0}
    BY <2>1
  <2> QED BY <1>1, <2>1, <2>2 DEF AttemptInv, StatementsAreAttempts
<1>3. /\ s = "nil" => TransactionsOf(c, Last(c)) # {}
      /\ TransactionsOf(c, Last(c)) # {} => s = "nil"
  BY <1>1, <1>2 DEF IsAttempt, Outcome
<1>4. \A a \in Backends \ {b} : ~Belongs(stmt[a], c, Last(c))
  BY <1>1 DEF AttemptInv, OneStatementEach, Belongs
<1>5. OneStatementEach'
  BY <1>1 DEF AttemptInv, OneStatementEach, Belongs, Free
<1> HIDE DEF s
<1>6. StatementsAreAttempts'
  <2> SUFFICES ASSUME NEW a \in Backends, stmt'[a] # Free PROVE IsAttempt(stmt[a])'
    BY DEF StatementsAreAttempts, Free
  <2>1. a \in Backends \ {b} /\ stmt[a] # Free /\ stmt'[a] = stmt[a]
    BY <1>1 DEF Free
  <2> QED BY <1>1, <1>4, <2>1, AttemptAfterStatus
<1>7. TransactionsAreAttempts' /\ AcknowledgedAreStored'
  BY <1>1, <1>3, OutcomesAfterStatus
<1> QED BY <1>5, <1>6, <1>7 DEF AttemptInv

(* A cancelled call leaves its statement, if any, to the server. *)
LEMMA CancelAttempt ==
  ASSUME TypeOK, AttemptInv, NEW c \in Clients, Cancel(c)
  PROVE  AttemptInv'
<1>1. /\ Last(c) > 0 /\ SetStatus(c, "error") /\ "error" \in Status
      /\ stmt' = stmt /\ wal' = wal
  BY DEF Cancel, Busy, Status
<1>2. OneStatementEach'
  BY <1>1 DEF AttemptInv, OneStatementEach, Belongs, Free
<1>3. StatementsAreAttempts'
  <2> SUFFICES ASSUME NEW b \in Backends, stmt'[b] # Free PROVE IsAttempt(stmt[b])'
    BY DEF StatementsAreAttempts, Free
  <2>1. stmt[b] # Free /\ stmt'[b] = stmt[b]
    BY <1>1 DEF Free
  <2> QED BY <1>1, <2>1, AttemptAfterStatus
<1>4. TransactionsAreAttempts' /\ AcknowledgedAreStored'
  BY <1>1, OutcomesAfterStatus
<1> QED BY <1>2, <1>3, <1>4 DEF AttemptInv

-----------------------------------------------------------------------------
LEMMA AttemptInit == Init => AttemptInv
  BY DEF Init, AttemptInv, OneStatementEach, StatementsAreAttempts, TransactionsAreAttempts,
         AcknowledgedAreStored, Last, Free

LEMMA AttemptStep == GuardInv /\ AttemptInv /\ [Next]_vars => AttemptInv'
<1> SUFFICES ASSUME GuardInv, AttemptInv, [Next]_vars PROVE AttemptInv'
  OBVIOUS
<1>0. TypeOK /\ Numbered /\ Decided /\ StatementsAreGuarded
  BY DEF GuardInv
<1>1. ASSUME stmt' = stmt, wal' = wal, calls' = calls PROVE AttemptInv'
  BY <1>0, <1>1, AttemptUndisturbed
<1>2. ASSUME NEW c \in Clients, ClientStep(c) PROVE AttemptInv'
  BY <1>0, <1>1, <1>2, AppendCallAttempt, ExecuteAttempt, ReturnAttempt, CancelAttempt
     DEF ClientStep, Query, QueryFails
<1>3. ASSUME NEW b \in Backends, ServerStep(b) PROVE AttemptInv'
  BY <1>0, <1>3, InsertRowAttempt, CommitAttempt, AbortAttempt, ReapAttempt DEF ServerStep
<1>4. CASE ReplicaApply
  BY <1>1, <1>4 DEF ReplicaApply
<1>5. CASE UNCHANGED vars
  BY <1>1, <1>5 DEF vars
<1> QED BY <1>2, <1>3, <1>4, <1>5 DEF Next

(* Every statement and transaction belongs to one call, and a call has at  *)
(* most one of each, though calls are cancelled and retried.               *)
THEOREM AttemptInvariant == Spec => []AttemptInv
<1>1. GuardInv /\ AttemptInv /\ [Next]_vars => AttemptInv'
  BY AttemptStep
<1> QED BY <1>1, AttemptInit, GuardInvariant, PTL DEF Spec

(* What Append returns is what has happened to its batch: nil and it is    *)
(* stored once, whole and in order; a conflict and it never will be; an    *)
(* error and it is stored at most once.                                    *)
THEOREM ResultsTruthful == Spec => []ResultsAreTruthful
<1>1. TypeOK /\ AttemptInv => ResultsAreTruthful
  <2> SUFFICES ASSUME TypeOK, AttemptInv, NEW c \in Clients, NEW k \in 1..Last(c)
               PROVE  LET call   == calls[c][k]
                          stored == TransactionsOf(c, k)
                          running == {b \in Backends : stmt[b] # Free /\ stmt[b].client = c
                                         /\ stmt[b].call = k /\ stmt[b].phase = "inserting"}
                      IN  /\ \A i, j \in stored : i = j
                          /\ \A i \in stored : Spells(wal[i].rows, call.events)
                          /\ call.status = "nil" /\ call.events # << >> => stored # {}
                          /\ call.status = "conflict" => stored = {} /\ running = {}
                          /\ stored # {} => running = {}
    BY DEF ResultsAreTruthful
  <2>1. \A i \in TransactionsOf(c, k) :
          IsOutcome(wal[i]) /\ wal[i].client = c /\ wal[i].call = k
    BY DEF TransactionsOf, AttemptInv, TransactionsAreAttempts
  <2>2. \A b \in Backends : Belongs(stmt[b], c, k) =>
          /\ calls[c][k].status \in {"executing", "error"}
          /\ stmt[b].phase = "inserting" => TransactionsOf(c, k) = {}
    BY DEF Belongs, AttemptInv, StatementsAreAttempts, IsAttempt
  <2>3. calls[c][k].status = "conflict" => TransactionsOf(c, k) = {}
    BY <2>1 DEF IsOutcome
  <2>4. \A i, j \in TransactionsOf(c, k) : i = j
    BY <2>1 DEF IsOutcome
  <2>5. \A i \in TransactionsOf(c, k) : Spells(wal[i].rows, calls[c][k].events)
    BY <2>1 DEF IsOutcome
  <2>6. calls[c][k].status = "nil" /\ calls[c][k].events # << >> => TransactionsOf(c, k) # {}
    BY DEF AttemptInv, AcknowledgedAreStored
  <2> QED BY <2>2, <2>3, <2>4, <2>5, <2>6 DEF Belongs
<1> QED BY <1>1, AttemptInvariant, TypeCorrect, PTL

(* The batch of an append that returned nil is stored whole and in order,  *)
(* and every later query of its client on the primary shows the events of  *)
(* it that match, on whichever session and however far the replica is      *)
(* behind.                                                                 *)
THEOREM ReadsOwnWrites == Spec => ReadYourWrites
<1>1. ASSUME TypeOK, ResultsAreTruthful,
             NEW c \in Clients, NEW f \in Filters, Query(c, f, "strong"),
             NEW k \in 1..Last(c), calls[c][k].status = "nil", calls[c][k].events # << >>
      PROVE  \E i \in TransactionsOf(c, k) :
               /\ Spells(wal[i].rows, calls[c][k].events)
               /\ Stream(f, wal[i].rows) \subseteq view'[c].seen
  <2>1. view'[c].seen = Stream(f, Committed)
    BY <1>1 DEF Query, Source, TypeOK
  <2>2. TransactionsOf(c, k) # {}
    BY <1>1 DEF ResultsAreTruthful
  <2>3. \A i \in TransactionsOf(c, k) : Spells(wal[i].rows, calls[c][k].events)
    BY <1>1 DEF ResultsAreTruthful
  <2>4. \A i \in TransactionsOf(c, k) : wal[i].rows \subseteq Committed
    BY DEF TransactionsOf, Committed, RowsOf
  <2> QED BY <2>1, <2>2, <2>3, <2>4 DEF Stream
<1>2. TypeOK /\ ResultsAreTruthful /\ [Next]_vars =>
        [\A c \in Clients, f \in Filters :
           Query(c, f, "strong") =>
             \A k \in 1..Last(c) :
               calls[c][k].status = "nil" /\ calls[c][k].events # << >> =>
                 \E i \in TransactionsOf(c, k) :
                   /\ Spells(wal[i].rows, calls[c][k].events)
                   /\ Stream(f, wal[i].rows) \subseteq view'[c].seen]_vars
  BY <1>1
<1> QED BY <1>2, ResultsTruthful, TypeCorrect, PTL DEF Spec, ReadYourWrites
=============================================================================
