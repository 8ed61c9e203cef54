------------------------- MODULE EventStoreInvariants -------------------------
(***************************************************************************)
(* The inductive invariants behind the safety properties of EventStore.    *)
(* They are checked by TLC and proved in EventStoreProofs.                 *)
(***************************************************************************)
EXTENDS EventStore

(* The rows that are committed or still in a statement.  Each of them has  *)
(* a number of its own, below the next one.                                *)
Held(b) == IF stmt[b] = Free THEN {} ELSE stmt[b].rows
Drawn == Committed \cup UNION {Held(b) : b \in Backends}

Numbered ==
  /\ \A r \in Drawn : 0 < r.seq /\ r.seq < nextSeq
  /\ \A r, s \in Drawn : r.seq = s.seq => r = s

(* A call that is under way has a view to decide on and events to store. *)
Decided ==
  \A c \in Clients :
    Busy(c) => view[c] # NoView /\ calls[c][Last(c)].events # << >>

(* v was read from the transactions up to n, on the primary or the replica.*)
ReadFrom(v, n) ==
  /\ v.seen \subseteq Stream(v.filter, RowsOf(n))
  /\ v.expected = LastSequence(v.seen)

(* The guard held for v on the transactions up to n: whatever v missed of  *)
(* them has a number below the one it expected.                            *)
Passed(v, n) ==
  \A r \in Stream(v.filter, RowsOf(n)) \ v.seen : r.seq < v.expected

(* The guard did not hold: v missed a row with a greater number. *)
Refused(v, n) ==
  \E r \in Stream(v.filter, RowsOf(n)) \ v.seen : r.seq > v.expected

ViewsAreReads == \A c \in Clients : view[c] # NoView => ReadFrom(view[c], Len(wal))

StatementsAreGuarded ==
  \A b \in Backends : stmt[b] # Free =>
    /\ stmt[b].base \in 0..Len(wal)
    /\ ReadFrom(stmt[b].view, stmt[b].base)
    /\ stmt[b].events # << >>
    /\ stmt[b].affected > 0 => stmt[b].rows # {}
    /\ stmt[b].phase = "inserting" => Passed(stmt[b].view, stmt[b].base)
    /\ stmt[b].phase = "done" /\ stmt[b].rows = {} => Refused(stmt[b].view, stmt[b].base)

TransactionsAreGuarded ==
  \A i \in 1..Len(wal) :
    /\ wal[i].base \in 0..i - 1
    /\ ReadFrom(wal[i].view, wal[i].base)
    /\ Passed(wal[i].view, wal[i].base)

GuardInv ==
  /\ TypeOK
  /\ Numbered
  /\ Decided
  /\ ViewsAreReads
  /\ StatementsAreGuarded
  /\ TransactionsAreGuarded

-----------------------------------------------------------------------------
(* Every statement and every transaction belongs to one call of Append.    *)

(* The rows are the first n events of the batch, in order. *)
SpellsFirst(rows, batch, n) ==
  \E f \in [1..n -> rows] :
    /\ \A r \in rows : \E i \in 1..n : f[i] = r
    /\ \A i \in 1..n : f[i].kind = batch[i]
    /\ \A i \in 2..n : f[i-1].seq < f[i].seq

Belongs(s, c, k) == s # Free /\ s.client = c /\ s.call = k

OneStatementEach ==
  \A a, b \in Backends :
    (stmt[a] # Free /\ Belongs(stmt[b], stmt[a].client, stmt[a].call)) => a = b

IsAttempt(s) ==
  LET stored == TransactionsOf(s.client, s.call)
  IN  /\ s.call \in 1..Last(s.client)
      /\ s.events = calls[s.client][s.call].events
      /\ calls[s.client][s.call].status \in {"executing", "error"}
      /\ s.affected <= Len(s.events)
      /\ SpellsFirst(s.rows, s.events, s.affected)
      /\ IF s.phase = "done" /\ s.affected # 0
         THEN s.affected = Len(s.events) /\ stored # {}
         ELSE stored = {}

StatementsAreAttempts == \A b \in Backends : stmt[b] # Free => IsAttempt(stmt[b])

IsOutcome(t) ==
  /\ t.call \in 1..Last(t.client)
  /\ calls[t.client][t.call].status \in {"executing", "error", "nil"}
  /\ Spells(t.rows, calls[t.client][t.call].events)
  /\ \A i, j \in TransactionsOf(t.client, t.call) : i = j

TransactionsAreAttempts == \A i \in 1..Len(wal) : IsOutcome(wal[i])

AcknowledgedAreStored ==
  \A c \in Clients : \A k \in 1..Last(c) :
    calls[c][k].status = "nil" /\ calls[c][k].events # << >> => TransactionsOf(c, k) # {}

AttemptInv ==
  /\ OneStatementEach
  /\ StatementsAreAttempts
  /\ TransactionsAreAttempts
  /\ AcknowledgedAreStored

-----------------------------------------------------------------------------
(* With a single session statements run one after the other: the rows of   *)
(* transactions are numbered in commit order, those of the statement under *)
(* way come after all of them, and nothing commits while it runs.          *)
OneSession == \A a, b \in Backends : a = b

CommitOrder ==
  \A i, j \in 1..Len(wal) : i < j =>
    \A r \in wal[i].rows, s \in wal[j].rows : r.seq < s.seq

RunsAlone ==
  \A b \in Backends : (stmt[b] # Free /\ stmt[b].phase = "inserting") =>
    /\ stmt[b].base = Len(wal)
    /\ stmt[b].view.seen = Stream(stmt[b].view.filter, Committed)
    /\ \A r \in Committed, s \in stmt[b].rows : r.seq < s.seq

(* What a client has seen is the whole stream as of some transaction. *)
ViewsArePrefixes ==
  \A c \in Clients : view[c] # NoView =>
    \E n \in 0..Len(wal) : view[c].seen = Stream(view[c].filter, RowsOf(n))

SerialInv ==
  /\ CommitOrder
  /\ RunsAlone
  /\ ViewsArePrefixes
  /\ NoLostUpdate
=============================================================================
