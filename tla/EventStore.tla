----------------------------- MODULE EventStore -----------------------------
(***************************************************************************)
(* The core of the event store: Query and Append of EventStore objects     *)
(* that share one events table on a PostgreSQL primary, and an optional    *)
(* streaming replica.                                                      *)
(*                                                                         *)
(* Append sends a single INSERT ... SELECT guarded by a CTE and never      *)
(* chooses an isolation level, so it runs as an autocommit transaction in  *)
(* READ COMMITTED.  On the server this is not one step: the statement      *)
(* takes its snapshot and evaluates the guard (Execute), draws a sequence  *)
(* number for each row it inserts (InsertRow) and commits (Commit).  The   *)
(* statements of other sessions interleave with all of these steps.        *)
(***************************************************************************)
EXTENDS EventStreams

CONSTANTS
  Clients,     \* goroutines that call Query and Append, one call at a time
  Backends,    \* server sessions: statements that the primary can run at once
  Filters,     \* the filters the clients use
  Batches,     \* the batches of events (as kinds) the clients append
  HasReplica,  \* whether the EventStore was built with a replica
  NoView,      \* the view of a client that has not queried
  MaxCalls     \* bound on the Append calls of a client

ASSUME FiltersAssumption  == Filters \subseteq Filter
ASSUME BatchesAssumption  == Batches \subseteq Seq(Kinds)
ASSUME BoundsAssumption   == HasReplica \in BOOLEAN /\ MaxCalls \in Nat

VARIABLES
  wal,      \* the transactions that inserted rows, in the order they committed
  applied,  \* how many transactions of wal the replica has replayed
  nextSeq,  \* the next value of the sequence behind sequence_number
  stmt,     \* what each server session is doing
  view,     \* what each client remembers of its last Query
  calls     \* the Append calls of each client and how they ended

vars == <<wal, applied, nextSeq, stmt, view, calls>>

-----------------------------------------------------------------------------
(* A view is what a caller of Query keeps for the following Append: the    *)
(* filter, the events it decides on and the MaxSequenceNumberUint.         *)
View == [filter : Filters, seen : SUBSET Row, expected : Nat]

Status == {"acquiring", "executing", "nil", "conflict", "error"}
Call == [events : Batches, status : Status]

Free == [phase |-> "free"]
Statement ==
  [phase : {"inserting", "done", "failed"}, client : Clients, call : Nat,
   view : View, base : Nat, events : Batches, rows : SUBSET Row, affected : Nat]
Transaction ==
  [client : Clients, call : Nat, view : View, base : Nat, rows : SUBSET Row]

RowsOf(n) == UNION {wal[i].rows : i \in 1..n}
Committed == RowsOf(Len(wal))
ReplicaRows == RowsOf(applied)

Last(c) == Len(calls[c])
Busy(c) == Last(c) > 0 /\ calls[c][Last(c)].status \in {"acquiring", "executing"}
Executing(c) == Last(c) > 0 /\ calls[c][Last(c)].status = "executing"

(* Session b runs the statement that client c is waiting for.  After a     *)
(* cancellation a statement may run on without anybody waiting for it.     *)
Serves(b, c) ==
  /\ stmt[b] # Free
  /\ Executing(c)
  /\ stmt[b].client = c
  /\ stmt[b].call = Last(c)

SetStatus(c, s) == calls' = [calls EXCEPT ![c][Last(c)].status = s]

Init ==
  /\ wal = << >>
  /\ applied = 0
  /\ nextSeq = 1
  /\ stmt = [b \in Backends |-> Free]
  /\ view = [c \in Clients |-> NoView]
  /\ calls = [c \in Clients |-> << >>]

-----------------------------------------------------------------------------
(* The rows a query of the given consistency level reads: the adapters     *)
(* send it to the replica only if the level is "eventual" and there is one.*)
Source(level) ==
  IF level = "eventual" /\ HasReplica THEN ReplicaRows ELSE Committed

(* Query: one SELECT, hence one snapshot.  The client keeps the events and *)
(* the sequence number of the last one.                                    *)
Query(c, f, level) ==
  /\ ~Busy(c)
  /\ LET seen == Stream(f, Source(level))
     IN  view' = [view EXCEPT ![c] = [filter |-> f, seen |-> seen,
                                      expected |-> LastSequence(seen)]]
  /\ UNCHANGED <<wal, applied, nextSeq, stmt, calls>>

(* Query ends with an error (no connection, scan, iteration, ctx ended):   *)
(* it returns no events and the caller has nothing to decide on.           *)
QueryFails(c) ==
  /\ ~Busy(c)
  /\ view' = [view EXCEPT ![c] = NoView]
  /\ UNCHANGED <<wal, applied, nextSeq, stmt, calls>>

(* A client calls Append with the filter and number of its last Query.  It *)
(* may do so more than once (a retry).  Append of no events returns nil at *)
(* once; otherwise the call asks the primary's pool for a connection.      *)
AppendCall(c, events) ==
  /\ ~Busy(c)
  /\ Last(c) < MaxCalls
  /\ view[c] # NoView
  /\ calls' = [calls EXCEPT ![c] =
                 Append(@, [events |-> events,
                            status |-> IF events = << >> THEN "nil" ELSE "acquiring"])]
  /\ UNCHANGED <<wal, applied, nextSeq, stmt, view>>

(* Mutant: the guard accepts any number from the expected one on. *)
GuardAtLeast(v, rows) == CoalesceMax(Stream(v.filter, rows)) >= v.expected

(* Mutant: an expected number of 0 means that nothing is checked. *)
GuardZeroUnchecked(v, rows) ==
  v.expected = 0 \/ CoalesceMax(Stream(v.filter, rows)) = v.expected

(* The WHERE of the INSERT's SELECT: the filter's greatest sequence number *)
(* is the expected one.                                                    *)
GuardHolds(v, rows) == CoalesceMax(Stream(v.filter, rows)) = v.expected

(* The INSERT starts on a free session: its snapshot is the committed      *)
(* state, and its SELECT yields the whole batch or no row at all.          *)
Execute(c, b) ==
  /\ Last(c) > 0 /\ calls[c][Last(c)].status = "acquiring"
  /\ stmt[b] = Free
  /\ stmt' = [stmt EXCEPT ![b] =
        [phase |-> IF GuardHolds(view[c], Committed) THEN "inserting" ELSE "done",
         client |-> c, call |-> Last(c), view |-> view[c], base |-> Len(wal),
         events |-> calls[c][Last(c)].events, rows |-> {}, affected |-> 0]]
  /\ SetStatus(c, "executing")
  /\ UNCHANGED <<wal, applied, nextSeq, view>>

(* The statement inserts its next row, whose number comes from nextval().  *)
InsertRow(b) ==
  /\ stmt[b] # Free /\ stmt[b].phase = "inserting"
  /\ stmt[b].affected < Len(stmt[b].events)
  /\ LET n == stmt[b].affected + 1
     IN  stmt' = [stmt EXCEPT
           ![b].rows = @ \cup {[seq |-> nextSeq, kind |-> stmt[b].events[n]]},
           ![b].affected = n]
  /\ nextSeq' = nextSeq + 1
  /\ UNCHANGED <<wal, applied, view, calls>>

(* The autocommit of the INSERT makes all of its rows visible. *)
Commit(b) ==
  /\ stmt[b] # Free /\ stmt[b].phase = "inserting"
  /\ stmt[b].affected = Len(stmt[b].events)
  /\ wal' = Append(wal, [client |-> stmt[b].client, call |-> stmt[b].call,
                         view |-> stmt[b].view, base |-> stmt[b].base,
                         rows |-> stmt[b].rows])
  /\ stmt' = [stmt EXCEPT ![b].phase = "done"]
  /\ UNCHANGED <<applied, nextSeq, view, calls>>

(* The statement fails on the server (error, crash, cancel request): its   *)
(* rows vanish, the sequence numbers it has drawn are gone.                *)
Abort(b) ==
  /\ stmt[b] # Free /\ stmt[b].phase = "inserting"
  /\ stmt' = [stmt EXCEPT ![b].phase = "failed"]
  /\ UNCHANGED <<wal, applied, nextSeq, view, calls>>

(* Mutant: off by one in the comparison of the affected rows. *)
OutcomeOffByOne(s) ==
  IF s.phase = "failed" THEN "error"
  ELSE IF s.affected < Len(s.events) - 1 THEN "conflict"
  ELSE "nil"

(* Exec returns: an error, or the number of rows affected, which           *)
(* validateAppendResult compares with the number of events.                *)
Outcome(s) ==
  IF s.phase = "failed" THEN "error"
  ELSE IF s.affected < Len(s.events) THEN "conflict"
  ELSE "nil"

Return(c, b) ==
  /\ Serves(b, c)
  /\ stmt[b].phase \in {"done", "failed"}
  /\ SetStatus(c, Outcome(stmt[b]))
  /\ stmt' = [stmt EXCEPT ![b] = Free]
  /\ UNCHANGED <<wal, applied, nextSeq, view>>

(* The caller's context ends, or the connection breaks, at any time before *)
(* the result has arrived: Append returns an error, and the statement, if  *)
(* it has started, is left to the server.                                  *)
Cancel(c) ==
  /\ Busy(c)
  /\ SetStatus(c, "error")
  /\ UNCHANGED <<wal, applied, nextSeq, stmt, view>>

(* Mutant: the session of a failed statement is never given back. *)
ReapDoneOnly(b) ==
  /\ stmt[b] # Free /\ stmt[b].phase = "done"
  /\ ~Serves(b, stmt[b].client)
  /\ stmt' = [stmt EXCEPT ![b] = Free]
  /\ UNCHANGED <<wal, applied, nextSeq, view, calls>>

(* The server is through with a statement nobody is waiting for. *)
Reap(b) ==
  /\ stmt[b] # Free /\ stmt[b].phase \in {"done", "failed"}
  /\ ~Serves(b, stmt[b].client)
  /\ stmt' = [stmt EXCEPT ![b] = Free]
  /\ UNCHANGED <<wal, applied, nextSeq, view, calls>>

(* The replica replays the next transaction. *)
ReplicaApply ==
  /\ HasReplica
  /\ applied < Len(wal)
  /\ applied' = applied + 1
  /\ UNCHANGED <<wal, nextSeq, stmt, view, calls>>

Levels == {"strong", "eventual"}

ClientStep(c) ==
  \/ \E f \in Filters, level \in Levels : Query(c, f, level)
  \/ QueryFails(c)
  \/ \E events \in Batches : AppendCall(c, events)
  \/ \E b \in Backends : Execute(c, b)
  \/ \E b \in Backends : Return(c, b)
  \/ Cancel(c)

ServerStep(b) == InsertRow(b) \/ Commit(b) \/ Abort(b) \/ Reap(b)

Next ==
  \/ \E c \in Clients : ClientStep(c)
  \/ \E b \in Backends : ServerStep(b)
  \/ ReplicaApply

Spec == Init /\ [][Next]_vars

(* A call that waits for a connection gets one if sessions become free     *)
(* again and again (the pools queue their callers), and the server         *)
(* finishes what it runs.  Nothing obliges a client to call, a context to  *)
(* end, a statement to fail or the replica to replay.                      *)
Fairness ==
  /\ \A c \in Clients : SF_vars(\E b \in Backends : Execute(c, b))
  /\ \A c \in Clients : WF_vars(\E b \in Backends : Return(c, b))
  /\ \A b \in Backends : WF_vars(InsertRow(b)) /\ WF_vars(Commit(b)) /\ WF_vars(Reap(b))

LiveSpec == Spec /\ Fairness

-----------------------------------------------------------------------------
TypeOK ==
  /\ wal \in Seq(Transaction)
  /\ applied \in 0..Len(wal)
  /\ nextSeq \in Nat \ {0}
  /\ stmt \in [Backends -> Statement \cup {Free}]
  /\ view \in [Clients -> View \cup {NoView}]
  /\ calls \in [Clients -> Seq(Call)]

(* What the stream of transaction i's filter was when i committed. *)
StreamBefore(i) == Stream(wal[i].view.filter, RowsOf(i - 1))

(* The promise of optimistic concurrency control: what has been appended   *)
(* was decided on the complete stream of its filter, as it was at the      *)
(* instant of the commit ("If the event stream changed since your query,   *)
(* the append operation fails", docs/core-concepts.md).                    *)
NoLostUpdate == \A i \in 1..Len(wal) : StreamBefore(i) = wal[i].view.seen

(* With the appends of wal as its log, the store is the atomic check-and-  *)
(* append of ConsistencyBoundary.                                          *)
AppendLog == [i \in 1..Len(wal) |-> [filter |-> wal[i].view.filter,
                                     seen   |-> wal[i].view.seen,
                                     rows   |-> wal[i].rows]]
Boundary == INSTANCE ConsistencyBoundary WITH log <- AppendLog
ImplementsBoundary == Boundary!Spec

(* What the guard really gives with any number of sessions: an append can  *)
(* only miss an event that was committed while its own statement ran, or   *)
(* one whose number is below the expected one, because the event was not   *)
(* yet committed when the query read a higher number.  And it never        *)
(* decided on an event that is not there.                                  *)
MissedOnlyConcurrent ==
  \A i \in 1..Len(wal) :
    /\ wal[i].view.seen \subseteq StreamBefore(i)
    /\ \A r \in StreamBefore(i) \ wal[i].view.seen :
         r \notin RowsOf(wal[i].base) \/ r.seq < wal[i].view.expected

(* A conflict is never spurious: when the statement that reports it took   *)
(* its snapshot, an event of the filter's stream was committed that the    *)
(* caller has not seen, with a number above the one it expected.           *)
ConflictHasCause ==
  \A b \in Backends :
    (stmt[b] # Free /\ stmt[b].phase = "done" /\ stmt[b].rows = {}) =>
      \E r \in Stream(stmt[b].view.filter, RowsOf(stmt[b].base)) \ stmt[b].view.seen :
        r.seq > stmt[b].view.expected

(* The transactions that call k of client c has committed. *)
TransactionsOf(c, k) == {i \in 1..Len(wal) : wal[i].client = c /\ wal[i].call = k}

(* The rows are the batch: its kinds, in the order of the batch. *)
Spells(rows, batch) ==
  \E f \in [1..Len(batch) -> rows] :
    /\ \A r \in rows : \E i \in 1..Len(batch) : f[i] = r
    /\ \A i \in 1..Len(batch) : f[i].kind = batch[i]
    /\ \A i \in 2..Len(batch) : f[i-1].seq < f[i].seq

(* What Append returns is what has happened to the batch: it is stored     *)
(* once and in order (nil), it is not and never will be stored (conflict), *)
(* or, after an error, it is stored at most once, as a whole.              *)
ResultsAreTruthful ==
  \A c \in Clients : \A k \in 1..Last(c) :
    LET call   == calls[c][k]
        stored == TransactionsOf(c, k)
        running == {b \in Backends : stmt[b] # Free /\ stmt[b].client = c
                       /\ stmt[b].call = k /\ stmt[b].phase = "inserting"}
    IN  /\ \A i, j \in stored : i = j
        /\ \A i \in stored : Spells(wal[i].rows, call.events)
        /\ call.status = "nil" /\ call.events # << >> => stored # {}
        /\ call.status = "conflict" => stored = {} /\ running = {}
        /\ stored # {} => running = {}

(* What Append said is what Query shows: the batch of an append that       *)
(* returned nil is stored, complete and in order, and a query on the       *)
(* primary returns every event of it that matches, even if other sessions  *)
(* still run abandoned statements of the same client                       *)
(* (docs/primary-replica: "read-after-write consistency").                 *)
ReadYourWrites ==
  [][\A c \in Clients, f \in Filters :
       Query(c, f, "strong") =>
         \A k \in 1..Last(c) :
           calls[c][k].status = "nil" /\ calls[c][k].events # << >> =>
             \E i \in TransactionsOf(c, k) :
               /\ Spells(wal[i].rows, calls[c][k].events)
               /\ Stream(f, wal[i].rows) \subseteq view'[c].seen]_vars

(* Every call of Append returns, whatever the other clients do: sessions   *)
(* are not leaked by cancelled calls, failures or conflicts.               *)
AppendReturns == \A c \in Clients : Busy(c) ~> ~Busy(c)
=============================================================================
