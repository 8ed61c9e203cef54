--------------------------- MODULE QueryExecution ---------------------------
(***************************************************************************)
(* Query in detail, next to Append: a call waits for a connection of the   *)
(* pool it is routed to, its SELECT takes a snapshot, the rows come in one *)
(* by one in the order of their numbers while other sessions commit, and   *)
(* the rows are closed on every way out.                                   *)
(*                                                                         *)
(* A connection of the primary's pool is a server session (Backends), and  *)
(* Query shares them with Append; the replica has sessions of its own.     *)
(* What the caller sees is EventStore, where Query is a single step.       *)
(***************************************************************************)
EXTENDS EventStore

CONSTANTS
  ReplicaSessions,  \* the connections of the replica's pool
  Nobody            \* the reader of a session that no Query uses

ASSUME SessionsAssumption ==
  Backends \cap ReplicaSessions = {} /\ Nobody \notin Clients

VARIABLES
  query,   \* the call of Query each client is in
  reader   \* the client whose rows each session delivers

queryVars == <<wal, applied, nextSeq, stmt, view, calls, query, reader>>

-----------------------------------------------------------------------------
Sessions == Backends \cup ReplicaSessions

Idle == [phase |-> "idle"]
Acquiring == [phase : {"acquiring"}, filter : Filters, level : Levels]
Reading ==
  [phase : {"reading"}, session : Sessions, filter : Filters,
   pending : SUBSET Row, events : Seq(Row), number : Nat]
Closing == [phase : {"closing"}, session : Sessions]

Elements(s) == {s[i] : i \in 1..Len(s)}

(* A session serves one statement at a time. *)
IsFree(s) == reader[s] = Nobody /\ (s \in Backends => stmt[s] = Free)

QueryInit ==
  /\ Init
  /\ query = [c \in Clients |-> Idle]
  /\ reader = [s \in Sessions |-> Nobody]

-----------------------------------------------------------------------------
(* Mutant: the rows come in any order. *)
DeliveredUnordered(rows, r) == r \in rows

(* ORDER BY sequence_number ASC: the next row is the lowest that is left. *)
Delivered(rows, r) == r \in rows /\ \A s \in rows : r.seq <= s.seq

(* The adapters choose the pool by the consistency level in the context. *)
Pool(level) == IF level = "eventual" /\ HasReplica THEN ReplicaSessions ELSE Backends

(* Query has built its SELECT and asks the pool for a connection. *)
CallQuery(c, f, level) ==
  /\ query[c] = Idle /\ ~Busy(c)
  /\ query' = [query EXCEPT ![c] = [phase |-> "acquiring", filter |-> f, level |-> level]]
  /\ UNCHANGED <<wal, applied, nextSeq, stmt, view, calls, reader>>

(* The SELECT starts on a free session; its snapshot stays what it is,     *)
(* whatever is committed or replayed while the rows are delivered.         *)
StartSelect(c, s) ==
  /\ query[c].phase = "acquiring"
  /\ s \in Pool(query[c].level) /\ IsFree(s)
  /\ reader' = [reader EXCEPT ![s] = c]
  /\ query' = [query EXCEPT ![c] =
       [phase |-> "reading", session |-> s, filter |-> query[c].filter,
        pending |-> Stream(query[c].filter, Source(query[c].level)),
        events |-> << >>, number |-> 0]]
  /\ UNCHANGED <<wal, applied, nextSeq, stmt, view, calls>>

(* Query ends before there are rows to read: no connection, the context    *)
(* ended, or the server refused the statement.  The adapters for           *)
(* database/sql close the rows before they return such an error.           *)
SelectFails(c) ==
  /\ query[c].phase = "acquiring"
  /\ query' = [query EXCEPT ![c] = Idle]
  /\ view' = [view EXCEPT ![c] = NoView]
  /\ UNCHANGED <<wal, applied, nextSeq, stmt, calls, reader>>

(* The loop of processQueryResults: the next row is scanned, turned into a *)
(* storable event and appended; its number replaces the one before.        *)
ScanRow(c) ==
  /\ query[c].phase = "reading"
  /\ \E r \in query[c].pending :
       /\ Delivered(query[c].pending, r)
       /\ query' = [query EXCEPT ![c].pending = @ \ {r},
                                 ![c].events = Append(@, r),
                                 ![c].number = r.seq]
  /\ UNCHANGED <<wal, applied, nextSeq, stmt, view, calls, reader>>

(* A row cannot be scanned, is no valid event, or the iteration ended with *)
(* an error: everything read so far is dropped, the rows are still open.   *)
ReadingFails(c) ==
  /\ query[c].phase = "reading"
  /\ query' = [query EXCEPT ![c] = [phase |-> "closing", session |-> query[c].session]]
  /\ UNCHANGED <<wal, applied, nextSeq, stmt, view, calls, reader>>

(* Mutant: an error returns before the rows are closed. *)
CloseAfterFailureLeaking(c) ==
  /\ query[c].phase = "closing"
  /\ query' = [query EXCEPT ![c] = Idle]
  /\ view' = [view EXCEPT ![c] = NoView]
  /\ UNCHANGED <<wal, applied, nextSeq, stmt, calls, reader>>

(* The deferred closeRows gives the connection back; Query returns no      *)
(* events, the number 0 and the error.                                     *)
CloseAfterFailure(c) ==
  /\ query[c].phase = "closing"
  /\ reader' = [reader EXCEPT ![query[c].session] = Nobody]
  /\ query' = [query EXCEPT ![c] = Idle]
  /\ view' = [view EXCEPT ![c] = NoView]
  /\ UNCHANGED <<wal, applied, nextSeq, stmt, calls>>

(* No row is left: the rows are closed and Query returns the events and    *)
(* the number of the last one.                                             *)
FinishQuery(c) ==
  /\ query[c].phase = "reading" /\ query[c].pending = {}
  /\ reader' = [reader EXCEPT ![query[c].session] = Nobody]
  /\ query' = [query EXCEPT ![c] = Idle]
  /\ view' = [view EXCEPT ![c] =
       [filter |-> query[c].filter, seen |-> Elements(query[c].events),
        expected |-> query[c].number]]
  /\ UNCHANGED <<wal, applied, nextSeq, stmt, calls>>

(* Append as in EventStore, on a session that no Query uses. *)
CallAppend(c, events) ==
  query[c] = Idle /\ AppendCall(c, events) /\ UNCHANGED <<query, reader>>

ExecuteAppend(c, b) == IsFree(b) /\ Execute(c, b) /\ UNCHANGED <<query, reader>>

EndAppend(c) ==
  /\ Cancel(c) \/ \E b \in Backends : Return(c, b)
  /\ UNCHANGED <<query, reader>>

QueryStep(c) ==
  \/ \E f \in Filters, level \in Levels : CallQuery(c, f, level)
  \/ \E s \in Sessions : StartSelect(c, s)
  \/ SelectFails(c)
  \/ ScanRow(c)
  \/ ReadingFails(c)
  \/ CloseAfterFailure(c)
  \/ FinishQuery(c)

AppendStep(c) ==
  \/ \E events \in Batches : CallAppend(c, events)
  \/ \E b \in Backends : ExecuteAppend(c, b)
  \/ EndAppend(c)

BackgroundStep ==
  /\ ReplicaApply \/ \E b \in Backends : ServerStep(b)
  /\ UNCHANGED <<query, reader>>

QueryNext ==
  \/ \E c \in Clients : QueryStep(c) \/ AppendStep(c)
  \/ BackgroundStep

QuerySpec == QueryInit /\ [][QueryNext]_queryVars

(* A call that waits gets a connection if some become free again and       *)
(* again (the pools queue their callers), the server finishes what it      *)
(* runs, and a call goes on while it can.                                  *)
QueryFairness ==
  /\ \A c \in Clients :
       /\ SF_queryVars(\E s \in Sessions : StartSelect(c, s))
       /\ SF_queryVars(\E b \in Backends : ExecuteAppend(c, b))
       /\ WF_queryVars(ScanRow(c)) /\ WF_queryVars(FinishQuery(c))
       /\ WF_queryVars(CloseAfterFailure(c))
       /\ WF_queryVars((\E b \in Backends : Return(c, b)) /\ UNCHANGED <<query, reader>>)
  /\ \A b \in Backends :
       /\ WF_queryVars(InsertRow(b) /\ UNCHANGED <<query, reader>>)
       /\ WF_queryVars(Commit(b) /\ UNCHANGED <<query, reader>>)
       /\ WF_queryVars(Reap(b) /\ UNCHANGED <<query, reader>>)

QueryLiveSpec == QuerySpec /\ QueryFairness

-----------------------------------------------------------------------------
QueryTypeOK ==
  /\ TypeOK
  /\ query \in [Clients -> {Idle} \cup Acquiring \cup Reading \cup Closing]
  /\ reader \in [Sessions -> Clients \cup {Nobody}]

(* A session is taken by one statement at most: the Query whose rows are   *)
(* still open, or an INSERT; and every Query with open rows has its own.   *)
SessionsAreExclusive ==
  /\ \A c \in Clients : query[c].phase \in {"reading", "closing"} =>
       reader[query[c].session] = c
  /\ \A s \in Sessions : reader[s] # Nobody =>
       /\ query[reader[s]].phase \in {"reading", "closing"}
       /\ query[reader[s]].session = s
       /\ s \in Backends => stmt[s] = Free

(* What was read and what is left make up the snapshot; what was read is   *)
(* in order, comes before what is left, and its last number is kept.       *)
ReadsInOrder ==
  \A c \in Clients : query[c].phase = "reading" =>
    LET q == query[c]
    IN  /\ \A i, j \in 1..Len(q.events) : i < j => q.events[i].seq <= q.events[j].seq
        /\ \A i \in 1..Len(q.events), r \in q.pending : q.events[i].seq <= r.seq
        /\ q.number = IF q.events = << >> THEN 0 ELSE q.events[Len(q.events)].seq

(* A client is in one call at a time. *)
OneCall == \A c \in Clients : query[c] # Idle => ~Busy(c)

QueryInv == QueryTypeOK /\ SessionsAreExclusive /\ ReadsInOrder /\ OneCall

(* Seen from outside, Query reads everything at the moment its SELECT      *)
(* starts, and forgets it if reading fails.                                *)
Snapshot(c) == query[c].pending \cup Elements(query[c].events)

ViewAtSnapshot ==
  [c \in Clients |->
     CASE query[c].phase = "reading" ->
            [filter |-> query[c].filter, seen |-> Snapshot(c),
             expected |-> LastSequence(Snapshot(c))]
       [] query[c].phase = "closing" -> NoView
       [] OTHER -> view[c]]

(* With the view a client is about to have, the detailed Query implements  *)
(* the atomic one: the rows that are returned and the number are those of  *)
(* one state of the primary or the replica, however long the rows took,    *)
(* whatever was committed meanwhile and whichever row failed.              *)
Core == INSTANCE EventStore WITH view <- ViewAtSnapshot
RefinesEventStore == Core!Spec

(* Every call of Query and Append returns, also when the pools are small   *)
(* and calls fail, conflict or are cancelled at any point: no connection   *)
(* is lost on the way.                                                     *)
CallsReturn ==
  \A c \in Clients : (query[c] # Idle \/ Busy(c)) ~> (query[c] = Idle /\ ~Busy(c))
=============================================================================
