------------------------- MODULE QueryExecutionProofs -------------------------
(***************************************************************************)
(* Proofs about QueryExecution for any number of clients, sessions, rows   *)
(* and filters: no session serves two statements, and a Query that reads   *)
(* row by row is the atomic one of EventStore.                             *)
(***************************************************************************)
EXTENDS QueryExecution, EventStoreProofs

(* What a query is doing decides which record it is. *)
LEMMA QueryPhases ==
  ASSUME QueryTypeOK, NEW c \in Clients
  PROVE  /\ query[c].phase \in {"idle", "acquiring", "reading", "closing"}
         /\ query[c].phase = "idle" <=> query[c] = Idle
         /\ query[c].phase = "acquiring" => query[c] \in Acquiring
         /\ query[c].phase = "reading" => query[c] \in Reading
         /\ query[c].phase = "closing" => query[c] \in Closing
  BY DEF QueryTypeOK, Idle, Acquiring, Reading, Closing

(* What has been read, one row longer. *)
LEMMA ElementsOfAppend ==
  ASSUME NEW S, NEW s \in Seq(S), NEW r \in S
  PROVE  Elements(Append(s, r)) = Elements(s) \cup {r}
<1>1. Len(Append(s, r)) = Len(s) + 1 /\ Len(s) \in Nat
  OBVIOUS
<1>2. /\ \A i \in 1..Len(s) : Append(s, r)[i] = s[i]
      /\ Append(s, r)[Len(s) + 1] = r
  OBVIOUS
<1>3. 1..Len(s) + 1 = 1..Len(s) \cup {Len(s) + 1}
  BY <1>1
<1> QED BY <1>1, <1>2, <1>3 DEF Elements

(* The reading record after ScanRow. *)
LEMMA ScanResult ==
  ASSUME QueryTypeOK, NEW c \in Clients, ScanRow(c)
  PROVE  \E r \in query[c].pending :
           /\ r \in Row /\ Delivered(query[c].pending, r)
           /\ query'[c] = [query[c] EXCEPT !.pending = @ \ {r},
                                           !.events = Append(@, r), !.number = r.seq]
           /\ query'[c] \in Reading
           /\ query'[c].session = query[c].session /\ query'[c].filter = query[c].filter
           /\ query'[c].pending = query[c].pending \ {r}
           /\ query'[c].events = Append(query[c].events, r)
           /\ query'[c].number = r.seq
           /\ \A d \in Clients \ {c} : query'[d] = query[d]
           /\ query' \in [Clients -> {Idle} \cup Acquiring \cup Reading \cup Closing]
<1> DEFINE next(r) == [query[c] EXCEPT !.pending = @ \ {r},
                                       !.events = Append(@, r), !.number = r.seq]
<1>1. query[c] \in Reading
  BY QueryPhases DEF ScanRow
<1>2. PICK r \in query[c].pending :
        /\ Delivered(query[c].pending, r)
        /\ query' = [query EXCEPT ![c] = next(r)]
  BY <1>1 DEF ScanRow, QueryTypeOK, Reading
<1>3. r \in Row /\ r.seq \in Nat
  BY <1>1 DEF Reading, Row
<1>4. query[c].pending \ {r} \in SUBSET Row /\ Append(query[c].events, r) \in Seq(Row)
  BY <1>1, <1>3 DEF Reading
<1>5. next(r) \in Reading
  BY <1>1, <1>3, <1>4 DEF Reading
<1>6. /\ next(r).session = query[c].session /\ next(r).filter = query[c].filter
      /\ next(r).pending = query[c].pending \ {r}
      /\ next(r).events = Append(query[c].events, r) /\ next(r).number = r.seq
  BY <1>1 DEF Reading
<1>7. /\ query'[c] = next(r) /\ \A d \in Clients \ {c} : query'[d] = query[d]
      /\ query' \in [Clients -> {Idle} \cup Acquiring \cup Reading \cup Closing]
  <2> HIDE DEF next
  <2> QED BY <1>2, <1>5 DEF QueryTypeOK
<1> QED BY <1>2, <1>3, <1>5, <1>6, <1>7

-----------------------------------------------------------------------------
(* The strengthening: the invariants of the store that typing rests on.    *)
QueryIInv == QueryInv /\ Numbered /\ Decided

(* Except for the return of a Query with its events, every step is a step  *)
(* of the store or leaves the store alone.                                 *)
LEMMA StoreStep ==
  ASSUME QueryInv, [QueryNext]_queryVars
  PROVE  [Next]_vars \/ \E c \in Clients : FinishQuery(c)
<1>1. ASSUME NEW c \in Clients, SelectFails(c) PROVE QueryFails(c)
  BY <1>1 DEF SelectFails, QueryFails, QueryInv, OneCall, Idle
<1>2. ASSUME NEW c \in Clients, CloseAfterFailure(c) PROVE QueryFails(c)
  BY <1>2 DEF CloseAfterFailure, QueryFails, QueryInv, OneCall, Idle
<1>3. ASSUME NEW c \in Clients, QueryStep(c) PROVE [Next]_vars \/ FinishQuery(c)
  BY <1>1, <1>2, <1>3
     DEF QueryStep, CallQuery, StartSelect, ScanRow, ReadingFails, vars, Next, ClientStep
<1>4. ASSUME NEW c \in Clients, AppendStep(c) PROVE Next
  BY <1>4 DEF AppendStep, CallAppend, ExecuteAppend, EndAppend, Next, ClientStep
<1>5. CASE BackgroundStep
  BY <1>5 DEF BackgroundStep, Next
<1>6. CASE UNCHANGED queryVars
  BY <1>6 DEF queryVars, vars
<1> QED BY <1>3, <1>4, <1>5, <1>6 DEF QueryNext

LEMMA StoreInvStep ==
  ASSUME QueryIInv, [QueryNext]_queryVars
  PROVE  TypeOK' /\ Numbered' /\ Decided'
<1>0. TypeOK /\ Numbered /\ Decided
  BY DEF QueryIInv, QueryInv, QueryTypeOK
<1>1. CASE [Next]_vars
  BY <1>0, <1>1, TypeStep, NumberedStep, DecidedStep
<1>2. ASSUME NEW c \in Clients, FinishQuery(c) PROVE TypeOK' /\ Numbered' /\ Decided'
  <2>1. query[c] \in Reading /\ ~Busy(c)
    BY <1>2, QueryPhases DEF FinishQuery, QueryIInv, QueryInv, OneCall, Idle
  <2> DEFINE v == [filter |-> query[c].filter, seen |-> Elements(query[c].events),
                   expected |-> query[c].number]
  <2>2. v \in View
    BY <2>1 DEF View, Reading, Elements
  <2>3. view' = [view EXCEPT ![c] = v] /\ UNCHANGED <<wal, applied, nextSeq, stmt, calls>>
    BY <1>2 DEF FinishQuery
  <2> HIDE DEF v
  <2>4. TypeOK'
    BY <1>0, <2>2, <2>3 DEF TypeOK
  <2>5. Numbered'
    BY <1>0, <2>3 DEF Numbered, Drawn, Committed, RowsOf, Held
  <2>6. Decided'
    BY <1>0, <2>1, <2>3 DEF Decided, Busy, Last, TypeOK
  <2> QED BY <2>4, <2>5, <2>6
<1> QED BY <1>1, <1>2, StoreStep DEF QueryIInv

LEMMA QueryTypeStep ==
  ASSUME QueryIInv, [QueryNext]_queryVars
  PROVE  QueryTypeOK'
<1> DEFINE Queries == {Idle} \cup Acquiring \cup Reading \cup Closing
<1> SUFFICES query' \in [Clients -> Queries] /\ reader' \in [Sessions -> Clients \cup {Nobody}]
  BY StoreInvStep DEF QueryTypeOK
<1>0. /\ QueryTypeOK /\ query \in [Clients -> Queries]
      /\ reader \in [Sessions -> Clients \cup {Nobody}]
  BY DEF QueryIInv, QueryInv, QueryTypeOK
<1>1. ASSUME NEW c \in Clients, NEW f \in Filters, NEW level \in Levels, CallQuery(c, f, level)
      PROVE  query' \in [Clients -> Queries] /\ reader' = reader
  <2>1. [phase |-> "acquiring", filter |-> f, level |-> level] \in Queries
    BY DEF Acquiring
  <2> HIDE DEF Queries
  <2> QED BY <1>0, <1>1, <2>1 DEF CallQuery
<1>2. ASSUME NEW c \in Clients, NEW s \in Sessions, StartSelect(c, s)
      PROVE  query' \in [Clients -> Queries] /\ reader' \in [Sessions -> Clients \cup {Nobody}]
  <2>1. query[c] \in Acquiring
    BY <1>0, <1>2, QueryPhases DEF StartSelect
  <2> DEFINE rows == Stream(query[c].filter, Source(query[c].level))
  <2>2. rows \subseteq Row
    BY <1>0, SourceTyped DEF QueryTypeOK, Stream
  <2> HIDE DEF rows
  <2>3. [phase |-> "reading", session |-> s, filter |-> query[c].filter,
         pending |-> rows, events |-> << >>, number |-> 0] \in Queries
    BY <2>1, <2>2 DEF Reading, Acquiring
  <2> HIDE DEF Queries
  <2> QED BY <1>0, <1>2, <2>3 DEF StartSelect, rows
<1>3. ASSUME NEW c \in Clients, ScanRow(c) PROVE query' \in [Clients -> Queries] /\ reader' = reader
  BY <1>0, <1>3, ScanResult DEF ScanRow
<1>4. ASSUME NEW c \in Clients, ReadingFails(c)
      PROVE  query' \in [Clients -> Queries] /\ reader' = reader
  <2>1. query[c] \in Reading
    BY <1>0, <1>4, QueryPhases DEF ReadingFails
  <2>2. [phase |-> "closing", session |-> query[c].session] \in Queries
    BY <2>1 DEF Reading, Closing
  <2> HIDE DEF Queries
  <2> QED BY <1>0, <1>4, <2>2 DEF ReadingFails
<1>5. ASSUME NEW c \in Clients, SelectFails(c) \/ CloseAfterFailure(c) \/ FinishQuery(c)
      PROVE  query' \in [Clients -> Queries] /\ reader' \in [Sessions -> Clients \cup {Nobody}]
  <2>1. Idle \in Queries
    OBVIOUS
  <2> HIDE DEF Queries
  <2> QED BY <1>0, <1>5, <2>1 DEF SelectFails, CloseAfterFailure, FinishQuery
<1>6. CASE UNCHANGED <<query, reader>>
  BY <1>0, <1>6
<1> HIDE DEF Queries
<1> QED BY <1>0, <1>1, <1>2, <1>3, <1>4, <1>5, <1>6
        DEF QueryNext, QueryStep, AppendStep, CallAppend, ExecuteAppend, EndAppend,
            BackgroundStep, queryVars

-----------------------------------------------------------------------------
(* The steps of the store touch only sessions that no Query uses. *)
LEMMA SessionsUndisturbed ==
  ASSUME QueryTypeOK, SessionsAreExclusive, UNCHANGED <<query, reader>>,
         \A b \in Backends : stmt'[b] = stmt[b] \/ stmt'[b] = Free
                             \/ stmt[b] # Free \/ reader[b] = Nobody
  PROVE  SessionsAreExclusive'
  BY DEF SessionsAreExclusive, QueryTypeOK, Sessions

LEMMA SessionsStep ==
  ASSUME QueryIInv, [QueryNext]_queryVars
  PROVE  SessionsAreExclusive'
<1>0. /\ QueryTypeOK /\ SessionsAreExclusive /\ TypeOK
      /\ stmt \in [Backends -> Statement \cup {Free}]
      /\ reader \in [Sessions -> Clients \cup {Nobody}]
      /\ query \in [Clients -> {Idle} \cup Acquiring \cup Reading \cup Closing]
  BY DEF QueryIInv, QueryInv, QueryTypeOK, TypeOK
<1>1. ASSUME NEW c \in Clients, NEW f \in Filters, NEW level \in Levels, CallQuery(c, f, level)
      PROVE  SessionsAreExclusive'
  BY <1>0, <1>1 DEF CallQuery, SessionsAreExclusive, Idle
<1>2. ASSUME NEW c \in Clients, NEW s \in Sessions, StartSelect(c, s)
      PROVE  SessionsAreExclusive'
  <2>1. query'[c].phase = "reading" /\ query'[c].session = s
    BY <1>0, <1>2 DEF StartSelect
  <2>2. \A d \in Clients \ {c} : query'[d] = query[d]
    BY <1>0, <1>2 DEF StartSelect
  <2>3. /\ reader[s] = Nobody /\ reader'[s] = c /\ stmt' = stmt
        /\ \A t \in Sessions \ {s} : reader'[t] = reader[t]
        /\ s \in Backends => stmt[s] = Free
    BY <1>0, <1>2 DEF StartSelect, IsFree
  <2>4. query[c].phase = "acquiring"
    BY <1>2 DEF StartSelect
  <2>5. Nobody \notin Clients
    BY SessionsAssumption
  <2>6. \A d \in Clients \ {c} : query[d].phase \in {"reading", "closing"} =>
          query[d].session \in Sessions /\ query[d].session # s
    BY <1>0, <2>3, <2>5, QueryPhases DEF SessionsAreExclusive, Reading, Closing
  <2>7. \A t \in Sessions \ {s} : reader[t] # Nobody => reader[t] \in Clients \ {c}
    BY <1>0, <2>4 DEF SessionsAreExclusive
  <2> QED BY <1>0, <2>1, <2>2, <2>3, <2>6, <2>7 DEF SessionsAreExclusive
<1>3. ASSUME NEW c \in Clients, ScanRow(c) PROVE SessionsAreExclusive'
  <2>1. /\ query[c].phase = "reading" /\ query'[c].phase = "reading"
        /\ query'[c].session = query[c].session
        /\ \A d \in Clients \ {c} : query'[d] = query[d]
        /\ reader' = reader /\ stmt' = stmt
    BY <1>0, <1>3, ScanResult DEF ScanRow, Reading
  <2> QED BY <1>0, <2>1 DEF SessionsAreExclusive
<1>4. ASSUME NEW c \in Clients, ReadingFails(c) PROVE SessionsAreExclusive'
  <2>1. /\ query[c].phase = "reading" /\ query'[c].phase = "closing"
        /\ query'[c].session = query[c].session
        /\ \A d \in Clients \ {c} : query'[d] = query[d]
        /\ reader' = reader /\ stmt' = stmt
    BY <1>0, <1>4 DEF ReadingFails
  <2> QED BY <1>0, <2>1 DEF SessionsAreExclusive
<1>5. ASSUME NEW c \in Clients, SelectFails(c) PROVE SessionsAreExclusive'
  <2>1. /\ query[c].phase = "acquiring" /\ query'[c] = Idle
        /\ \A d \in Clients \ {c} : query'[d] = query[d]
        /\ reader' = reader /\ stmt' = stmt
    BY <1>0, <1>5 DEF SelectFails
  <2> QED BY <1>0, <2>1 DEF SessionsAreExclusive, Idle
<1>6. ASSUME NEW c \in Clients, CloseAfterFailure(c) \/ FinishQuery(c)
      PROVE  SessionsAreExclusive'
  <2> DEFINE s == query[c].session
  <2>1. query[c].phase \in {"reading", "closing"} /\ s \in Sessions
    BY <1>0, <1>6, QueryPhases DEF CloseAfterFailure, FinishQuery, Reading, Closing
  <2>2. /\ query'[c] = Idle /\ \A d \in Clients \ {c} : query'[d] = query[d]
        /\ reader'[s] = Nobody /\ \A t \in Sessions \ {s} : reader'[t] = reader[t]
        /\ stmt' = stmt
    BY <1>0, <1>6, <2>1 DEF CloseAfterFailure, FinishQuery
  <2>3. reader[s] = c
    BY <1>0, <2>1 DEF SessionsAreExclusive
  <2>4. \A d \in Clients \ {c} : query[d].phase \in {"reading", "closing"} =>
          query[d].session \in Sessions \ {s}
    BY <1>0, <2>3, QueryPhases DEF SessionsAreExclusive, Reading, Closing
  <2>5. \A t \in Sessions \ {s} : reader[t] # Nobody => reader[t] \in Clients \ {c}
    BY <1>0 DEF SessionsAreExclusive
  <2> HIDE DEF s
  <2> QED BY <1>0, <2>2, <2>4, <2>5 DEF SessionsAreExclusive, Idle
<1>7. ASSUME NEW c \in Clients, AppendStep(c) PROVE SessionsAreExclusive'
  <2>1. UNCHANGED <<query, reader>>
    BY <1>7 DEF AppendStep, CallAppend, ExecuteAppend, EndAppend
  <2>2. \A b \in Backends : stmt'[b] = stmt[b] \/ stmt'[b] = Free \/ reader[b] = Nobody
    BY <1>0, <1>7 DEF AppendStep, CallAppend, ExecuteAppend, EndAppend, IsFree,
                      AppendCall, Execute, Return, Cancel
  <2> QED BY <1>0, <2>1, <2>2, SessionsUndisturbed
<1>8. CASE BackgroundStep
  <2>1. \A b \in Backends : stmt'[b] = stmt[b] \/ stmt'[b] = Free \/ stmt[b] # Free
    BY <1>0, <1>8 DEF BackgroundStep, ReplicaApply, ServerStep, InsertRow, Commit, Abort, Reap
  <2> QED BY <1>0, <1>8, <2>1, SessionsUndisturbed DEF BackgroundStep
<1>9. CASE UNCHANGED queryVars
  BY <1>0, <1>9, SessionsUndisturbed DEF queryVars
<1> QED BY <1>1, <1>2, <1>3, <1>4, <1>5, <1>6, <1>7, <1>8, <1>9 DEF QueryNext, QueryStep

-----------------------------------------------------------------------------
(* Reading in order. *)
LEMMA ReadsInOrderStep ==
  ASSUME QueryIInv, [QueryNext]_queryVars
  PROVE  ReadsInOrder'
<1> DEFINE InOrder(q) ==
      /\ \A i, j \in 1..Len(q.events) : i < j => q.events[i].seq <= q.events[j].seq
      /\ \A i \in 1..Len(q.events), r \in q.pending : q.events[i].seq <= r.seq
      /\ q.number = IF q.events = << >> THEN 0 ELSE q.events[Len(q.events)].seq
<1> SUFFICES ASSUME NEW d \in Clients, query'[d].phase = "reading" PROVE InOrder(query'[d])
  BY DEF ReadsInOrder
<1>0. /\ QueryTypeOK
      /\ query[d].phase = "reading" => InOrder(query[d])
      /\ query \in [Clients -> {Idle} \cup Acquiring \cup Reading \cup Closing]
  BY DEF QueryIInv, QueryInv, ReadsInOrder, QueryTypeOK
<1>1. CASE query'[d] = query[d]
  BY <1>0, <1>1
<1>2. ASSUME NEW c \in Clients, NEW s \in Sessions, StartSelect(c, s), c = d
      PROVE  InOrder(query'[d])
  <2>1. query'[d].events = << >> /\ query'[d].number = 0
    BY <1>0, <1>2 DEF StartSelect
  <2> QED BY <2>1
<1>3. ASSUME NEW c \in Clients, ScanRow(c), c = d PROVE InOrder(query'[d])
  <2> DEFINE q == query[d]
             p == query'[d]
             n == Len(q.events)
  <2>1. q \in Reading /\ InOrder(q)
    BY <1>0, <1>3, QueryPhases DEF ScanRow
  <2>2. PICK r \in q.pending :
          /\ r \in Row /\ Delivered(q.pending, r)
          /\ p.pending = q.pending \ {r} /\ p.events = Append(q.events, r) /\ p.number = r.seq
    BY <1>0, <1>3, ScanResult
  <2>3. /\ q.events \in Seq(Row) /\ q.pending \in SUBSET Row /\ n \in Nat
        /\ \A s \in q.pending : s.seq \in Nat /\ r.seq <= s.seq
    BY <2>1, <2>2 DEF Reading, Row, Delivered
  <2>4. /\ Len(p.events) = n + 1 /\ p.events[n + 1] = r
        /\ \A i \in 1..n : p.events[i] = q.events[i]
    BY <2>2, <2>3
  <2>5. \A i \in 1..n : q.events[i].seq \in Nat /\ q.events[i].seq <= r.seq
    <3>1. \A i \in 1..n : q.events[i] \in Row
      BY <2>3
    <3>2. \A i \in 1..n : q.events[i].seq <= r.seq
      BY <2>1
    <3> QED BY <3>1, <3>2 DEF Row
  <2> HIDE DEF p, q, n
  <2>6. \A i, j \in 1..n + 1 : i < j => p.events[i].seq <= p.events[j].seq
    <3> SUFFICES ASSUME NEW i \in 1..n + 1, NEW j \in 1..n + 1, i < j
                 PROVE  p.events[i].seq <= p.events[j].seq
      OBVIOUS
    <3>1. i \in 1..n
      BY <2>3
    <3>2. CASE j = n + 1
      BY <2>4, <2>5, <3>1, <3>2
    <3>3. CASE j # n + 1
      <4>1. j \in 1..n
        BY <2>3, <3>3
      <4> QED BY <2>1, <2>4, <3>1, <4>1 DEF n
    <3> QED BY <3>2, <3>3
  <2>7. \A i \in 1..n + 1, s \in p.pending : p.events[i].seq <= s.seq
    <3> SUFFICES ASSUME NEW i \in 1..n + 1, NEW s \in p.pending PROVE p.events[i].seq <= s.seq
      OBVIOUS
    <3>1. s \in q.pending
      BY <2>2
    <3>2. CASE i = n + 1
      BY <2>3, <2>4, <3>1, <3>2
    <3>3. CASE i # n + 1
      <4>1. i \in 1..n
        BY <2>3, <3>3
      <4> QED BY <2>1, <2>4, <3>1, <4>1 DEF n
    <3> QED BY <3>2, <3>3
  <2>8. p.events # << >>
    BY <2>3, <2>4
  <2> QED BY <2>2, <2>4, <2>6, <2>7, <2>8 DEF p
<1> DEFINE Undisturbed == query'[d] = query[d]
<1>4. ASSUME NEW c \in Clients, NEW f \in Filters, NEW level \in Levels, CallQuery(c, f, level)
      PROVE  Undisturbed
  BY <1>0, <1>4 DEF CallQuery
<1>5. ASSUME NEW c \in Clients, NEW s \in Sessions, StartSelect(c, s), c # d PROVE Undisturbed
  BY <1>0, <1>5 DEF StartSelect
<1>6. ASSUME NEW c \in Clients, ScanRow(c), c # d PROVE Undisturbed
  BY <1>0, <1>6, ScanResult
<1>7. ASSUME NEW c \in Clients,
             SelectFails(c) \/ ReadingFails(c) \/ CloseAfterFailure(c) \/ FinishQuery(c)
      PROVE  Undisturbed
  BY <1>0, <1>7 DEF SelectFails, ReadingFails, CloseAfterFailure, FinishQuery, Idle
<1>8. ASSUME UNCHANGED query PROVE Undisturbed
  BY <1>8
<1> HIDE DEF InOrder, Undisturbed
<1>9. ASSUME Undisturbed PROVE InOrder(query'[d])
  BY <1>1, <1>9 DEF Undisturbed
<1> QED BY <1>2, <1>3, <1>4, <1>5, <1>6, <1>7, <1>8, <1>9
        DEF QueryNext, QueryStep, AppendStep, CallAppend, ExecuteAppend, EndAppend,
            BackgroundStep, queryVars, Undisturbed

(* A client is in one call at a time. *)
LEMMA OneCallStep ==
  ASSUME QueryIInv, [QueryNext]_queryVars
  PROVE  OneCall'
<1> SUFFICES ASSUME NEW d \in Clients, query'[d] # Idle PROVE ~Busy(d)'
  BY DEF OneCall
<1>0. /\ QueryTypeOK /\ TypeOK
      /\ query[d] # Idle => ~Busy(d)
      /\ query \in [Clients -> {Idle} \cup Acquiring \cup Reading \cup Closing]
  BY DEF QueryIInv, QueryInv, OneCall, QueryTypeOK
<1>1. ASSUME calls'[d] = calls[d], query[d] # Idle \/ ~Busy(d) PROVE ~Busy(d)'
  BY <1>0, <1>1 DEF Busy, Last
<1>2. ASSUME NEW c \in Clients, QueryStep(c) PROVE ~Busy(d)'
  <2>1. calls' = calls
    BY <1>2 DEF QueryStep, CallQuery, StartSelect, SelectFails, ScanRow, ReadingFails,
                CloseAfterFailure, FinishQuery
  <2>2. CASE query[d] # Idle
    BY <1>1, <2>1, <2>2
  <2>3. CASE query[d] = Idle
    <3>1. c = d
      BY <1>0, <1>2, <2>3, ScanResult
         DEF QueryStep, CallQuery, StartSelect, SelectFails, ReadingFails,
             CloseAfterFailure, FinishQuery
    <3>2. query[c].phase = "idle"
      BY <2>3, <3>1 DEF Idle
    <3>3. ~ScanRow(c)
      BY <3>2 DEF ScanRow
    <3>4. ~Busy(d)
      BY <1>2, <3>1, <3>2, <3>3 DEF QueryStep, CallQuery, StartSelect, SelectFails,
                                    ReadingFails, CloseAfterFailure, FinishQuery
    <3> QED BY <1>1, <2>1, <3>4
  <2> QED BY <2>2, <2>3
<1>3. ASSUME NEW c \in Clients, AppendStep(c) PROVE ~Busy(d)'
  <2>1. query' = query /\ query[d] # Idle /\ ~Busy(d)
    BY <1>0, <1>3 DEF AppendStep, CallAppend, ExecuteAppend, EndAppend
  <2>2. c # d
    <3>1. \A b \in Backends : ~Execute(d, b) /\ ~Return(d, b)
      BY <2>1 DEF Execute, Return, Serves, Executing, Busy
    <3> QED BY <1>3, <2>1, <3>1
            DEF AppendStep, CallAppend, ExecuteAppend, EndAppend, Cancel
  <2>3. calls'[d] = calls[d]
    BY <1>0, <1>3, <2>2 DEF AppendStep, CallAppend, ExecuteAppend, EndAppend, AppendCall,
                            Execute, Return, Cancel, SetStatus, TypeOK
  <2> QED BY <1>1, <2>1, <2>3
<1>4. CASE BackgroundStep \/ UNCHANGED queryVars
  <2>1. query' = query /\ calls' = calls
    BY <1>4 DEF BackgroundStep, ServerStep, InsertRow, Commit, Abort, Reap, ReplicaApply,
                queryVars
  <2> QED BY <1>1, <2>1
<1> QED BY <1>2, <1>3, <1>4 DEF QueryNext

-----------------------------------------------------------------------------
LEMMA QueryInitInv == QueryInit => QueryIInv
<1> SUFFICES ASSUME QueryInit PROVE QueryIInv
  OBVIOUS
<1>1. GuardInv
  BY GuardInit DEF QueryInit
<1>2. QueryTypeOK
  BY <1>1 DEF QueryInit, QueryTypeOK, GuardInv
<1>3. SessionsAreExclusive /\ ReadsInOrder /\ OneCall
  BY DEF QueryInit, SessionsAreExclusive, ReadsInOrder, OneCall, Idle
<1> QED BY <1>1, <1>2, <1>3 DEF QueryIInv, QueryInv, GuardInv

LEMMA QueryIInvStep == QueryIInv /\ [QueryNext]_queryVars => QueryIInv'
  BY StoreInvStep, QueryTypeStep, SessionsStep, ReadsInOrderStep, OneCallStep
     DEF QueryIInv, QueryInv

LEMMA QueryIInvariant == QuerySpec => []QueryIInv
  BY QueryInitInv, QueryIInvStep, PTL DEF QuerySpec

(* Reading in detail is well typed and in order in every behaviour: what a *)
(* Query has read is a prefix of its snapshot, and its number the last.    *)
THEOREM QueryInvariant == QuerySpec => []QueryInv
<1>1. QueryIInv => QueryInv
  BY DEF QueryIInv
<1> QED BY <1>1, QueryIInvariant, PTL

-----------------------------------------------------------------------------
(* The operators of the abstract store that do not depend on the view are  *)
(* those of the detailed one.                                              *)
LEMMA CoreOperators ==
  /\ \A f, rows : Core!Stream(f, rows) = Stream(f, rows)
  /\ \A rows : Core!LastSequence(rows) = LastSequence(rows)
  /\ \A level : Core!Source(level) = Source(level)
  /\ \A v, rows : Core!GuardHolds(v, rows) <=> GuardHolds(v, rows)
  /\ \A c : Core!Last(c) = Last(c) /\ (Core!Busy(c) <=> Busy(c))
  /\ \A b, c : Core!Serves(b, c) <=> Serves(b, c)
  /\ \A c, s : Core!SetStatus(c, s) <=> SetStatus(c, s)
  /\ \A s : Core!Outcome(s) = Outcome(s)
  /\ Core!Committed = Committed /\ Core!Free = Free /\ Core!Levels = Levels
<1>1. \A f, rows : Core!Stream(f, rows) = Stream(f, rows)
  BY DEF Core!Stream, Stream, Core!Where, Where
<1>2. \A rows : Core!LastSequence(rows) = LastSequence(rows)
  BY DEF Core!LastSequence, LastSequence
<1>3. Core!Committed = Committed /\ Core!ReplicaRows = ReplicaRows
  BY DEF Core!Committed, Core!ReplicaRows, Core!RowsOf, Committed, ReplicaRows, RowsOf
<1>4. \A level : Core!Source(level) = Source(level)
  BY <1>3 DEF Core!Source, Source
<1>5. \A rows : Core!CoalesceMax(rows) = CoalesceMax(rows)
  BY DEF Core!CoalesceMax, CoalesceMax
<1>6. \A v, rows : Core!GuardHolds(v, rows) <=> GuardHolds(v, rows)
  BY <1>1, <1>5 DEF Core!GuardHolds, GuardHolds
<1>7. Core!Free = Free /\ Core!Levels = Levels
  BY DEF Core!Free, Free, Core!Levels, Levels
<1>8. \A c : /\ Core!Last(c) = Last(c) /\ (Core!Busy(c) <=> Busy(c))
             /\ Core!Executing(c) <=> Executing(c)
  BY DEF Core!Last, Core!Busy, Core!Executing, Last, Busy, Executing
<1>9. \A b, c : Core!Serves(b, c) <=> Serves(b, c)
  BY <1>7, <1>8 DEF Core!Serves, Serves
<1>10. \A c, s : Core!SetStatus(c, s) <=> SetStatus(c, s)
  BY <1>8 DEF Core!SetStatus, SetStatus
<1>11. \A s : Core!Outcome(s) = Outcome(s)
  BY DEF Core!Outcome, Outcome
<1> QED BY <1>1, <1>2, <1>3, <1>4, <1>6, <1>7, <1>8, <1>9, <1>10, <1>11

(* The view that the abstract store has of one client. *)
Shown(q, v) ==
  CASE q.phase = "reading" ->
         [filter |-> q.filter, seen |-> q.pending \cup Elements(q.events),
          expected |-> LastSequence(q.pending \cup Elements(q.events))]
    [] q.phase = "closing" -> NoView
    [] OTHER -> v

LEMMA ShownToAll ==
  /\ ViewAtSnapshot = [c \in Clients |-> Shown(query[c], view[c])]
  /\ ViewAtSnapshot' = [c \in Clients |-> Shown(query'[c], view'[c])]
  BY DEF ViewAtSnapshot, Shown, Snapshot

(* A step of one client's query changes only what that client is shown. *)
LEMMA ShownChanges ==
  ASSUME NEW c \in Clients,
         \A d \in Clients \ {c} : query'[d] = query[d] /\ view'[d] = view[d]
  PROVE  /\ ViewAtSnapshot' = [ViewAtSnapshot EXCEPT ![c] = Shown(query'[c], view'[c])]
         /\ Shown(query'[c], view'[c]) = Shown(query[c], view[c])
              => ViewAtSnapshot' = ViewAtSnapshot
  BY ShownToAll

(* After the last row, the number kept is that of the whole snapshot. *)
LEMMA NumberOfAllRead ==
  ASSUME QueryTypeOK, ReadsInOrder, NEW c \in Clients, query[c].phase = "reading"
  PROVE  query[c].number = LastSequence(Elements(query[c].events))
<1> DEFINE events == query[c].events
<1>1. events \in Seq(Row) /\ Len(events) \in Nat
  BY QueryPhases DEF Reading
<1>2. CASE events = << >>
  <2>1. Elements(events) = {} /\ query[c].number = 0
    BY <1>2 DEF Elements, ReadsInOrder
  <2> QED BY <2>1, LastOfEmpty
<1>3. CASE events # << >>
  <2> DEFINE n == Len(events)
  <2>1. n \in 1..n /\ \A i \in 1..n : events[i] \in Row
    BY <1>1, <1>3
  <2>2. query[c].number = events[n].seq
    BY <1>3 DEF ReadsInOrder
  <2>3. \A i \in 1..n : i < n => events[i].seq <= events[n].seq
    BY <2>1 DEF ReadsInOrder
  <2>4. events[n] \in Elements(events) /\ \A r \in Elements(events) : r \in Row
    BY <2>1 DEF Elements
  <2>5. \A i \in 1..n : events[i].seq <= events[n].seq
    BY <1>1, <2>1, <2>3 DEF Row
  <2>6. \A r \in Elements(events) : r.seq <= events[n].seq
    BY <2>5 DEF Elements
  <2> HIDE DEF events, n
  <2>7. \A r \in Elements(events) :
          (\A s \in Elements(events) : s.seq <= r.seq) => r.seq = events[n].seq
    BY <2>4, <2>6 DEF Row
  <2>8. LastSequence(Elements(events)) = events[n].seq
    BY <2>4, <2>6, <2>7 DEF LastSequence
  <2> QED BY <2>2, <2>8 DEF events
<1> QED BY <1>2, <1>3

-----------------------------------------------------------------------------
(* The abstract Query is the start of the SELECT; a failure after it is a  *)
(* second, failing Query; reading and returning are stutters.              *)
LEMMA QueryStepRefines ==
  ASSUME QueryIInv, NEW c \in Clients, QueryStep(c)
  PROVE  [Core!Next]_(Core!vars)
<1>0. /\ QueryTypeOK /\ ReadsInOrder /\ OneCall
      /\ query \in [Clients -> {Idle} \cup Acquiring \cup Reading \cup Closing]
      /\ view \in [Clients -> View \cup {NoView}]
  BY DEF QueryIInv, QueryInv, QueryTypeOK, TypeOK
<1>1. UNCHANGED <<wal, applied, nextSeq, stmt, calls>>
  BY DEF QueryStep, CallQuery, StartSelect, SelectFails, ScanRow, ReadingFails,
         CloseAfterFailure, FinishQuery
<1>2. \A d \in Clients \ {c} : query'[d] = query[d] /\ view'[d] = view[d]
  <2>1. CASE ScanRow(c)
    BY <1>0, <2>1, ScanResult DEF ScanRow
  <2>2. CASE ~ScanRow(c)
    BY <1>0, <2>2 DEF QueryStep, CallQuery, StartSelect, SelectFails, ReadingFails,
                      CloseAfterFailure, FinishQuery
  <2> QED BY <2>1, <2>2
<1> DEFINE before == Shown(query[c], view[c])
           after == Shown(query'[c], view'[c])
<1>3. ASSUME before = after PROVE UNCHANGED Core!vars
  BY <1>1, <1>2, <1>3, ShownChanges DEF Core!vars
<1>4. ASSUME query[c] # Idle, after = NoView PROVE Core!QueryFails(c)
  <2>1. ~Core!Busy(c)
    BY <1>0, <1>4, CoreOperators DEF OneCall
  <2>2. ViewAtSnapshot' = [ViewAtSnapshot EXCEPT ![c] = NoView]
    BY <1>2, <1>4, ShownChanges
  <2> QED BY <1>1, <2>1, <2>2 DEF Core!QueryFails
<1>5. ASSUME NEW f \in Filters, NEW level \in Levels, CallQuery(c, f, level) PROVE before = after
  BY <1>0, <1>5 DEF CallQuery, Shown, Idle
<1>6. ASSUME NEW s \in Sessions, StartSelect(c, s)
      PROVE  Core!Query(c, query[c].filter, query[c].level)
  <2> DEFINE f == query[c].filter
             rows == Stream(f, Source(query[c].level))
             q == [phase |-> "reading", session |-> s, filter |-> f,
                   pending |-> rows, events |-> << >>, number |-> 0]
  <2>1. query'[c] = q
    BY <1>0, <1>6 DEF StartSelect
  <2>2. Elements(q.events) = {}
    BY DEF Elements
  <2> HIDE DEF rows, f
  <2>3. after = [filter |-> f, seen |-> rows, expected |-> LastSequence(rows)]
    <3>1. q.phase = "reading" /\ q.filter = f /\ q.pending \cup Elements(q.events) = rows
      BY <2>2
    <3> HIDE DEF q
    <3> QED BY <2>1, <3>1 DEF Shown
  <2>4. query[c] # Idle
    BY <1>6 DEF StartSelect, Idle
  <2>5. ~Core!Busy(c)
    BY <1>0, <2>4, CoreOperators DEF OneCall
  <2>6. Core!Stream(f, Core!Source(query[c].level)) = rows
        /\ Core!LastSequence(rows) = LastSequence(rows)
    BY CoreOperators DEF rows
  <2>7. ViewAtSnapshot' = [ViewAtSnapshot EXCEPT ![c] =
          [filter |-> f, seen |-> rows, expected |-> LastSequence(rows)]]
    BY <1>2, <2>3, ShownChanges
  <2> QED BY <1>1, <2>5, <2>6, <2>7 DEF Core!Query, f
<1>7. ASSUME NEW s \in Sessions, StartSelect(c, s) PROVE Core!Next
  <2>1. query[c].filter \in Filters /\ query[c].level \in Levels
    BY <1>0, <1>7, QueryPhases DEF StartSelect, Acquiring
  <2>2. query[c].level \in Core!Levels
    BY <2>1, CoreOperators
  <2> QED BY <1>6, <1>7, <2>1, <2>2 DEF Core!Next, Core!ClientStep
<1>8. ASSUME SelectFails(c) PROVE query[c] # Idle /\ after = NoView
  BY <1>0, <1>8 DEF SelectFails, Shown, Idle
<1>9. ASSUME ScanRow(c) PROVE before = after
  <2>1. PICK r \in query[c].pending :
          /\ r \in Row /\ query'[c] \in Reading /\ query'[c].filter = query[c].filter
          /\ query'[c].pending = query[c].pending \ {r}
          /\ query'[c].events = Append(query[c].events, r)
    BY <1>0, <1>9, ScanResult
  <2>2. query[c] \in Reading /\ query[c].phase = "reading" /\ view' = view
    BY <1>0, <1>9, QueryPhases DEF ScanRow
  <2>3. Elements(query'[c].events) = Elements(query[c].events) \cup {r}
    BY <2>1, <2>2, ElementsOfAppend DEF Reading
  <2>4. query'[c].pending \cup Elements(query'[c].events)
        = query[c].pending \cup Elements(query[c].events)
    BY <2>1, <2>3
  <2>5. query'[c].phase = "reading"
    BY <2>1 DEF Reading
  <2> QED BY <2>1, <2>2, <2>4, <2>5 DEF Shown
<1>10. ASSUME ReadingFails(c) PROVE query[c] # Idle /\ after = NoView
  BY <1>0, <1>10 DEF ReadingFails, Shown, Idle
<1>11. ASSUME CloseAfterFailure(c) PROVE before = after
  BY <1>0, <1>11 DEF CloseAfterFailure, Shown, Idle
<1>12. ASSUME FinishQuery(c) PROVE before = after
  <2>1. query[c].phase = "reading" /\ query[c].pending = {}
    BY <1>12 DEF FinishQuery
  <2>2. query[c].number = LastSequence(Elements(query[c].events))
    BY <1>0, <2>1, NumberOfAllRead
  <2>3. before = [filter |-> query[c].filter, seen |-> Elements(query[c].events),
                  expected |-> query[c].number]
    <3>1. {} \cup Elements(query[c].events) = Elements(query[c].events)
      OBVIOUS
    <3> QED BY <2>1, <2>2, <3>1 DEF Shown
  <2>4. query'[c] = Idle
        /\ view'[c] = [filter |-> query[c].filter, seen |-> Elements(query[c].events),
                       expected |-> query[c].number]
    BY <1>0, <1>12 DEF FinishQuery
  <2> QED BY <2>3, <2>4 DEF Shown, Idle
<1> HIDE DEF before, after
<1>13. ASSUME query[c] # Idle, after = NoView PROVE Core!Next
  BY <1>4, <1>13 DEF Core!Next, Core!ClientStep
<1> QED BY <1>3, <1>5, <1>7, <1>8, <1>9, <1>10, <1>11, <1>12, <1>13 DEF QueryStep

(* Append, the server and the replica do what they do in the store. *)
LEMMA OtherStepsRefine ==
  ASSUME QueryIInv, [QueryNext]_queryVars, \A c \in Clients : ~QueryStep(c)
  PROVE  [Core!Next]_(Core!vars)
<1>0. OneCall /\ query \in [Clients -> {Idle} \cup Acquiring \cup Reading \cup Closing]
  BY DEF QueryIInv, QueryInv, QueryTypeOK
<1>1. UNCHANGED <<query, reader, view>>
  BY DEF QueryNext, AppendStep, CallAppend, ExecuteAppend, EndAppend, BackgroundStep,
         AppendCall, Execute, Return, Cancel, ServerStep, InsertRow, Commit, Abort, Reap,
         ReplicaApply, queryVars
<1>2. ViewAtSnapshot' = ViewAtSnapshot
  BY <1>1, ShownToAll
<1>3. \A c \in Clients : query[c] = Idle => ViewAtSnapshot[c] = view[c]
  BY ShownToAll DEF Shown, Idle
<1>4. ASSUME NEW c \in Clients, NEW events \in Batches, CallAppend(c, events)
      PROVE  Core!AppendCall(c, events)
  BY <1>2, <1>3, <1>4, CoreOperators DEF CallAppend, AppendCall, Core!AppendCall
<1>5. ASSUME NEW c \in Clients, NEW b \in Backends, ExecuteAppend(c, b) PROVE Core!Execute(c, b)
  <2>1. ViewAtSnapshot[c] = view[c]
    <3>1. Busy(c)
      BY <1>5 DEF ExecuteAppend, Execute, Busy
    <3> QED BY <1>0, <1>3, <3>1 DEF OneCall
  <2> QED BY <1>2, <1>5, <2>1, CoreOperators DEF ExecuteAppend, Execute, Core!Execute
<1>6. ASSUME NEW c \in Clients, EndAppend(c)
      PROVE  Core!Cancel(c) \/ \E b \in Backends : Core!Return(c, b)
  BY <1>2, <1>6, CoreOperators DEF EndAppend, Cancel, Return, Core!Cancel, Core!Return
<1>7. ASSUME NEW c \in Clients, AppendStep(c) PROVE Core!ClientStep(c)
  BY <1>4, <1>5, <1>6, <1>7 DEF AppendStep, Core!ClientStep
<1>8. ASSUME NEW b \in Backends, ServerStep(b) PROVE Core!ServerStep(b)
  BY <1>2, <1>8, CoreOperators
     DEF ServerStep, InsertRow, Commit, Abort, Reap,
         Core!ServerStep, Core!InsertRow, Core!Commit, Core!Abort, Core!Reap
<1>9. ASSUME ReplicaApply PROVE Core!ReplicaApply
  BY <1>2, <1>9 DEF ReplicaApply, Core!ReplicaApply
<1>10. CASE UNCHANGED queryVars
  BY <1>2, <1>10 DEF queryVars, Core!vars
<1> QED BY <1>7, <1>8, <1>9, <1>10 DEF QueryNext, BackgroundStep, Core!Next

(* Query may take its rows as slowly as it likes, share its pool with      *)
(* Append and fail at any row: its callers cannot tell it from the one     *)
(* that reads everything at once, so every theorem about EventStore holds  *)
(* for it.                                                                 *)
THEOREM QueryRefinesEventStore == QuerySpec => RefinesEventStore
<1>1. QueryInit => Core!Init
  <2> SUFFICES ASSUME QueryInit PROVE Core!Init
    OBVIOUS
  <2>1. ViewAtSnapshot = [c \in Clients |-> NoView]
    BY ShownToAll DEF QueryInit, Init, Shown, Idle
  <2> QED BY <2>1, CoreOperators DEF QueryInit, Init, Core!Init
<1>2. QueryIInv /\ [QueryNext]_queryVars => [Core!Next]_(Core!vars)
  BY QueryStepRefines, OtherStepsRefine
<1> QED BY <1>1, <1>2, QueryIInvariant, PTL DEF QuerySpec, RefinesEventStore, Core!Spec
=============================================================================
