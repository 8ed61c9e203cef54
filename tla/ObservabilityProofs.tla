------------------------- MODULE ObservabilityProofs -------------------------
(***************************************************************************)
(* The laws of Observability hold for any set of callers and any number of *)
(* calls.  AccountInv is inductive: an action changes one call, and so the *)
(* sums of AccountInv, which are numbers of members of finite sets, change *)
(* by what that call contributes before and after (CallChange).  What each *)
(* outcome records and logs is tabulated once (Measures, Reports), and a   *)
(* phase that decides the outcome of a call adds a row of both tables      *)
(* (PhaseEffect, OutcomeEffect).  Whenever no call is under way, nothing   *)
(* is due and nothing is ending, and the laws are what is left.            *)
(***************************************************************************)
EXTENDS ObservabilityInvariants, FiniteSetTheorems, SequenceTheorems, TLAPS

(* 1 if b holds, else 0. *)
Ind(b) == IF b THEN 1 ELSE 0

(* There are finitely many places, and so a number of them. *)
LEMMA PlacesFinite ==
  ASSUME NEW T, NEW list \in Seq(T), NEW s
  PROVE  IsFiniteSet(Places(list, s)) /\ Count(list, s) \in Nat
<1>1. Len(list) \in Nat
  BY LenProperties
<1>2. IsFiniteSet(1..Len(list))
  BY <1>1, FS_Interval
<1>3. Places(list, s) \in SUBSET (1..Len(list))
  BY DEF Places
<1> QED BY <1>2, <1>3, FS_Subset, FS_CardinalityType DEF Count

(* The empty list has no places. *)
LEMMA CountEmpty ==
  ASSUME NEW s
  PROVE  Places(<< >>, s) = {} /\ Count(<< >>, s) = 0
BY FS_EmptySet DEF Count, Places

(* A list has the places of its tail, and one more if x is its head. *)
LEMMA CountHead ==
  ASSUME NEW T, NEW list \in Seq(T), list # << >>, NEW s
  PROVE  /\ Count(list, s) = Ind(Head(list) = s) + Count(Tail(list), s)
         /\ Tail(list) \in Seq(T) /\ Len(list) \in Nat \ {0}
         /\ Len(list) \notin Places(Tail(list), s)
         /\ Places(list, s) = Places(Tail(list), s)
                              \cup (IF Head(list) = s THEN {Len(list)} ELSE {})
<1> DEFINE t == Tail(list)
<1>1. PICK n \in Nat \ {0} : n = Len(list)
  BY EmptySeq
<1>2. t \in Seq(T) /\ Len(t) = n - 1 /\ \A k \in 1..n-1 : t[k] = list[k+1]
  BY <1>1, HeadTailProperties
<1>3. Head(list) = list[1]
  OBVIOUS
<1>4. n \notin Places(t, s)
  BY <1>1, <1>2 DEF Places
<1> DEFINE new == IF Head(list) = s THEN {n} ELSE {}
<1>5. Places(list, s) = Places(t, s) \cup new
  <2>1. \A k \in 1..n-1 : t[n - k] = list[n + 1 - k]
    <3> SUFFICES ASSUME NEW k \in 1..n-1 PROVE t[n - k] = list[n + 1 - k]
      OBVIOUS
    <3>1. n - k \in 1..n-1 /\ (n - k) + 1 = n + 1 - k
      BY <1>1
    <3> QED BY <3>1, <1>2
  <2>2. Places(list, s) = {k \in 1..n : list[n + 1 - k] = s}
    BY <1>1 DEF Places
  <2>3. Places(t, s) = {k \in 1..n-1 : t[n - k] = s}
    <3>1. \A k \in 1..n-1 : (n-1) + 1 - k = n - k
      BY <1>1
    <3> QED BY <1>2, <3>1 DEF Places
  <2>4. list[n + 1 - n] = Head(list)
    BY <1>1, <1>3
  <2>5. \A k : k \in 1..n <=> k \in 1..n-1 \/ k = n
    BY <1>1
  <2>6. \A k : k \in new <=> k = n /\ Head(list) = s
    OBVIOUS
  <2> HIDE DEF t, new
  <2>7. ASSUME NEW k \in 1..n-1
        PROVE  k \in Places(list, s) <=> k \in Places(t, s)
    BY <2>1, <2>2, <2>3, <2>5
  <2>8. n \in Places(list, s) <=> n \in new
    BY <2>2, <2>4, <2>5, <2>6
  <2> QED BY <2>2, <2>3, <2>5, <2>6, <2>7, <2>8, <1>4
<1>6. IsFiniteSet(Places(t, s)) /\ Count(t, s) \in Nat
  BY <1>2, PlacesFinite
<1>7. Cardinality(Places(list, s)) = Ind(Head(list) = s) + Cardinality(Places(t, s))
  <2>1. CASE Head(list) = s
    BY <1>4, <1>5, <1>6, <2>1, FS_AddElement DEF Count, Ind
  <2>2. CASE Head(list) # s
    BY <1>5, <1>6, <2>2 DEF Count, Ind
  <2> QED BY <2>1, <2>2
<1> QED BY <1>1, <1>2, <1>4, <1>5, <1>7 DEF Count

(* Short lists, element by element. *)
LEMMA CountLists ==
  ASSUME NEW T, NEW s
  PROVE  /\ \A x \in T : <<x>> \in Seq(T) /\ Count(<<x>>, s) = Ind(s = x)
         /\ \A x, y \in T :
              <<x, y>> \in Seq(T) /\ Count(<<x, y>>, s) = Ind(s = x) + Ind(s = y)
         /\ \A x, y, z \in T :
              /\ <<x, y, z>> \in Seq(T)
              /\ Count(<<x, y, z>>, s) = Ind(s = x) + Ind(s = y) + Ind(s = z)
         /\ \A w, x, y, z \in T :
              /\ <<w, x, y, z>> \in Seq(T)
              /\ Count(<<w, x, y, z>>, s) = Ind(s = w) + Ind(s = x) + Ind(s = y) + Ind(s = z)
<1>1. \A l \in Seq(T) : l # << >> => Count(l, s) = Ind(s = Head(l)) + Count(Tail(l), s)
  BY CountHead DEF Ind
<1>2. ASSUME NEW x \in T
      PROVE  <<x>> \in Seq(T) /\ Count(<<x>>, s) = Ind(s = x)
  <2>1. <<x>> \in Seq(T) /\ <<x>> # << >> /\ Head(<<x>>) = x /\ Tail(<<x>>) = << >>
    OBVIOUS
  <2>2. Count(<<x>>, s) = Ind(s = x) + Count(<< >>, s)
    BY <1>1, <2>1
  <2> QED BY <2>1, <2>2, CountEmpty DEF Ind
<1>3. ASSUME NEW x \in T, NEW y \in T
      PROVE  <<x, y>> \in Seq(T) /\ Count(<<x, y>>, s) = Ind(s = x) + Ind(s = y)
  <2>1. /\ <<x, y>> \in Seq(T) /\ <<x, y>> # << >>
        /\ Head(<<x, y>>) = x /\ Tail(<<x, y>>) = <<y>>
    OBVIOUS
  <2>2. Count(<<x, y>>, s) = Ind(s = x) + Count(<<y>>, s)
    BY <1>1, <2>1
  <2> QED BY <2>1, <2>2, <1>2
<1>4. ASSUME NEW x \in T, NEW y \in T, NEW z \in T
      PROVE  /\ <<x, y, z>> \in Seq(T)
             /\ Count(<<x, y, z>>, s) = Ind(s = x) + Ind(s = y) + Ind(s = z)
  <2>1. /\ <<x, y, z>> \in Seq(T) /\ <<x, y, z>> # << >>
        /\ Head(<<x, y, z>>) = x /\ Tail(<<x, y, z>>) = <<y, z>>
    OBVIOUS
  <2>2. Count(<<x, y, z>>, s) = Ind(s = x) + Count(<<y, z>>, s)
    BY <1>1, <2>1
  <2> QED BY <2>1, <2>2, <1>3 DEF Ind
<1>5. ASSUME NEW w \in T, NEW x \in T, NEW y \in T, NEW z \in T
      PROVE  /\ <<w, x, y, z>> \in Seq(T)
             /\ Count(<<w, x, y, z>>, s) = Ind(s = w) + Ind(s = x) + Ind(s = y) + Ind(s = z)
  <2>1. /\ <<w, x, y, z>> \in Seq(T) /\ <<w, x, y, z>> # << >>
        /\ Head(<<w, x, y, z>>) = w /\ Tail(<<w, x, y, z>>) = <<x, y, z>>
    OBVIOUS
  <2>2. Count(<<w, x, y, z>>, s) = Ind(s = w) + Count(<<x, y, z>>, s)
    BY <1>1, <2>1
  <2> QED BY <2>1, <2>2, <1>4 DEF Ind
<1> QED BY <1>2, <1>3, <1>4, <1>5

(* The number of members of two disjoint finite sets. *)
LEMMA CardinalityDisjoint ==
  ASSUME NEW A, IsFiniteSet(A), NEW B, IsFiniteSet(B), A \cap B = {}
  PROVE  Cardinality(A \cup B) = Cardinality(A) + Cardinality(B)
<1>1. Cardinality(A) \in Nat /\ Cardinality(B) \in Nat
  BY FS_CardinalityType
<1>2. Cardinality(A \cap B) = 0
  BY FS_EmptySet
<1>3. Cardinality(A \cup B) = Cardinality(A) + Cardinality(B) - Cardinality(A \cap B)
  BY FS_Union
<1> QED BY <1>1, <1>2, <1>3

(* The places of a concatenation are those of its parts. *)
LEMMA CountConcat ==
  ASSUME NEW T, NEW l \in Seq(T), NEW m \in Seq(T), NEW s
  PROVE  l \o m \in Seq(T) /\ Count(l \o m, s) = Count(l, s) + Count(m, s)
<1>1. PICK p \in Nat, q \in Nat : p = Len(l) /\ q = Len(m)
  BY LenProperties
<1> DEFINE lm == l \o m
<1>2. /\ lm \in Seq(T) /\ Len(lm) = p + q
      /\ \A k \in 1..p + q : lm[k] = IF k <= p THEN l[k] ELSE m[k - p]
  BY <1>1, ConcatProperties
<1> DEFINE A == Places(l, s)
           B == Places(m, s)
           C == {k + q : k \in A}
           f == [k \in A |-> k + q]
<1>3. A = {k \in 1..p : l[p + 1 - k] = s} /\ B = {k \in 1..q : m[q + 1 - k] = s}
  BY <1>1 DEF Places
<1>4. IsFiniteSet(A) /\ IsFiniteSet(B) /\ Cardinality(A) \in Nat /\ Cardinality(B) \in Nat
  BY PlacesFinite DEF Count
<1> HIDE DEF A, B
<1>5. IsFiniteSet(C) /\ Cardinality(C) = Cardinality(A)
  <2>1. \A k \in A : k \in Nat
    BY <1>3
  <2>2. f \in [A -> C] /\ \A k \in A : f[k] = k + q
    OBVIOUS
  <2>3. \A k, j \in A : f[k] = f[j] => k = j
    BY <2>1, <2>2, <1>1
  <2>4. \A x \in C : \E k \in A : f[k] = x
    OBVIOUS
  <2> HIDE DEF f, C
  <2>5. f \in Bijection(A, C)
    BY <2>2, <2>3, <2>4 DEF Bijection, Injection, Surjection, IsInjective
  <2> QED BY <1>4, <2>5, FS_Bijection DEF ExistsBijection
<1>6. C = {k \in q + 1..q + p : l[p + q + 1 - k] = s}
  <2>1. ASSUME NEW k \in A PROVE k + q \in q + 1..q + p /\ l[p + q + 1 - (k + q)] = s
    <3>1. k \in 1..p /\ l[p + 1 - k] = s
      BY <1>3, <2>1
    <3>2. p + q + 1 - (k + q) = p + 1 - k
      BY <3>1, <1>1
    <3> QED BY <3>1, <3>2, <1>1
  <2>2. ASSUME NEW k \in q + 1..q + p, l[p + q + 1 - k] = s PROVE k \in C
    <3>1. k - q \in 1..p /\ p + 1 - (k - q) = p + q + 1 - k /\ k = (k - q) + q
      BY <2>2, <1>1
    <3>2. k - q \in A
      BY <1>3, <2>2, <3>1
    <3> QED BY <3>1, <3>2
  <2> QED BY <2>1, <2>2
<1> HIDE DEF C
<1>7. Places(lm, s) = C \cup B /\ C \cap B = {}
  <2>1. Places(lm, s) = {k \in 1..p + q : lm[p + q + 1 - k] = s}
    BY <1>2 DEF Places
  <2>2. \A k \in 1..q : /\ k \in 1..p + q /\ p + q + 1 - k \in 1..p + q
                        /\ ~(p + q + 1 - k <= p) /\ (p + q + 1 - k) - p = q + 1 - k
    BY <1>1
  <2>3. \A k \in q + 1..q + p : k \in 1..p + q /\ p + q + 1 - k \in 1..p + q /\ p + q + 1 - k <= p
    BY <1>1
  <2>4. \A k \in 1..q : lm[p + q + 1 - k] = m[q + 1 - k]
    BY <1>2, <2>2
  <2>5. \A k \in q + 1..q + p : lm[p + q + 1 - k] = l[p + q + 1 - k]
    BY <1>2, <2>3
  <2>6. \A k \in 1..p + q : k \in 1..q \/ k \in q + 1..q + p
    BY <1>1
  <2>7. \A k : ~(k \in 1..q /\ k \in q + 1..q + p)
    BY <1>1
  <2> HIDE DEF lm
  <2>8. \A k : k \in Places(lm, s) <=> k \in C \/ k \in B
    BY <1>3, <1>6, <2>1, <2>2, <2>3, <2>4, <2>5, <2>6
  <2> QED BY <1>3, <1>6, <2>7, <2>8
<1>8. Cardinality(C \cup B) = Cardinality(C) + Cardinality(B)
  BY <1>4, <1>5, <1>7, CardinalityDisjoint
<1>9. Count(lm, s) = Cardinality(C) + Cardinality(B)
  BY <1>7, <1>8 DEF Count
<1> HIDE DEF lm
<1> QED BY <1>2, <1>5, <1>9 DEF Count, lm, A, B

-----------------------------------------------------------------------------
(* Sets that differ in one element at most. *)
LEMMA CardinalityChange ==
  ASSUME NEW A, IsFiniteSet(A), NEW B, NEW c,
         \A x : x # c => (x \in A <=> x \in B)
  PROVE  /\ IsFiniteSet(B) /\ Cardinality(A) \in Nat /\ Cardinality(B) \in Nat
         /\ Cardinality(B) + Ind(c \in A) = Cardinality(A) + Ind(c \in B)
<1> DEFINE R == A \ {c}
<1>1. IsFiniteSet(R) /\ c \notin R /\ Cardinality(R) \in Nat
  BY FS_RemoveElement, FS_CardinalityType
<1>2. A = IF c \in A THEN R \cup {c} ELSE R
  OBVIOUS
<1>3. B = IF c \in B THEN R \cup {c} ELSE R
  OBVIOUS
<1> HIDE DEF R
<1>4. IsFiniteSet(R \cup {c}) /\ Cardinality(R \cup {c}) = Cardinality(R) + 1
  BY <1>1, FS_AddElement
<1>5. Cardinality(A) = Cardinality(R) + Ind(c \in A)
  BY <1>1, <1>2, <1>4 DEF Ind
<1>6. IsFiniteSet(B) /\ Cardinality(B) = Cardinality(R) + Ind(c \in B)
  BY <1>1, <1>3, <1>4 DEF Ind
<1> QED BY <1>1, <1>5, <1>6 DEF Ind

(* Finitely many measurements are due. *)
LEMMA DueFinite ==
  ASSUME NEW f \in [Callers -> Seq(Series)], NEW s
  PROVE  IsFiniteSet(Due(f, s)) /\ Cardinality(Due(f, s)) \in Nat
<1> DEFINE g == [c \in Callers |-> {c} \X Places(f[c], s)]
           S == {{c} \X Places(f[c], s) : c \in Callers}
<1>1. \A c \in Callers : IsFiniteSet({c} \X Places(f[c], s))
  <2> TAKE c \in Callers
  <2>1. IsFiniteSet(Places(f[c], s)) /\ IsFiniteSet({c})
    BY PlacesFinite, FS_Singleton
  <2> QED BY <2>1, FS_Product
<1>2. g \in Surjection(Callers, S)
  BY DEF Surjection
<1>3. IsFiniteSet(S)
  BY <1>2, FS_Surjection, CallersAssumption
<1>4. IsFiniteSet(Due(f, s))
  BY <1>1, <1>3, FS_UNION DEF Due
<1> QED BY <1>4, FS_CardinalityType

(* What is due when one caller's list changes. *)
LEMMA DueChange ==
  ASSUME NEW f \in [Callers -> Seq(Series)], NEW c \in Callers, NEW l \in Seq(Series), NEW s,
         NEW g, g = [f EXCEPT ![c] = l]
  PROVE  /\ Cardinality(Due(f, s)) \in Nat /\ Cardinality(Due(g, s)) \in Nat
         /\ Count(f[c], s) \in Nat /\ Count(l, s) \in Nat
         /\ Cardinality(Due(g, s)) + Count(f[c], s) = Cardinality(Due(f, s)) + Count(l, s)
<1> DEFINE P == {c} \X Places(f[c], s)
           Q == {c} \X Places(l, s)
           R == Due(f, s) \ P
<1>1. g \in [Callers -> Seq(Series)] /\ g[c] = l /\ \A d \in Callers : d # c => g[d] = f[d]
  OBVIOUS
<1>2. \A h \in [Callers -> Seq(Series)] : \A z :
        z \in Due(h, s) <=> \E d \in Callers : z \in {d} \X Places(h[d], s)
  BY DEF Due
<1>3. \A d \in Callers : d # c => \A X, Y, z : ~(z \in {d} \X X /\ z \in {c} \X Y)
  OBVIOUS
<1>4. Due(f, s) = R \cup P /\ R \cap P = {}
  BY <1>2
<1>5. Due(g, s) = R \cup Q /\ R \cap Q = {}
  <2>1. ASSUME NEW z \in Due(g, s) PROVE z \in R \cup Q
    BY <1>1, <1>2, <1>3
  <2>2. ASSUME NEW z \in R PROVE z \in Due(g, s) /\ z \notin Q
    <3>1. PICK d \in Callers : z \in {d} \X Places(f[d], s)
      BY <1>2
    <3>2. d # c
      BY <3>1
    <3>3. z \in {d} \X Places(g[d], s)
      BY <1>1, <3>1, <3>2
    <3> QED BY <1>1, <1>2, <1>3, <3>2, <3>3
  <2>3. ASSUME NEW z \in Q PROVE z \in Due(g, s)
    BY <1>1, <1>2
  <2> QED BY <2>1, <2>2, <2>3
<1>6. ASSUME NEW m \in Seq(Series)
      PROVE  /\ IsFiniteSet({c} \X Places(m, s)) /\ Count(m, s) \in Nat
             /\ Cardinality({c} \X Places(m, s)) = Count(m, s)
  <2>1. IsFiniteSet(Places(m, s)) /\ Count(m, s) \in Nat
    BY PlacesFinite
  <2>2. IsFiniteSet({c}) /\ Cardinality({c}) = 1
    BY FS_Singleton
  <2>3. Cardinality({c} \X Places(m, s)) = 1 * Count(m, s) /\ IsFiniteSet({c} \X Places(m, s))
    BY <2>1, <2>2, FS_Product DEF Count
  <2> QED BY <2>1, <2>3
<1>7. /\ IsFiniteSet(P) /\ Cardinality(P) = Count(f[c], s) /\ Count(f[c], s) \in Nat
      /\ IsFiniteSet(Q) /\ Cardinality(Q) = Count(l, s) /\ Count(l, s) \in Nat
  BY <1>6
<1>8. IsFiniteSet(R) /\ Cardinality(R) \in Nat
  BY DueFinite, FS_Difference, FS_CardinalityType
<1> HIDE DEF P, Q, R
<1>9. Cardinality(Due(f, s)) = Cardinality(R) + Count(f[c], s)
  BY <1>4, <1>7, <1>8, CardinalityDisjoint
<1>10. Cardinality(Due(g, s)) = Cardinality(R) + Count(l, s)
  BY <1>5, <1>7, <1>8, CardinalityDisjoint
<1> QED BY <1>7, <1>8, <1>9, <1>10

-----------------------------------------------------------------------------
(* What a call must record and log when its outcome is decided: of every   *)
(* series, and at every level, as much as AccountInv has it cause.         *)
Tally(list, m, o, l) == Count(list, <<m, o, l>>)
LineTally(list, g, v) == Count(list, <<g, v>>)

Lines == Loggers \X Levels

Failing  == {"build_query", "database_query", "database_exec", "scan_results"}
Aborting == {"cancelled", "timeout"}

Measures(op, x, todo) ==
  \A o \in Ops :
    /\ Tally(todo, "calls", o, "all") = 0
    /\ \A m \in {"sql", "method"} :
         /\ Tally(todo, m, o, "success") = Ind(o = op /\ x = "success")
         /\ Tally(todo, m, o, "canceled") = Ind(o = op /\ x = "cancelled")
         /\ Tally(todo, m, o, "timeout") = Ind(o = op /\ x = "timeout")
         /\ Tally(todo, m, o, "error") =
              Ind(o = op /\ x \in Failing) + Ind(o = op /\ op = "append" /\ x \in Aborting)
    /\ Tally(todo, "canceled", o, "all") = Ind(o = op /\ x = "cancelled")
    /\ Tally(todo, "timeout", o, "all") = Ind(o = op /\ x = "timeout")
    /\ Tally(todo, "conflicts", o, "all") = Ind(o = op /\ x = "concurrency_conflict")
    /\ Tally(todo, "errors", o, "all") =
         Ind(o = op /\ x \in Failing) + Ind(o = op /\ op = "append" /\ x \in Aborting)
         + Ind(o = op /\ op = "append" /\ x = "build_query")

Reports(op, from, x, lines) ==
  /\ \A logger \in Loggers :
       /\ LineTally(lines, logger, "debug") + Ind(x = "build_query")
            = Ind(from \in {"build", "execution"})
       /\ LineTally(lines, logger, "info") = Ind(x \in {"success", "concurrency_conflict"})
  /\ LineTally(lines, "contextual", "error") + Ind(x = "scan_results")
       = Ind(x \in Failing \/ x \in Aborting)
  /\ LineTally(lines, "plain", "error") =
       Ind(x \in Failing \/ x \in Aborting) + Ind(op = "append" /\ x = "build_query")

(* What a call records when it goes on instead is of no concern.           *)
Harmless(todo) ==
  \A o \in Ops :
    /\ \A m \in {"calls", "canceled", "timeout", "conflicts", "errors"} :
         Tally(todo, m, o, "all") = 0
    /\ \A m \in {"sql", "method"}, status \in Statuses : Tally(todo, m, o, status) = 0

(* Every triple the lists below are made of is a series. *)
LEMMA SeriesMembers ==
  \A o \in Ops :
    /\ \A m \in {"calls", "errors", "canceled", "timeout", "conflicts", "events"} :
         <<m, o, "all">> \in Series
    /\ \A m \in {"sql", "method"}, status \in Statuses : <<m, o, status>> \in Series
    /\ \A component \in Components : <<"component", o, component>> \in Series
BY DEF Series

(* How often each series is in each of the lists of measurements. *)
LEMMA MeasurementLists ==
  ASSUME NEW op \in Ops
  PROVE  /\ Failed(op) \in Seq(Series) /\ Succeeded(op) \in Seq(Series)
         /\ CountedOnly(op) \in Seq(Series) /\ Conflict \in Seq(Series)
         /\ \A cause \in {"canceled", "timeout"} : Stopped(op, cause) \in Seq(Series)
         /\ \A component \in Components : Component(op, component) \in Seq(Series)
         /\ \A m, o, l :
              /\ Tally(Failed(op), m, o, l) =
                   Ind(m = "sql" /\ o = op /\ l = "error") + Ind(m = "method" /\ o = op /\ l = "error")
                   + Ind(m = "errors" /\ o = op /\ l = "all")
              /\ Tally(Succeeded(op), m, o, l) =
                   Ind(m = "sql" /\ o = op /\ l = "success") + Ind(m = "events" /\ o = op /\ l = "all")
                   + Ind(m = "method" /\ o = op /\ l = "success") + Ind(m = "events" /\ o = op /\ l = "all")
              /\ Tally(CountedOnly(op), m, o, l) = Ind(m = "errors" /\ o = op /\ l = "all")
              /\ Tally(Conflict, m, o, l) = Ind(m = "conflicts" /\ o = "append" /\ l = "all")
         /\ \A cause \in {"canceled", "timeout"} : \A m, o, l :
              Tally(Stopped(op, cause), m, o, l) =
                Ind(m = "sql" /\ o = op /\ l = cause) + Ind(m = "method" /\ o = op /\ l = cause)
                + Ind(m = cause /\ o = op /\ l = "all")
         /\ \A component \in Components : \A m, o, l :
              Tally(Component(op, component), m, o, l) = Ind(m = "component" /\ o = op /\ l = component)
<1> DEFINE S(m, l) == <<m, op, l>>
<1>1. /\ S("sql", "error") \in Series /\ S("method", "error") \in Series
      /\ S("errors", "all") \in Series /\ S("events", "all") \in Series
      /\ S("sql", "success") \in Series /\ S("method", "success") \in Series
      /\ <<"conflicts", "append", "all">> \in Series
      /\ \A cause \in {"canceled", "timeout"} :
           /\ S("sql", cause) \in Series /\ S("method", cause) \in Series
           /\ S(cause, "all") \in Series
      /\ \A component \in Components : S("component", component) \in Series
  BY SeriesMembers DEF Statuses, Ops
<1> HIDE DEF S
<1>2. \A a \in Series : \A s :
        /\ <<a>> \in Seq(Series) /\ Count(<<a>>, s) = Ind(s = a)
  BY CountLists
<1>3. \A a, b, d \in Series : \A s :
        /\ <<a, b, d>> \in Seq(Series)
        /\ Count(<<a, b, d>>, s) = Ind(s = a) + Ind(s = b) + Ind(s = d)
  BY CountLists
<1>4. \A a, b, d, e \in Series : \A s :
        /\ <<a, b, d, e>> \in Seq(Series)
        /\ Count(<<a, b, d, e>>, s) = Ind(s = a) + Ind(s = b) + Ind(s = d) + Ind(s = e)
  BY CountLists
<1>5. Failed(op) \in Seq(Series) /\ \A s : Count(Failed(op), s) =
        Ind(s = S("sql", "error")) + Ind(s = S("method", "error")) + Ind(s = S("errors", "all"))
  BY <1>1, <1>3 DEF Failed, S
<1>6. Succeeded(op) \in Seq(Series) /\ \A s : Count(Succeeded(op), s) =
        Ind(s = S("sql", "success")) + Ind(s = S("events", "all"))
        + Ind(s = S("method", "success")) + Ind(s = S("events", "all"))
  <2>1. Succeeded(op) = <<S("sql", "success"), S("events", "all"),
                          S("method", "success"), S("events", "all")>>
    BY DEF Succeeded, S
  <2> QED BY <1>1, <1>4, <2>1
<1>7. CountedOnly(op) \in Seq(Series) /\ \A s : Count(CountedOnly(op), s) = Ind(s = S("errors", "all"))
  BY <1>1, <1>2 DEF CountedOnly, S
<1>8. Conflict \in Seq(Series)
      /\ \A s : Count(Conflict, s) = Ind(s = <<"conflicts", "append", "all">>)
  BY <1>1, <1>2 DEF Conflict
<1>9. \A cause \in {"canceled", "timeout"} :
        Stopped(op, cause) \in Seq(Series) /\ \A s : Count(Stopped(op, cause), s) =
          Ind(s = S("sql", cause)) + Ind(s = S("method", cause)) + Ind(s = S(cause, "all"))
  BY <1>1, <1>3 DEF Stopped, S
<1>10. \A component \in Components :
         /\ Component(op, component) \in Seq(Series)
         /\ \A s : Count(Component(op, component), s) = Ind(s = S("component", component))
  BY <1>1, <1>2 DEF Component, S
<1>11. ASSUME NEW m, NEW o, NEW l, NEW x, NEW y, NEW z
       PROVE  Ind(<<m, o, l>> = <<x, y, z>>) = Ind(m = x /\ o = y /\ l = z)
  BY DEF Ind
<1>12. ASSUME NEW m, NEW o, NEW l
       PROVE  /\ Tally(Failed(op), m, o, l) =
                   Ind(m = "sql" /\ o = op /\ l = "error")
                   + Ind(m = "method" /\ o = op /\ l = "error")
                   + Ind(m = "errors" /\ o = op /\ l = "all")
              /\ Tally(Succeeded(op), m, o, l) =
                   Ind(m = "sql" /\ o = op /\ l = "success")
                   + Ind(m = "events" /\ o = op /\ l = "all")
                   + Ind(m = "method" /\ o = op /\ l = "success")
                   + Ind(m = "events" /\ o = op /\ l = "all")
              /\ Tally(CountedOnly(op), m, o, l) = Ind(m = "errors" /\ o = op /\ l = "all")
              /\ Tally(Conflict, m, o, l) = Ind(m = "conflicts" /\ o = "append" /\ l = "all")
  <2> DEFINE s == <<m, o, l>>
  <2>1. \A x, z : Ind(s = S(x, z)) = Ind(m = x /\ o = op /\ l = z)
    BY <1>11 DEF S
  <2>2. Ind(s = <<"conflicts", "append", "all">>) = Ind(m = "conflicts" /\ o = "append" /\ l = "all")
    BY <1>11
  <2> HIDE DEF s
  <2>3. \A list : Tally(list, m, o, l) = Count(list, s)
    BY DEF Tally, s
  <2> QED BY <1>5, <1>6, <1>7, <1>8, <2>1, <2>2, <2>3
<1>13. ASSUME NEW m, NEW o, NEW l, NEW cause \in {"canceled", "timeout"}
       PROVE  Tally(Stopped(op, cause), m, o, l) =
                Ind(m = "sql" /\ o = op /\ l = cause)
                + Ind(m = "method" /\ o = op /\ l = cause)
                + Ind(m = cause /\ o = op /\ l = "all")
  <2> DEFINE s == <<m, o, l>>
  <2>1. \A x, z : Ind(s = S(x, z)) = Ind(m = x /\ o = op /\ l = z)
    BY <1>11 DEF S
  <2> HIDE DEF s
  <2>2. Tally(Stopped(op, cause), m, o, l) = Count(Stopped(op, cause), s)
    BY DEF Tally, s
  <2> QED BY <1>9, <2>1, <2>2
<1>14. ASSUME NEW m, NEW o, NEW l, NEW component \in Components
       PROVE  Tally(Component(op, component), m, o, l)
                = Ind(m = "component" /\ o = op /\ l = component)
  BY <1>10, <1>11 DEF S, Tally
<1> QED BY <1>5, <1>6, <1>7, <1>8, <1>9, <1>10, <1>12, <1>13, <1>14

(* How often each logger and level is in each of the lists of lines. *)
LEMMA LineLists ==
  ASSUME NEW level \in Levels
  PROVE  /\ Plain(level) \in Seq(Lines) /\ Both(level) \in Seq(Lines)
         /\ \A g, v : /\ LineTally(Plain(level), g, v) = Ind(g = "plain" /\ v = level)
                   /\ LineTally(Both(level), g, v) =
                        Ind(g = "plain" /\ v = level) + Ind(g = "contextual" /\ v = level)
<1> DEFINE plain == <<"plain", level>>
           contextual == <<"contextual", level>>
<1>1. plain \in Lines /\ contextual \in Lines
  BY DEF Loggers, Lines
<1>2. Plain(level) = <<plain>> /\ Both(level) = <<plain, contextual>>
  BY DEF Plain, Both
<1> HIDE DEF plain, contextual
<1>3. \A s : <<plain>> \in Seq(Lines) /\ Count(<<plain>>, s) = Ind(s = plain)
  BY <1>1, CountLists
<1>4. \A s : /\ <<plain, contextual>> \in Seq(Lines)
             /\ Count(<<plain, contextual>>, s) = Ind(s = plain) + Ind(s = contextual)
  BY <1>1, CountLists
<1>5. ASSUME NEW g, NEW v
      PROVE  /\ LineTally(Plain(level), g, v) = Ind(g = "plain" /\ v = level)
             /\ LineTally(Both(level), g, v) =
                  Ind(g = "plain" /\ v = level) + Ind(g = "contextual" /\ v = level)
  <2> DEFINE s == <<g, v>>
  <2>1. /\ Ind(s = plain) = Ind(g = "plain" /\ v = level)
        /\ Ind(s = contextual) = Ind(g = "contextual" /\ v = level)
    BY DEF Ind, plain, contextual
  <2> HIDE DEF s
  <2>2. \A list : LineTally(list, g, v) = Count(list, s)
    BY DEF LineTally, s
  <2> QED BY <1>2, <1>3, <1>4, <2>1, <2>2
<1> QED BY <1>2, <1>3, <1>4, <1>5

(* Tallies of two lists in a row add up. *)
LEMMA TallyConcat ==
  ASSUME NEW T, NEW j \in Seq(T), NEW k \in Seq(T)
  PROVE  /\ j \o k \in Seq(T)
         /\ \A m, o, l : Tally(j \o k, m, o, l) = Tally(j, m, o, l) + Tally(k, m, o, l)
         /\ \A g, v : LineTally(j \o k, g, v) = LineTally(j, g, v) + LineTally(k, g, v)
<1>1. j \o k \in Seq(T) /\ \A s : Count(j \o k, s) = Count(j, s) + Count(k, s)
  BY CountConcat
<1> QED BY <1>1 DEF Tally, LineTally

(* Every list a phase leaves to do is what the outcome asks for. *)
LEMMA FailuresMeasured ==
  /\ \A x \in {"build_query", "database_query", "scan_results"} :
       Measures("query", x, Failed("query"))
  /\ \A x \in {"database_exec"} : Measures("append", x, Failed("append"))
  /\ Failed("query") \in Seq(Series) /\ Failed("append") \in Seq(Series)
<1>1. ASSUME NEW op \in Ops, NEW x \in Failing, ~(op = "append" /\ x = "build_query")
      PROVE  Measures(op, x, Failed(op)) /\ Failed(op) \in Seq(Series)
  <2>1. Failed(op) \in Seq(Series) /\ \A m, o, l : Tally(Failed(op), m, o, l) =
          Ind(m = "sql" /\ o = op /\ l = "error") + Ind(m = "method" /\ o = op /\ l = "error")
          + Ind(m = "errors" /\ o = op /\ l = "all")
    BY MeasurementLists
  <2> QED BY <1>1, <2>1 DEF Measures, Ind, Failing, Aborting, Ops
<1> QED BY <1>1 DEF Ops, Failing

(* A failure to build the INSERT is counted twice, and its durations once. *)
LEMMA BuildFailureMeasured ==
  AppendBuildFailure \in Seq(Series) /\ Measures("append", "build_query", AppendBuildFailure)
<1>1. /\ CountedOnly("append") \in Seq(Series) /\ Failed("append") \in Seq(Series)
      /\ \A m, o, l : Tally(CountedOnly("append"), m, o, l) = Ind(m = "errors" /\ o = "append" /\ l = "all")
      /\ \A m, o, l : Tally(Failed("append"), m, o, l) =
           Ind(m = "sql" /\ o = "append" /\ l = "error") + Ind(m = "method" /\ o = "append" /\ l = "error")
           + Ind(m = "errors" /\ o = "append" /\ l = "all")
  BY MeasurementLists DEF Ops
<1>2. /\ AppendBuildFailure \in Seq(Series)
      /\ \A m, o, l :
            Tally(AppendBuildFailure, m, o, l) =
              Tally(CountedOnly("append"), m, o, l) + Tally(Failed("append"), m, o, l)
  BY <1>1, TallyConcat DEF AppendBuildFailure
<1>3. \A m, o, l : Tally(AppendBuildFailure, m, o, l) =
        Ind(m = "errors" /\ o = "append" /\ l = "all")
        + (Ind(m = "sql" /\ o = "append" /\ l = "error") + Ind(m = "method" /\ o = "append" /\ l = "error")
           + Ind(m = "errors" /\ o = "append" /\ l = "all"))
  BY <1>1, <1>2
<1> QED BY <1>2, <1>3 DEF Measures, Ind, Failing, Aborting, Ops

(* A cancellation or a timeout; Append has an error besides. *)
LEMMA AbortsMeasured ==
  ASSUME NEW cause \in {"canceled", "timeout"}
  PROVE  /\ Stopped("query", cause) \in Seq(Series)
         /\ Measures("query", FailureStatus("query", cause), Stopped("query", cause))
         /\ Failed("append") \o Stopped("append", cause) \in Seq(Series)
         /\ Measures("append", FailureStatus("append", cause),
                     Failed("append") \o Stopped("append", cause))
<1>1. \A op \in Ops : FailureStatus(op, cause) = IF cause = "canceled" THEN "cancelled" ELSE "timeout"
  BY DEF FailureStatus
<1>2. ASSUME NEW op \in Ops
      PROVE  /\ Stopped(op, cause) \in Seq(Series)
             /\ \A m, o, l : Tally(Stopped(op, cause), m, o, l) =
                  Ind(m = "sql" /\ o = op /\ l = cause) + Ind(m = "method" /\ o = op /\ l = cause)
                  + Ind(m = cause /\ o = op /\ l = "all")
  BY MeasurementLists
<1>3. /\ Failed("append") \in Seq(Series)
      /\ \A m, o, l : Tally(Failed("append"), m, o, l) =
           Ind(m = "sql" /\ o = "append" /\ l = "error") + Ind(m = "method" /\ o = "append" /\ l = "error")
           + Ind(m = "errors" /\ o = "append" /\ l = "all")
  BY MeasurementLists DEF Ops
<1>4. Measures("query", FailureStatus("query", cause), Stopped("query", cause))
  BY <1>1, <1>2 DEF Measures, Ind, Failing, Aborting, Ops
<1> DEFINE todo == Failed("append") \o Stopped("append", cause)
<1>5. /\ todo \in Seq(Series)
      /\ \A m, o, l :
            Tally(todo, m, o, l) =
              Tally(Failed("append"), m, o, l) + Tally(Stopped("append", cause), m, o, l)
  BY <1>2, <1>3, TallyConcat DEF Ops
<1> HIDE DEF todo
<1>6. \A m, o, l : Tally(todo, m, o, l) =
        (Ind(m = "sql" /\ o = "append" /\ l = "error") + Ind(m = "method" /\ o = "append" /\ l = "error")
         + Ind(m = "errors" /\ o = "append" /\ l = "all"))
        + (Ind(m = "sql" /\ o = "append" /\ l = cause) + Ind(m = "method" /\ o = "append" /\ l = cause)
           + Ind(m = cause /\ o = "append" /\ l = "all"))
  BY <1>2, <1>3, <1>5 DEF Ops
<1>7. FailureStatus("append", cause) = IF cause = "canceled" THEN "cancelled" ELSE "timeout"
  BY <1>1 DEF Ops
<1>8. Measures("append", FailureStatus("append", cause), todo)
  BY <1>6, <1>7 DEF Measures, Ind, Failing, Aborting, Ops
<1> QED BY <1>2, <1>4, <1>5, <1>8 DEF todo, Ops

(* A failed statement, whatever its cause. *)
LEMMA ExecutionFailuresMeasured ==
  ASSUME NEW cause \in {"canceled", "timeout", "error"}
  PROVE  /\ QueryExecutionFailure(cause) \in Seq(Series)
         /\ Measures("query", FailureStatus("query", cause), QueryExecutionFailure(cause))
         /\ AppendExecutionFailure(cause) \in Seq(Series)
         /\ Measures("append", FailureStatus("append", cause), AppendExecutionFailure(cause))
<1>1. CASE cause = "error"
  <2>1. /\ FailureStatus("query", cause) = "database_query"
        /\ FailureStatus("append", cause) = "database_exec"
    BY <1>1 DEF FailureStatus
  <2>2. QueryExecutionFailure(cause) = Failed("query")
    BY <1>1 DEF QueryExecutionFailure
  <2>3. AppendExecutionFailure(cause) = Failed("append")
    BY <1>1, FailuresMeasured, ConcatEmptySeq DEF AppendExecutionFailure
  <2> QED BY <2>1, <2>2, <2>3, FailuresMeasured
<1>2. CASE cause # "error"
  <2>1. /\ QueryExecutionFailure(cause) = Stopped("query", cause)
        /\ AppendExecutionFailure(cause) = Failed("append") \o Stopped("append", cause)
    BY <1>2 DEF QueryExecutionFailure, AppendExecutionFailure
  <2> QED BY <1>2, <2>1, AbortsMeasured
<1> QED BY <1>1, <1>2

(* A success; that of Query comes with the duration of a component. *)
LEMMA SuccessesMeasured ==
  LET processed == Component("query", "result_processing") \o Succeeded("query")
  IN  /\ processed \in Seq(Series) /\ Measures("query", "success", processed)
      /\ Succeeded("append") \in Seq(Series)
      /\ Measures("append", "success", Succeeded("append"))
<1>1. ASSUME NEW op \in Ops
      PROVE  /\ Succeeded(op) \in Seq(Series)
             /\ \A m, o, l : Tally(Succeeded(op), m, o, l) =
                  Ind(m = "sql" /\ o = op /\ l = "success") + Ind(m = "events" /\ o = op /\ l = "all")
                  + Ind(m = "method" /\ o = op /\ l = "success") + Ind(m = "events" /\ o = op /\ l = "all")
  BY MeasurementLists
<1> DEFINE component == Component("query", "result_processing")
           processed == component \o Succeeded("query")
<1>2. /\ component \in Seq(Series)
      /\ \A m, o, l :
            Tally(component, m, o, l) =
              Ind(m = "component" /\ o = "query" /\ l = "result_processing")
  BY MeasurementLists DEF Ops, Components
<1> HIDE DEF component
<1>3. /\ processed \in Seq(Series)
      /\ \A m, o, l :
            Tally(processed, m, o, l) =
              Tally(component, m, o, l) + Tally(Succeeded("query"), m, o, l)
  BY <1>1, <1>2, TallyConcat DEF Ops
<1> HIDE DEF processed
<1>4. \A m, o, l : Tally(processed, m, o, l) =
        Ind(m = "component" /\ o = "query" /\ l = "result_processing")
        + (Ind(m = "sql" /\ o = "query" /\ l = "success") + Ind(m = "events" /\ o = "query" /\ l = "all")
           + Ind(m = "method" /\ o = "query" /\ l = "success") + Ind(m = "events" /\ o = "query" /\ l = "all"))
  BY <1>1, <1>2, <1>3 DEF Ops
<1>5. Measures("query", "success", processed)
  BY <1>4 DEF Measures, Ind, Failing, Aborting, Ops
<1>6. Measures("append", "success", Succeeded("append"))
  BY <1>1 DEF Measures, Ind, Failing, Aborting, Ops
<1> QED BY <1>1, <1>3, <1>5, <1>6 DEF processed, component, Ops

(* A conflict has no durations. *)
LEMMA ConflictMeasured ==
  Conflict \in Seq(Series) /\ Measures("append", "concurrency_conflict", Conflict)
<1>1. /\ Conflict \in Seq(Series)
      /\ \A m, o, l : Tally(Conflict, m, o, l) = Ind(m = "conflicts" /\ o = "append" /\ l = "all")
  BY MeasurementLists DEF Ops
<1> QED BY <1>1 DEF Measures, Ind, Failing, Aborting, Ops

(* The duration of a component belongs to no law. *)
LEMMA ComponentHarmless ==
  ASSUME NEW op \in Ops, NEW component \in Components
  PROVE  Component(op, component) \in Seq(Series) /\ Harmless(Component(op, component))
<1>1. Component(op, component) \in Seq(Series)
  BY MeasurementLists
<1>2. ASSUME NEW m, NEW o, NEW l
      PROVE  Tally(Component(op, component), m, o, l)
               = Ind(m = "component" /\ o = op /\ l = component)
  BY MeasurementLists
<1> QED BY <1>1, <1>2 DEF Harmless, Ind, Statuses

(* Every line a phase logs is due to its outcome, or to the statement.     *)
Proceeds(from, lines) ==
  /\ \A logger \in Loggers :
       /\ LineTally(lines, logger, "debug") = Ind(from = "execution")
       /\ LineTally(lines, logger, "info") = 0
       /\ LineTally(lines, logger, "error") = 0

(* What each outcome logs, and what a phase logs that goes on. *)
LEMMA LinesReported ==
  /\ Reports("query", "build", "build_query", Both("error"))
  /\ Reports("append", "build", "build_query", Plain("error") \o Both("error"))
  /\ \A op \in Ops, x \in {"database_query", "database_exec", "cancelled", "timeout"} :
       Reports(op, "execution", x, Both("debug") \o Both("error"))
  /\ \A warning \in CloseWarnings :
       /\ Reports("query", "completion", "success", Both("info") \o warning)
       /\ Reports("query", "completion", "scan_results", RowFailure \o warning)
  /\ \A x \in {"success", "concurrency_conflict"} :
       Reports("append", "completion", x, Both("info"))
  /\ Proceeds("build", << >>)
  /\ Proceeds("execution", Both("debug"))
<1>1. \A level \in Levels : Plain(level) \in Seq(Lines) /\ Both(level) \in Seq(Lines)
  BY LineLists
<1>2. /\ \A level \in Levels : \A g, v :
           LineTally(Plain(level), g, v) = Ind(g = "plain" /\ v = level)
      /\ \A level \in Levels : \A g, v :
           LineTally(Both(level), g, v) = Ind(g = "plain" /\ v = level)
                                          + Ind(g = "contextual" /\ v = level)
  BY LineLists
<1>3. \A k, m \in Seq(Lines) : \A g, v : LineTally(k \o m, g, v) = LineTally(k, g, v) + LineTally(m, g, v)
  BY TallyConcat
<1>4. ASSUME NEW warning \in CloseWarnings
      PROVE  /\ warning \in Seq(Lines)
             /\ \A logger \in Loggers, level \in Levels \ {"warn"} :
                  LineTally(warning, logger, level) = 0
  <2>1. CASE warning = << >>
    BY <2>1, CountEmpty, EmptySeq DEF LineTally
  <2>2. CASE warning = Plain("warn")
    <3>1. warning \in Seq(Lines)
      BY <1>1, <2>2 DEF Levels
    <3>2. \A g, v : LineTally(warning, g, v) = Ind(g = "plain" /\ v = "warn")
      BY <1>2, <2>2 DEF Levels
    <3> QED BY <3>1, <3>2 DEF Ind, Levels
  <2> QED BY <2>1, <2>2 DEF CloseWarnings
<1>5. Reports("query", "build", "build_query", Both("error"))
  BY <1>2 DEF Reports, Ind, Failing, Aborting, Loggers, Levels
<1>6. Reports("append", "build", "build_query", Plain("error") \o Both("error"))
  <2>1. \A g, v : LineTally(Plain("error") \o Both("error"), g, v) =
                    LineTally(Plain("error"), g, v) + LineTally(Both("error"), g, v)
    BY <1>1, <1>3 DEF Levels
  <2> QED BY <1>2, <2>1 DEF Reports, Ind, Failing, Aborting, Loggers, Levels
<1>7. ASSUME NEW op \in Ops, NEW x \in {"database_query", "database_exec", "cancelled", "timeout"}
      PROVE  Reports(op, "execution", x, Both("debug") \o Both("error"))
  <2>1. \A g, v : LineTally(Both("debug") \o Both("error"), g, v) =
                    LineTally(Both("debug"), g, v) + LineTally(Both("error"), g, v)
    BY <1>1, <1>3 DEF Levels
  <2> QED BY <1>2, <2>1 DEF Reports, Ind, Failing, Aborting, Loggers, Levels
<1>8. ASSUME NEW warning \in CloseWarnings
      PROVE  /\ Reports("query", "completion", "success", Both("info") \o warning)
             /\ Reports("query", "completion", "scan_results", RowFailure \o warning)
  <2>1. /\ \A g, v : LineTally(Both("info") \o warning, g, v) =
                       LineTally(Both("info"), g, v) + LineTally(warning, g, v)
        /\ \A g, v : LineTally(RowFailure \o warning, g, v) =
                       LineTally(Plain("error"), g, v) + LineTally(warning, g, v)
    BY <1>1, <1>3, <1>4 DEF Levels, RowFailure
  <2>2. \A g \in Loggers, v \in Levels \ {"warn"} : LineTally(warning, g, v) = 0
    BY <1>4
  <2>3. Reports("query", "completion", "success", Both("info") \o warning)
    BY <1>2, <2>1, <2>2 DEF Reports, Ind, Failing, Aborting, Loggers, Levels
  <2>4. Reports("query", "completion", "scan_results", RowFailure \o warning)
    BY <1>2, <2>1, <2>2 DEF Reports, Ind, Failing, Aborting, Loggers, Levels
  <2> QED BY <2>3, <2>4
<1>9. ASSUME NEW x \in {"success", "concurrency_conflict"}
      PROVE  Reports("append", "completion", x, Both("info"))
  BY <1>2 DEF Reports, Ind, Failing, Aborting, Loggers, Levels
<1>10. Proceeds("build", << >>)
  BY CountEmpty DEF Proceeds, Ind, LineTally
<1>11. Proceeds("execution", Both("debug"))
  BY <1>2 DEF Proceeds, Ind, Loggers, Levels
<1> QED BY <1>5, <1>6, <1>7, <1>8, <1>9, <1>10, <1>11

-----------------------------------------------------------------------------
(* What becomes of the sets of AccountInv when one call changes. *)
TodoOf(r) == IF r = Idle THEN << >> ELSE r.todo
IsIn(r, op, phases) == r # Idle /\ r.op = op /\ r.phase \in phases
Ends(r, op, x) == IsIn(r, op, {"end"}) /\ r.span = x

(* Idle cannot be mistaken for a call. *)
LEMMA IdleIsNoCall == Idle \notin Call /\ \A r \in Call : r # Idle
<1>1. ASSUME NEW r \in Call PROVE r # Idle
  <2>1. r.phase # "idle"
    BY DEF Call
  <2>2. Idle.phase = "idle"
    BY DEF Idle
  <2> QED BY <2>1, <2>2
<1> QED BY <1>1

(* Todos maps every caller to what its call has to do. *)
LEMMA TodosTyped ==
  ASSUME call \in [Callers -> Call \cup {Idle}]
  PROVE  /\ Todos \in [Callers -> Seq(Series)]
         /\ \A d \in Callers : Todos[d] = TodoOf(call[d])
<1>1. ASSUME NEW r \in Call \cup {Idle} PROVE TodoOf(r) \in Seq(Series)
  BY EmptySeq DEF TodoOf, Call
<1>2. Todos = [d \in Callers |-> TodoOf(call[d])]
  BY DEF Todos, TodoOf
<1> QED BY <1>1, <1>2

(* The sets of calls that AccountInv counts are finite. *)
LEMMA InFinite ==
  ASSUME NEW op, NEW phases, NEW x
  PROVE  /\ IsFiniteSet(In(op, phases)) /\ Cardinality(In(op, phases)) \in Nat
         /\ IsFiniteSet(Ending(op, x)) /\ Cardinality(Ending(op, x)) \in Nat
<1>1. In(op, phases) \in SUBSET Callers /\ Ending(op, x) \in SUBSET Callers
  BY DEF In, Ending
<1> QED BY <1>1, CallersAssumption, FS_Subset, FS_CardinalityType

(* What has been made of a series is a number, and only counters and lost  *)
(* change it.                                                              *)
LEMMA MadeTyped ==
  ASSUME TypeOK
  PROVE  /\ \A s \in Series : Made(s) \in Nat
         /\ UNCHANGED <<counters, lost>> => \A s : Made(s)' = Made(s)
BY DEF TypeOK, Made

(* The sums of AccountInv are natural numbers. *)
LEMMA AccountTyped ==
  ASSUME TypeOK
  PROVE  /\ \A m, o, l : <<m, o, l>> \in Series => Total(m, o, l) \in Nat
         /\ \A op \in Ops, x \in SpanStatuses : Decided(op, x) \in Nat
<1>1. \A s \in Series : Made(s) \in Nat
  BY MadeTyped
<1>2. \A op \in Ops, x \in SpanStatuses : spans[<<op, x>>] \in Nat
  <2> TAKE op \in Ops, x \in SpanStatuses
  <2>1. <<op, x>> \in Ops \X SpanStatuses
    OBVIOUS
  <2>2. spans \in [Ops \X SpanStatuses -> Nat]
    BY DEF TypeOK
  <2> QED BY <2>1, <2>2
<1>3. \A s : Cardinality(Due(Todos, s)) \in Nat
  BY TodosTyped, DueFinite DEF TypeOK
<1>4. \A op, x : Cardinality(Ending(op, x)) \in Nat
  BY InFinite
<1>5. ASSUME NEW m, NEW o, NEW l, <<m, o, l>> \in Series PROVE Total(m, o, l) \in Nat
  BY <1>1, <1>3, <1>5 DEF Total
<1>6. ASSUME NEW op \in Ops, NEW x \in SpanStatuses PROVE Decided(op, x) \in Nat
  BY <1>2, <1>4 DEF Decided
<1> QED BY <1>5, <1>6

(* One call changes: each number grows by what the call contributes after  *)
(* less what it contributed before.                                        *)
LEMMA CallChange ==
  ASSUME call \in [Callers -> Call \cup {Idle}], NEW c \in Callers,
         NEW r \in Call \cup {Idle}, call' = [call EXCEPT ![c] = r]
  PROVE  /\ call' \in [Callers -> Call \cup {Idle}]
         /\ call'[c] = r /\ \A d \in Callers : d # c => call'[d] = call[d]
         /\ \A s : /\ Cardinality(Due(Todos, s)) \in Nat /\ Cardinality(Due(Todos', s)) \in Nat
                   /\ Count(TodoOf(call[c]), s) \in Nat /\ Count(TodoOf(r), s) \in Nat
                   /\ Cardinality(Due(Todos', s)) + Count(TodoOf(call[c]), s)
                        = Cardinality(Due(Todos, s)) + Count(TodoOf(r), s)
         /\ \A op, phases :
              /\ Cardinality(In(op, phases)) \in Nat /\ Cardinality(In(op, phases)') \in Nat
              /\ Cardinality(In(op, phases)') + Ind(IsIn(call[c], op, phases))
                   = Cardinality(In(op, phases)) + Ind(IsIn(r, op, phases))
         /\ \A op, x :
              /\ Cardinality(Ending(op, x)) \in Nat /\ Cardinality(Ending(op, x)') \in Nat
              /\ Cardinality(Ending(op, x)') + Ind(Ends(call[c], op, x))
                   = Cardinality(Ending(op, x)) + Ind(Ends(r, op, x))
<1>1. /\ call' \in [Callers -> Call \cup {Idle}]
      /\ call'[c] = r /\ \A d \in Callers : d # c => call'[d] = call[d]
  OBVIOUS
<1>2. Todos' = [Todos EXCEPT ![c] = TodoOf(r)]
  BY <1>1 DEF Todos, TodoOf
<1>3. TodoOf(r) \in Seq(Series)
  BY EmptySeq DEF TodoOf, Call
<1>4. Todos \in [Callers -> Seq(Series)] /\ Todos[c] = TodoOf(call[c])
  BY TodosTyped
<1>5. \A s : /\ Cardinality(Due(Todos, s)) \in Nat /\ Cardinality(Due(Todos', s)) \in Nat
             /\ Count(TodoOf(call[c]), s) \in Nat /\ Count(TodoOf(r), s) \in Nat
             /\ Cardinality(Due(Todos', s)) + Count(TodoOf(call[c]), s)
                  = Cardinality(Due(Todos, s)) + Count(TodoOf(r), s)
  <2>1. \A f \in [Callers -> Seq(Series)], l \in Seq(Series) : \A s, g :
          g = [f EXCEPT ![c] = l] =>
            /\ Cardinality(Due(f, s)) \in Nat /\ Cardinality(Due(g, s)) \in Nat
            /\ Count(f[c], s) \in Nat /\ Count(l, s) \in Nat
            /\ Cardinality(Due(g, s)) + Count(f[c], s) = Cardinality(Due(f, s)) + Count(l, s)
    BY DueChange
  <2> DEFINE f == Todos
             g == Todos'
             l == TodoOf(r)
  <2>2. f \in [Callers -> Seq(Series)] /\ l \in Seq(Series) /\ g = [f EXCEPT ![c] = l]
    BY <1>2, <1>3, <1>4
  <2>3. f[c] = TodoOf(call[c])
    BY <1>4
  <2> HIDE DEF f, g, l
  <2>4. ASSUME NEW s
        PROVE  /\ Cardinality(Due(f, s)) \in Nat /\ Cardinality(Due(g, s)) \in Nat
               /\ Count(f[c], s) \in Nat /\ Count(l, s) \in Nat
               /\ Cardinality(Due(g, s)) + Count(f[c], s) = Cardinality(Due(f, s)) + Count(l, s)
    BY <2>1, <2>2
  <2> QED BY <2>3, <2>4 DEF f, g, l
<1>6. ASSUME NEW op, NEW phases
      PROVE  /\ Cardinality(In(op, phases)) \in Nat /\ Cardinality(In(op, phases)') \in Nat
             /\ Cardinality(In(op, phases)') + Ind(IsIn(call[c], op, phases))
                  = Cardinality(In(op, phases)) + Ind(IsIn(r, op, phases))
  <2>1. \A d : d # c => (d \in In(op, phases) <=> d \in In(op, phases)')
    BY <1>1 DEF In
  <2>2. /\ (c \in In(op, phases) <=> IsIn(call[c], op, phases))
        /\ (c \in In(op, phases)' <=> IsIn(r, op, phases))
    BY <1>1 DEF In, IsIn
  <2> DEFINE A == In(op, phases)
             B == In(op, phases)'
  <2>3. IsFiniteSet(A)
    BY InFinite
  <2>4. /\ Cardinality(A) \in Nat /\ Cardinality(B) \in Nat
        /\ Cardinality(B) + Ind(c \in A) = Cardinality(A) + Ind(c \in B)
    BY <2>1, <2>3, CardinalityChange
  <2> QED BY <2>2, <2>4 DEF Ind
<1>7. ASSUME NEW op, NEW x
      PROVE  /\ Cardinality(Ending(op, x)) \in Nat /\ Cardinality(Ending(op, x)') \in Nat
             /\ Cardinality(Ending(op, x)') + Ind(Ends(call[c], op, x))
                  = Cardinality(Ending(op, x)) + Ind(Ends(r, op, x))
  <2>1. \A d : d # c => (d \in Ending(op, x) <=> d \in Ending(op, x)')
    BY <1>1 DEF In, Ending
  <2>2. (c \in Ending(op, x) <=> Ends(call[c], op, x)) /\ (c \in Ending(op, x)' <=> Ends(r, op, x))
    BY <1>1 DEF In, IsIn, Ends, Ending
  <2> DEFINE A == Ending(op, x)
             B == Ending(op, x)'
  <2>3. IsFiniteSet(A)
    BY InFinite
  <2>4. /\ Cardinality(A) \in Nat /\ Cardinality(B) \in Nat
        /\ Cardinality(B) + Ind(c \in A) = Cardinality(A) + Ind(c \in B)
    BY <2>1, <2>3, CardinalityChange
  <2> QED BY <2>2, <2>4 DEF Ind
<1> QED BY <1>1, <1>5, <1>6, <1>7

-----------------------------------------------------------------------------
(* Outcomes are pairs of a status and a result. *)
LEMMA OutcomesTyped ==
  ASSUME NEW op \in Ops, NEW x, NEW y, <<x, y>> \in Outcomes(op)
  PROVE  x \in SpanStatuses /\ y \in Results
BY DEF Outcomes, SpanStatuses, Results

(* What a phase does to all that AccountInv speaks of. *)
Effect(op, from, to, lines, todo, span) ==
  /\ \A m, o, l : <<m, o, l>> \in Series =>
       /\ Total(m, o, l) \in Nat /\ Tally(todo, m, o, l) \in Nat
       /\ Total(m, o, l)' = Total(m, o, l) + Tally(todo, m, o, l)
  /\ \A o \in Ops, x \in SpanStatuses :
       /\ Decided(o, x) \in Nat
       /\ Decided(o, x)' = Decided(o, x) + Ind(to = "end" /\ o = op /\ x = span)
  /\ \A o, phases :
       /\ Cardinality(In(o, phases)) \in Nat /\ Cardinality(In(o, phases)') \in Nat
       /\ Cardinality(In(o, phases)') + Ind(o = op /\ from \in phases)
            = Cardinality(In(o, phases)) + Ind(o = op /\ to \in phases)
  /\ \A g \in Loggers, o \in Ops, v \in Levels :
       /\ Logged(g, o, v) \in Nat /\ LineTally(lines, g, v) \in Nat
       /\ Logged(g, o, v)' = Logged(g, o, v) + IF o = op THEN LineTally(lines, g, v) ELSE 0
  /\ UNCHANGED <<lost, begun, spans, codes, ended>>

(* A phase adds its lines and measurements, and its outcome if it has one. *)
LEMMA PhaseEffect ==
  ASSUME TypeOK, CallsAreInOrder, NEW c \in Callers, call[c] # Idle,
         NEW from \in {"build", "execution", "completion"},
         NEW to \in {"execution", "completion", "end"},
         NEW lines \in Seq(Lines), NEW todo \in Seq(Series), NEW span, NEW result,
         to = "end" => <<span, result>> \in Outcomes(call[c].op),
         to # "end" => span = "open" /\ result = "none",
         Phase(c, from, to, lines, todo, span, result)
  PROVE  /\ TypeOK' /\ CallsAreInOrder' /\ call[c].op \in Ops
         /\ Effect(call[c].op, from, to, lines, todo, span)
<1> DEFINE op == call[c].op
           r == [call[c] EXCEPT !.phase = to, !.todo = todo, !.span = span, !.result = result]
<1>1. /\ call[c] \in Call /\ op \in Ops /\ call[c].phase = from /\ call[c].todo = << >>
      /\ call[c].step \in {"lookup", "insert"}
  BY DEF TypeOK, Call, Phase
<1>2. /\ r.op = op /\ r.phase = to /\ r.todo = todo /\ r.span = span /\ r.result = result
      /\ r \in Call
  <2>1. span \in SpanStatuses \cup {"open"} /\ result \in Results \cup {"none"}
    BY <1>1, OutcomesTyped
  <2>2. to \in {"build", "execution", "completion", "end"}
    OBVIOUS
  <2>3. /\ r.op = op /\ r.phase = to /\ r.todo = todo /\ r.span = span /\ r.result = result
    BY <1>1 DEF Call
  <2>4. r \in Call
    BY <1>1, <2>1, <2>2 DEF Call
  <2> QED BY <2>3, <2>4
<1>3. r # Idle
  BY <1>2, IdleIsNoCall
<1>4. call' = [call EXCEPT ![c] = r]
  BY DEF Phase
<1>5. call \in [Callers -> Call \cup {Idle}]
  BY DEF TypeOK
<1> HIDE DEF r
<1>6. /\ call' \in [Callers -> Call \cup {Idle}]
      /\ call'[c] = r /\ \A d \in Callers : d # c => call'[d] = call[d]
      /\ \A s : /\ Cardinality(Due(Todos, s)) \in Nat /\ Cardinality(Due(Todos', s)) \in Nat
                /\ Count(TodoOf(call[c]), s) \in Nat /\ Count(TodoOf(r), s) \in Nat
                /\ Cardinality(Due(Todos', s)) + Count(TodoOf(call[c]), s)
                     = Cardinality(Due(Todos, s)) + Count(TodoOf(r), s)
      /\ \A o, phases :
           /\ Cardinality(In(o, phases)) \in Nat /\ Cardinality(In(o, phases)') \in Nat
           /\ Cardinality(In(o, phases)') + Ind(IsIn(call[c], o, phases))
                = Cardinality(In(o, phases)) + Ind(IsIn(r, o, phases))
      /\ \A o, x :
           /\ Cardinality(Ending(o, x)) \in Nat /\ Cardinality(Ending(o, x)') \in Nat
           /\ Cardinality(Ending(o, x)') + Ind(Ends(call[c], o, x))
                = Cardinality(Ending(o, x)) + Ind(Ends(r, o, x))
  BY <1>2, <1>4, <1>5, CallChange
<1>7. /\ \A s : Count(TodoOf(call[c]), s) = 0
      /\ TodoOf(r) = todo
  BY <1>1, <1>2, <1>3, CountEmpty DEF TodoOf
<1>8. ASSUME NEW m, NEW o, NEW l, <<m, o, l>> \in Series
      PROVE  /\ Total(m, o, l) \in Nat /\ Tally(todo, m, o, l) \in Nat
             /\ Total(m, o, l)' = Total(m, o, l) + Tally(todo, m, o, l)
  <2> DEFINE s == <<m, o, l>>
  <2>1. Total(m, o, l) = Made(s) + Cardinality(Due(Todos, s)) /\ Made(s) \in Nat
    BY <1>8, MadeTyped DEF Total
  <2>2. Total(m, o, l)' = Made(s) + Cardinality(Due(Todos', s))
    BY MadeTyped DEF Total, Phase
  <2>3. Tally(todo, m, o, l) = Count(todo, s)
    BY DEF Tally
  <2> HIDE DEF s
  <2>4. /\ Cardinality(Due(Todos, s)) \in Nat /\ Cardinality(Due(Todos', s)) \in Nat
        /\ Count(todo, s) \in Nat
        /\ Cardinality(Due(Todos', s)) + 0 = Cardinality(Due(Todos, s)) + Count(todo, s)
    BY <1>6, <1>7
  <2> QED BY <2>1, <2>2, <2>3, <2>4
<1>9. ASSUME NEW o, NEW phases
      PROVE  /\ Cardinality(In(o, phases)) \in Nat /\ Cardinality(In(o, phases)') \in Nat
             /\ Cardinality(In(o, phases)') + Ind(o = op /\ from \in phases)
                  = Cardinality(In(o, phases)) + Ind(o = op /\ to \in phases)
  <2>1. Ind(IsIn(call[c], o, phases)) = Ind(o = op /\ from \in phases)
    BY <1>1 DEF IsIn, Ind
  <2>2. Ind(IsIn(r, o, phases)) = Ind(o = op /\ to \in phases)
    BY <1>2, <1>3 DEF IsIn, Ind
  <2> QED BY <1>6, <2>1, <2>2
<1>10. ASSUME NEW o \in Ops, NEW x \in SpanStatuses
       PROVE  /\ Decided(o, x) \in Nat
              /\ Decided(o, x)' = Decided(o, x) + Ind(to = "end" /\ o = op /\ x = span)
  <2>1. Ind(Ends(call[c], o, x)) = 0
    BY <1>1 DEF Ends, IsIn, Ind
  <2>2. Ind(Ends(r, o, x)) = Ind(to = "end" /\ o = op /\ x = span)
    BY <1>2, <1>3 DEF Ends, IsIn, Ind
  <2>3. /\ Cardinality(Ending(o, x)) \in Nat /\ Cardinality(Ending(o, x)') \in Nat
        /\ Cardinality(Ending(o, x)') = Cardinality(Ending(o, x)) + Ind(to = "end" /\ o = op /\ x = span)
    BY <1>6, <2>1, <2>2 DEF Ind
  <2>4. spans[<<o, x>>] \in Nat
    BY DEF TypeOK
  <2>5. Decided(o, x)' = spans[<<o, x>>] + Cardinality(Ending(o, x)')
    BY DEF Decided, Phase
  <2> QED BY <2>3, <2>4, <2>5 DEF Decided, Ind
<1>11. \A g, v : LineTally(lines, g, v) \in Nat
  BY PlacesFinite DEF LineTally
<1>12. ASSUME NEW g \in Loggers, NEW o \in Ops, NEW v \in Levels
       PROVE  /\ Logged(g, o, v) \in Nat /\ LineTally(lines, g, v) \in Nat
              /\ Logged(g, o, v)' = Logged(g, o, v) + IF o = op THEN LineTally(lines, g, v) ELSE 0
  <2> DEFINE x == <<g, o, v>>
  <2>1. x \in Loggers \X Ops \X Levels /\ x[1] = g /\ x[2] = o /\ x[3] = v
    OBVIOUS
  <2>2. logs' = [y \in Loggers \X Ops \X Levels |->
                   logs[y] + IF y[2] = op THEN Count(lines, <<y[1], y[3]>>) ELSE 0]
    BY DEF Phase, Log
  <2>3. Logged(g, o, v) = logs[x] /\ Logged(g, o, v)' = logs'[x]
    BY DEF Logged
  <2>4. logs[x] \in Nat
    BY <2>1 DEF TypeOK
  <2> HIDE DEF x
  <2>5. logs'[x] = logs[x] + IF o = op THEN LineTally(lines, g, v) ELSE 0
    BY <2>1, <2>2 DEF LineTally
  <2> QED BY <1>11, <2>3, <2>4, <2>5
<1>13. TypeOK'
  <2>1. logs' \in [Loggers \X Ops \X Levels -> Nat]
    <3>1. \A y \in Loggers \X Ops \X Levels :
            logs[y] + (IF y[2] = op THEN Count(lines, <<y[1], y[3]>>) ELSE 0) \in Nat
      <4> TAKE y \in Loggers \X Ops \X Levels
      <4>1. logs[y] \in Nat
        BY DEF TypeOK
      <4>2. Count(lines, <<y[1], y[3]>>) \in Nat
        BY PlacesFinite
      <4> QED BY <4>1, <4>2
    <3> QED BY <3>1 DEF Phase, Log
  <2> QED BY <1>6, <2>1 DEF TypeOK, Phase
<1>14. CallsAreInOrder'
  <2> SUFFICES ASSUME NEW d \in Callers, call'[d] # Idle
               PROVE  /\ call'[d].phase # "end" => call'[d].span = "open" /\ call'[d].result = "none"
                      /\ call'[d].phase = "end" =>
                           <<call'[d].span, call'[d].result>> \in Outcomes(call'[d].op)
    BY DEF CallsAreInOrder
  <2>1. CASE d = c
    BY <1>2, <1>6, <2>1
  <2>2. CASE d # c
    BY <1>6, <2>2 DEF CallsAreInOrder
  <2> QED BY <2>1, <2>2
<1> QED BY <1>1, <1>8, <1>9, <1>10, <1>12, <1>13, <1>14 DEF Phase, Effect

(* A phase that ends a call with an outcome preserves AccountInv. *)
LEMMA OutcomeEffect ==
  ASSUME TypeOK, AccountInv, CallsAreInOrder', NEW op \in Ops,
         NEW from \in {"build", "execution", "completion"},
         NEW lines, NEW todo, NEW x, NEW result, <<x, result>> \in Outcomes(op),
         Measures(op, x, todo), Reports(op, from, x, lines),
         Effect(op, from, "end", lines, todo, x)
  PROVE  AccountInv'
<1>1. /\ \A m, o, l : <<m, o, l>> \in Series =>
           /\ Total(m, o, l) \in Nat /\ Tally(todo, m, o, l) \in Nat
           /\ Total(m, o, l)' = Total(m, o, l) + Tally(todo, m, o, l)
      /\ \A o \in Ops, y \in SpanStatuses :
           /\ Decided(o, y) \in Nat
           /\ Decided(o, y)' = Decided(o, y) + Ind(o = op /\ y = x)
      /\ \A o, phases :
           /\ Cardinality(In(o, phases)) \in Nat /\ Cardinality(In(o, phases)') \in Nat
           /\ Cardinality(In(o, phases)') + Ind(o = op /\ from \in phases)
                = Cardinality(In(o, phases)) + Ind(o = op /\ "end" \in phases)
      /\ \A g \in Loggers, o \in Ops, v \in Levels :
           /\ Logged(g, o, v) \in Nat /\ LineTally(lines, g, v) \in Nat
           /\ Logged(g, o, v)' = Logged(g, o, v) + IF o = op THEN LineTally(lines, g, v) ELSE 0
      /\ UNCHANGED <<lost, begun, spans, codes, ended>>
  BY DEF Effect, Ind
<1>2. x \in SpanStatuses /\ x \in {"success", "concurrency_conflict"} \cup Failing \cup Aborting
  BY <1>1, OutcomesTyped DEF SpanStatuses, Failing, Aborting
<1>3. ASSUME NEW o \in Ops
      PROVE  /\ Failures(o) \in Nat /\ Failures(o)' = Failures(o) + Ind(o = op /\ x \in Failing)
             /\ Aborts(o) \in Nat /\ Aborts(o)' = Aborts(o) + Ind(o = op /\ x \in Aborting)
  <2>1. \A y \in SpanStatuses :
          /\ Decided(o, y) \in Nat
          /\ Decided(o, y)' = Decided(o, y) + Ind(o = op /\ y = x)
    BY <1>1
  <2>2. /\ Failures(o) \in Nat /\ Failures(o)' = Failures(o) + Ind(o = op /\ x \in Failing)
    BY <2>1 DEF Failures, Failing, Ind, SpanStatuses
  <2>3. /\ Aborts(o) \in Nat /\ Aborts(o)' = Aborts(o) + Ind(o = op /\ x \in Aborting)
    BY <2>1 DEF Aborts, Aborting, Ind, SpanStatuses
  <2> QED BY <2>2, <2>3
<1>4. \A o \in Ops : begun[o] \in Nat /\ begun'[o] = begun[o]
  BY <1>1 DEF TypeOK
<1>5. MeasurementsHaveCauses'
  <2> SUFFICES ASSUME NEW o \in Ops
               PROVE  /\ Total("calls", o, "all")' = begun'[o]
                      /\ \A m \in {"sql", "method"} :
                           /\ Total(m, o, "success")' = Decided(o, "success")'
                           /\ Total(m, o, "canceled")' = Decided(o, "cancelled")'
                           /\ Total(m, o, "timeout")' = Decided(o, "timeout")'
                           /\ Total(m, o, "error")' =
                                Failures(o)' + (IF o = "append" THEN Aborts(o)' ELSE 0)
                      /\ Total("canceled", o, "all")' = Decided(o, "cancelled")'
                      /\ Total("timeout", o, "all")' = Decided(o, "timeout")'
                      /\ Total("conflicts", o, "all")' = Decided(o, "concurrency_conflict")'
                      /\ Total("errors", o, "all")' =
                           Failures(o)' + (IF o = "append" THEN Aborts(o)' + Decided(o, "build_query")' ELSE 0)
    BY DEF MeasurementsHaveCauses
  <2>1. /\ \A y \in SpanStatuses :
             /\ Decided(o, y) \in Nat
             /\ Decided(o, y)' = Decided(o, y) + Ind(o = op /\ y = x)
        /\ Failures(o) \in Nat /\ Failures(o)' = Failures(o) + Ind(o = op /\ x \in Failing)
        /\ Aborts(o) \in Nat /\ Aborts(o)' = Aborts(o) + Ind(o = op /\ x \in Aborting)
    BY <1>1, <1>3
  <2>2. ASSUME NEW m \in {"calls", "canceled", "timeout", "conflicts", "errors"}
        PROVE  /\ Total(m, o, "all") \in Nat
               /\ Total(m, o, "all")' = Total(m, o, "all") + Tally(todo, m, o, "all")
    <3>1. <<m, o, "all">> \in Series
      BY SeriesMembers
    <3> QED BY <1>1, <3>1
  <2>3. ASSUME NEW m \in {"sql", "method"}, NEW l \in Statuses
        PROVE  /\ Total(m, o, l) \in Nat
               /\ Total(m, o, l)' = Total(m, o, l) + Tally(todo, m, o, l)
    <3>1. <<m, o, l>> \in Series
      BY SeriesMembers
    <3> QED BY <1>1, <3>1
  <2>4. Total("calls", o, "all")' = begun'[o]
    BY <1>4, <2>2 DEF AccountInv, MeasurementsHaveCauses, Measures
  <2>5. ASSUME NEW m \in {"sql", "method"}
        PROVE  /\ Total(m, o, "success")' = Decided(o, "success")'
               /\ Total(m, o, "canceled")' = Decided(o, "cancelled")'
               /\ Total(m, o, "timeout")' = Decided(o, "timeout")'
    BY <2>1, <2>3 DEF AccountInv, MeasurementsHaveCauses, Measures, Ind, Statuses, SpanStatuses
  <2>6. ASSUME NEW m \in {"sql", "method"}
        PROVE  Total(m, o, "error")' = Failures(o)' + (IF o = "append" THEN Aborts(o)' ELSE 0)
    BY <2>1, <2>3 DEF AccountInv, MeasurementsHaveCauses, Measures, Ind, Statuses
  <2>7. /\ Total("canceled", o, "all")' = Decided(o, "cancelled")'
        /\ Total("timeout", o, "all")' = Decided(o, "timeout")'
        /\ Total("conflicts", o, "all")' = Decided(o, "concurrency_conflict")'
    BY <2>1, <2>2 DEF AccountInv, MeasurementsHaveCauses, Measures, Ind, SpanStatuses
  <2>8. Total("errors", o, "all")' =
          Failures(o)' + (IF o = "append" THEN Aborts(o)' + Decided(o, "build_query")' ELSE 0)
    BY <2>1, <2>2 DEF AccountInv, MeasurementsHaveCauses, Measures, Ind, SpanStatuses
  <2> QED BY <2>4, <2>5, <2>6, <2>7, <2>8
<1>6. LinesHaveCauses'
  <2> SUFFICES ASSUME NEW o \in Ops
               PROVE  /\ \A g \in Loggers :
                           /\ Logged(g, o, "debug")' + Decided(o, "build_query")'
                                + Cardinality(In(o, {"build", "execution"})') = begun'[o]
                           /\ Logged(g, o, "info")' =
                                Decided(o, "success")' + Decided(o, "concurrency_conflict")'
                      /\ Logged("contextual", o, "error")' + Decided(o, "scan_results")'
                           = Failures(o)' + Aborts(o)'
                      /\ Logged("plain", o, "error")' =
                           Failures(o)' + Aborts(o)' + (IF o = "append" THEN Decided(o, "build_query")' ELSE 0)
    BY DEF LinesHaveCauses
  <2>1. /\ \A y \in SpanStatuses :
             /\ Decided(o, y) \in Nat
             /\ Decided(o, y)' = Decided(o, y) + Ind(o = op /\ y = x)
        /\ Failures(o) \in Nat /\ Failures(o)' = Failures(o) + Ind(o = op /\ x \in Failing)
        /\ Aborts(o) \in Nat /\ Aborts(o)' = Aborts(o) + Ind(o = op /\ x \in Aborting)
    BY <1>1, <1>3
  <2>2. \A g \in Loggers, v \in Levels :
          /\ Logged(g, o, v) \in Nat /\ LineTally(lines, g, v) \in Nat
          /\ Logged(g, o, v)' = Logged(g, o, v) + IF o = op THEN LineTally(lines, g, v) ELSE 0
    BY <1>1
  <2>3. /\ Cardinality(In(o, {"build", "execution"})) \in Nat
        /\ Cardinality(In(o, {"build", "execution"})') \in Nat
        /\ Cardinality(In(o, {"build", "execution"})') + Ind(o = op /\ from \in {"build", "execution"})
             = Cardinality(In(o, {"build", "execution"}))
    BY <1>1 DEF Ind
  <2>4. ASSUME NEW g \in Loggers
        PROVE  /\ Logged(g, o, "debug")' + Decided(o, "build_query")'
                    + Cardinality(In(o, {"build", "execution"})') = begun'[o]
               /\ Logged(g, o, "info")' = Decided(o, "success")' + Decided(o, "concurrency_conflict")'
    <3>1. Logged(g, o, "debug")' + Decided(o, "build_query")'
            + Cardinality(In(o, {"build", "execution"})') = begun'[o]
      <4>1. Logged(g, o, "debug") + Decided(o, "build_query")
              + Cardinality(In(o, {"build", "execution"})) = begun[o]
        BY DEF AccountInv, LinesHaveCauses
      <4>2. LineTally(lines, g, "debug") + Ind(x = "build_query") = Ind(from \in {"build", "execution"})
        BY DEF Reports
      <4>3. /\ Logged(g, o, "debug") \in Nat
            /\ LineTally(lines, g, "debug") \in Nat
            /\ Logged(g, o, "debug")'
                 = Logged(g, o, "debug") + IF o = op THEN LineTally(lines, g, "debug") ELSE 0
        BY <2>2 DEF Levels
      <4>4. /\ Decided(o, "build_query") \in Nat
            /\ Decided(o, "build_query")' = Decided(o, "build_query") + Ind(o = op /\ x = "build_query")
        BY <2>1 DEF Ind, SpanStatuses
      <4>5. LineTally(lines, g, "debug") = Ind(from \in {"build", "execution"}) - Ind(x = "build_query")
        BY <4>2, <4>3 DEF Ind
      <4> QED BY <1>4, <2>3, <4>1, <4>3, <4>4, <4>5 DEF Ind
    <3>2. Logged(g, o, "info")' = Decided(o, "success")' + Decided(o, "concurrency_conflict")'
      BY <2>1, <2>2 DEF AccountInv, LinesHaveCauses, Reports, Ind, SpanStatuses, Levels
    <3> QED BY <3>1, <3>2
  <2>5. Logged("contextual", o, "error")' + Decided(o, "scan_results")' = Failures(o)' + Aborts(o)'
    BY <1>2, <2>1, <2>2
       DEF AccountInv, LinesHaveCauses, Reports, Ind, SpanStatuses, Levels, Loggers, Failing, Aborting
  <2>6. Logged("plain", o, "error")' =
          Failures(o)' + Aborts(o)' + (IF o = "append" THEN Decided(o, "build_query")' ELSE 0)
    BY <1>2, <2>1, <2>2
       DEF AccountInv, LinesHaveCauses, Reports, Ind, SpanStatuses, Levels, Loggers, Failing, Aborting
  <2> QED BY <2>4, <2>5, <2>6
<1>7. CallsHaveOutcomes'
  <2>1. ASSUME NEW o \in Ops
        PROVE  begun'[o] = Cardinality(In(o, {"build", "execution", "completion"})')
                           + Decided(o, "success")' + Decided(o, "concurrency_conflict")'
                           + Failures(o)' + Aborts(o)'
    <3>1. /\ \A y \in SpanStatuses :
               /\ Decided(o, y) \in Nat
               /\ Decided(o, y)' = Decided(o, y) + Ind(o = op /\ y = x)
          /\ Failures(o) \in Nat /\ Failures(o)' = Failures(o) + Ind(o = op /\ x \in Failing)
          /\ Aborts(o) \in Nat /\ Aborts(o)' = Aborts(o) + Ind(o = op /\ x \in Aborting)
      BY <1>1, <1>3
    <3>2. LET before == In(o, {"build", "execution", "completion"})
          IN  /\ Cardinality(before) \in Nat /\ Cardinality(before') \in Nat
              /\ Cardinality(before') + Ind(o = op) = Cardinality(before)
      BY <1>1 DEF Ind
    <3> QED
      BY <1>2, <1>4, <3>1, <3>2 DEF AccountInv, CallsHaveOutcomes, Ind, SpanStatuses, Failing, Aborting
  <2>2. /\ \A y \in {"database_exec", "concurrency_conflict"} : ~(op = "query" /\ y = x)
        /\ \A y \in {"database_query", "scan_results"} : ~(op = "append" /\ y = x)
    BY <1>1 DEF Outcomes
  <2>3. /\ \A y \in {"database_exec", "concurrency_conflict"} : Decided("query", y)' = 0
        /\ \A y \in {"database_query", "scan_results"} : Decided("append", y)' = 0
    BY <1>1, <2>2 DEF AccountInv, CallsHaveOutcomes, Ind, SpanStatuses, Ops
  <2> QED BY <2>1, <2>3 DEF CallsHaveOutcomes
<1>8. SpansHaveResults' /\ LossesHaveCauses'
  BY <1>1 DEF AccountInv, SpansHaveResults, ErrorsReturned, LossesHaveCauses
<1> QED BY <1>5, <1>6, <1>7, <1>8 DEF AccountInv

(* So does a phase after which the call goes on. *)
LEMMA ProceedEffect ==
  ASSUME TypeOK, AccountInv, CallsAreInOrder', NEW op \in Ops, NEW lines, NEW todo,
         NEW from \in {"build", "execution"}, NEW to \in {"execution", "completion"},
         from = "build" <=> to = "execution",
         Harmless(todo), Proceeds(from, lines),
         Effect(op, from, to, lines, todo, "open")
  PROVE  AccountInv'
<1>1. /\ \A m, o, l : <<m, o, l>> \in Series =>
           /\ Total(m, o, l) \in Nat /\ Tally(todo, m, o, l) \in Nat
           /\ Total(m, o, l)' = Total(m, o, l) + Tally(todo, m, o, l)
      /\ \A o \in Ops, y \in SpanStatuses : Decided(o, y) \in Nat /\ Decided(o, y)' = Decided(o, y)
      /\ \A o, phases :
           /\ Cardinality(In(o, phases)) \in Nat /\ Cardinality(In(o, phases)') \in Nat
           /\ Cardinality(In(o, phases)') + Ind(o = op /\ from \in phases)
                = Cardinality(In(o, phases)) + Ind(o = op /\ to \in phases)
      /\ \A g \in Loggers, o \in Ops, v \in Levels :
           /\ Logged(g, o, v) \in Nat /\ LineTally(lines, g, v) \in Nat
           /\ Logged(g, o, v)' = Logged(g, o, v) + IF o = op THEN LineTally(lines, g, v) ELSE 0
      /\ UNCHANGED <<lost, begun, spans, codes, ended>>
  BY DEF Effect, Ind
<1>2. ASSUME NEW o \in Ops
      PROVE  Failures(o)' = Failures(o) /\ Aborts(o)' = Aborts(o)
  BY <1>1 DEF Failures, Aborts, SpanStatuses
<1>3. ASSUME NEW o \in Ops
      PROVE  /\ \A m \in {"calls", "canceled", "timeout", "conflicts", "errors"} :
                  Total(m, o, "all")' = Total(m, o, "all")
             /\ \A m \in {"sql", "method"}, l \in Statuses : Total(m, o, l)' = Total(m, o, l)
  <2>1. ASSUME NEW m \in {"calls", "canceled", "timeout", "conflicts", "errors"}
        PROVE  Total(m, o, "all")' = Total(m, o, "all")
    <3>1. <<m, o, "all">> \in Series /\ Tally(todo, m, o, "all") = 0
      BY SeriesMembers DEF Harmless
    <3> QED BY <1>1, <3>1
  <2>2. ASSUME NEW m \in {"sql", "method"}, NEW l \in Statuses
        PROVE  Total(m, o, l)' = Total(m, o, l)
    <3>1. <<m, o, l>> \in Series /\ Tally(todo, m, o, l) = 0
      BY SeriesMembers DEF Harmless
    <3> QED BY <1>1, <3>1
  <2> QED BY <2>1, <2>2
<1>4. MeasurementsHaveCauses'
  <2> SUFFICES ASSUME NEW o \in Ops
               PROVE  /\ Total("calls", o, "all")' = begun'[o]
                      /\ \A m \in {"sql", "method"} :
                           /\ Total(m, o, "success")' = Decided(o, "success")'
                           /\ Total(m, o, "canceled")' = Decided(o, "cancelled")'
                           /\ Total(m, o, "timeout")' = Decided(o, "timeout")'
                           /\ Total(m, o, "error")' =
                                Failures(o)' + (IF o = "append" THEN Aborts(o)' ELSE 0)
                      /\ Total("canceled", o, "all")' = Decided(o, "cancelled")'
                      /\ Total("timeout", o, "all")' = Decided(o, "timeout")'
                      /\ Total("conflicts", o, "all")' = Decided(o, "concurrency_conflict")'
                      /\ Total("errors", o, "all")' =
                           Failures(o)' + (IF o = "append" THEN Aborts(o)' + Decided(o, "build_query")' ELSE 0)
    BY DEF MeasurementsHaveCauses
  <2> QED BY <1>1, <1>2, <1>3 DEF AccountInv, MeasurementsHaveCauses, SpanStatuses, Statuses
<1>5. LinesHaveCauses'
  <2> SUFFICES ASSUME NEW o \in Ops
               PROVE  /\ \A g \in Loggers :
                           /\ Logged(g, o, "debug")' + Decided(o, "build_query")'
                                + Cardinality(In(o, {"build", "execution"})') = begun'[o]
                           /\ Logged(g, o, "info")' =
                                Decided(o, "success")' + Decided(o, "concurrency_conflict")'
                      /\ Logged("contextual", o, "error")' + Decided(o, "scan_results")'
                           = Failures(o)' + Aborts(o)'
                      /\ Logged("plain", o, "error")' =
                           Failures(o)' + Aborts(o)' + (IF o = "append" THEN Decided(o, "build_query")' ELSE 0)
    BY DEF LinesHaveCauses
  <2>1. ASSUME NEW g \in Loggers
        PROVE  /\ Logged(g, o, "info")' = Logged(g, o, "info")
               /\ Logged(g, o, "error")' = Logged(g, o, "error")
               /\ Logged(g, o, "debug") \in Nat
               /\ Logged(g, o, "debug")' = Logged(g, o, "debug") + Ind(o = op /\ from = "execution")
    <3>1. \A v \in Levels :
            /\ Logged(g, o, v) \in Nat
            /\ Logged(g, o, v)' = Logged(g, o, v) + IF o = op THEN LineTally(lines, g, v) ELSE 0
      BY <1>1
    <3>2. /\ LineTally(lines, g, "debug") = Ind(from = "execution")
          /\ LineTally(lines, g, "info") = 0 /\ LineTally(lines, g, "error") = 0
      BY DEF Proceeds
    <3> QED BY <3>1, <3>2 DEF Levels, Ind
  <2>2. LET active == In(o, {"build", "execution"})
        IN  /\ Cardinality(active) \in Nat /\ Cardinality(active') \in Nat
            /\ Cardinality(active') + Ind(o = op /\ from = "execution") = Cardinality(active)
    BY <1>1 DEF Ind
  <2>3. /\ Decided(o, "build_query") \in Nat /\ Decided(o, "build_query")' = Decided(o, "build_query")
        /\ Decided(o, "success")' = Decided(o, "success")
        /\ Decided(o, "concurrency_conflict")' = Decided(o, "concurrency_conflict")
        /\ Decided(o, "scan_results")' = Decided(o, "scan_results")
    BY <1>1 DEF SpanStatuses
  <2>4. ASSUME NEW g \in Loggers
        PROVE  Logged(g, o, "debug")' + Decided(o, "build_query")'
                 + Cardinality(In(o, {"build", "execution"})') = begun'[o]
    <3>1. Logged(g, o, "debug") + Decided(o, "build_query")
            + Cardinality(In(o, {"build", "execution"})) = begun[o]
      BY DEF AccountInv, LinesHaveCauses
    <3>2. begun'[o] = begun[o]
      BY <1>1
    <3> QED BY <2>1, <2>2, <2>3, <3>1, <3>2 DEF Ind
  <2> QED BY <1>2, <2>1, <2>3, <2>4 DEF AccountInv, LinesHaveCauses, Loggers
<1>6. CallsHaveOutcomes'
  <2>1. \A o : Cardinality(In(o, {"build", "execution", "completion"})')
                 = Cardinality(In(o, {"build", "execution", "completion"}))
    BY <1>1 DEF Ind
  <2>2. begun' = begun
    BY <1>1
  <2>3. \A o \in Ops, y \in SpanStatuses : Decided(o, y)' = Decided(o, y)
    BY <1>1
  <2> QED BY <1>2, <2>1, <2>2, <2>3 DEF AccountInv, CallsHaveOutcomes, Ops, SpanStatuses
<1>7. SpansHaveResults' /\ LossesHaveCauses'
  BY <1>1 DEF AccountInv, SpansHaveResults, ErrorsReturned, LossesHaveCauses
<1> QED BY <1>4, <1>5, <1>6, <1>7 DEF AccountInv

-----------------------------------------------------------------------------
(* Both, for the actions. *)
LEMMA EndingStep ==
  ASSUME TypeOK, AccountInv, NEW c \in Callers, Running(c),
         NEW from \in {"build", "execution", "completion"},
         NEW lines \in Seq(Lines), NEW todo \in Seq(Series), NEW x, NEW result,
         <<x, result>> \in Outcomes(call[c].op),
         Measures(call[c].op, x, todo), Reports(call[c].op, from, x, lines),
         Phase(c, from, "end", lines, todo, x, result)
  PROVE  TypeOK' /\ AccountInv'
<1>1. /\ TypeOK' /\ CallsAreInOrder' /\ call[c].op \in Ops
      /\ Effect(call[c].op, from, "end", lines, todo, x)
  BY PhaseEffect DEF Running, AccountInv
<1> QED BY <1>1, OutcomeEffect

(* A phase that decides nothing preserves AccountInv. *)
LEMMA ProceedingStep ==
  ASSUME TypeOK, AccountInv, NEW c \in Callers, Running(c),
         NEW from \in {"build", "execution"}, NEW to \in {"execution", "completion"},
         from = "build" <=> to = "execution",
         NEW lines \in Seq(Lines), NEW todo \in Seq(Series),
         Harmless(todo), Proceeds(from, lines),
         Phase(c, from, to, lines, todo, "open", "none")
  PROVE  TypeOK' /\ AccountInv'
<1>1. /\ TypeOK' /\ CallsAreInOrder' /\ call[c].op \in Ops
      /\ Effect(call[c].op, from, to, lines, todo, "open")
  <2>1. /\ from \in {"build", "execution", "completion"}
        /\ to \in {"execution", "completion", "end"} /\ to # "end"
    OBVIOUS
  <2> QED BY <2>1, PhaseEffect DEF Running, AccountInv
<1> QED BY <1>1, ProceedEffect

(* The lists of lines are lists of lines. *)
LEMMA LinesTyped ==
  /\ << >> \in Seq(Lines)
  /\ \A level \in Levels : Plain(level) \in Seq(Lines) /\ Both(level) \in Seq(Lines)
  /\ \A level \in Levels, mark \in Levels :
       /\ Plain(level) \o Both(mark) \in Seq(Lines) /\ Both(level) \o Both(mark) \in Seq(Lines)
  /\ \A level \in Levels, warning \in CloseWarnings :
       Both(level) \o warning \in Seq(Lines) /\ RowFailure \o warning \in Seq(Lines)
<1>1. \A level \in Levels : Plain(level) \in Seq(Lines) /\ Both(level) \in Seq(Lines)
  BY LineLists
<1>2. \A j, k \in Seq(Lines) : j \o k \in Seq(Lines)
  BY ConcatProperties
<1>3. << >> \in Seq(Lines)
  BY EmptySeq
<1>4. \A warning \in CloseWarnings : warning \in Seq(Lines)
  BY <1>1, <1>3 DEF CloseWarnings, Levels
<1>5. RowFailure \in Seq(Lines)
  BY <1>1 DEF RowFailure, Levels
<1> QED BY <1>1, <1>2, <1>3, <1>4, <1>5

(* QueryBuild preserves the invariant. *)
LEMMA QueryBuildStep ==
  ASSUME TypeOK, AccountInv, NEW c \in Callers, QueryBuild(c)
  PROVE  TypeOK' /\ AccountInv'
<1>1. Running(c) /\ call[c].op = "query"
  BY DEF QueryBuild
<1>2. CASE Phase(c, "build", "execution", << >>, Component("query", "query_build"), "open", "none")
  <2>1. /\ Component("query", "query_build") \in Seq(Series)
        /\ Harmless(Component("query", "query_build"))
    BY ComponentHarmless DEF Ops, Components
  <2>2. << >> \in Seq(Lines) /\ Proceeds("build", << >>)
    BY LinesTyped, LinesReported
  <2>3. \A lines \in Seq(Lines), todo \in Seq(Series) :
          /\ Harmless(todo) /\ Proceeds("build", lines)
          /\ Phase(c, "build", "execution", lines, todo, "open", "none")
          => TypeOK' /\ AccountInv'
    BY <1>1, ProceedingStep
  <2> QED BY <1>2, <2>1, <2>2, <2>3
<1>3. CASE Phase(c, "build", "end", Both("error"), Failed("query"), "build_query", "error")
  <2>1. Failed("query") \in Seq(Series) /\ Measures("query", "build_query", Failed("query"))
    BY FailuresMeasured
  <2>2. Both("error") \in Seq(Lines) /\ Reports("query", "build", "build_query", Both("error"))
    BY LinesTyped, LinesReported DEF Levels
  <2>3. <<"build_query", "error">> \in Outcomes("query")
    BY DEF Outcomes
  <2> QED BY <1>1, <1>3, <2>1, <2>2, <2>3, EndingStep
<1> QED BY <1>2, <1>3 DEF QueryBuild

(* AppendBuild preserves the invariant. *)
LEMMA AppendBuildStep ==
  ASSUME TypeOK, AccountInv, NEW c \in Callers, AppendBuild(c)
  PROVE  TypeOK' /\ AccountInv'
<1>1. Running(c) /\ call[c].op = "append"
  BY DEF AppendBuild
<1>2. CASE Phase(c, "build", "execution", << >>, Component("append", "query_build"), "open", "none")
  <2>1. /\ Component("append", "query_build") \in Seq(Series)
        /\ Harmless(Component("append", "query_build"))
    BY ComponentHarmless DEF Ops, Components
  <2>2. << >> \in Seq(Lines) /\ Proceeds("build", << >>)
    BY LinesTyped, LinesReported
  <2>3. \A lines \in Seq(Lines), todo \in Seq(Series) :
          /\ Harmless(todo) /\ Proceeds("build", lines)
          /\ Phase(c, "build", "execution", lines, todo, "open", "none")
          => TypeOK' /\ AccountInv'
    BY <1>1, ProceedingStep
  <2> QED BY <1>2, <2>1, <2>2, <2>3
<1>3. CASE Phase(c, "build", "end", Plain("error") \o Both("error"), AppendBuildFailure,
                 "build_query", "error")
  <2>1. AppendBuildFailure \in Seq(Series) /\ Measures("append", "build_query", AppendBuildFailure)
    BY BuildFailureMeasured
  <2>2. /\ Plain("error") \o Both("error") \in Seq(Lines)
        /\ Reports("append", "build", "build_query", Plain("error") \o Both("error"))
    BY LinesTyped, LinesReported DEF Levels
  <2>3. <<"build_query", "error">> \in Outcomes("append")
    BY DEF Outcomes
  <2> QED BY <1>1, <1>3, <2>1, <2>2, <2>3, EndingStep
<1> QED BY <1>2, <1>3 DEF AppendBuild

(* QueryExecution preserves the invariant. *)
LEMMA QueryExecutionStep ==
  ASSUME TypeOK, AccountInv, NEW c \in Callers, QueryExecution(c)
  PROVE  TypeOK' /\ AccountInv'
<1>1. Running(c) /\ call[c].op = "query"
  BY DEF QueryExecution
<1>2. CASE Phase(c, "execution", "completion", Both("debug"),
                 Component("query", "sql_execution"), "open", "none")
  <2>1. /\ Component("query", "sql_execution") \in Seq(Series)
        /\ Harmless(Component("query", "sql_execution"))
    BY ComponentHarmless DEF Ops, Components
  <2>2. Both("debug") \in Seq(Lines) /\ Proceeds("execution", Both("debug"))
    BY LinesTyped, LinesReported DEF Levels
  <2> QED BY <1>1, <1>2, <2>1, <2>2, ProceedingStep
<1>3. ASSUME NEW cause \in {"canceled", "timeout", "error"},
             Phase(c, "execution", "end", Both("debug") \o Both("error"),
                   QueryExecutionFailure(cause), FailureStatus("query", cause), cause)
      PROVE  TypeOK' /\ AccountInv'
  <2> DEFINE x == FailureStatus("query", cause)
             lines == Both("debug") \o Both("error")
  <2>1. /\ QueryExecutionFailure(cause) \in Seq(Series)
        /\ Measures("query", x, QueryExecutionFailure(cause))
    BY ExecutionFailuresMeasured
  <2>2. /\ x \in {"database_query", "database_exec", "cancelled", "timeout"}
        /\ <<x, cause>> \in Outcomes("query")
    BY DEF FailureStatus, Outcomes
  <2>3. lines \in Seq(Lines) /\ Reports("query", "execution", x, lines)
    BY <2>2, LinesTyped, LinesReported DEF Levels, Ops
  <2> HIDE DEF x, lines
  <2>4. Phase(c, "execution", "end", lines, QueryExecutionFailure(cause), x, cause)
    BY <1>3 DEF x, lines
  <2> QED BY <1>1, <2>1, <2>2, <2>3, <2>4, EndingStep
<1> QED BY <1>2, <1>3 DEF QueryExecution

(* AppendExecution preserves the invariant. *)
LEMMA AppendExecutionStep ==
  ASSUME TypeOK, AccountInv, NEW c \in Callers, AppendExecution(c)
  PROVE  TypeOK' /\ AccountInv'
<1>1. Running(c) /\ call[c].op = "append"
  BY DEF AppendExecution
<1>2. CASE Phase(c, "execution", "completion", Both("debug"),
                 Component("append", "sql_execution"), "open", "none")
  <2>1. /\ Component("append", "sql_execution") \in Seq(Series)
        /\ Harmless(Component("append", "sql_execution"))
    BY ComponentHarmless DEF Ops, Components
  <2>2. Both("debug") \in Seq(Lines) /\ Proceeds("execution", Both("debug"))
    BY LinesTyped, LinesReported DEF Levels
  <2> QED BY <1>1, <1>2, <2>1, <2>2, ProceedingStep
<1>3. ASSUME NEW cause \in {"canceled", "timeout", "error"},
             Phase(c, "execution", "end", Both("debug") \o Both("error"),
                   AppendExecutionFailure(cause), FailureStatus("append", cause), cause)
      PROVE  TypeOK' /\ AccountInv'
  <2> DEFINE x == FailureStatus("append", cause)
             lines == Both("debug") \o Both("error")
  <2>1. /\ AppendExecutionFailure(cause) \in Seq(Series)
        /\ Measures("append", x, AppendExecutionFailure(cause))
    BY ExecutionFailuresMeasured
  <2>2. /\ x \in {"database_query", "database_exec", "cancelled", "timeout"}
        /\ <<x, cause>> \in Outcomes("append")
    BY DEF FailureStatus, Outcomes
  <2>3. lines \in Seq(Lines) /\ Reports("append", "execution", x, lines)
    BY <2>2, LinesTyped, LinesReported DEF Levels, Ops
  <2> HIDE DEF x, lines
  <2>4. Phase(c, "execution", "end", lines, AppendExecutionFailure(cause), x, cause)
    BY <1>3 DEF x, lines
  <2> QED BY <1>1, <2>1, <2>2, <2>3, <2>4, EndingStep
<1> QED BY <1>2, <1>3 DEF AppendExecution

(* QueryProcessing preserves the invariant. *)
LEMMA QueryProcessingStep ==
  ASSUME TypeOK, AccountInv, NEW c \in Callers, QueryProcessing(c)
  PROVE  TypeOK' /\ AccountInv'
<1>1. Running(c) /\ call[c].op = "query"
  BY DEF QueryProcessing
<1> DEFINE processed == Component("query", "result_processing") \o Succeeded("query")
<1>2. ASSUME NEW warning \in CloseWarnings,
             Phase(c, "completion", "end", Both("info") \o warning, processed, "success", "nil")
      PROVE  TypeOK' /\ AccountInv'
  <2>1. processed \in Seq(Series) /\ Measures("query", "success", processed)
    BY SuccessesMeasured
  <2>2. /\ Both("info") \o warning \in Seq(Lines)
        /\ Reports("query", "completion", "success", Both("info") \o warning)
    BY LinesTyped, LinesReported DEF Levels
  <2>3. <<"success", "nil">> \in Outcomes("query")
    BY DEF Outcomes
  <2> HIDE DEF processed
  <2> QED BY <1>1, <1>2, <2>1, <2>2, <2>3, EndingStep
<1>3. ASSUME NEW warning \in CloseWarnings, NEW cause \in {"canceled", "timeout", "error"},
             Phase(c, "completion", "end", RowFailure \o warning, Failed("query"),
                   "scan_results", cause)
      PROVE  TypeOK' /\ AccountInv'
  <2>1. Failed("query") \in Seq(Series) /\ Measures("query", "scan_results", Failed("query"))
    BY FailuresMeasured
  <2>2. /\ RowFailure \o warning \in Seq(Lines)
        /\ Reports("query", "completion", "scan_results", RowFailure \o warning)
    BY LinesTyped, LinesReported DEF Levels
  <2>3. <<"scan_results", cause>> \in Outcomes("query")
    BY DEF Outcomes
  <2> QED BY <1>1, <1>3, <2>1, <2>2, <2>3, EndingStep
<1> QED BY <1>2, <1>3 DEF QueryProcessing

(* AppendValidation preserves the invariant. *)
LEMMA AppendValidationStep ==
  ASSUME TypeOK, AccountInv, NEW c \in Callers, AppendValidation(c)
  PROVE  TypeOK' /\ AccountInv'
<1>1. Running(c) /\ call[c].op = "append"
  BY DEF AppendValidation
<1>2. /\ Both("info") \in Seq(Lines)
      /\ \A x \in {"success", "concurrency_conflict"} : Reports("append", "completion", x, Both("info"))
  BY LinesTyped, LinesReported DEF Levels
<1>3. CASE Phase(c, "completion", "end", Both("info"), Succeeded("append"), "success", "nil")
  <2>1. Succeeded("append") \in Seq(Series) /\ Measures("append", "success", Succeeded("append"))
    BY SuccessesMeasured
  <2>2. <<"success", "nil">> \in Outcomes("append")
    BY DEF Outcomes
  <2> QED BY <1>1, <1>2, <1>3, <2>1, <2>2, EndingStep
<1>4. CASE Phase(c, "completion", "end", Both("info"), Conflict, "concurrency_conflict", "conflict")
  <2>1. Conflict \in Seq(Series) /\ Measures("append", "concurrency_conflict", Conflict)
    BY ConflictMeasured
  <2>2. <<"concurrency_conflict", "conflict">> \in Outcomes("append")
    BY DEF Outcomes
  <2> QED BY <1>1, <1>2, <1>4, <2>1, <2>2, EndingStep
<1> QED BY <1>3, <1>4 DEF AppendValidation

-----------------------------------------------------------------------------
(* Steps that change none of the sums. *)
LEMMA FrameEffect ==
  ASSUME AccountInv,
         \A m, o, l : <<m, o, l>> \in Series => Total(m, o, l)' = Total(m, o, l),
         \A o \in Ops, y \in SpanStatuses : Decided(o, y)' = Decided(o, y),
         \A o \in Ops : /\ Cardinality(In(o, {"build", "execution"})')
                             = Cardinality(In(o, {"build", "execution"}))
                        /\ Cardinality(In(o, {"build", "execution", "completion"})')
                             = Cardinality(In(o, {"build", "execution", "completion"})),
         UNCHANGED <<begun, logs>>
  PROVE  MeasurementsHaveCauses' /\ LinesHaveCauses' /\ CallsHaveOutcomes'
<1>1. ASSUME NEW o \in Ops
      PROVE  Failures(o)' = Failures(o) /\ Aborts(o)' = Aborts(o)
  BY DEF Failures, Aborts, SpanStatuses
<1>2. ASSUME NEW o \in Ops
      PROVE  /\ \A m \in {"calls", "canceled", "timeout", "conflicts", "errors"} :
                  Total(m, o, "all")' = Total(m, o, "all")
             /\ \A m \in {"sql", "method"}, l \in Statuses : Total(m, o, l)' = Total(m, o, l)
  <2>1. \A m \in {"calls", "canceled", "timeout", "conflicts", "errors"} : <<m, o, "all">> \in Series
    BY SeriesMembers
  <2>2. \A m \in {"sql", "method"}, l \in Statuses : <<m, o, l>> \in Series
    BY SeriesMembers
  <2> QED BY <2>1, <2>2
<1>3. \A g, o, v : Logged(g, o, v)' = Logged(g, o, v)
  BY DEF Logged
<1>4. MeasurementsHaveCauses'
  BY <1>1, <1>2 DEF AccountInv, MeasurementsHaveCauses, SpanStatuses, Statuses
<1>5. LinesHaveCauses'
  BY <1>1, <1>3 DEF AccountInv, LinesHaveCauses, SpanStatuses
<1>6. CallsHaveOutcomes'
  BY <1>1 DEF AccountInv, CallsHaveOutcomes, SpanStatuses, Ops
<1> QED BY <1>4, <1>5, <1>6

(* A measurement that is taken, or lost, is due no longer. *)
LEMMA ReturnStep ==
  ASSUME TypeOK, AccountInv, NEW c \in Callers, Pending(c), Return(c), LossesHaveCauses',
         \A s \in Series : Made(s)' = Made(s) + Ind(Head(call[c].todo) = s),
         UNCHANGED <<begun, spans, codes, logs, ended, crashed>>
  PROVE  call' \in [Callers -> Call \cup {Idle}] /\ AccountInv'
<1> DEFINE todo == call[c].todo
           r == [call[c] EXCEPT !.todo = Tail(@), !.step = "lookup"]
<1>1. call[c] \in Call /\ todo \in Seq(Series) /\ todo # << >>
  BY DEF TypeOK, Pending, Call
<1>2. Tail(todo) \in Seq(Series) /\ Head(todo) \in Series
  BY <1>1, HeadTailProperties
<1>3. /\ r.op = call[c].op /\ r.phase = call[c].phase /\ r.todo = Tail(todo)
      /\ r.span = call[c].span /\ r.result = call[c].result
  BY <1>1 DEF Call
<1>4. r \in Call
  BY <1>1, <1>2 DEF Call
<1>5. r # Idle /\ call[c] # Idle
  BY <1>1, <1>4, IdleIsNoCall
<1>6. call' = [call EXCEPT ![c] = r]
  BY DEF Return
<1>7. call \in [Callers -> Call \cup {Idle}] /\ \A s \in Series : Made(s) \in Nat
  BY MadeTyped DEF TypeOK
<1> HIDE DEF r
<1>9. /\ call' \in [Callers -> Call \cup {Idle}]
      /\ call'[c] = r /\ \A d \in Callers : d # c => call'[d] = call[d]
      /\ \A s : /\ Cardinality(Due(Todos, s)) \in Nat /\ Cardinality(Due(Todos', s)) \in Nat
                /\ Count(TodoOf(call[c]), s) \in Nat /\ Count(TodoOf(r), s) \in Nat
                /\ Cardinality(Due(Todos', s)) + Count(TodoOf(call[c]), s)
                     = Cardinality(Due(Todos, s)) + Count(TodoOf(r), s)
      /\ \A o, phases :
           /\ Cardinality(In(o, phases)) \in Nat /\ Cardinality(In(o, phases)') \in Nat
           /\ Cardinality(In(o, phases)') + Ind(IsIn(call[c], o, phases))
                = Cardinality(In(o, phases)) + Ind(IsIn(r, o, phases))
      /\ \A o, x :
           /\ Cardinality(Ending(o, x)) \in Nat /\ Cardinality(Ending(o, x)') \in Nat
           /\ Cardinality(Ending(o, x)') + Ind(Ends(call[c], o, x))
                = Cardinality(Ending(o, x)) + Ind(Ends(r, o, x))
  BY <1>4, <1>6, <1>7, CallChange
<1>10. \A s : Count(todo, s) = Ind(Head(todo) = s) + Count(Tail(todo), s)
  BY <1>1, CountHead
<1>11. TodoOf(call[c]) = todo /\ TodoOf(r) = Tail(todo)
  BY <1>3, <1>5 DEF TodoOf
<1>13. ASSUME NEW m, NEW o, NEW l, <<m, o, l>> \in Series
       PROVE  Total(m, o, l)' = Total(m, o, l)
  <2> DEFINE s == <<m, o, l>>
  <2>1. /\ Total(m, o, l) = Made(s) + Cardinality(Due(Todos, s)) /\ Made(s) \in Nat
        /\ Total(m, o, l)' = Made(s)' + Cardinality(Due(Todos', s))
    BY <1>7, <1>13 DEF Total
  <2>2. Made(s)' = Made(s) + Ind(Head(todo) = s)
    BY <1>13
  <2> HIDE DEF s
  <2>3. /\ Cardinality(Due(Todos, s)) \in Nat /\ Cardinality(Due(Todos', s)) \in Nat
        /\ Count(todo, s) \in Nat /\ Count(Tail(todo), s) \in Nat
        /\ Cardinality(Due(Todos', s)) + Count(todo, s)
             = Cardinality(Due(Todos, s)) + Count(Tail(todo), s)
    BY <1>9, <1>11
  <2>4. Count(todo, s) = Ind(Head(todo) = s) + Count(Tail(todo), s)
    BY <1>10
  <2> HIDE DEF todo
  <2> QED BY <2>1, <2>2, <2>3, <2>4 DEF Ind
<1>14. ASSUME NEW o, NEW phases
       PROVE  Cardinality(In(o, phases)') = Cardinality(In(o, phases))
  <2>1. Ind(IsIn(r, o, phases)) = Ind(IsIn(call[c], o, phases))
    BY <1>3, <1>5 DEF IsIn, Ind
  <2> QED BY <1>9, <2>1 DEF Ind
<1>15. ASSUME NEW o \in Ops, NEW x \in SpanStatuses
       PROVE  Decided(o, x)' = Decided(o, x)
  <2>1. Ind(Ends(r, o, x)) = Ind(Ends(call[c], o, x))
    BY <1>3, <1>5 DEF Ends, IsIn, Ind
  <2>2. Cardinality(Ending(o, x)') = Cardinality(Ending(o, x))
    BY <1>9, <2>1 DEF Ind
  <2> QED BY <2>2 DEF Decided
<1>16. MeasurementsHaveCauses' /\ LinesHaveCauses' /\ CallsHaveOutcomes'
  BY <1>13, <1>14, <1>15, FrameEffect
<1>17. CallsAreInOrder'
  <2> SUFFICES ASSUME NEW d \in Callers, call'[d] # Idle
               PROVE  /\ call'[d].phase # "end" => call'[d].span = "open" /\ call'[d].result = "none"
                      /\ call'[d].phase = "end" =>
                           <<call'[d].span, call'[d].result>> \in Outcomes(call'[d].op)
    BY DEF CallsAreInOrder
  <2>1. CASE d = c
    BY <1>3, <1>5, <1>9, <2>1 DEF AccountInv, CallsAreInOrder
  <2>2. CASE d # c
    BY <1>9, <2>2 DEF AccountInv, CallsAreInOrder
  <2> QED BY <2>1, <2>2
<1>18. SpansHaveResults'
  BY DEF AccountInv, SpansHaveResults, ErrorsReturned
<1> QED BY <1>9, <1>16, <1>17, <1>18 DEF AccountInv

(* The next measurement is of a series, one of its metric. *)
LEMMA HeadTyped ==
  ASSUME TypeOK, NEW c \in Callers, Pending(c)
  PROVE  /\ Head(call[c].todo) \in Series /\ NextMetric(c) = Metric(Head(call[c].todo))
         /\ NextMetric(c) \in {Metric(s) : s \in Series}
<1>1. call[c].todo \in Seq(Series) /\ call[c].todo # << >>
  BY DEF TypeOK, Pending, Call
<1>2. Head(call[c].todo) \in Series
  BY <1>1, HeadTailProperties
<1> QED BY <1>2 DEF NextMetric

(* A measurement that is taken moves from what is due to what has arrived. *)
LEMMA TakenStep ==
  ASSUME TypeOK, AccountInv, NEW c \in Callers, Pending(c), Taken(c),
         UNCHANGED <<lost, begun, spans, codes, logs, ended, crashed>>
  PROVE  /\ call' \in [Callers -> Call \cup {Idle}] /\ counters' \in [Series -> Nat]
         /\ AccountInv'
<1> DEFINE h == Head(call[c].todo)
<1>1. h \in Series /\ counters \in [Series -> Nat] /\ lost \in [Series -> Nat]
  BY HeadTyped DEF TypeOK
<1>2. counters' = [counters EXCEPT ![h] = @ + 1] /\ lost' = lost /\ Return(c)
  BY DEF Taken
<1> HIDE DEF h
<1>3. counters' \in [Series -> Nat]
  BY <1>1, <1>2
<1>4. ASSUME NEW s \in Series PROVE Made(s)' = Made(s) + Ind(h = s)
  <2>1. /\ counters[s] \in Nat /\ lost[s] \in Nat /\ lost'[s] = lost[s]
        /\ counters'[s] = IF h = s THEN counters[s] + 1 ELSE counters[s]
    BY <1>1, <1>2
  <2> QED BY <2>1 DEF Made, Ind
<1>5. LossesHaveCauses'
  BY <1>2 DEF AccountInv, LossesHaveCauses
<1> QED BY <1>2, <1>3, <1>4, <1>5, ReturnStep DEF h

(* Lookup preserves the invariant. *)
LEMMA LookupStep ==
  ASSUME TypeOK, AccountInv, NEW c \in Callers, Lookup(c)
  PROVE  TypeOK' /\ AccountInv'
<1>1. UNCHANGED <<lost, instruments, begun, spans, codes, logs, ended, crashed>> /\ Pending(c)
  BY DEF Lookup
<1>2. CASE Taken(c)
  BY <1>1, <1>2, TakenStep DEF TypeOK
<1>3. CASE call' = [call EXCEPT ![c].step = "insert"] /\ UNCHANGED counters
  <2> DEFINE r == [call[c] EXCEPT !.step = "insert"]
  <2>1. call[c] \in Call /\ call[c] # Idle
    BY <1>1 DEF TypeOK, Pending
  <2>2. /\ r.op = call[c].op /\ r.phase = call[c].phase /\ r.todo = call[c].todo
        /\ r.span = call[c].span /\ r.result = call[c].result
    BY <2>1 DEF Call
  <2>3. r \in Call
    BY <2>1 DEF Call
  <2>4. r # Idle
    BY <2>3, IdleIsNoCall
  <2>5. call' = [call EXCEPT ![c] = r] /\ call \in [Callers -> Call \cup {Idle}]
    BY <1>3 DEF TypeOK
  <2> HIDE DEF r
  <2>6. /\ call' \in [Callers -> Call \cup {Idle}]
        /\ call'[c] = r /\ \A d \in Callers : d # c => call'[d] = call[d]
    BY <2>3, <2>5
  <2>7. /\ Todos' = Todos
        /\ \A o, phases : In(o, phases)' = In(o, phases)
        /\ \A o, x : Ending(o, x)' = Ending(o, x)
    <3>1. ASSUME NEW d \in Callers
          PROVE  /\ call'[d] # Idle <=> call[d] # Idle
                 /\ call[d] # Idle => /\ call'[d].op = call[d].op /\ call'[d].phase = call[d].phase
                                      /\ call'[d].todo = call[d].todo /\ call'[d].span = call[d].span
      BY <2>1, <2>2, <2>4, <2>6
    <3>2. Todos' = Todos
      BY <3>1 DEF Todos
    <3>3. \A o, phases : In(o, phases)' = In(o, phases)
      BY <3>1 DEF In
    <3>4. \A o, x : Ending(o, x)' = Ending(o, x)
      BY <3>1 DEF In, Ending
    <3> QED BY <3>2, <3>3, <3>4
  <2>8. /\ \A m, o, l : Total(m, o, l)' = Total(m, o, l)
        /\ \A o, x : Decided(o, x)' = Decided(o, x)
    BY <1>1, <1>3, <2>7, MadeTyped DEF Total, Decided
  <2>9. MeasurementsHaveCauses' /\ LinesHaveCauses' /\ CallsHaveOutcomes'
    BY <1>1, <2>7, <2>8, FrameEffect
  <2>10. CallsAreInOrder'
    BY <2>1, <2>2, <2>6 DEF AccountInv, CallsAreInOrder
  <2>11. SpansHaveResults' /\ LossesHaveCauses'
    BY <1>1 DEF AccountInv, SpansHaveResults, ErrorsReturned, LossesHaveCauses
  <2> QED BY <1>1, <1>3, <2>6, <2>9, <2>10, <2>11 DEF AccountInv, TypeOK
<1> QED BY <1>2, <1>3 DEF Lookup

(* Insert preserves the invariant, whoever races. *)
LEMMA InsertStep ==
  ASSUME TypeOK, AccountInv, NEW c \in Callers, Insert(c)
  PROVE  TypeOK' /\ AccountInv'
<1>1. /\ UNCHANGED <<lost, begun, spans, codes, logs, ended, crashed>> /\ Pending(c) /\ Taken(c)
      /\ instruments' = instruments \cup {NextMetric(c)} \/ instruments' = instruments
  BY DEF Insert
<1>2. /\ call' \in [Callers -> Call \cup {Idle}] /\ counters' \in [Series -> Nat]
      /\ AccountInv'
  BY <1>1, TakenStep
<1>3. instruments' \subseteq {Metric(s) : s \in Series}
  BY <1>1, HeadTyped DEF TypeOK
<1> QED BY <1>1, <1>2, <1>3 DEF TypeOK

(* Refuse preserves it: what is due no longer is lost. *)
LEMMA RefuseStep ==
  ASSUME TypeOK, AccountInv, NEW c \in Callers, Refuse(c)
  PROVE  TypeOK' /\ AccountInv'
<1> DEFINE h == Head(call[c].todo)
<1>1. /\ UNCHANGED <<counters, instruments, begun, spans, codes, logs, ended, crashed>>
      /\ Pending(c) /\ Return(c) /\ NextMetric(c) \in Refusable
      /\ lost' = [lost EXCEPT ![h] = @ + 1]
  BY DEF Refuse
<1>2. /\ h \in Series /\ Metric(h) \in Refusable
      /\ counters \in [Series -> Nat] /\ lost \in [Series -> Nat]
  BY <1>1, HeadTyped DEF TypeOK
<1> HIDE DEF h
<1>3. lost' \in [Series -> Nat]
  BY <1>1, <1>2
<1>4. ASSUME NEW s \in Series PROVE Made(s)' = Made(s) + Ind(h = s)
  <2>1. /\ counters[s] \in Nat /\ lost[s] \in Nat /\ counters'[s] = counters[s]
        /\ lost'[s] = IF h = s THEN lost[s] + 1 ELSE lost[s]
    BY <1>1, <1>2
  <2> QED BY <2>1 DEF Made, Ind
<1>5. LossesHaveCauses'
  BY <1>1, <1>2 DEF AccountInv, LossesHaveCauses
<1>6. call' \in [Callers -> Call \cup {Idle}] /\ AccountInv'
  BY <1>1, <1>4, <1>5, ReturnStep DEF h
<1> QED BY <1>1, <1>3, <1>6 DEF TypeOK

(* So does a step that changes nothing AccountInv speaks of. *)
LEMMA UnchangedStep ==
  ASSUME TypeOK, AccountInv,
         UNCHANGED <<call, counters, lost, instruments, begun, spans, codes, logs, ended>>,
         crashed' \in BOOLEAN
  PROVE  TypeOK' /\ AccountInv'
<1>1. /\ Todos' = Todos
      /\ \A o, phases : In(o, phases)' = In(o, phases)
      /\ \A o, x : Ending(o, x)' = Ending(o, x)
  BY DEF Todos, In, Ending
<1>2. /\ \A m, o, l : Total(m, o, l)' = Total(m, o, l)
      /\ \A o, x : Decided(o, x)' = Decided(o, x)
  BY <1>1, MadeTyped DEF Total, Decided
<1>3. MeasurementsHaveCauses' /\ LinesHaveCauses' /\ CallsHaveOutcomes'
  BY <1>1, <1>2, FrameEffect
<1>4. CallsAreInOrder' /\ SpansHaveResults' /\ LossesHaveCauses'
  BY DEF AccountInv, CallsAreInOrder, SpansHaveResults, ErrorsReturned, LossesHaveCauses
<1> QED BY <1>3, <1>4 DEF AccountInv, TypeOK

(* A call that starts owes the count of the calls and has no outcome yet.  *)
LEMMA BeginStep ==
  ASSUME TypeOK, AccountInv, NEW c \in Callers, NEW op \in Ops, Begin(c, op)
  PROVE  TypeOK' /\ AccountInv'
<1> DEFINE todo == << <<"calls", op, "all">> >>
           r == [op |-> op, phase |-> "build", todo |-> todo,
                 step |-> "lookup", span |-> "open", result |-> "none"]
<1>1. /\ call[c] = Idle /\ begun' = [begun EXCEPT ![op] = @ + 1]
      /\ call' = [call EXCEPT ![c] = r]
      /\ UNCHANGED <<counters, lost, instruments, spans, codes, logs, ended, crashed>>
  BY DEF Begin
<1>2. <<"calls", op, "all">> \in Series
  BY SeriesMembers
<1>3. todo \in Seq(Series) /\ \A s : Count(todo, s) = Ind(s = <<"calls", op, "all">>)
  <2> DEFINE k == <<"calls", op, "all">>
  <2>1. k \in Series
    BY <1>2
  <2> HIDE DEF k
  <2>2. <<k>> \in Seq(Series) /\ \A s : Count(<<k>>, s) = Ind(s = k)
    BY <2>1, CountLists
  <2> QED BY <2>2 DEF k
<1>4. \A m, o, l : Tally(todo, m, o, l) = Ind(m = "calls" /\ o = op /\ l = "all")
  <2> TAKE m, o, l
  <2>1. Ind(<<m, o, l>> = <<"calls", op, "all">>) = Ind(m = "calls" /\ o = op /\ l = "all")
    BY DEF Ind
  <2> HIDE DEF todo
  <2> QED BY <1>3, <2>1 DEF Tally
<1> HIDE DEF todo
<1>5. r \in Call
  BY <1>3 DEF Call
<1>6. /\ r.op = op /\ r.phase = "build" /\ r.todo = todo /\ r.span = "open" /\ r.result = "none"
      /\ r # Idle
  BY <1>5, IdleIsNoCall
<1>7. call \in [Callers -> Call \cup {Idle}] /\ begun \in [Ops -> Nat]
  BY DEF TypeOK
<1> HIDE DEF r
<1>8. /\ call' \in [Callers -> Call \cup {Idle}]
      /\ call'[c] = r /\ \A d \in Callers : d # c => call'[d] = call[d]
      /\ \A s : /\ Cardinality(Due(Todos, s)) \in Nat /\ Cardinality(Due(Todos', s)) \in Nat
                /\ Count(TodoOf(call[c]), s) \in Nat /\ Count(TodoOf(r), s) \in Nat
                /\ Cardinality(Due(Todos', s)) + Count(TodoOf(call[c]), s)
                     = Cardinality(Due(Todos, s)) + Count(TodoOf(r), s)
      /\ \A o, phases :
           /\ Cardinality(In(o, phases)) \in Nat /\ Cardinality(In(o, phases)') \in Nat
           /\ Cardinality(In(o, phases)') + Ind(IsIn(call[c], o, phases))
                = Cardinality(In(o, phases)) + Ind(IsIn(r, o, phases))
      /\ \A o, x :
           /\ Cardinality(Ending(o, x)) \in Nat /\ Cardinality(Ending(o, x)') \in Nat
           /\ Cardinality(Ending(o, x)') + Ind(Ends(call[c], o, x))
                = Cardinality(Ending(o, x)) + Ind(Ends(r, o, x))
  BY <1>1, <1>5, <1>7, CallChange
<1>9. (\A s : Count(TodoOf(call[c]), s) = 0) /\ TodoOf(r) = todo
  BY <1>1, <1>6, CountEmpty DEF TodoOf
<1>10. ASSUME NEW m, NEW o, NEW l, <<m, o, l>> \in Series
       PROVE  /\ Total(m, o, l) \in Nat
              /\ Total(m, o, l)' = Total(m, o, l) + Ind(m = "calls" /\ o = op /\ l = "all")
  <2> DEFINE s == <<m, o, l>>
  <2>1. Total(m, o, l) = Made(s) + Cardinality(Due(Todos, s)) /\ Made(s) \in Nat
    BY <1>10, MadeTyped DEF Total
  <2>2. Total(m, o, l)' = Made(s) + Cardinality(Due(Todos', s))
    BY <1>1, MadeTyped DEF Total
  <2>3. Count(todo, s) = Ind(m = "calls" /\ o = op /\ l = "all")
    BY <1>4 DEF Tally
  <2> HIDE DEF s
  <2>4. /\ Cardinality(Due(Todos, s)) \in Nat /\ Cardinality(Due(Todos', s)) \in Nat
        /\ Cardinality(Due(Todos', s)) + 0 = Cardinality(Due(Todos, s)) + Count(todo, s)
    BY <1>8, <1>9
  <2> QED BY <2>1, <2>2, <2>3, <2>4 DEF Ind
<1>11. ASSUME NEW o, NEW phases, "build" \in phases
       PROVE  /\ Cardinality(In(o, phases)) \in Nat
              /\ Cardinality(In(o, phases)') = Cardinality(In(o, phases)) + Ind(o = op)
  <2>1. Ind(IsIn(call[c], o, phases)) = 0
    BY <1>1 DEF IsIn, Ind
  <2>2. Ind(IsIn(r, o, phases)) = Ind(o = op)
    BY <1>6, <1>11 DEF IsIn, Ind
  <2>3. /\ Cardinality(In(o, phases)) \in Nat /\ Cardinality(In(o, phases)') \in Nat
        /\ Cardinality(In(o, phases)') + Ind(IsIn(call[c], o, phases))
             = Cardinality(In(o, phases)) + Ind(IsIn(r, o, phases))
    BY <1>8
  <2> QED BY <2>1, <2>2, <2>3
<1>12. ASSUME NEW o \in Ops, NEW x \in SpanStatuses
       PROVE  Decided(o, x) \in Nat /\ Decided(o, x)' = Decided(o, x)
  <2>1. Ind(Ends(call[c], o, x)) = 0 /\ Ind(Ends(r, o, x)) = 0
    BY <1>1, <1>6 DEF Ends, IsIn, Ind
  <2>2. Cardinality(Ending(o, x)') = Cardinality(Ending(o, x))
    BY <1>8, <2>1
  <2> QED BY <1>1, <2>2, AccountTyped DEF Decided
<1>13. ASSUME NEW o \in Ops
       PROVE  /\ begun[o] \in Nat /\ begun'[o] = begun[o] + Ind(o = op)
              /\ Failures(o) \in Nat /\ Aborts(o) \in Nat
              /\ Failures(o)' = Failures(o) /\ Aborts(o)' = Aborts(o)
  <2>1. begun[o] \in Nat /\ begun'[o] = begun[o] + Ind(o = op)
    BY <1>1, <1>7 DEF Ind
  <2>2. /\ Failures(o) \in Nat /\ Aborts(o) \in Nat
        /\ Failures(o)' = Failures(o) /\ Aborts(o)' = Aborts(o)
    BY <1>12 DEF Failures, Aborts, SpanStatuses
  <2> QED BY <2>1, <2>2
<1>14. MeasurementsHaveCauses'
  <2> SUFFICES ASSUME NEW o \in Ops
               PROVE  /\ Total("calls", o, "all")' = begun'[o]
                      /\ \A m \in {"sql", "method"} :
                           /\ Total(m, o, "success")' = Decided(o, "success")'
                           /\ Total(m, o, "canceled")' = Decided(o, "cancelled")'
                           /\ Total(m, o, "timeout")' = Decided(o, "timeout")'
                           /\ Total(m, o, "error")' =
                                Failures(o)' + (IF o = "append" THEN Aborts(o)' ELSE 0)
                      /\ Total("canceled", o, "all")' = Decided(o, "cancelled")'
                      /\ Total("timeout", o, "all")' = Decided(o, "timeout")'
                      /\ Total("conflicts", o, "all")' = Decided(o, "concurrency_conflict")'
                      /\ Total("errors", o, "all")' =
                           Failures(o)' + (IF o = "append" THEN Aborts(o)' + Decided(o, "build_query")' ELSE 0)
    BY DEF MeasurementsHaveCauses
  <2>1. \A m \in {"canceled", "timeout", "conflicts", "errors"} :
          Total(m, o, "all")' = Total(m, o, "all")
    <3> TAKE m \in {"canceled", "timeout", "conflicts", "errors"}
    <3>1. <<m, o, "all">> \in Series
      BY SeriesMembers
    <3> QED BY <1>10, <3>1 DEF Ind
  <2>2. \A m \in {"sql", "method"}, l \in Statuses : Total(m, o, l)' = Total(m, o, l)
    <3> TAKE m \in {"sql", "method"}, l \in Statuses
    <3>1. <<m, o, l>> \in Series
      BY SeriesMembers
    <3> QED BY <1>10, <3>1 DEF Ind
  <2>3. Total("calls", o, "all")' = Total("calls", o, "all") + Ind(o = op)
    <3>1. <<"calls", o, "all">> \in Series
      BY SeriesMembers
    <3> QED BY <1>10, <3>1 DEF Ind
  <2> QED BY <1>12, <1>13, <2>1, <2>2, <2>3
          DEF AccountInv, MeasurementsHaveCauses, SpanStatuses, Statuses
<1>15. LinesHaveCauses'
  <2>1. \A g, o, v : Logged(g, o, v)' = Logged(g, o, v)
    BY <1>1 DEF Logged
  <2>2. ASSUME NEW o \in Ops, NEW g \in Loggers
        PROVE  Logged(g, o, "debug")' + Decided(o, "build_query")'
                 + Cardinality(In(o, {"build", "execution"})') = begun'[o]
    <3>1. Logged(g, o, "debug") + Decided(o, "build_query")
            + Cardinality(In(o, {"build", "execution"})) = begun[o]
      BY DEF AccountInv, LinesHaveCauses
    <3>2. Decided(o, "build_query") \in Nat /\ Decided(o, "build_query")' = Decided(o, "build_query")
      BY <1>12 DEF SpanStatuses
    <3>3. Logged(g, o, "debug") \in Nat
      <4>1. <<g, o, "debug">> \in Loggers \X Ops \X Levels
        BY DEF Levels
      <4> QED BY <4>1 DEF TypeOK, Logged
    <3> QED BY <1>11, <1>13, <2>1, <3>1, <3>2, <3>3 DEF Ind
  <2> QED BY <1>12, <1>13, <2>1, <2>2 DEF AccountInv, LinesHaveCauses, SpanStatuses
<1>16. CallsHaveOutcomes'
  <2>1. ASSUME NEW o \in Ops
        PROVE  begun'[o] = Cardinality(In(o, {"build", "execution", "completion"})')
                           + Decided(o, "success")' + Decided(o, "concurrency_conflict")'
                           + Failures(o)' + Aborts(o)'
    <3>1. begun[o] = Cardinality(In(o, {"build", "execution", "completion"}))
                     + Decided(o, "success") + Decided(o, "concurrency_conflict")
                     + Failures(o) + Aborts(o)
      BY DEF AccountInv, CallsHaveOutcomes
    <3>2. /\ Decided(o, "success") \in Nat /\ Decided(o, "success")' = Decided(o, "success")
          /\ Decided(o, "concurrency_conflict") \in Nat
          /\ Decided(o, "concurrency_conflict")' = Decided(o, "concurrency_conflict")
      BY <1>12 DEF SpanStatuses
    <3> QED BY <1>11, <1>13, <3>1, <3>2 DEF Ind
  <2> QED BY <1>12, <2>1 DEF AccountInv, CallsHaveOutcomes, SpanStatuses, Ops
<1>17. CallsAreInOrder'
  <2> SUFFICES ASSUME NEW d \in Callers, call'[d] # Idle
               PROVE  /\ call'[d].phase # "end" => call'[d].span = "open" /\ call'[d].result = "none"
                      /\ call'[d].phase = "end" =>
                           <<call'[d].span, call'[d].result>> \in Outcomes(call'[d].op)
    BY DEF CallsAreInOrder
  <2>1. CASE d = c
    BY <1>6, <1>8, <2>1
  <2>2. CASE d # c
    BY <1>8, <2>2 DEF AccountInv, CallsAreInOrder
  <2> QED BY <2>1, <2>2
<1>18. SpansHaveResults' /\ LossesHaveCauses'
  BY <1>1 DEF AccountInv, SpansHaveResults, ErrorsReturned, LossesHaveCauses
<1>19. TypeOK'
  <2>1. begun' \in [Ops -> Nat]
    BY <1>1, <1>7
  <2> QED BY <1>1, <1>8, <2>1 DEF TypeOK
<1> QED BY <1>14, <1>15, <1>16, <1>17, <1>18, <1>19 DEF AccountInv

(* A call that returns turns its outcome into a span and a result. *)
LEMMA FinishStep ==
  ASSUME TypeOK, AccountInv, NEW c \in Callers, Finish(c)
  PROVE  TypeOK' /\ AccountInv'
<1> DEFINE op == call[c].op
           x == call[c].span
           result == call[c].result
           code == SpanCode(SpanStatus(x))
<1>1. /\ call[c] # Idle /\ call[c] \in Call /\ op \in Ops
      /\ call[c].phase = "end" /\ call[c].todo = << >>
      /\ call' = [call EXCEPT ![c] = Idle]
      /\ UNCHANGED <<counters, lost, instruments, begun, logs, crashed>>
  BY DEF Finish, Running, TypeOK, Call
<1>2. <<x, result>> \in Outcomes(op)
  BY <1>1 DEF AccountInv, CallsAreInOrder
<1>3. x \in SpanStatuses /\ result \in Results
  BY <1>1, <1>2, OutcomesTyped
<1>4. code = IF x = "success" THEN "Ok" ELSE "Error"
  BY DEF SpanCode, SpanStatus
<1>5. /\ spans' = [spans EXCEPT ![<<op, x>>] = @ + 1]
      /\ codes' = [codes EXCEPT ![<<op, code>>] = @ + 1]
      /\ ended' = [ended EXCEPT ![<<op, result>>] = @ + 1]
  BY DEF Finish
<1>6. /\ call \in [Callers -> Call \cup {Idle}] /\ spans \in [Ops \X SpanStatuses -> Nat]
      /\ codes \in [Ops \X SpanCodes -> Nat] /\ ended \in [Ops \X Results -> Nat]
  BY DEF TypeOK
<1>7. /\ call' \in [Callers -> Call \cup {Idle}]
      /\ call'[c] = Idle /\ \A d \in Callers : d # c => call'[d] = call[d]
      /\ \A s : /\ Cardinality(Due(Todos, s)) \in Nat /\ Cardinality(Due(Todos', s)) \in Nat
                /\ Count(TodoOf(call[c]), s) \in Nat /\ Count(TodoOf(Idle), s) \in Nat
                /\ Cardinality(Due(Todos', s)) + Count(TodoOf(call[c]), s)
                     = Cardinality(Due(Todos, s)) + Count(TodoOf(Idle), s)
      /\ \A o, phases :
           /\ Cardinality(In(o, phases)) \in Nat /\ Cardinality(In(o, phases)') \in Nat
           /\ Cardinality(In(o, phases)') + Ind(IsIn(call[c], o, phases))
                = Cardinality(In(o, phases)) + Ind(IsIn(Idle, o, phases))
      /\ \A o, y :
           /\ Cardinality(Ending(o, y)) \in Nat /\ Cardinality(Ending(o, y)') \in Nat
           /\ Cardinality(Ending(o, y)') + Ind(Ends(call[c], o, y))
                = Cardinality(Ending(o, y)) + Ind(Ends(Idle, o, y))
  BY <1>1, <1>6, CallChange
<1>8. ASSUME NEW m, NEW o, NEW l
      PROVE  Total(m, o, l)' = Total(m, o, l)
  <2> DEFINE s == <<m, o, l>>
  <2>1. Count(TodoOf(call[c]), s) = 0 /\ Count(TodoOf(Idle), s) = 0
    BY <1>1, CountEmpty DEF TodoOf
  <2> HIDE DEF s
  <2>2. Cardinality(Due(Todos', s)) = Cardinality(Due(Todos, s))
    BY <1>7, <2>1
  <2>3. Made(s)' = Made(s)
    BY <1>1, MadeTyped
  <2> QED BY <2>2, <2>3 DEF Total, s
<1>9. ASSUME NEW o, NEW phases, "end" \notin phases
      PROVE  Cardinality(In(o, phases)') = Cardinality(In(o, phases))
  <2>1. Ind(IsIn(call[c], o, phases)) = 0 /\ Ind(IsIn(Idle, o, phases)) = 0
    BY <1>1, <1>9 DEF IsIn, Ind
  <2> QED BY <1>7, <2>1
(* How the functions grow, by components. *)
<1>10. ASSUME NEW o \in Ops
       PROVE  /\ \A y \in SpanStatuses :
                   /\ spans[<<o, y>>] \in Nat
                   /\ spans'[<<o, y>>] = spans[<<o, y>>] + Ind(o = op /\ y = x)
              /\ \A y \in SpanCodes :
                   /\ codes[<<o, y>>] \in Nat
                   /\ codes'[<<o, y>>] = codes[<<o, y>>] + Ind(o = op /\ y = code)
              /\ \A y \in Results :
                   /\ ended[<<o, y>>] \in Nat
                   /\ ended'[<<o, y>>] = ended[<<o, y>>] + Ind(o = op /\ y = result)
  <2> HIDE DEF op, x, code, result
  <2>1. ASSUME NEW y \in SpanStatuses
        PROVE  /\ spans[<<o, y>>] \in Nat
               /\ spans'[<<o, y>>] = spans[<<o, y>>] + Ind(o = op /\ y = x)
    <3> DEFINE k == <<op, x>>
               z == <<o, y>>
    <3>1. z \in Ops \X SpanStatuses /\ (z = k <=> o = op /\ y = x)
      OBVIOUS
    <3>2. spans' = [spans EXCEPT ![k] = @ + 1]
      BY <1>5
    <3> HIDE DEF k, z
    <3>3. spans[z] \in Nat /\ spans'[z] = IF z = k THEN spans[z] + 1 ELSE spans[z]
      BY <1>6, <3>1, <3>2
    <3>4. spans[z] \in Nat /\ spans'[z] = spans[z] + Ind(o = op /\ y = x)
      BY <3>1, <3>3 DEF Ind
    <3> QED BY <3>4 DEF z
  <2>2. ASSUME NEW y \in SpanCodes
        PROVE  /\ codes[<<o, y>>] \in Nat
               /\ codes'[<<o, y>>] = codes[<<o, y>>] + Ind(o = op /\ y = code)
    <3> DEFINE k == <<op, code>>
               z == <<o, y>>
    <3>1. z \in Ops \X SpanCodes /\ (z = k <=> o = op /\ y = code)
      OBVIOUS
    <3>2. codes' = [codes EXCEPT ![k] = @ + 1]
      BY <1>5
    <3> HIDE DEF k, z
    <3>3. codes[z] \in Nat /\ codes'[z] = IF z = k THEN codes[z] + 1 ELSE codes[z]
      BY <1>6, <3>1, <3>2
    <3>4. codes[z] \in Nat /\ codes'[z] = codes[z] + Ind(o = op /\ y = code)
      BY <3>1, <3>3 DEF Ind
    <3> QED BY <3>4 DEF z
  <2>3. ASSUME NEW y \in Results
        PROVE  /\ ended[<<o, y>>] \in Nat
               /\ ended'[<<o, y>>] = ended[<<o, y>>] + Ind(o = op /\ y = result)
    <3> DEFINE k == <<op, result>>
               z == <<o, y>>
    <3>1. z \in Ops \X Results /\ (z = k <=> o = op /\ y = result)
      OBVIOUS
    <3>2. ended' = [ended EXCEPT ![k] = @ + 1]
      BY <1>5
    <3> HIDE DEF k, z
    <3>3. ended[z] \in Nat /\ ended'[z] = IF z = k THEN ended[z] + 1 ELSE ended[z]
      BY <1>6, <3>1, <3>2
    <3>4. ended[z] \in Nat /\ ended'[z] = ended[z] + Ind(o = op /\ y = result)
      BY <3>1, <3>3 DEF Ind
    <3> QED BY <3>4 DEF z
  <2> QED BY <2>1, <2>2, <2>3
<1>11. ASSUME NEW o \in Ops, NEW y \in SpanStatuses
       PROVE  Decided(o, y)' = Decided(o, y)
  <2>1. Ind(Ends(call[c], o, y)) = Ind(o = op /\ y = x) /\ Ind(Ends(Idle, o, y)) = 0
    BY <1>1 DEF Ends, IsIn, Ind
  <2>2. /\ Cardinality(Ending(o, y)) \in Nat /\ Cardinality(Ending(o, y)') \in Nat
        /\ Cardinality(Ending(o, y)') + Ind(o = op /\ y = x) = Cardinality(Ending(o, y))
    BY <1>7, <2>1
  <2>3. spans[<<o, y>>] \in Nat /\ spans'[<<o, y>>] = spans[<<o, y>>] + Ind(o = op /\ y = x)
    BY <1>10
  <2> QED BY <2>2, <2>3 DEF Decided, Ind
<1>12. MeasurementsHaveCauses' /\ LinesHaveCauses' /\ CallsHaveOutcomes'
  <2>1. \A o \in Ops : /\ Cardinality(In(o, {"build", "execution"})')
                            = Cardinality(In(o, {"build", "execution"}))
                       /\ Cardinality(In(o, {"build", "execution", "completion"})')
                            = Cardinality(In(o, {"build", "execution", "completion"}))
    BY <1>9
  <2> QED BY <1>1, <1>8, <1>11, <2>1, FrameEffect
<1>13. CallsAreInOrder'
  BY <1>7 DEF AccountInv, CallsAreInOrder
<1>14. SpansHaveResults'
  <2> SUFFICES ASSUME NEW o \in Ops
               PROVE  /\ spans'[<<o, "success">>] = ended'[<<o, "nil">>]
                      /\ spans'[<<o, "concurrency_conflict">>] = ended'[<<o, "conflict">>]
                      /\ spans'[<<o, "cancelled">>] <= ended'[<<o, "canceled">>]
                      /\ spans'[<<o, "timeout">>] <= ended'[<<o, "timeout">>]
                      /\ ErrorsReturned(o)' =
                           spans'[<<o, "build_query">>] + spans'[<<o, "database_query">>]
                           + spans'[<<o, "database_exec">>] + spans'[<<o, "scan_results">>]
                           + spans'[<<o, "cancelled">>] + spans'[<<o, "timeout">>]
                      /\ codes'[<<o, "Ok">>] = ended'[<<o, "nil">>]
                      /\ codes'[<<o, "Error">>] = ended'[<<o, "conflict">>] + ErrorsReturned(o)'
    BY DEF SpansHaveResults
  <2> DEFINE S(y) == spans[<<o, y>>]
             T(y) == spans'[<<o, y>>]
             C(y) == codes[<<o, y>>]
             D(y) == codes'[<<o, y>>]
             E(y) == ended[<<o, y>>]
             F(y) == ended'[<<o, y>>]
  <2>1. \A y \in SpanStatuses : S(y) \in Nat /\ T(y) = S(y) + Ind(o = op /\ y = x)
    BY <1>10
  <2>2. \A y \in SpanCodes : C(y) \in Nat /\ D(y) = C(y) + Ind(o = op /\ y = code)
    BY <1>10
  <2>3. \A y \in Results : E(y) \in Nat /\ F(y) = E(y) + Ind(o = op /\ y = result)
    BY <1>10
  <2>4. /\ ErrorsReturned(o) = E("error") + E("canceled") + E("timeout")
        /\ ErrorsReturned(o)' = F("error") + F("canceled") + F("timeout")
    BY DEF ErrorsReturned
  <2>5. /\ S("success") = E("nil") /\ S("concurrency_conflict") = E("conflict")
        /\ S("cancelled") <= E("canceled") /\ S("timeout") <= E("timeout")
        /\ E("error") + E("canceled") + E("timeout") =
             S("build_query") + S("database_query") + S("database_exec") + S("scan_results")
             + S("cancelled") + S("timeout")
        /\ C("Ok") = E("nil")
        /\ C("Error") = E("conflict") + (E("error") + E("canceled") + E("timeout"))
    BY <2>4 DEF AccountInv, SpansHaveResults
  <2>6. \/ x = "success" /\ result = "nil"
        \/ x = "concurrency_conflict" /\ result = "conflict"
        \/ x = "cancelled" /\ result = "canceled"
        \/ x = "timeout" /\ result = "timeout"
        \/ x \in {"build_query", "database_query", "database_exec"} /\ result = "error"
        \/ x = "scan_results" /\ result \in {"canceled", "timeout", "error"}
    BY <1>2 DEF Outcomes
  <2> HIDE DEF S, T, C, D, E, F, op, x, code, result
  <2>7. /\ T("success") = F("nil") /\ T("concurrency_conflict") = F("conflict")
        /\ T("cancelled") <= F("canceled") /\ T("timeout") <= F("timeout")
    BY <2>1, <2>3, <2>5, <2>6 DEF Ind, SpanStatuses, Results
  <2>8. F("error") + F("canceled") + F("timeout") =
          T("build_query") + T("database_query") + T("database_exec") + T("scan_results")
          + T("cancelled") + T("timeout")
    BY <2>1, <2>3, <2>5, <2>6 DEF Ind, SpanStatuses, Results
  <2>9. /\ D("Ok") = F("nil")
        /\ D("Error") = F("conflict") + (F("error") + F("canceled") + F("timeout"))
    BY <1>4, <2>2, <2>3, <2>5, <2>6 DEF Ind, SpanCodes, Results
  <2> QED BY <2>4, <2>7, <2>8, <2>9 DEF S, T, C, D, E, F
<1>15. TypeOK'
  <2>1. code \in SpanCodes
    BY <1>4 DEF SpanCodes
  <2>2. /\ spans' \in [Ops \X SpanStatuses -> Nat] /\ codes' \in [Ops \X SpanCodes -> Nat]
        /\ ended' \in [Ops \X Results -> Nat]
    BY <1>1, <1>3, <1>5, <1>6, <2>1
  <2> QED BY <1>1, <1>7, <2>2 DEF TypeOK
<1>16. LossesHaveCauses'
  BY <1>1 DEF AccountInv, LossesHaveCauses
<1> QED BY <1>12, <1>13, <1>14, <1>15, <1>16 DEF AccountInv

(* Nothing is due and nothing undecided when no call is under way. *)
LEMMA QuietSums ==
  ASSUME Quiet
  PROVE  /\ \A s : Cardinality(Due(Todos, s)) = 0
         /\ \A op, phases, x : Cardinality(In(op, phases)) = 0 /\ Cardinality(Ending(op, x)) = 0
<1>1. \A s : Due(Todos, s) = {}
  <2>1. \A d \in Callers : Todos[d] = << >>
    BY DEF Quiet, Todos
  <2>2. \A s, d : d \in Callers => {d} \X Places(Todos[d], s) = {}
    BY <2>1, CountEmpty
  <2> QED BY <2>2 DEF Due
<1>2. \A op, phases, x : In(op, phases) = {} /\ Ending(op, x) = {}
  BY DEF Quiet, In, Ending
<1> QED BY <1>1, <1>2, FS_EmptySet

(* Nothing is recorded and nothing is due at first. *)
LEMMA InitStep ==
  ASSUME Init
  PROVE  TypeOK /\ AccountInv
<1>1. TypeOK
  BY DEF Init, TypeOK
<1>2. Quiet
  BY DEF Init, Quiet
<1>3. /\ \A m, o, l : <<m, o, l>> \in Series => Total(m, o, l) = 0
      /\ \A o \in Ops, x \in SpanStatuses : Decided(o, x) = 0
      /\ \A g \in Loggers, o \in Ops, v \in Levels : Logged(g, o, v) = 0
      /\ \A o \in Ops : begun[o] = 0
  <2>1. ASSUME NEW m, NEW o, NEW l, <<m, o, l>> \in Series
        PROVE  Total(m, o, l) = 0
    BY <1>2, <2>1, QuietSums DEF Init, Total, Made
  <2>2. ASSUME NEW o \in Ops, NEW x \in SpanStatuses PROVE Decided(o, x) = 0
    <3>1. <<o, x>> \in Ops \X SpanStatuses
      OBVIOUS
    <3>2. spans[<<o, x>>] = 0
      BY <3>1 DEF Init
    <3>3. Cardinality(Ending(o, x)) = 0
      BY <1>2, QuietSums
    <3> QED BY <3>2, <3>3 DEF Decided
  <2>3. ASSUME NEW g \in Loggers, NEW o \in Ops, NEW v \in Levels PROVE Logged(g, o, v) = 0
    BY DEF Init, Logged
  <2> QED BY <2>1, <2>2, <2>3 DEF Init
<1>4. \A o \in Ops : Failures(o) = 0 /\ Aborts(o) = 0
  BY <1>3 DEF Failures, Aborts, SpanStatuses
<1>5. MeasurementsHaveCauses
  <2> SUFFICES ASSUME NEW o \in Ops
               PROVE  /\ Total("calls", o, "all") = 0
                      /\ \A m \in {"sql", "method"}, l \in Statuses : Total(m, o, l) = 0
                      /\ \A m \in {"canceled", "timeout", "conflicts", "errors"} : Total(m, o, "all") = 0
    BY <1>3, <1>4 DEF MeasurementsHaveCauses, Statuses, SpanStatuses
  <2>1. \A m \in {"calls", "canceled", "timeout", "conflicts", "errors"} : <<m, o, "all">> \in Series
    BY SeriesMembers
  <2>2. \A m \in {"sql", "method"}, l \in Statuses : <<m, o, l>> \in Series
    BY SeriesMembers
  <2> QED BY <1>3, <2>1, <2>2
<1>6. LinesHaveCauses
  <2>1. \A o : Cardinality(In(o, {"build", "execution"})) = 0
    BY <1>2, QuietSums
  <2> QED BY <1>3, <1>4, <2>1 DEF LinesHaveCauses, SpanStatuses, Loggers, Levels
<1>7. CallsHaveOutcomes
  <2>1. \A o : Cardinality(In(o, {"build", "execution", "completion"})) = 0
    BY <1>2, QuietSums
  <2> QED BY <1>3, <1>4, <2>1 DEF CallsHaveOutcomes, SpanStatuses, Ops
<1>8. CallsAreInOrder
  BY <1>2 DEF Quiet, CallsAreInOrder
<1>9. SpansHaveResults
  <2> SUFFICES ASSUME NEW o \in Ops
               PROVE  /\ spans[<<o, "success">>] = ended[<<o, "nil">>]
                      /\ spans[<<o, "concurrency_conflict">>] = ended[<<o, "conflict">>]
                      /\ spans[<<o, "cancelled">>] <= ended[<<o, "canceled">>]
                      /\ spans[<<o, "timeout">>] <= ended[<<o, "timeout">>]
                      /\ ErrorsReturned(o) =
                           spans[<<o, "build_query">>] + spans[<<o, "database_query">>]
                           + spans[<<o, "database_exec">>] + spans[<<o, "scan_results">>]
                           + spans[<<o, "cancelled">>] + spans[<<o, "timeout">>]
                      /\ codes[<<o, "Ok">>] = ended[<<o, "nil">>]
                      /\ codes[<<o, "Error">>] = ended[<<o, "conflict">>] + ErrorsReturned(o)
    BY DEF SpansHaveResults
  <2>1. \A y \in SpanStatuses : spans[<<o, y>>] = 0
    BY DEF Init
  <2>2. \A y \in SpanCodes : codes[<<o, y>>] = 0
    BY DEF Init
  <2>3. \A y \in Results : ended[<<o, y>>] = 0
    BY DEF Init
  <2>4. ErrorsReturned(o) = 0
    BY <2>3 DEF ErrorsReturned, Results
  <2>5. /\ spans[<<o, "success">>] = 0 /\ spans[<<o, "concurrency_conflict">>] = 0
        /\ spans[<<o, "cancelled">>] = 0 /\ spans[<<o, "timeout">>] = 0
        /\ spans[<<o, "build_query">>] = 0 /\ spans[<<o, "database_query">>] = 0
        /\ spans[<<o, "database_exec">>] = 0 /\ spans[<<o, "scan_results">>] = 0
    BY <2>1 DEF SpanStatuses
  <2>6. /\ codes[<<o, "Ok">>] = 0 /\ codes[<<o, "Error">>] = 0
        /\ ended[<<o, "nil">>] = 0 /\ ended[<<o, "conflict">>] = 0
        /\ ended[<<o, "canceled">>] \in Nat /\ ended[<<o, "timeout">>] \in Nat
    BY <2>2, <2>3 DEF SpanCodes, Results
  <2> QED BY <2>4, <2>5, <2>6
<1>10. LossesHaveCauses
  BY DEF Init, LossesHaveCauses
<1> QED BY <1>1, <1>5, <1>6, <1>7, <1>8, <1>9, <1>10 DEF AccountInv

(* The invariant is inductive. *)
LEMMA NextStep ==
  ASSUME TypeOK, AccountInv, [Next]_vars
  PROVE  TypeOK' /\ AccountInv'
<1>1. ASSUME NEW c \in Callers, NEW op \in Ops, Begin(c, op) PROVE TypeOK' /\ AccountInv'
  BY <1>1, BeginStep
<1>2. ASSUME NEW c \in Callers, QueryBuild(c) PROVE TypeOK' /\ AccountInv'
  BY <1>2, QueryBuildStep
<1>3. ASSUME NEW c \in Callers, QueryExecution(c) PROVE TypeOK' /\ AccountInv'
  BY <1>3, QueryExecutionStep
<1>4. ASSUME NEW c \in Callers, QueryProcessing(c) PROVE TypeOK' /\ AccountInv'
  BY <1>4, QueryProcessingStep
<1>5. ASSUME NEW c \in Callers, AppendBuild(c) PROVE TypeOK' /\ AccountInv'
  BY <1>5, AppendBuildStep
<1>6. ASSUME NEW c \in Callers, AppendExecution(c) PROVE TypeOK' /\ AccountInv'
  BY <1>6, AppendExecutionStep
<1>7. ASSUME NEW c \in Callers, AppendValidation(c) PROVE TypeOK' /\ AccountInv'
  BY <1>7, AppendValidationStep
<1>8. ASSUME NEW c \in Callers, Finish(c) PROVE TypeOK' /\ AccountInv'
  BY <1>8, FinishStep
<1>9. ASSUME NEW c \in Callers, Lookup(c) PROVE TypeOK' /\ AccountInv'
  BY <1>9, LookupStep
<1>10. ASSUME NEW c \in Callers, Insert(c) PROVE TypeOK' /\ AccountInv'
  BY <1>10, InsertStep
<1>11. ASSUME NEW c \in Callers, Refuse(c) PROVE TypeOK' /\ AccountInv'
  BY <1>11, RefuseStep
<1>12. CASE Crash
  BY <1>12, UnchangedStep DEF Crash
<1>13. CASE UNCHANGED vars
  <2>1. crashed' \in BOOLEAN
    BY <1>13 DEF vars, TypeOK
  <2> QED BY <1>13, <2>1, UnchangedStep DEF vars
<1> QED BY <1>1, <1>2, <1>3, <1>4, <1>5, <1>6, <1>7, <1>8, <1>9, <1>10, <1>11, <1>12, <1>13 DEF Next

-----------------------------------------------------------------------------
(* What every call records, whatever its outcome and however the calls     *)
(* interleave, adds up at any time: what has arrived and what is still to  *)
(* be recorded of a series equals the outcomes that cause it, and so do    *)
(* the lines of the logs.                                                  *)
THEOREM AccountInvariant == Spec => []AccountInv
<1>1. Init => TypeOK /\ AccountInv
  BY InitStep
<1>2. TypeOK /\ AccountInv /\ [Next]_vars => (TypeOK /\ AccountInv)'
  BY NextStep
<1> QED BY <1>1, <1>2, PTL DEF Spec

(* Every variable of the instrumentation keeps its type. *)
THEOREM ObservabilityTypeCorrect == Spec => []TypeOK
<1>1. Init => TypeOK /\ AccountInv
  BY InitStep
<1>2. TypeOK /\ AccountInv /\ [Next]_vars => (TypeOK /\ AccountInv)'
  BY NextStep
<1> QED BY <1>1, <1>2, PTL DEF Spec

(* Without calls under way, nothing is due, in a phase or ending. *)
LEMMA QuietLaws ==
  ASSUME TypeOK, AccountInv, Quiet
  PROVE  /\ \A m, o, l : <<m, o, l>> \in Series => Made(<<m, o, l>>) = Total(m, o, l)
         /\ \A o \in Ops, x \in SpanStatuses :
              spans[<<o, x>>] = Decided(o, x) /\ spans[<<o, x>>] \in Nat
<1>1. ASSUME NEW m, NEW o, NEW l, <<m, o, l>> \in Series
      PROVE  Made(<<m, o, l>>) = Total(m, o, l)
  <2>1. Made(<<m, o, l>>) \in Nat
    BY <1>1, MadeTyped
  <2> QED BY <2>1, QuietSums DEF Total
<1>2. ASSUME NEW o \in Ops, NEW x \in SpanStatuses
      PROVE  spans[<<o, x>>] = Decided(o, x) /\ spans[<<o, x>>] \in Nat
  <2>1. spans[<<o, x>>] \in Nat
    BY DEF TypeOK
  <2> QED BY <2>1, QuietSums DEF Decided
<1> QED BY <1>1, <1>2

(* Whenever no call is under way, the durations account for the calls.     *)
THEOREM CallsAccounted == Spec => []CallsAreAccountedFor
<1>1. TypeOK /\ AccountInv => CallsAreAccountedFor
  <2> SUFFICES ASSUME TypeOK, AccountInv, Quiet, NEW o \in Ops, NEW m \in {"method", "sql"}
               PROVE  /\ Measured("calls", o) = begun[o]
                      /\ Durations(m, o) + Measured("conflicts", o)
                           = begun[o] + (IF o = "append" THEN Aborted(o) ELSE 0)
    BY DEF CallsAreAccountedFor, AccountInv, LossesHaveCauses
  <2>1. /\ \A k \in {"calls", "canceled", "timeout", "conflicts", "errors"} : <<k, o, "all">> \in Series
        /\ \A l \in Statuses : <<m, o, l>> \in Series
    BY SeriesMembers
  <2>2. /\ Measured("calls", o) = Total("calls", o, "all")
        /\ Measured("conflicts", o) = Total("conflicts", o, "all")
        /\ Measured("canceled", o) = Total("canceled", o, "all")
        /\ Measured("timeout", o) = Total("timeout", o, "all")
    BY <2>1, QuietLaws DEF Measured
  <2>3. /\ Total("calls", o, "all") = begun[o]
        /\ Total("conflicts", o, "all") = Decided(o, "concurrency_conflict")
        /\ Total("canceled", o, "all") = Decided(o, "cancelled")
        /\ Total("timeout", o, "all") = Decided(o, "timeout")
    BY DEF AccountInv, MeasurementsHaveCauses
  <2>4. /\ Made(<<m, o, "success">>) = Total(m, o, "success")
        /\ Made(<<m, o, "canceled">>) = Total(m, o, "canceled")
        /\ Made(<<m, o, "timeout">>) = Total(m, o, "timeout")
        /\ Made(<<m, o, "error">>) = Total(m, o, "error")
    BY <2>1, QuietLaws DEF Statuses
  <2>5. /\ Total(m, o, "success") = Decided(o, "success")
        /\ Total(m, o, "canceled") = Decided(o, "cancelled")
        /\ Total(m, o, "timeout") = Decided(o, "timeout")
        /\ Total(m, o, "error") = Failures(o) + (IF o = "append" THEN Aborts(o) ELSE 0)
    BY DEF AccountInv, MeasurementsHaveCauses
  <2>6. begun[o] = Decided(o, "success") + Decided(o, "concurrency_conflict")
                   + Failures(o) + Aborts(o)
    <3>1. Cardinality(In(o, {"build", "execution", "completion"})) = 0
      BY QuietSums
    <3>2. Decided(o, "success") \in Nat
      BY AccountTyped DEF SpanStatuses
    <3> QED BY <3>1, <3>2 DEF AccountInv, CallsHaveOutcomes
  <2>7. /\ \A x \in SpanStatuses : Decided(o, x) \in Nat
        /\ Aborts(o) = Decided(o, "cancelled") + Decided(o, "timeout")
        /\ Failures(o) \in Nat
    BY AccountTyped DEF Aborts, Failures, SpanStatuses
  <2>8. /\ Decided(o, "success") \in Nat /\ Decided(o, "concurrency_conflict") \in Nat
        /\ Decided(o, "cancelled") \in Nat /\ Decided(o, "timeout") \in Nat
    BY <2>7 DEF SpanStatuses
  <2> QED BY <2>2, <2>3, <2>4, <2>5, <2>6, <2>7, <2>8 DEF Durations, Aborted
<1> QED BY <1>1, AccountInvariant, ObservabilityTypeCorrect, PTL

(* Whenever no call is under way, metrics and traces tell the same story.  *)
THEOREM SignalsAlwaysAgree == Spec => []SignalsAgree
<1>1. TypeOK /\ AccountInv => SignalsAgree
  <2> SUFFICES ASSUME TypeOK, AccountInv, Quiet, NEW o \in Ops
               PROVE  /\ Made(<<"method", o, "success">>) = spans[<<o, "success">>]
                      /\ spans[<<o, "success">>] = ended[<<o, "nil">>]
                      /\ codes[<<o, "Ok">>] = ended[<<o, "nil">>]
                      /\ codes[<<o, "Error">>] = ended[<<o, "conflict">>] + ErrorsReturned(o)
                      /\ Measured("conflicts", o) = spans[<<o, "concurrency_conflict">>]
                      /\ spans[<<o, "concurrency_conflict">>] = ended[<<o, "conflict">>]
                      /\ Measured("canceled", o) = spans[<<o, "cancelled">>]
                      /\ spans[<<o, "cancelled">>] <= ended[<<o, "canceled">>]
                      /\ Measured("timeout", o) = spans[<<o, "timeout">>]
                      /\ spans[<<o, "timeout">>] <= ended[<<o, "timeout">>]
                      /\ o = "query" =>
                           Measured("errors", o) + Aborted(o) = ErrorsReturned(o)
    BY DEF SignalsAgree, Ops
  <2>1. /\ \A k \in {"calls", "canceled", "timeout", "conflicts", "errors"} : <<k, o, "all">> \in Series
        /\ <<"method", o, "success">> \in Series
    BY SeriesMembers DEF Statuses
  <2>2. /\ Made(<<"method", o, "success">>) = Total("method", o, "success")
        /\ Measured("conflicts", o) = Total("conflicts", o, "all")
        /\ Measured("canceled", o) = Total("canceled", o, "all")
        /\ Measured("timeout", o) = Total("timeout", o, "all")
        /\ Measured("errors", o) = Total("errors", o, "all")
    BY <2>1, QuietLaws DEF Measured
  <2>3. /\ Total("method", o, "success") = Decided(o, "success")
        /\ Total("conflicts", o, "all") = Decided(o, "concurrency_conflict")
        /\ Total("canceled", o, "all") = Decided(o, "cancelled")
        /\ Total("timeout", o, "all") = Decided(o, "timeout")
        /\ Total("errors", o, "all") =
             Failures(o) + (IF o = "append" THEN Aborts(o) + Decided(o, "build_query") ELSE 0)
    BY DEF AccountInv, MeasurementsHaveCauses
  <2>4. /\ spans[<<o, "success">>] = Decided(o, "success")
        /\ spans[<<o, "concurrency_conflict">>] = Decided(o, "concurrency_conflict")
        /\ spans[<<o, "cancelled">>] = Decided(o, "cancelled")
        /\ spans[<<o, "timeout">>] = Decided(o, "timeout")
        /\ spans[<<o, "build_query">>] = Decided(o, "build_query")
        /\ spans[<<o, "database_query">>] = Decided(o, "database_query")
        /\ spans[<<o, "database_exec">>] = Decided(o, "database_exec")
        /\ spans[<<o, "scan_results">>] = Decided(o, "scan_results")
    BY QuietLaws DEF SpanStatuses
  <2>5. ErrorsReturned(o) = Failures(o) + Aborts(o)
    <3>1. ErrorsReturned(o) =
            Decided(o, "build_query") + Decided(o, "database_query") + Decided(o, "database_exec")
            + Decided(o, "scan_results") + Decided(o, "cancelled") + Decided(o, "timeout")
      BY <2>4 DEF AccountInv, SpansHaveResults
    <3>2. /\ Decided(o, "build_query") \in Nat /\ Decided(o, "database_query") \in Nat
          /\ Decided(o, "database_exec") \in Nat /\ Decided(o, "scan_results") \in Nat
          /\ Decided(o, "cancelled") \in Nat /\ Decided(o, "timeout") \in Nat
      BY AccountTyped DEF SpanStatuses
    <3> QED BY <3>1, <3>2 DEF Failures, Aborts
  <2>6. /\ Failures(o) \in Nat /\ Aborts(o) \in Nat /\ Decided(o, "build_query") \in Nat
        /\ Aborts(o) = Decided(o, "cancelled") + Decided(o, "timeout")
    BY AccountTyped DEF Failures, Aborts, SpanStatuses
  <2>7. o = "query" => Measured("errors", o) + Aborted(o) = ErrorsReturned(o)
    <3>1. Aborted(o) = Aborts(o)
      BY <2>2, <2>3, <2>6 DEF Aborted
    <3> QED BY <2>2, <2>3, <2>5, <2>6, <3>1
  <2>8. /\ spans[<<o, "success">>] = ended[<<o, "nil">>]
        /\ codes[<<o, "Ok">>] = ended[<<o, "nil">>]
        /\ codes[<<o, "Error">>] = ended[<<o, "conflict">>] + ErrorsReturned(o)
        /\ spans[<<o, "concurrency_conflict">>] = ended[<<o, "conflict">>]
        /\ spans[<<o, "cancelled">>] <= ended[<<o, "canceled">>]
        /\ spans[<<o, "timeout">>] <= ended[<<o, "timeout">>]
    BY DEF AccountInv, SpansHaveResults
  <2> QED BY <2>2, <2>3, <2>4, <2>7, <2>8
<1> QED BY <1>1, AccountInvariant, ObservabilityTypeCorrect, PTL

(* Whenever no call is under way, the logs account for the calls, and the  *)
(* two loggers differ where the code makes them differ only.               *)
THEOREM LogsAlwaysAgree == Spec => []LogsAgree
<1>1. TypeOK /\ AccountInv => LogsAgree
  <2> SUFFICES ASSUME TypeOK, AccountInv, Quiet, NEW o \in Ops
               PROVE  /\ \A g \in Loggers :
                           /\ Logged(g, o, "debug") + spans[<<o, "build_query">>] = begun[o]
                           /\ Logged(g, o, "info") = ended[<<o, "nil">>] + ended[<<o, "conflict">>]
                      /\ Logged("contextual", o, "error") + spans[<<o, "scan_results">>]
                           = ErrorsReturned(o)
                      /\ Logged("plain", o, "error") =
                           ErrorsReturned(o) + (IF o = "append" THEN spans[<<o, "build_query">>] ELSE 0)
    BY DEF LogsAgree, Logged
  <2>1. /\ \A x \in SpanStatuses : Decided(o, x) \in Nat
        /\ \A x \in SpanStatuses : spans[<<o, x>>] = Decided(o, x)
    BY AccountTyped, QuietLaws
  <2>2. /\ Decided(o, "build_query") \in Nat /\ Decided(o, "database_query") \in Nat
        /\ Decided(o, "database_exec") \in Nat /\ Decided(o, "scan_results") \in Nat
        /\ Decided(o, "cancelled") \in Nat /\ Decided(o, "timeout") \in Nat
    BY <2>1 DEF SpanStatuses
  <2>3. ErrorsReturned(o) = Failures(o) + Aborts(o)
    <3>1. ErrorsReturned(o) =
            Decided(o, "build_query") + Decided(o, "database_query") + Decided(o, "database_exec")
            + Decided(o, "scan_results") + Decided(o, "cancelled") + Decided(o, "timeout")
      BY <2>1 DEF AccountInv, SpansHaveResults, SpanStatuses
    <3> QED BY <2>2, <3>1 DEF Failures, Aborts
  <2>4. ASSUME NEW g \in Loggers
        PROVE  /\ Logged(g, o, "debug") + spans[<<o, "build_query">>] = begun[o]
               /\ Logged(g, o, "info") = ended[<<o, "nil">>] + ended[<<o, "conflict">>]
    <3>1. Logged(g, o, "debug") + Decided(o, "build_query")
            + Cardinality(In(o, {"build", "execution"})) = begun[o]
      BY DEF AccountInv, LinesHaveCauses
    <3>2. Cardinality(In(o, {"build", "execution"})) = 0
      BY QuietSums
    <3>3. Logged(g, o, "debug") \in Nat
      <4>1. <<g, o, "debug">> \in Loggers \X Ops \X Levels
        BY DEF Levels
      <4> QED BY <4>1 DEF TypeOK, Logged
    <3>4. Logged(g, o, "debug") + spans[<<o, "build_query">>] = begun[o]
      <4>1. spans[<<o, "build_query">>] = Decided(o, "build_query")
        BY <2>1 DEF SpanStatuses
      <4> QED BY <2>2, <3>1, <3>2, <3>3, <4>1
    <3>5. /\ Logged(g, o, "info") = Decided(o, "success") + Decided(o, "concurrency_conflict")
          /\ spans[<<o, "success">>] = ended[<<o, "nil">>]
          /\ spans[<<o, "concurrency_conflict">>] = ended[<<o, "conflict">>]
      BY DEF AccountInv, LinesHaveCauses, SpansHaveResults
    <3>6. /\ spans[<<o, "success">>] = Decided(o, "success")
          /\ spans[<<o, "concurrency_conflict">>] = Decided(o, "concurrency_conflict")
      BY <2>1 DEF SpanStatuses
    <3> QED BY <3>4, <3>5, <3>6
  <2>5. /\ Logged("contextual", o, "error") + Decided(o, "scan_results") = Failures(o) + Aborts(o)
        /\ Logged("plain", o, "error") =
             Failures(o) + Aborts(o) + (IF o = "append" THEN Decided(o, "build_query") ELSE 0)
    BY DEF AccountInv, LinesHaveCauses
  <2>6. /\ spans[<<o, "build_query">>] = Decided(o, "build_query")
        /\ spans[<<o, "scan_results">>] = Decided(o, "scan_results")
    BY <2>1 DEF SpanStatuses
  <2> QED BY <2>3, <2>4, <2>5, <2>6
<1> QED BY <1>1, AccountInvariant, ObservabilityTypeCorrect, PTL
=============================================================================
