--------------------------- MODULE EventFilterProofs ---------------------------
(***************************************************************************)
(* What sanitizing computes, for lists of any length: the elements that    *)
(* are not empty, each of them, in the order of their keys and, if every   *)
(* key belongs to one of them, each of them once.  Whatever is sorted or   *)
(* left out is described by InOrder, which puts the places that are kept   *)
(* in order; so one lemma about InOrder carries the others.                *)
(***************************************************************************)
EXTENDS EventFilter, FiniteSetTheorems, SequenceTheorems, WellFoundedInduction, TLAPS

(* The order InOrder puts places in. *)
Before(keys, i, j) == keys[i] < keys[j] \/ (keys[i] = keys[j] /\ i < j)
RankIn(I, keys, i) == Cardinality({j \in I : Before(keys, j, i)}) + 1

(* It is a strict and total order. *)
LEMMA BeforeIsTotal ==
  ASSUME NEW D \in SUBSET Nat, NEW keys \in [D -> Nat]
  PROVE  /\ \A i \in D : ~ Before(keys, i, i)
         /\ \A i, j \in D : i = j \/ Before(keys, i, j) \/ Before(keys, j, i)
         /\ \A i, j, k \in D : Before(keys, i, j) /\ Before(keys, j, k) => Before(keys, i, k)
<1>1. \A i \in D : i \in Nat /\ keys[i] \in Nat
  OBVIOUS
<1> QED BY <1>1 DEF Before

(* Ranks are numbers from 1 on, and grow with the order. *)
LEMMA RanksGrow ==
  ASSUME NEW D \in SUBSET Nat, NEW keys \in [D -> Nat], NEW I \in SUBSET D, IsFiniteSet(I)
  PROVE  /\ Cardinality(I) \in Nat
         /\ \A i \in I : RankIn(I, keys, i) \in 1..Cardinality(I)
         /\ \A i, j \in I : Before(keys, i, j) => RankIn(I, keys, i) < RankIn(I, keys, j)
<1> DEFINE Below(i) == {j \in I : Before(keys, j, i)}
<1>1. Cardinality(I) \in Nat
  BY FS_CardinalityType
<1>2. ASSUME NEW i \in I
      PROVE  IsFiniteSet(Below(i)) /\ Cardinality(Below(i)) \in Nat
  <2>1. Below(i) \in SUBSET I
    OBVIOUS
  <2> HIDE DEF Below
  <2> QED BY <2>1, FS_Subset, FS_CardinalityType
<1>3. ASSUME NEW i \in I
      PROVE  RankIn(I, keys, i) \in 1..Cardinality(I)
  <2>1. i \notin Below(i) /\ Below(i) \in SUBSET I
    BY BeforeIsTotal
  <2> DEFINE B == Below(i)
  <2>2. IsFiniteSet(B) /\ Cardinality(B) \in Nat /\ B \in SUBSET (I \ {i})
    BY <1>2, <2>1
  <2>3. IsFiniteSet(I \ {i}) /\ Cardinality(I \ {i}) = Cardinality(I) - 1
    BY FS_RemoveElement
  <2>4. RankIn(I, keys, i) = Cardinality(B) + 1
    BY DEF RankIn
  <2> HIDE DEF B
  <2>5. Cardinality(B) <= Cardinality(I \ {i})
    BY <2>2, <2>3, FS_Subset
  <2> QED BY <1>1, <2>2, <2>3, <2>4, <2>5
<1>4. ASSUME NEW i \in I, NEW j \in I, Before(keys, i, j)
      PROVE  RankIn(I, keys, i) < RankIn(I, keys, j)
  <2> DEFINE A == Below(i)
             B == Below(j)
  <2>1. i \notin A /\ A \cup {i} \in SUBSET B
    BY <1>4, BeforeIsTotal
  <2>2. /\ RankIn(I, keys, i) = Cardinality(A) + 1
        /\ RankIn(I, keys, j) = Cardinality(B) + 1
    BY DEF RankIn
  <2>3. IsFiniteSet(A) /\ IsFiniteSet(B) /\ Cardinality(A) \in Nat /\ Cardinality(B) \in Nat
    BY <1>2
  <2> HIDE DEF A, B
  <2>4. Cardinality(A \cup {i}) = Cardinality(A) + 1
    BY <2>1, <2>3, FS_AddElement
  <2>5. Cardinality(A \cup {i}) <= Cardinality(B)
    BY <2>1, <2>3, FS_Subset
  <2> QED BY <2>2, <2>3, <2>4, <2>5
<1> QED BY <1>1, <1>3, <1>4

(* The place that InOrder puts first, second and so on: each place of I    *)
(* has its turn, once, and later places do not come before earlier ones.   *)
Turn(I, keys) == [n \in 1..Cardinality(I) |-> CHOOSE i \in I : RankIn(I, keys, i) = n]

LEMMA PlacesTakeTurns ==
  ASSUME NEW D \in SUBSET Nat, NEW keys \in [D -> Nat], NEW I \in SUBSET D, IsFiniteSet(I)
  PROVE  /\ Turn(I, keys) \in [1..Cardinality(I) -> I]
         /\ \A i \in I : \E n \in 1..Cardinality(I) : Turn(I, keys)[n] = i
         /\ \A m, n \in 1..Cardinality(I) : m < n =>
              Before(keys, Turn(I, keys)[m], Turn(I, keys)[n])
<1> DEFINE c == Cardinality(I)
           rank == [i \in I |-> RankIn(I, keys, i)]
           turn == Turn(I, keys)
<1>1. /\ c \in Nat /\ rank \in [I -> 1..c]
      /\ \A i, j \in I : Before(keys, i, j) => rank[i] < rank[j]
  BY RanksGrow
<1>2. \A i, j \in I : Before(keys, i, j) \/ Before(keys, j, i) \/ i = j
  BY BeforeIsTotal
<1>3. \A i \in I : rank[i] \in Nat
  BY <1>1
<1>4. turn = [n \in 1..c |-> CHOOSE i \in I : rank[i] = n]
  BY DEF Turn
<1> HIDE DEF rank, turn
<1>5. rank \in Injection(I, 1..c)
  BY <1>1, <1>2, <1>3 DEF Injection, IsInjective
<1>6. IsFiniteSet(1..c) /\ Cardinality(1..c) = c
  BY <1>1, FS_Interval
<1>7. rank \in Surjection(I, 1..c)
  <2> HIDE DEF c
  <2> QED BY <1>5, <1>6, FS_Injection DEF c
<1> HIDE DEF c
<1>8. \A n \in 1..c : \E i \in I : rank[i] = n
  BY <1>7 DEF Surjection
<1>9. \A n \in 1..c : turn[n] \in I /\ rank[turn[n]] = n
  BY <1>4, <1>8
<1>10. turn \in [1..c -> I]
  BY <1>4, <1>9
<1>11. ASSUME NEW i \in I PROVE \E n \in 1..c : turn[n] = i
  <2>1. rank[i] \in 1..c /\ rank[turn[rank[i]]] = rank[i]
    BY <1>1, <1>9
  <2>2. turn[rank[i]] = i
    BY <1>5, <1>9, <2>1 DEF Injection, IsInjective
  <2> QED BY <2>1, <2>2
<1>12. ASSUME NEW m \in 1..c, NEW n \in 1..c, m < n PROVE Before(keys, turn[m], turn[n])
  <2>1. turn[m] \in I /\ turn[n] \in I /\ rank[turn[m]] = m /\ rank[turn[n]] = n
    BY <1>9
  <2>2. ~ (n < m) /\ m # n
    BY <1>1, <1>12
  <2> QED BY <1>1, <1>2, <2>1, <2>2
<1> QED BY <1>10, <1>11, <1>12 DEF c, turn

LEMMA FunctionIsSeq ==
  ASSUME NEW T, NEW c \in Nat, NEW q \in [1..c -> T]
  PROVE  q \in Seq(T) /\ DOMAIN q = 1..c /\ Len(q) = c
<1>1. q \in Seq(T)
  BY SeqDef
<1> QED BY <1>1

(* What InOrder returns. *)
LEMMA InOrderProperties ==
  ASSUME NEW T, NEW s \in Seq(T), NEW keys \in [DOMAIN s -> Nat], NEW I \in SUBSET DOMAIN s
  PROVE  /\ Cardinality(I) \in Nat /\ DOMAIN s \in SUBSET Nat
         /\ InOrder(s, I, keys) \in Seq(T)
         /\ DOMAIN InOrder(s, I, keys) = 1..Cardinality(I)
         /\ Turn(I, keys) \in [1..Cardinality(I) -> I]
         /\ \A n \in 1..Cardinality(I) : InOrder(s, I, keys)[n] = s[Turn(I, keys)[n]]
         /\ \A m, n \in 1..Cardinality(I) : m < n =>
              Before(keys, Turn(I, keys)[m], Turn(I, keys)[n])
         /\ ToSet(InOrder(s, I, keys)) = {s[i] : i \in I}
<1> DEFINE D == DOMAIN s
           c == Cardinality(I)
           turn == Turn(I, keys)
           q == InOrder(s, I, keys)
<1>1. D \in SUBSET Nat /\ IsFiniteSet(D) /\ \A i \in D : s[i] \in T
  <2>1. Len(s) \in Nat /\ D = 1..Len(s)
    OBVIOUS
  <2> QED BY <2>1, FS_Interval
<1>2. IsFiniteSet(I) /\ c \in Nat
  BY <1>1, FS_Subset, FS_CardinalityType
<1>3. /\ turn \in [1..c -> I]
      /\ \A i \in I : \E n \in 1..c : turn[n] = i
      /\ \A m, n \in 1..c : m < n => Before(keys, turn[m], turn[n])
  <2> HIDE DEF D
  <2> QED BY <1>1, <1>2, PlacesTakeTurns DEF D
<1>4. q = [n \in 1..c |-> s[turn[n]]]
  BY DEF InOrder, Turn, RankIn, Before
<1> HIDE DEF q, turn, c, D
<1>5. \A n \in 1..c : q[n] = s[turn[n]] /\ turn[n] \in I /\ q[n] \in T
  BY <1>1, <1>3, <1>4 DEF D
<1>6. q \in [1..c -> T]
  BY <1>4, <1>5
<1>7. q \in Seq(T) /\ DOMAIN q = 1..c
  BY <1>2, <1>6, FunctionIsSeq
<1>8. ToSet(q) = {s[i] : i \in I}
  <2>1. ToSet(q) = {q[n] : n \in 1..c}
    BY <1>7 DEF ToSet
  <2> QED BY <1>3, <1>5, <2>1
<1> QED BY <1>1, <1>2, <1>3, <1>5, <1>7, <1>8 DEF q, turn, c, D

-----------------------------------------------------------------------------
(* Leaving out places keeps the order of the others.                       *)
LEMMA OnlyProperties ==
  ASSUME NEW T, NEW s \in Seq(T), NEW I \in SUBSET DOMAIN s
  PROVE  /\ Only(s, I) \in Seq(T)
         /\ ToSet(Only(s, I)) = {s[i] : i \in I}
         /\ \E turn \in [DOMAIN Only(s, I) -> I] :
              /\ \A n \in DOMAIN Only(s, I) : Only(s, I)[n] = s[turn[n]]
              /\ \A m, n \in DOMAIN Only(s, I) : m < n => turn[m] < turn[n]
<1> DEFINE keys == [i \in DOMAIN s |-> i]
<1>1. keys \in [DOMAIN s -> Nat] /\ \A i \in DOMAIN s : i \in Nat /\ keys[i] = i
  OBVIOUS
<1>2. Only(s, I) = InOrder(s, I, keys)
  BY DEF Only
<1> HIDE DEF keys
<1>3. /\ InOrder(s, I, keys) \in Seq(T)
      /\ DOMAIN InOrder(s, I, keys) = 1..Cardinality(I)
      /\ Turn(I, keys) \in [1..Cardinality(I) -> I]
      /\ \A n \in 1..Cardinality(I) : InOrder(s, I, keys)[n] = s[Turn(I, keys)[n]]
      /\ \A m, n \in 1..Cardinality(I) : m < n =>
           Before(keys, Turn(I, keys)[m], Turn(I, keys)[n])
      /\ ToSet(InOrder(s, I, keys)) = {s[i] : i \in I}
  BY <1>1, InOrderProperties
<1> DEFINE turn == Turn(I, keys)
<1> HIDE DEF turn
<1>4. \A m, n \in 1..Cardinality(I) : m < n => turn[m] < turn[n]
  <2> SUFFICES ASSUME NEW m \in 1..Cardinality(I), NEW n \in 1..Cardinality(I), m < n
               PROVE  turn[m] < turn[n]
    OBVIOUS
  <2>1. turn[m] \in DOMAIN s /\ turn[n] \in DOMAIN s /\ Before(keys, turn[m], turn[n])
    BY <1>3 DEF turn
  <2> QED BY <1>1, <2>1 DEF Before
<1> QED BY <1>2, <1>3, <1>4 DEF turn

(* Sorting keeps all elements. *)
LEMMA SortedByProperties ==
  ASSUME NEW T, NEW s \in Seq(T), NEW key \in [T -> Nat],
         NEW keys \in [DOMAIN s -> Nat], \A i \in DOMAIN s : keys[i] = key[s[i]]
  PROVE  /\ SortedBy(s, keys) \in Seq(T)
         /\ ToSet(SortedBy(s, keys)) = ToSet(s)
         /\ \A m, n \in DOMAIN SortedBy(s, keys) :
              m < n => key[SortedBy(s, keys)[m]] <= key[SortedBy(s, keys)[n]]
<1> DEFINE I == DOMAIN s
           turn == Turn(I, keys)
<1>1. \A i \in DOMAIN s : keys[i] = key[s[i]] /\ keys[i] \in Nat
  OBVIOUS
<1>2. SortedBy(s, keys) = InOrder(s, I, keys) /\ I \in SUBSET DOMAIN s
  BY DEF SortedBy
<1>3. ToSet(s) = {s[i] : i \in I}
  BY DEF ToSet
<1> HIDE DEF I
<1>4. /\ InOrder(s, I, keys) \in Seq(T)
      /\ DOMAIN InOrder(s, I, keys) = 1..Cardinality(I)
      /\ turn \in [1..Cardinality(I) -> I]
      /\ \A n \in 1..Cardinality(I) : InOrder(s, I, keys)[n] = s[turn[n]]
      /\ \A m, n \in 1..Cardinality(I) : m < n => Before(keys, turn[m], turn[n])
      /\ ToSet(InOrder(s, I, keys)) = {s[i] : i \in I}
  BY ONLY s \in Seq(T), keys \in [DOMAIN s -> Nat], <1>2, InOrderProperties
<1> HIDE DEF turn
<1>5. \A m, n \in 1..Cardinality(I) : m < n =>
        key[InOrder(s, I, keys)[m]] <= key[InOrder(s, I, keys)[n]]
  <2> SUFFICES ASSUME NEW m \in 1..Cardinality(I), NEW n \in 1..Cardinality(I), m < n
               PROVE  key[InOrder(s, I, keys)[m]] <= key[InOrder(s, I, keys)[n]]
    OBVIOUS
  <2>1. /\ turn[m] \in DOMAIN s /\ turn[n] \in DOMAIN s /\ Before(keys, turn[m], turn[n])
        /\ InOrder(s, I, keys)[m] = s[turn[m]] /\ InOrder(s, I, keys)[n] = s[turn[n]]
    BY <1>2, <1>4
  <2> QED BY <1>1, <2>1 DEF Before
<1> QED BY <1>2, <1>3, <1>4, <1>5

(* The first place of an element: Compact keeps it. *)
LEMMA FirstPlace ==
  ASSUME NEW T, NEW s \in Seq(T), NEW i \in DOMAIN s
  PROVE  \E j \in DOMAIN s : s[j] = s[i] /\ (j = 1 \/ s[j] # s[j - 1])
<1> DEFINE U == {j \in DOMAIN s : s[j] = s[i]}
<1>1. DOMAIN s = 1..Len(s) /\ Len(s) \in Nat /\ DOMAIN s \in SUBSET Nat
  OBVIOUS
<1>2. U \subseteq Nat /\ U # {}
  BY <1>1
<1>3. \E x \in U : \A y \in U : ~ (<<y, x>> \in OpToRel(<, Nat))
  <2> HIDE DEF U
  <2> QED BY <1>2, NatLessThanWellFounded, WFMin
<1>4. PICK x \in U : \A y \in U : ~ (<<y, x>> \in OpToRel(<, Nat))
  BY <1>3
<1>5. x \in DOMAIN s /\ s[x] = s[i] /\ x \in Nat \ {0}
  BY <1>1
<1>6. ASSUME x # 1, s[x - 1] = s[x] PROVE FALSE
  <2>1. x - 1 \in DOMAIN s /\ x - 1 \in Nat /\ x - 1 < x
    BY <1>1, <1>5, <1>6
  <2>2. x - 1 \in U
    BY <1>5, <1>6, <2>1
  <2>3. <<x - 1, x>> \in OpToRel(<, Nat)
    BY <1>5, <2>1 DEF OpToRel
  <2> QED BY <1>4, <2>2, <2>3
<1> QED BY <1>5, <1>6

(* Compact loses no element, and no two of the same key stay if elements   *)
(* of the same key are the same and stand together.                        *)
LEMMA CompactProperties ==
  ASSUME NEW T, NEW s \in Seq(T)
  PROVE  /\ Compact(s) \in Seq(T)
         /\ ToSet(Compact(s)) = ToSet(s)
         /\ \A key \in [T -> Nat] :
              (/\ \A m, n \in DOMAIN s : m < n => key[s[m]] <= key[s[n]]
               /\ \A x, y \in ToSet(s) : key[x] = key[y] => x = y)
              => \A m, n \in DOMAIN Compact(s) : m < n => key[Compact(s)[m]] < key[Compact(s)[n]]
<1> DEFINE I == {i \in DOMAIN s : i = 1 \/ s[i] # s[i - 1]}
           q == Only(s, I)
<1>1. q = Compact(s) /\ I \in SUBSET DOMAIN s
  BY DEF Compact
<1>2. \A i \in DOMAIN s : \E j \in I : s[j] = s[i]
  BY FirstPlace
<1>3. \A i \in I : i \in DOMAIN s /\ (i = 1 \/ s[i] # s[i - 1])
  OBVIOUS
<1> HIDE DEF I
<1>4. /\ q \in Seq(T) /\ ToSet(q) = {s[i] : i \in I}
      /\ \E turn \in [DOMAIN q -> I] :
           /\ \A n \in DOMAIN q : q[n] = s[turn[n]]
           /\ \A m, n \in DOMAIN q : m < n => turn[m] < turn[n]
  BY <1>1, OnlyProperties
<1>5. ToSet(q) = ToSet(s)
  <2>1. ToSet(s) = {s[i] : i \in DOMAIN s}
    BY DEF ToSet
  <2> HIDE DEF q
  <2> QED BY <1>1, <1>2, <1>4, <2>1
<1>6. ASSUME NEW key \in [T -> Nat],
             \A m, n \in DOMAIN s : m < n => key[s[m]] <= key[s[n]],
             \A x, y \in ToSet(s) : key[x] = key[y] => x = y,
             NEW m \in DOMAIN q, NEW n \in DOMAIN q, m < n
      PROVE  key[q[m]] < key[q[n]]
  <2> HIDE DEF q
  <2>1. PICK turn \in [DOMAIN q -> I] :
          /\ \A k \in DOMAIN q : q[k] = s[turn[k]]
          /\ \A k, l \in DOMAIN q : k < l => turn[k] < turn[l]
    BY <1>4
  <2> DEFINE a == turn[m]
             b == turn[n]
  <2>2. a \in I /\ b \in I /\ a < b /\ q[m] = s[a] /\ q[n] = s[b]
    BY <1>6, <2>1
  <2> HIDE DEF a, b
  <2>3. a \in DOMAIN s /\ b \in DOMAIN s /\ b # 1 /\ b - 1 \in DOMAIN s /\ s[b] # s[b - 1]
        /\ (a = b - 1 \/ a < b - 1) /\ b - 1 < b
    <3>1. DOMAIN s = 1..Len(s) /\ Len(s) \in Nat
      OBVIOUS
    <3> QED BY <1>3, <2>2, <3>1
  <2>4. key[s[a]] <= key[s[b - 1]] /\ key[s[b - 1]] <= key[s[b]]
        /\ key[s[a]] \in Nat /\ key[s[b - 1]] \in Nat /\ key[s[b]] \in Nat
    <3>1. s[a] \in T /\ s[b - 1] \in T /\ s[b] \in T
      BY <2>3
    <3>2. key[s[a]] \in Nat /\ key[s[b - 1]] \in Nat /\ key[s[b]] \in Nat
      BY <3>1
    <3> QED BY <1>6, <2>3, <3>2
  <2>5. key[s[b - 1]] # key[s[b]]
    BY <1>6, <2>3 DEF ToSet
  <2> QED BY <2>2, <2>4, <2>5
<1> QED BY <1>1, <1>4, <1>5, <1>6

-----------------------------------------------------------------------------
(* Event types are their own keys. *)
LEMMA SortedTypes ==
  ASSUME NEW kept \in Seq(EventTypes)
  PROVE  /\ SortedBy(kept, kept) \in Seq(EventTypes)
         /\ ToSet(SortedBy(kept, kept)) = ToSet(kept)
         /\ \A m, n \in DOMAIN SortedBy(kept, kept) :
              m < n => SortedBy(kept, kept)[m] <= SortedBy(kept, kept)[n]
<1> DEFINE key == [x \in EventTypes |-> x]
<1>1. key \in [EventTypes -> Nat] /\ \A x \in EventTypes : key[x] = x
  BY DEF EventTypes
<1> HIDE DEF key
<1>2. ASSUME NEW keys \in [DOMAIN kept -> Nat], \A i \in DOMAIN kept : keys[i] = key[kept[i]]
      PROVE  /\ SortedBy(kept, keys) \in Seq(EventTypes)
             /\ ToSet(SortedBy(kept, keys)) = ToSet(kept)
             /\ \A m, n \in DOMAIN SortedBy(kept, keys) :
                  m < n => key[SortedBy(kept, keys)[m]] <= key[SortedBy(kept, keys)[n]]
  BY <1>1, <1>2, SortedByProperties
<1>3. kept \in [DOMAIN kept -> Nat] /\ \A i \in DOMAIN kept : kept[i] = key[kept[i]]
  BY <1>1 DEF EventTypes
<1>4. /\ SortedBy(kept, kept) \in Seq(EventTypes)
      /\ ToSet(SortedBy(kept, kept)) = ToSet(kept)
      /\ \A m, n \in DOMAIN SortedBy(kept, kept) :
           m < n => key[SortedBy(kept, kept)[m]] <= key[SortedBy(kept, kept)[n]]
  BY <1>2, <1>3, Zenon
<1>5. \A n \in DOMAIN SortedBy(kept, kept) : key[SortedBy(kept, kept)[n]] = SortedBy(kept, kept)[n]
  BY <1>1, <1>4
<1> QED BY <1>4, <1>5

(* The event types of an item are those it was given and that are not      *)
(* empty, in strictly increasing order.                                    *)
LEMMA SanitizedTypes ==
  ASSUME NEW types \in Seq(EventTypes)
  PROVE  /\ SanitizeEventTypes(types) \in Seq(EventTypes)
         /\ ToSet(SanitizeEventTypes(types)) = ToSet(types) \ {Empty}
         /\ \A m, n \in DOMAIN SanitizeEventTypes(types) :
              m < n => SanitizeEventTypes(types)[m] < SanitizeEventTypes(types)[n]
<1> DEFINE I == {i \in DOMAIN types : types[i] # Empty}
           kept == NonemptyTypes(types)
           sorted == SortedBy(kept, kept)
           key == [x \in EventTypes |-> x]
           q == Compact(sorted)
<1>1. kept = Only(types, I) /\ I \in SUBSET DOMAIN types
  BY DEF NonemptyTypes
<1>2. {types[i] : i \in I} = ToSet(types) \ {Empty}
  BY DEF ToSet
<1> HIDE DEF I
<1>3. kept \in Seq(EventTypes) /\ ToSet(kept) = ToSet(types) \ {Empty}
  <2> HIDE DEF kept
  <2> QED BY <1>1, <1>2, OnlyProperties
<1>4. SanitizeEventTypes(types) = q
  BY DEF SanitizeEventTypes
<1> HIDE DEF kept
<1>5. /\ sorted \in Seq(EventTypes) /\ ToSet(sorted) = ToSet(kept)
      /\ \A m, n \in DOMAIN sorted : m < n => sorted[m] <= sorted[n]
  BY <1>3, SortedTypes
<1> HIDE DEF sorted, q
<1>6. key \in [EventTypes -> Nat] /\ \A x \in EventTypes : key[x] = x
  BY DEF EventTypes
<1> HIDE DEF key
<1>7. \A x \in ToSet(sorted) : key[x] = x
  BY <1>5, <1>6 DEF ToSet
<1>8. \A m, n \in DOMAIN sorted : m < n => key[sorted[m]] <= key[sorted[n]]
  BY <1>5, <1>7 DEF ToSet
<1>9. /\ q \in Seq(EventTypes) /\ ToSet(q) = ToSet(sorted)
      /\ \A m, n \in DOMAIN q : m < n => key[q[m]] < key[q[n]]
  BY <1>5, <1>6, <1>7, <1>8, CompactProperties DEF q
<1>10. \A n \in DOMAIN q : key[q[n]] = q[n]
  BY <1>6, <1>9
<1> QED BY <1>3, <1>4, <1>5, <1>9, <1>10

(* The predicates of an item are those it was given with a key and a       *)
(* value, in the order of their keys, and each of them once if no key has  *)
(* two values.                                                             *)
Usable(preds) == {p \in ToSet(preds) : p.key # Empty /\ p.val # Empty}

LEMMA SanitizedPredicates ==
  ASSUME NEW preds \in Seq(Predicates)
  PROVE  /\ SanitizePredicates(preds) \in Seq(Predicates)
         /\ ToSet(SanitizePredicates(preds)) = Usable(preds)
         /\ (\A x, y \in Usable(preds) : x.key = y.key => x = y) =>
              \A m, n \in DOMAIN SanitizePredicates(preds) :
                m < n => SanitizePredicates(preds)[m].key < SanitizePredicates(preds)[n].key
<1> DEFINE I == {i \in DOMAIN preds : preds[i].key # Empty /\ preds[i].val # Empty}
           kept == Only(preds, I)
           keys == [i \in DOMAIN kept |-> kept[i].key]
           sorted == SortedBy(kept, keys)
           key == [x \in Predicates |-> x.key]
           q == SanitizePredicates(preds)
<1>1. kept = Only(preds, I) /\ I \in SUBSET DOMAIN preds
  OBVIOUS
<1>2. {preds[i] : i \in I} = Usable(preds)
  BY DEF ToSet, Usable
<1>3. q = Compact(sorted)
  BY DEF SanitizePredicates
<1> HIDE DEF I
<1> HIDE DEF kept
<1>4. kept \in Seq(Predicates) /\ ToSet(kept) = Usable(preds)
  <2>1. I \in SUBSET DOMAIN preds
    BY <1>1
  <2>2. Only(preds, I) \in Seq(Predicates)
    BY <2>1, OnlyProperties
  <2>3. ToSet(Only(preds, I)) = {preds[i] : i \in I}
    BY <2>1, OnlyProperties
  <2> QED BY <1>1, <1>2, <2>2, <2>3
<1>5. key \in [Predicates -> Nat] /\ \A x \in Predicates : key[x] = x.key
  BY DEF Predicates
<1> HIDE DEF key
<1>6. keys \in [DOMAIN kept -> Nat] /\ \A i \in DOMAIN kept : keys[i] = key[kept[i]]
  BY <1>4, <1>5
<1> HIDE DEF keys
<1>7. /\ sorted \in Seq(Predicates) /\ ToSet(sorted) = ToSet(kept)
      /\ \A m, n \in DOMAIN sorted : m < n => key[sorted[m]] <= key[sorted[n]]
  BY ONLY <1>4, <1>5, <1>6, SortedByProperties
<1> HIDE DEF sorted, q
<1>8. q \in Seq(Predicates) /\ ToSet(q) = Usable(preds)
  BY <1>3, <1>4, <1>7, CompactProperties
<1>9. ASSUME \A x, y \in Usable(preds) : x.key = y.key => x = y
      PROVE  \A m, n \in DOMAIN q : m < n => q[m].key < q[n].key
  <2>1. \A x, y \in ToSet(sorted) : key[x] = key[y] => x = y
    <3>1. ToSet(sorted) \subseteq Predicates
      BY <1>7 DEF ToSet
    <3> QED BY <1>4, <1>5, <1>7, <1>9, <3>1
  <2>2. \A m, n \in DOMAIN q : m < n => key[q[m]] < key[q[n]]
    BY <1>3, <1>5, <1>7, <2>1, CompactProperties
  <2>3. \A n \in DOMAIN q : key[q[n]] = q[n].key
    BY <1>5, <1>8
  <2> QED BY <2>2, <2>3
<1> QED BY <1>8, <1>9 DEF q
=============================================================================
