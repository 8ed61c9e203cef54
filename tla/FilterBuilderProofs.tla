------------------------- MODULE FilterBuilderProofs -------------------------
(***************************************************************************)
(* Proofs about the builder, for any number of variables, any arguments    *)
(* and any order of calls: first about its memory, where it does not       *)
(* matter what is in the items, then about what the items mean.            *)
(***************************************************************************)
EXTENDS FilterInvariants, EventFilterProofs

(* A sequence of whatever elements. *)
IsSeq(s) == \E S : s \in Seq(S)

(* The fields of a builder and of a filter, whatever their values. *)
Builder(Values) ==
  [stage : Values, items : Values, item : Values, from : Values, until : Values,
   after : Values, wanted : Values, meant : Values]

IsBuilder(b) == \E Values : b \in Builder(Values)

Filter(Values) ==
  [stage : Values, items : Values, from : Values, until : Values, after : Values,
   meant : Values]

IsFilter(f) == \E Values : f \in Filter(Values)

(* The slice of a builder or a filter is in memory, as long as what was    *)
(* asked for.                                                              *)
Holds(x) == IsSlice(x.items) /\ IsSeq(x.meant) /\ x.items.len = Len(x.meant)

(* A builder on which nothing has been called has no items. *)
Unstarted(b) == b.stage = "builder" => b.items = NilSlice

MemoryInv ==
  /\ arrays = [a \in Arrays |-> arrays[a]]
  /\ \A a \in Arrays : IsSeq(arrays[a])
  /\ builders = [s \in Slots |-> builders[s]]
  /\ filters = [s \in Slots |-> filters[s]]
  /\ \A s \in Slots : IsBuilder(builders[s]) /\ Holds(builders[s]) /\ Unstarted(builders[s])
  /\ \A s \in Slots : filters[s] # None => IsFilter(filters[s]) /\ Holds(filters[s])

-----------------------------------------------------------------------------
(* There are more arrays than can be reached: append finds a new one. *)
LEMMA ArraysSuffice == NewArray \in Arrays /\ NewArray \notin Reachable
<1> DEFINE n == Cardinality(Slots)
           full == {t \in Slots : filters[t] # None}
           ofBuilders == {builders[s].items.array : s \in Slots}
           ofFilters == {filters[s].items.array : s \in full}
<1>1. IsFiniteSet(Slots) /\ n \in Nat
  BY BuilderAssumption, FS_CardinalityType
<1>2. IsFiniteSet(full) /\ Cardinality(full) <= n
  BY <1>1, FS_Subset
<1>3. IsFiniteSet(ofBuilders) /\ Cardinality(ofBuilders) <= n
  <2> DEFINE f == [s \in Slots |-> builders[s].items.array]
  <2>1. f \in Surjection(Slots, ofBuilders)
    BY DEF Surjection
  <2> HIDE DEF f, ofBuilders
  <2> QED BY <1>1, <2>1, FS_Surjection
<1>4. IsFiniteSet(ofFilters) /\ Cardinality(ofFilters) <= Cardinality(full)
  <2> DEFINE f == [s \in full |-> filters[s].items.array]
  <2> HIDE DEF full
  <2>1. f \in Surjection(full, ofFilters)
    BY DEF Surjection
  <2> HIDE DEF f, ofFilters
  <2> QED BY <1>2, <2>1, FS_Surjection
<1>5. IsFiniteSet(Reachable) /\ Cardinality(Reachable) <= 2 * n
  <2>1. Reachable = ofBuilders \cup ofFilters
    BY DEF Reachable
  <2>2. Cardinality(ofBuilders \cap ofFilters) \in Nat
    BY <1>3, FS_Subset, FS_CardinalityType, ofBuilders \cap ofFilters \in SUBSET ofBuilders
  <2>3. Cardinality(ofBuilders) \in Nat /\ Cardinality(ofFilters) \in Nat
        /\ Cardinality(full) \in Nat
    BY <1>2, <1>3, <1>4, FS_CardinalityType
  <2> HIDE DEF ofBuilders, ofFilters, full, n
  <2>4. /\ IsFiniteSet(ofBuilders \cup ofFilters)
        /\ Cardinality(ofBuilders \cup ofFilters) =
             Cardinality(ofBuilders) + Cardinality(ofFilters)
             - Cardinality(ofBuilders \cap ofFilters)
    BY <1>3, <1>4, FS_Union
  <2> QED BY <1>1, <1>2, <1>3, <1>4, <2>1, <2>2, <2>3, <2>4
<1>6. Cardinality(Arrays) = 2 * n + 1
  BY <1>1, FS_Interval DEF Arrays
<1>7. ~ (Arrays \subseteq Reachable)
  <2>1. SUFFICES ASSUME Arrays \subseteq Reachable PROVE FALSE
    OBVIOUS
  <2>2. Cardinality(Arrays) <= Cardinality(Reachable)
    BY <1>5, <2>1, FS_Subset
  <2>3. Cardinality(Reachable) \in Nat
    BY <1>5, FS_CardinalityType
  <2> HIDE DEF n
  <2> QED BY <1>1, <1>5, <1>6, <2>2, <2>3
<1> QED BY <1>7 DEF NewArray

(* Sequences of whatever elements. *)
LEMMA SeqFacts ==
  ASSUME NEW s, IsSeq(s), NEW e
  PROVE  /\ Len(s) \in Nat
         /\ IsSeq(Append(s, e)) /\ Len(Append(s, e)) = Len(s) + 1
         /\ \A i \in 1..Len(s) : /\ IsSeq([s EXCEPT ![i] = e])
                                 /\ Len([s EXCEPT ![i] = e]) = Len(s)
<1>1. PICK S : s \in Seq(S)
  BY DEF IsSeq
<1> DEFINE T == S \cup {e}
<1>2. s \in Seq(T) /\ e \in T
  BY <1>1
<1>3. Append(s, e) \in Seq(T) /\ Len(Append(s, e)) = Len(s) + 1 /\ Len(s) \in Nat
  BY <1>2
<1>4. \A i \in 1..Len(s) : [s EXCEPT ![i] = e] \in Seq(T) /\ Len([s EXCEPT ![i] = e]) = Len(s)
  BY <1>2
<1> HIDE DEF T
<1> QED BY <1>3, <1>4 DEF IsSeq

(* As many items can be read through a slice as it is long. *)
LEMMA ItemsOfSlice ==
  ASSUME MemoryInv, NEW slice, IsSlice(slice)
  PROVE  /\ slice.len \in Nat
         /\ IsSeq(Items(slice)) /\ DOMAIN Items(slice) = 1..slice.len
<1>1. CASE slice = NilSlice
  <2>1. Items(slice) = << >> /\ slice.len = 0
    BY <1>1 DEF Items, NilSlice
  <2>2. << >> \in Seq({}) /\ DOMAIN << >> = 1..0
    OBVIOUS
  <2> QED BY <2>1, <2>2 DEF IsSeq
<1>2. CASE slice # NilSlice
  <2>1. slice.array \in Arrays /\ slice.len \in 1..Len(arrays[slice.array])
    BY <1>2 DEF IsSlice, MemoryInv
  <2>2. PICK S : arrays[slice.array] \in Seq(S)
    BY <2>1 DEF MemoryInv, IsSeq
  <2>3. /\ SubSeq(arrays[slice.array], 1, slice.len) \in Seq(S)
        /\ Len(SubSeq(arrays[slice.array], 1, slice.len)) = slice.len
    BY <2>1, <2>2, SubSeqProperties
  <2>4. slice.array # 0 /\ slice.len \in Nat
    BY <2>1 DEF Arrays
  <2>5. Items(slice) = SubSeq(arrays[slice.array], 1, slice.len)
    BY <2>4 DEF Items
  <2> HIDE DEF Items
  <2>6. DOMAIN Items(slice) = 1..slice.len
    BY <2>3, <2>5
  <2> QED BY <2>3, <2>4, <2>5, <2>6 DEF IsSeq
<1> QED BY <1>1, <1>2

(* append without room: what was there, the new item and room to double.   *)
LEMMA GrownLength ==
  ASSUME MemoryInv, NEW slice, IsSlice(slice), NEW item
  PROVE  /\ IsSeq(Grown(slice, item))
         /\ Len(Grown(slice, item)) = IF slice.len = 0 THEN 1 ELSE 2 * slice.len
         /\ slice.len \in Nat
<1> DEFINE size == IF slice.len = 0 THEN 1 ELSE 2 * slice.len
           room == [i \in 1..size - slice.len - 1 |-> NewItem]
<1>1. slice.len \in Nat /\ IsSeq(Items(slice)) /\ DOMAIN Items(slice) = 1..slice.len
  BY ItemsOfSlice
<1>2. PICK S : Items(slice) \in Seq(S) /\ Len(Items(slice)) = slice.len
  <2>1. PICK S : Items(slice) \in Seq(S)
    BY <1>1 DEF IsSeq
  <2>2. Len(Items(slice)) = slice.len
    BY <1>1, <2>1
  <2> QED BY <2>1, <2>2
<1> DEFINE T == S \cup {item, NewItem}
<1>3. size - slice.len - 1 \in Nat /\ size \in Nat
  BY <1>1
<1>4. Items(slice) \in Seq(T) /\ <<item>> \in Seq(T)
  BY <1>2
<1>5. room \in Seq(T) /\ Len(room) = size - slice.len - 1
  BY <1>3
<1> HIDE DEF T, room
<1>6. Items(slice) \o <<item>> \in Seq(T) /\ Len(Items(slice) \o <<item>>) = slice.len + 1
  BY <1>1, <1>2, <1>4
<1> DEFINE front == Items(slice) \o <<item>>
<1> HIDE DEF front
<1>7. front \o room \in Seq(T) /\ Len(front \o room) = Len(front) + Len(room)
  BY <1>5, <1>6 DEF front
<1>8. Len(front \o room) = size
  BY <1>1, <1>3, <1>5, <1>6, <1>7 DEF front
<1> QED BY <1>1, <1>7, <1>8 DEF IsSeq, Grown, front, room

(* What append does to the memory: the arrays in use keep their length,    *)
(* the result is a slice, and only append with room touches what others    *)
(* may read.                                                               *)
LEMMA AppendKeepsMemory ==
  ASSUME MemoryInv, NEW slice, IsSlice(slice), NEW item, arrays' = AppendedTo(slice, item)
  PROVE  /\ arrays' = [a \in Arrays |-> arrays'[a]]
         /\ \A a \in Arrays : IsSeq(arrays'[a])
         /\ \A a \in Arrays \cap Reachable : Len(arrays'[a]) = Len(arrays[a])
         /\ slice.len \in Nat /\ Longer(slice).len = slice.len + 1
         /\ Longer(slice).array \in Arrays
         /\ Longer(slice).len \in 1..Len(arrays'[Longer(slice).array])
         /\ ~HasRoom(slice) =>
              /\ \A a \in Arrays \cap Reachable : arrays'[a] = arrays[a]
              /\ Longer(slice).array \notin Reachable
              /\ Len(arrays'[Longer(slice).array]) = IF slice.len = 0 THEN 1 ELSE 2 * slice.len
<1>1. slice.len \in Nat /\ IsSeq(Grown(slice, item))
      /\ Len(Grown(slice, item)) = IF slice.len = 0 THEN 1 ELSE 2 * slice.len
  BY GrownLength
<1>2. NewArray \in Arrays /\ NewArray \notin Reachable
  BY ArraysSuffice
<1>3. DOMAIN arrays = Arrays /\ \A a \in Arrays : IsSeq(arrays[a]) /\ Len(arrays[a]) \in Nat
  BY SeqFacts DEF MemoryInv
<1>4. CASE HasRoom(slice)
  <2>1. slice.array \in Arrays /\ slice.len + 1 \in 1..Len(arrays[slice.array])
    BY <1>1, <1>3, <1>4 DEF HasRoom, Capacity, IsSlice, NilSlice
  <2> DEFINE changed == [arrays[slice.array] EXCEPT ![slice.len + 1] = item]
  <2>2. IsSeq(changed) /\ Len(changed) = Len(arrays[slice.array])
    BY <1>3, <2>1, SeqFacts
  <2>3. arrays' = [arrays EXCEPT ![slice.array] = changed]
    BY <1>4 DEF AppendedTo
  <2>4. Longer(slice) = [array |-> slice.array, len |-> slice.len + 1]
    BY <1>4 DEF Longer
  <2> HIDE DEF changed
  <2>5. \A a \in Arrays : arrays'[a] = IF a = slice.array THEN changed ELSE arrays[a]
    BY <1>3, <2>1, <2>3
  <2>6. DOMAIN arrays' = Arrays /\ arrays' = [a \in Arrays |-> arrays'[a]]
    BY <1>3, <2>3
  <2> QED BY <1>1, <1>3, <1>4, <2>1, <2>2, <2>4, <2>5, <2>6
<1>5. CASE ~HasRoom(slice)
  <2>1. arrays' = [a \in Arrays |-> IF a = NewArray THEN Grown(slice, item)
                                    ELSE IF a \in Reachable THEN arrays[a] ELSE << >>]
    BY <1>5 DEF AppendedTo
  <2>2. Longer(slice) = [array |-> NewArray, len |-> slice.len + 1]
    BY <1>5 DEF Longer
  <2>3. IsSeq(<< >>)
    BY << >> \in Seq({}) DEF IsSeq
  <2> DEFINE grown == Grown(slice, item)
  <2>4. \A a \in Arrays : arrays'[a] = IF a = NewArray THEN grown
                                       ELSE IF a \in Reachable THEN arrays[a] ELSE << >>
    BY <2>1
  <2>5. arrays' = [a \in Arrays |-> arrays'[a]]
    BY <2>1
  <2>6. slice.len + 1 \in 1..Len(grown)
    BY <1>1
  <2> HIDE DEF grown
  <2>7. \A a \in Arrays : IsSeq(arrays'[a])
    BY <1>1, <1>3, <2>3, <2>4 DEF grown
  <2>8. \A a \in Arrays \cap Reachable : arrays'[a] = arrays[a]
    BY <1>2, <2>4
  <2>9. arrays'[NewArray] = grown /\ Len(grown) = IF slice.len = 0 THEN 1 ELSE 2 * slice.len
    BY <1>1, <1>2, <2>4 DEF grown
  <2> QED BY <1>1, <1>2, <1>5, <2>2, <2>5, <2>6, <2>7, <2>8, <2>9
<1> QED BY <1>4, <1>5

(* A call that leaves the memory alone, and gives slot q a builder with    *)
(* the items of another one.                                               *)
LEMMA BuilderReturned ==
  ASSUME MemoryInv, NEW p \in Slots, NEW q \in Slots, NEW b,
         IsBuilder(b), b.items = builders[p].items, b.meant = builders[p].meant,
         b.stage # "builder",
         Returns(q, b), UNCHANGED <<arrays, filters>>
  PROVE  MemoryInv'
  BY DEF MemoryInv, Holds, IsSlice, Returns, Arrays, Unstarted

(* After append, every slice in use is still in memory. *)
LEMMA SlicesStay ==
  ASSUME MemoryInv, NEW slice, IsSlice(slice), NEW item, arrays' = AppendedTo(slice, item)
  PROVE  /\ \A s \in Slots : IsSlice(builders[s].items)
              => \/ builders[s].items = NilSlice
                 \/ /\ builders[s].items.array \in DOMAIN arrays'
                    /\ builders[s].items.len \in 1..Len(arrays'[builders[s].items.array])
         /\ \A s \in Slots : filters[s] # None /\ IsSlice(filters[s].items)
              => \/ filters[s].items = NilSlice
                 \/ /\ filters[s].items.array \in DOMAIN arrays'
                    /\ filters[s].items.len \in 1..Len(arrays'[filters[s].items.array])
<1>1. DOMAIN arrays = Arrays /\ DOMAIN arrays' = Arrays
  BY AppendKeepsMemory DEF MemoryInv
<1>2. \A a \in Arrays \cap Reachable : Len(arrays'[a]) = Len(arrays[a])
  BY AppendKeepsMemory
<1>3. /\ \A s \in Slots : builders[s].items.array \in Reachable
      /\ \A s \in Slots : filters[s] # None => filters[s].items.array \in Reachable
  BY DEF Reachable
<1> QED BY <1>1, <1>2, <1>3 DEF IsSlice

(* append for the builder in slot p, then slot q holds the longer slice,   *)
(* in a builder or in a filter.                                            *)
LEMMA LongerHolds ==
  ASSUME MemoryInv, NEW p \in Slots, NEW item,
         arrays' = AppendedTo(builders[p].items, item),
         NEW x, x.items = Longer(builders[p].items),
         NEW w, x.meant = Append(builders[p].meant, w)
  PROVE  Holds(x)'
<1>1. /\ IsSlice(builders[p].items) /\ IsSeq(builders[p].meant)
      /\ builders[p].items.len = Len(builders[p].meant)
  BY DEF MemoryInv, Holds
<1>2. IsSlice(x.items)'
  <2>1. /\ x.items.array \in DOMAIN arrays' /\ x.items.len \in 1..Len(arrays'[x.items.array])
    BY <1>1, AppendKeepsMemory
  <2> QED BY <2>1 DEF IsSlice
<1>3. x.items.len = Len(builders[p].meant) + 1
  BY <1>1, AppendKeepsMemory
<1>4. IsSeq(x.meant) /\ Len(x.meant) = Len(builders[p].meant) + 1
  BY <1>1, SeqFacts
<1> QED BY <1>2, <1>3, <1>4 DEF Holds

LEMMA OthersHold ==
  ASSUME MemoryInv, NEW p \in Slots, NEW item,
         arrays' = AppendedTo(builders[p].items, item)
  PROVE  /\ \A s \in Slots : builders'[s] = builders[s] =>
              IsBuilder(builders[s])' /\ Holds(builders[s])'
         /\ \A s \in Slots : filters'[s] = filters[s] /\ filters[s] # None =>
              IsFilter(filters[s])' /\ Holds(filters[s])'
<1>1. IsSlice(builders[p].items)
  BY DEF MemoryInv, Holds
<1>2. ASSUME NEW s \in Slots, builders'[s] = builders[s]
      PROVE  IsBuilder(builders[s])' /\ Holds(builders[s])'
  <2>1. IsBuilder(builders[s]) /\ Holds(builders[s])
    BY DEF MemoryInv
  <2>2. IsSlice(builders[s].items)'
    BY <1>1, <1>2, <2>1, SlicesStay DEF Holds, IsSlice
  <2> QED BY <1>2, <2>1, <2>2 DEF Holds, IsBuilder
<1>3. ASSUME NEW s \in Slots, filters'[s] = filters[s] /\ filters[s] # None
      PROVE  IsFilter(filters[s])' /\ Holds(filters[s])'
  <2>1. IsFilter(filters[s]) /\ Holds(filters[s])
    BY <1>3 DEF MemoryInv
  <2>2. IsSlice(filters[s].items)'
    BY <1>1, <1>3, <2>1, SlicesStay DEF Holds, IsSlice
  <2> QED BY <1>3, <2>1, <2>2 DEF Holds, IsFilter
<1> QED BY <1>2, <1>3

LEMMA MemoryInitial == Init => MemoryInv
<1> SUFFICES ASSUME Init PROVE MemoryInv
  OBVIOUS
<1>1. IsSeq(<< >>)
  BY << >> \in Seq({}) DEF IsSeq
<1>2. IsBuilder(Start)
  <2> DEFINE A == {Start.stage, Start.items, Start.item, Start.from, Start.until, Start.after,
                   Start.wanted, Start.meant}
  <2>1. Start \in Builder(A)
    BY DEF Start, Builder
  <2> QED BY <2>1 DEF IsBuilder
<1>3. Holds(Start)
  BY <1>1 DEF Start, Holds, IsSlice, NilSlice
<1> QED BY <1>1, <1>2, <1>3 DEF Init, MemoryInv, Unstarted, Start

(* The calls that only describe the item under construction or a boundary  *)
(* leave the memory alone and keep the items.                              *)
LEMMA QuietCalls ==
  ASSUME MemoryInv, NEW p \in Slots, NEW q \in Slots,
         \/ Matching(p, q)
         \/ \E types \in TypeLists : AnyEventTypeOf(p, q, types)
         \/ \E preds \in PredLists, all \in BOOLEAN : PredicatesOf(p, q, preds, all)
         \/ \E time \in Times : OccurredFrom(p, q, time) \/ OccurredUntil(p, q, time)
         \/ \E number \in Numbers : WithSequenceNumberHigherThan(p, q, number)
  PROVE  \E b : /\ IsBuilder(b) /\ b.items = builders[p].items /\ b.meant = builders[p].meant
                /\ b.stage # "builder"
                /\ Returns(q, b) /\ UNCHANGED <<arrays, filters>>
<1> DEFINE Quiet ==
             \E b : /\ IsBuilder(b) /\ b.items = builders[p].items /\ b.meant = builders[p].meant
                    /\ b.stage # "builder"
                    /\ Returns(q, b) /\ UNCHANGED <<arrays, filters>>
<1>1. CASE Matching(p, q)
  <2> DEFINE b == [builders[p] EXCEPT !.stage = "empty", !.item = NewItem]
  <2>1. /\ IsBuilder(b) /\ b.items = builders[p].items /\ b.meant = builders[p].meant
        /\ b.stage # "builder"
    <3>1. PICK A : builders[p] \in Builder(A)
      BY DEF MemoryInv, IsBuilder
    <3>2. b \in Builder(A \cup {"empty", NewItem})
      BY <3>1 DEF Builder
    <3>3. b.items = builders[p].items /\ b.meant = builders[p].meant /\ b.stage # "builder"
      BY <3>1 DEF Builder
    <3> QED BY <3>2, <3>3 DEF IsBuilder
  <2>2. Returns(q, b) /\ UNCHANGED <<arrays, filters>>
    BY <1>1 DEF Matching
  <2> HIDE DEF b
  <2> QED BY <2>1, <2>2
<1>2. ASSUME NEW types, AnyEventTypeOf(p, q, types)
      PROVE  Quiet
  <2> DEFINE b == [builders[p] EXCEPT
                     !.stage = IF @ = "empty" THEN "lackingPredicates" ELSE "completed",
                     !.item.types = @ \o SanitizeEventTypes(types),
                     !.wanted.types = ToSet(types) \ {Empty}]
  <2>1. /\ IsBuilder(b) /\ b.items = builders[p].items /\ b.meant = builders[p].meant
        /\ b.stage # "builder"
    <3>1. PICK A : builders[p] \in Builder(A)
      BY DEF MemoryInv, IsBuilder
    <3> DEFINE item == [builders[p].item EXCEPT !.types = @ \o SanitizeEventTypes(types)]
               wanted == [builders[p].wanted EXCEPT !.types = ToSet(types) \ {Empty}]
    <3>2. b \in Builder(A \cup {"lackingPredicates", "completed", item, wanted})
      BY <3>1 DEF Builder
    <3>3. b.items = builders[p].items /\ b.meant = builders[p].meant /\ b.stage # "builder"
      BY <3>1 DEF Builder
    <3> QED BY <3>2, <3>3 DEF IsBuilder
  <2>2. Returns(q, b) /\ UNCHANGED <<arrays, filters>>
    BY <1>2 DEF AnyEventTypeOf
  <2> HIDE DEF b
  <2> QED BY <2>1, <2>2
<1>3. ASSUME NEW preds, NEW all, PredicatesOf(p, q, preds, all)
      PROVE  Quiet
  <2> DEFINE b == [builders[p] EXCEPT
                     !.stage = IF @ = "empty" THEN "lackingEventTypes" ELSE "completed",
                     !.item.preds = @ \o SanitizePredicates(preds),
                     !.item.all = @ \/ all,
                     !.wanted.preds = {x \in ToSet(preds) : x.key # Empty /\ x.val # Empty},
                     !.wanted.all = all]
  <2>1. /\ IsBuilder(b) /\ b.items = builders[p].items /\ b.meant = builders[p].meant
        /\ b.stage # "builder"
    <3>1. PICK A : builders[p] \in Builder(A)
      BY DEF MemoryInv, IsBuilder
    <3> DEFINE item == [builders[p].item EXCEPT !.preds = @ \o SanitizePredicates(preds),
                                                !.all = @ \/ all]
               wanted == [builders[p].wanted EXCEPT
                            !.preds = {x \in ToSet(preds) : x.key # Empty /\ x.val # Empty},
                            !.all = all]
    <3>2. b \in Builder(A \cup {"lackingEventTypes", "completed", item, wanted})
      BY <3>1 DEF Builder
    <3>3. b.items = builders[p].items /\ b.meant = builders[p].meant /\ b.stage # "builder"
      BY <3>1 DEF Builder
    <3> QED BY <3>2, <3>3 DEF IsBuilder
  <2>2. Returns(q, b) /\ UNCHANGED <<arrays, filters>>
    BY <1>3 DEF PredicatesOf
  <2> HIDE DEF b
  <2> QED BY <2>1, <2>2
<1>4. ASSUME NEW time,
             OccurredFrom(p, q, time) \/ OccurredUntil(p, q, time)
             \/ WithSequenceNumberHigherThan(p, q, time)
      PROVE  Quiet
  <2>1. PICK A : builders[p] \in Builder(A)
    BY DEF MemoryInv, IsBuilder
  <2>2. PICK b : /\ Returns(q, b) /\ UNCHANGED <<arrays, filters>>
                 /\ \/ b = [builders[p] EXCEPT !.stage = "from", !.from = time]
                    \/ b = [builders[p] EXCEPT !.stage = "bounded", !.until = time]
                    \/ b = [builders[p] EXCEPT !.stage = "bounded", !.after = time]
    BY <1>4 DEF OccurredFrom, OccurredUntil, WithSequenceNumberHigherThan
  <2>3. /\ b \in Builder(A \cup {"from", "bounded", time})
        /\ b.items = builders[p].items /\ b.meant = builders[p].meant
        /\ b.stage # "builder"
    BY <2>1, <2>2 DEF Builder
  <2>4. IsBuilder(b)
    BY <2>3 DEF IsBuilder
  <2> QED BY <2>2, <2>3, <2>4
<1> QED BY <1>1, <1>2, <1>3, <1>4

LEMMA MemoryStep ==
  ASSUME MemoryInv, [Next]_vars
  PROVE  MemoryInv'
<1>1. ASSUME NEW p \in Slots, NEW q \in Slots,
             \/ Matching(p, q)
             \/ \E types \in TypeLists : AnyEventTypeOf(p, q, types)
             \/ \E preds \in PredLists, all \in BOOLEAN : PredicatesOf(p, q, preds, all)
             \/ \E time \in Times : OccurredFrom(p, q, time) \/ OccurredUntil(p, q, time)
             \/ \E number \in Numbers : WithSequenceNumberHigherThan(p, q, number)
      PROVE  MemoryInv'
  BY <1>1, QuietCalls, BuilderReturned
<1>5. ASSUME NEW p \in Slots, NEW q \in Slots, OrMatching(p, q) PROVE MemoryInv'
  <2> DEFINE b == [builders[p] EXCEPT
                     !.stage = "empty", !.items = Longer(@), !.item = NewItem,
                     !.meant = Append(@, builders[p].wanted), !.wanted = NothingWanted]
  <2>1. /\ arrays' = AppendedTo(builders[p].items, builders[p].item)
        /\ builders' = [builders EXCEPT ![q] = b] /\ filters' = filters
    BY <1>5 DEF OrMatching, Returns
  <2>2. PICK A : builders[p] \in Builder(A)
    BY DEF MemoryInv, IsBuilder
  <2>3. b \in Builder(A \cup {"empty", Longer(builders[p].items), NewItem, NothingWanted,
                              Append(builders[p].meant, builders[p].wanted)})
    BY <2>2 DEF Builder
  <2>4. /\ b.items = Longer(builders[p].items)
        /\ b.meant = Append(builders[p].meant, builders[p].wanted) /\ b.stage = "empty"
    BY <2>2 DEF Builder
  <2> HIDE DEF b
  <2>5. builders'[q] = b /\ builders' = [s \in Slots |-> builders'[s]]
        /\ \A s \in Slots \ {q} : builders'[s] = builders[s]
    BY <2>1 DEF MemoryInv
  <2>6. IsBuilder(builders[q])' /\ Holds(builders[q])'
    <3>1. PICK x : x = b
      OBVIOUS
    <3>2. Holds(x)'
      BY <2>1, <2>4, <3>1, LongerHolds
    <3> QED BY <2>3, <2>5, <3>1, <3>2 DEF IsBuilder, Holds
  <2>7. /\ arrays' = [a \in Arrays |-> arrays'[a]]
        /\ \A a \in Arrays : IsSeq(arrays'[a])
    BY <2>1, AppendKeepsMemory DEF MemoryInv, Holds
  <2>8. \A s \in Slots : IsBuilder(builders[s])' /\ Holds(builders[s])' /\ Unstarted(builders[s])'
    BY <2>1, <2>4, <2>5, <2>6, OthersHold DEF MemoryInv, Unstarted
  <2>9. \A s \in Slots : filters'[s] # None => IsFilter(filters[s])' /\ Holds(filters[s])'
    BY <2>1, OthersHold
  <2>10. filters' = [s \in Slots |-> filters'[s]]
    BY <2>1 DEF MemoryInv
  <2> QED BY <2>5, <2>7, <2>8, <2>9, <2>10 DEF MemoryInv, Arrays
<1>6. ASSUME NEW p \in Slots, NEW s \in Slots, MatchingAnyEvent(p, s) PROVE MemoryInv'
  <2> DEFINE f == FilterOf(builders[p], builders[p].items, << >>)
  <2>1. builders[p].stage = "builder" /\ filters' = [filters EXCEPT ![s] = f]
        /\ UNCHANGED <<arrays, builders>>
    BY <1>6 DEF MatchingAnyEvent
  <2>2. builders[p].items = NilSlice
    BY <2>1 DEF MemoryInv, Unstarted
  <2>3. f \in Filter({f.stage, f.items, f.from, f.until, f.after, f.meant})
    BY DEF FilterOf, Filter
  <2>4. f.items = NilSlice /\ f.meant = << >> /\ IsSeq(<< >>)
    BY <2>2, << >> \in Seq({}) DEF FilterOf, IsSeq
  <2> HIDE DEF f
  <2>5. IsFilter(f) /\ Holds(f)
    BY <2>3, <2>4 DEF IsFilter, Holds, IsSlice, NilSlice
  <2> QED BY <2>1, <2>5 DEF MemoryInv, Holds, IsSlice, Arrays
<1>7. ASSUME NEW p \in Slots, NEW s \in Slots, Finalize(p, s) PROVE MemoryInv'
  <2> DEFINE f == FilterOf(builders[p], Longer(builders[p].items),
                           Append(builders[p].meant, builders[p].wanted))
  <2>1. /\ arrays' = AppendedTo(builders[p].items, builders[p].item)
        /\ filters' = [filters EXCEPT ![s] = f] /\ builders' = builders
    BY <1>7 DEF Finalize
  <2>2. IsFilter(f) /\ f.items = Longer(builders[p].items)
        /\ f.meant = Append(builders[p].meant, builders[p].wanted)
    <3>1. f \in Filter({f.stage, f.items, f.from, f.until, f.after, f.meant})
      BY DEF FilterOf, Filter
    <3> QED BY <3>1 DEF FilterOf, IsFilter
  <2> HIDE DEF f
  <2>3. filters'[s] = f /\ filters' = [t \in Slots |-> filters'[t]]
        /\ \A t \in Slots \ {s} : filters'[t] = filters[t]
    BY <2>1 DEF MemoryInv
  <2>4. IsFilter(filters[s])' /\ Holds(filters[s])'
    <3>1. PICK x : x = f
      OBVIOUS
    <3>2. Holds(x)'
      BY <2>1, <2>2, <3>1, LongerHolds
    <3> QED BY <2>2, <2>3, <3>1, <3>2 DEF IsFilter, Holds
  <2>5. /\ arrays' = [a \in Arrays |-> arrays'[a]]
        /\ \A a \in Arrays : IsSeq(arrays'[a])
    BY <2>1, AppendKeepsMemory DEF MemoryInv, Holds
  <2>6. \A t \in Slots : IsBuilder(builders[t])' /\ Holds(builders[t])' /\ Unstarted(builders[t])'
    BY <2>1, OthersHold DEF MemoryInv, Unstarted
  <2>7. \A t \in Slots : filters'[t] # None => IsFilter(filters[t])' /\ Holds(filters[t])'
    BY <2>1, <2>3, <2>4, OthersHold
  <2>8. builders' = [t \in Slots |-> builders'[t]]
    BY <2>1 DEF MemoryInv
  <2> QED BY <2>3, <2>5, <2>6, <2>7, <2>8 DEF MemoryInv, Arrays
<1>8. ASSUME NEW s \in Slots, NEW t \in Slots, NEW number, Reopen(s, t, number) PROVE MemoryInv'
  <2> DEFINE f == [filters[s] EXCEPT !.after = number]
  <2>1. filters[s] # None /\ filters' = [filters EXCEPT ![t] = f] /\ UNCHANGED <<arrays, builders>>
    BY <1>8 DEF Reopen
  <2>2. PICK A : filters[s] \in Filter(A)
    BY <2>1 DEF MemoryInv, IsFilter
  <2>3. /\ f \in Filter(A \cup {number})
        /\ f.items = filters[s].items /\ f.meant = filters[s].meant
    BY <2>2 DEF Filter
  <2> HIDE DEF f
  <2>4. IsFilter(f) /\ Holds(f)
    BY <2>1, <2>3 DEF MemoryInv, IsFilter, Holds
  <2> QED BY <2>1, <2>4 DEF MemoryInv, Holds, IsSlice, Arrays
<1>9. CASE UNCHANGED vars
  BY <1>9 DEF vars, MemoryInv, Holds, IsSlice, Arrays, Unstarted
<1> QED BY <1>1, <1>5, <1>6, <1>7, <1>8, <1>9 DEF Next

(* Slices stay within their arrays and filters have the items that were    *)
(* asked for, however many builders and filters share an array.            *)
THEOREM BuilderTypeCorrect == Spec => []TypeOK
<1>1. MemoryInv => TypeOK
  BY DEF MemoryInv, TypeOK, Holds
<1> QED BY <1>1, MemoryInitial, MemoryStep, PTL DEF Spec

-----------------------------------------------------------------------------
(* Up to three items append never has room: the arrays of builders, whose  *)
(* slices have up to two items, are full.                                  *)
ArraysAreFull ==
  \A s \in Slots : builders[s].items.len <= 2 /\ ~HasRoom(builders[s].items)

(* A call that leaves the memory alone. *)
LEMMA FullReturned ==
  ASSUME MemoryInv, ArraysAreFull, NEW p \in Slots, NEW q \in Slots, NEW b,
         b.items = builders[p].items, Returns(q, b), UNCHANGED arrays
  PROVE  ArraysAreFull'
  BY DEF MemoryInv, ArraysAreFull, Returns, HasRoom, Capacity

(* append for a builder leaves everybody's items alone. *)
LEMMA ItemsStay ==
  ASSUME MemoryInv, ArraysAreFull, NEW p \in Slots, NEW item,
         arrays' = AppendedTo(builders[p].items, item)
  PROVE  /\ \A s \in Slots : builders'[s] = builders[s] =>
              (builders[s].items.len <= 2 /\ ~HasRoom(builders[s].items))'
         /\ \A s \in Slots : filters[s] # None /\ filters'[s] = filters[s] =>
              Items(filters[s].items)' = Items(filters[s].items)
<1>1. IsSlice(builders[p].items) /\ ~HasRoom(builders[p].items)
  BY DEF MemoryInv, Holds, ArraysAreFull
<1>2. \A a \in Arrays \cap Reachable : arrays'[a] = arrays[a]
  BY <1>1, AppendKeepsMemory
<1>3. DOMAIN arrays = Arrays
  BY DEF MemoryInv
<1>4. ASSUME NEW s \in Slots, builders'[s] = builders[s]
      PROVE  (builders[s].items.len <= 2 /\ ~HasRoom(builders[s].items))'
  <2>1. /\ builders[s].items.len <= 2 /\ ~HasRoom(builders[s].items)
        /\ IsSlice(builders[s].items) /\ builders[s].items.array \in Reachable
    BY DEF ArraysAreFull, MemoryInv, Holds, Reachable
  <2> QED BY <1>2, <1>3, <1>4, <2>1 DEF HasRoom, Capacity, IsSlice, NilSlice
<1>5. ASSUME NEW s \in Slots, filters[s] # None, filters'[s] = filters[s]
      PROVE  Items(filters[s].items)' = Items(filters[s].items)
  <2>1. IsSlice(filters[s].items) /\ filters[s].items.array \in Reachable
    BY <1>5 DEF MemoryInv, Holds, Reachable
  <2> QED BY <1>2, <1>3, <1>5, <2>1 DEF Items, IsSlice, NilSlice
<1> QED BY <1>4, <1>5

LEMMA FullStep ==
  ASSUME MaxItems <= 3, MemoryInv, ArraysAreFull, [Next]_vars
  PROVE  /\ ArraysAreFull'
         /\ \A s \in Slots : filters[s] # None /\ filters'[s] = filters[s] =>
              Items(filters[s].items)' = Items(filters[s].items)
<1> DEFINE Same == \A s \in Slots : filters[s] # None /\ filters'[s] = filters[s] =>
                     Items(filters[s].items)' = Items(filters[s].items)
<1>0. UNCHANGED arrays => Same
  BY DEF Items
<1>1. ASSUME NEW p \in Slots, NEW q \in Slots,
             \/ Matching(p, q)
             \/ \E types \in TypeLists : AnyEventTypeOf(p, q, types)
             \/ \E preds \in PredLists, all \in BOOLEAN : PredicatesOf(p, q, preds, all)
             \/ \E time \in Times : OccurredFrom(p, q, time) \/ OccurredUntil(p, q, time)
             \/ \E number \in Numbers : WithSequenceNumberHigherThan(p, q, number)
      PROVE  ArraysAreFull' /\ Same
  BY <1>0, <1>1, QuietCalls, FullReturned
<1>2. ASSUME NEW p \in Slots, NEW q \in Slots, OrMatching(p, q)
      PROVE  ArraysAreFull' /\ Same
  <2> DEFINE slice == builders[p].items
  <2>1. /\ arrays' = AppendedTo(slice, builders[p].item)
        /\ Len(builders[p].meant) + 1 < MaxItems /\ filters' = filters
    BY <1>2 DEF OrMatching
  <2>2. IsBuilder(builders[p]) /\ IsSlice(slice) /\ ~HasRoom(slice)
        /\ slice.len = Len(builders[p].meant)
    BY DEF MemoryInv, Holds, ArraysAreFull
  <2>3. builders'[q].items = Longer(slice)
    <3>1. PICK A : builders[p] \in Builder(A)
      BY <2>2 DEF IsBuilder
    <3>2. builders'[q] = [builders[p] EXCEPT
            !.stage = "empty", !.items = Longer(@), !.item = NewItem,
            !.meant = Append(@, builders[p].wanted), !.wanted = NothingWanted]
      BY <1>2 DEF OrMatching, Returns, MemoryInv
    <3> QED BY <3>1, <3>2 DEF Builder
  <2>4. /\ Longer(slice).len = slice.len + 1 /\ slice.len \in Nat
        /\ Longer(slice).array \in Arrays
        /\ Len(arrays'[Longer(slice).array]) = IF slice.len = 0 THEN 1 ELSE 2 * slice.len
    BY <2>1, <2>2, AppendKeepsMemory
  <2>5. slice.len + 1 <= 2 /\ slice.len \in {0, 1}
    <3>1. slice.len + 1 < MaxItems /\ slice.len \in Nat
      BY <2>1, <2>2, <2>4
    <3>2. MaxItems \in Nat /\ MaxItems <= 3
      BY BuilderAssumption
    <3> HIDE DEF slice
    <3> QED BY <3>1, <3>2
  <2>7. (builders[q].items.len <= 2 /\ ~HasRoom(builders[q].items))'
    <3>1. PICK x : x = Longer(slice)
      OBVIOUS
    <3>2. x.len <= 2 /\ x.array # 0 /\ ~ (x.len < Len(arrays'[x.array]))
      BY <2>4, <2>5, <3>1 DEF Arrays
    <3>3. builders'[q].items = x
      BY <2>3, <3>1
    <3> QED BY <3>2, <3>3 DEF HasRoom, Capacity
  <2>8. \A s \in Slots \ {q} : builders'[s] = builders[s]
    BY <1>2 DEF OrMatching, Returns, MemoryInv
  <2> QED BY <2>1, <2>7, <2>8, ItemsStay DEF ArraysAreFull
<1>3. ASSUME NEW p \in Slots, NEW s \in Slots, Finalize(p, s)
      PROVE  ArraysAreFull' /\ Same
  BY <1>3, ItemsStay DEF Finalize, ArraysAreFull
<1>4. ASSUME UNCHANGED <<arrays, builders>>
      PROVE  ArraysAreFull' /\ Same
  BY <1>0, <1>4 DEF ArraysAreFull, HasRoom, Capacity
<1> QED BY <1>1, <1>2, <1>3, <1>4 DEF Next, vars, MatchingAnyEvent, Reopen

LEMMA FullInitial == Init => ArraysAreFull
  BY DEF Init, ArraysAreFull, Start, NilSlice, HasRoom, Capacity

-----------------------------------------------------------------------------
(* A list in the order of its keys is the listing of its elements. *)
LEMMA ListingOfBijection ==
  ASSUME NEW S, NEW c \in Nat, NEW q \in [1..c -> S], NEW keys \in [S -> Nat],
         \A x \in S : \E n \in 1..c : q[n] = x,
         \A m, n \in 1..c : m < n => keys[q[m]] < keys[q[n]]
  PROVE  q = Listing(S, keys)
<1> DEFINE Below(x) == {y \in S : keys[y] < keys[x]}
<1>1. \A n \in 1..c : q[n] \in S /\ keys[q[n]] \in Nat /\ n \in Nat
  OBVIOUS
<1>2. \A m, n \in 1..c : keys[q[m]] < keys[q[n]] <=> m < n
  BY <1>1
<1>3. \A m, n \in 1..c : q[m] = q[n] => m = n
  BY <1>1
<1>4. ASSUME NEW n \in 1..c PROVE Cardinality(Below(q[n])) = n - 1
  <2> DEFINE B == Below(q[n])
             front == [m \in 1..n-1 |-> q[m]]
  <2>1. n - 1 \in Nat /\ \A m : m \in 1..n-1 <=> m \in 1..c /\ m < n
    OBVIOUS
  <2>2. \A y : y \in B <=> \E m \in 1..n-1 : q[m] = y
    BY <1>1, <1>2, <2>1
  <2>3. IsFiniteSet(1..n-1) /\ Cardinality(1..n-1) = n - 1
    BY <2>1, FS_Interval
  <2> HIDE DEF B
  <2>4. \A m \in 1..n-1 : front[m] = q[m] /\ front[m] \in B
    BY <2>2
  <2>5. front \in [1..n-1 -> B]
    BY <2>4
  <2> HIDE DEF front
  <2>6. front \in Surjection(1..n-1, B)
    BY <2>2, <2>4, <2>5 DEF Surjection
  <2>7. front \in Injection(1..n-1, B)
    BY <1>3, <2>1, <2>4, <2>5 DEF Injection, IsInjective
  <2> QED BY <2>3, <2>6, <2>7, FS_Surjection DEF B
<1>5. Cardinality(S) = c
  <2>1. IsFiniteSet(1..c) /\ Cardinality(1..c) = c
    BY FS_Interval
  <2>2. q \in Surjection(1..c, S) /\ q \in Injection(1..c, S)
    BY <1>3 DEF Surjection, Injection, IsInjective
  <2> QED BY <2>1, <2>2, FS_Surjection
<1> DEFINE Rank(x) == Cardinality(Below(x))
<1>6. \A n \in 1..c : q[n] \in S /\ Rank(q[n]) = n - 1
  BY <1>1, <1>4
<1>7. Listing(S, keys) = [n \in 1..c |-> CHOOSE x \in S : Rank(x) = n - 1]
  BY <1>5 DEF Listing
<1> HIDE DEF Rank, Below
<1>8. ASSUME NEW n \in 1..c PROVE (CHOOSE x \in S : Rank(x) = n - 1) = q[n]
  <2>1. \A x \in S : Rank(x) = n - 1 => x = q[n]
    <3> SUFFICES ASSUME NEW x \in S, Rank(x) = n - 1 PROVE x = q[n]
      OBVIOUS
    <3>1. PICK m \in 1..c : q[m] = x
      OBVIOUS
    <3>2. m - 1 = n - 1 /\ m \in Nat /\ n \in Nat
      BY <1>6, <3>1
    <3> QED BY <3>1, <3>2
  <2> QED BY <1>6, <2>1
<1> QED BY <1>7, <1>8

LEMMA ListingOfSeq ==
  ASSUME NEW T, NEW q \in Seq(T), NEW S, NEW keys \in [S -> Nat], S = ToSet(q),
         \A m, n \in DOMAIN q : m < n => keys[q[m]] < keys[q[n]]
  PROVE  q = Listing(S, keys)
<1>1. PICK c \in Nat : DOMAIN q = 1..c
  <2>1. Len(q) \in Nat /\ DOMAIN q = 1..Len(q)
    OBVIOUS
  <2> QED BY <2>1
<1>2. \A x : x \in S <=> \E n \in 1..c : q[n] = x
  BY <1>1 DEF ToSet
<1>3. q = [n \in 1..c |-> q[n]]
  BY <1>1
<1>4. q \in [1..c -> S]
  BY <1>2, <1>3
<1>5. /\ \A x \in S : \E n \in 1..c : q[n] = x
      /\ \A m, n \in 1..c : m < n => keys[q[m]] < keys[q[n]]
  BY <1>1, <1>2
<1> QED BY <1>4, <1>5, ListingOfBijection

(* The lists sanitizing returns are canonical. *)
LEMMA TypesAreCanonical ==
  ASSUME NEW types \in Seq(EventTypes)
  PROVE  /\ ToSet(SanitizeEventTypes(types)) = ToSet(types) \ {Empty}
         /\ SanitizeEventTypes(types) \in Seq(EventTypes)
         /\ SanitizeEventTypes(types) = CanonicalTypes(ToSet(types) \ {Empty})
<1> DEFINE q == SanitizeEventTypes(types)
           S == ToSet(types) \ {Empty}
           keys == [x \in S |-> x]
<1>1. /\ q \in Seq(EventTypes) /\ ToSet(q) = S
      /\ \A m, n \in DOMAIN q : m < n => q[m] < q[n]
  BY SanitizedTypes
<1>2. S \subseteq Nat
  BY DEF ToSet, EventTypes
<1>3. CanonicalTypes(S) = Listing(S, keys)
  BY DEF CanonicalTypes
<1> HIDE DEF q, S
<1>4. keys \in [S -> Nat] /\ \A x \in S : keys[x] = x
  BY <1>2
<1>5. \A n \in DOMAIN q : q[n] \in S
  BY <1>1 DEF ToSet
<1> HIDE DEF keys
<1>6. \A m, n \in DOMAIN q : m < n => keys[q[m]] < keys[q[n]]
  BY <1>1, <1>4, <1>5
<1>7. q = Listing(S, keys)
  BY <1>1, <1>4, <1>6, ListingOfSeq
<1> QED BY <1>1, <1>3, <1>7 DEF q, S

LEMMA PredicatesAreCanonical ==
  ASSUME NEW preds \in Seq(Predicates)
  PROVE  /\ ToSet(SanitizePredicates(preds)) = Usable(preds)
         /\ SanitizePredicates(preds) \in Seq(Predicates)
         /\ (\A x, y \in Usable(preds) : x.key = y.key => x = y) =>
              SanitizePredicates(preds) = CanonicalPreds(Usable(preds))
<1> DEFINE q == SanitizePredicates(preds)
           S == Usable(preds)
           keys == [x \in S |-> x.key]
<1>1. /\ q \in Seq(Predicates) /\ ToSet(q) = S
      /\ (\A x, y \in S : x.key = y.key => x = y) =>
           \A m, n \in DOMAIN q : m < n => q[m].key < q[n].key
  BY SanitizedPredicates
<1>2. \A x \in S : x.key \in Nat
  <2>1. \A x \in S : x \in Predicates
    BY DEF ToSet, Usable
  <2> HIDE DEF S
  <2> QED BY <2>1 DEF Predicates
<1>3. CanonicalPreds(S) = Listing(S, keys)
  BY DEF CanonicalPreds
<1> HIDE DEF q, S
<1>4. keys \in [S -> Nat] /\ \A x \in S : keys[x] = x.key
  BY <1>2
<1>5. \A n \in DOMAIN q : q[n] \in S
  BY <1>1 DEF ToSet
<1> HIDE DEF keys
<1>6. ASSUME \A x, y \in S : x.key = y.key => x = y
      PROVE  q = Listing(S, keys)
  <2>1. \A m, n \in DOMAIN q : m < n => keys[q[m]] < keys[q[n]]
    BY <1>1, <1>4, <1>5, <1>6
  <2> QED BY <1>1, <1>4, <2>1, ListingOfSeq
<1> QED BY <1>1, <1>3, <1>6 DEF q, S

-----------------------------------------------------------------------------
(* A sequence with an item at its end, cut out of an array with room. *)
FrontOf(s, e, room) == SubSeq(s \o <<e>> \o room, 1, Len(s) + 1)

LEMMA FrontOfGrown ==
  ASSUME NEW T, NEW s \in Seq(T), NEW e \in T, NEW room \in Seq(T)
  PROVE  /\ \A i \in 1..Len(s) : FrontOf(s, e, room)[i] = s[i]
         /\ FrontOf(s, e, room)[Len(s) + 1] = e
<1> DEFINE front == s \o <<e>>
           all == front \o room
<1>1. /\ front \in Seq(T) /\ Len(front) = Len(s) + 1 /\ Len(s) \in Nat
      /\ \A i \in 1..Len(s) : front[i] = s[i]
      /\ front[Len(s) + 1] = e
  OBVIOUS
<1> HIDE DEF front
<1>2. /\ all \in Seq(T) /\ Len(all) = Len(front) + Len(room) /\ Len(room) \in Nat
      /\ \A i \in 1..Len(front) : all[i] = front[i]
  BY <1>1
<1> HIDE DEF all
<1>3. Len(s) + 1 \in 1..Len(all)
  BY <1>1, <1>2
<1>4. \A i \in 1..Len(s) + 1 : SubSeq(all, 1, Len(s) + 1)[i] = all[i]
  BY <1>1, <1>2, <1>3, SubSeqProperties
<1> QED BY <1>1, <1>2, <1>3, <1>4 DEF all, front, FrontOf

(* append without room: the items are those of the shorter slice and the   *)
(* new one.                                                                *)
LEMMA ItemsOfLonger ==
  ASSUME MemoryInv, NEW slice, IsSlice(slice), ~HasRoom(slice),
         NEW item, arrays' = AppendedTo(slice, item),
         NEW x, x = Longer(slice)
  PROVE  /\ \A i \in 1..slice.len : Items(x)'[i] = Items(slice)[i]
         /\ Items(x)'[slice.len + 1] = item
<1>1. /\ slice.len \in Nat /\ IsSeq(Items(slice)) /\ DOMAIN Items(slice) = 1..slice.len
  BY ItemsOfSlice
<1>2. NewArray \in Arrays
  BY ArraysSuffice
<1>3. x = [array |-> NewArray, len |-> slice.len + 1]
  BY DEF Longer
<1>4. arrays'[NewArray] = Grown(slice, item)
  BY <1>2 DEF AppendedTo
<1>5. x.array = NewArray /\ x.array # 0 /\ x.len = slice.len + 1
  BY <1>2, <1>3 DEF Arrays
<1>6. Items(x)' = SubSeq(Grown(slice, item), 1, slice.len + 1)
  BY <1>4, <1>5 DEF Items
<1> DEFINE size == IF slice.len = 0 THEN 1 ELSE 2 * slice.len
           room == [i \in 1..size - slice.len - 1 |-> NewItem]
<1>7. Grown(slice, item) = Items(slice) \o <<item>> \o room
  BY DEF Grown
<1>8. PICK S : Items(slice) \in Seq(S)
  BY <1>1 DEF IsSeq
<1> DEFINE T == S \cup {item, NewItem}
<1>9. Items(slice) \in Seq(T) /\ item \in T
  BY <1>8
<1>10. room \in Seq(T)
  <2>1. size - slice.len - 1 \in Nat
    BY <1>1
  <2> QED BY <2>1
<1>11. Len(Items(slice)) = slice.len
  BY <1>1, <1>8
<1> HIDE DEF T, room
<1>12. /\ \A i \in 1..Len(Items(slice)) : FrontOf(Items(slice), item, room)[i] = Items(slice)[i]
       /\ FrontOf(Items(slice), item, room)[Len(Items(slice)) + 1] = item
  BY <1>9, <1>10, FrontOfGrown
<1>13. Items(x)' = FrontOf(Items(slice), item, room)
  BY <1>6, <1>7, <1>11 DEF FrontOf
<1> QED BY <1>11, <1>12, <1>13

(* append without room leaves the items of every slice in use alone. *)
LEMMA SliceStays ==
  ASSUME MemoryInv, NEW slice, IsSlice(slice), ~HasRoom(slice),
         NEW item, arrays' = AppendedTo(slice, item),
         NEW other, IsSlice(other), other.array \in Reachable
  PROVE  Items(other)' = Items(other)
<1>1. \A a \in Arrays \cap Reachable : arrays'[a] = arrays[a]
  BY AppendKeepsMemory
<1>2. DOMAIN arrays = Arrays
  BY DEF MemoryInv
<1> QED BY <1>1, <1>2 DEF Items, IsSlice, NilSlice

-----------------------------------------------------------------------------
(* An item without lists is what somebody wants who has said nothing. *)
LEMMA NothingFits ==
  ASSUME NEW wanted
  PROVE  /\ Fits(NewItem, NothingWanted)
         /\ Fits(NewItem, wanted) => wanted = NothingWanted
<1>1. ASSUME NEW keys PROVE Listing({}, keys) = << >>
  <2>1. Cardinality({}) = 0
    BY FS_EmptySet
  <2> QED BY <2>1 DEF Listing
<1>2. CanonicalTypes({}) = << >> /\ CanonicalPreds({}) = << >>
  BY <1>1 DEF CanonicalTypes, CanonicalPreds
<1>3. ToSet(<< >>) = {}
  BY DEF ToSet
<1>4. << >> \in Seq(EventTypes) /\ << >> \in Seq(Predicates)
  OBVIOUS
<1>5. NewItem \in Item /\ NothingWanted \in Wanted
  BY <1>4 DEF NewItem, NothingWanted, Item, Wanted
<1>6. NewItem.types = << >> /\ NewItem.preds = << >> /\ NewItem.all = FALSE
  BY DEF NewItem
<1>7. NothingWanted.types = {} /\ NothingWanted.preds = {} /\ NothingWanted.all = FALSE
  BY DEF NothingWanted
<1>8. Fits(NewItem, NothingWanted)
  BY <1>2, <1>3, <1>5, <1>6, <1>7 DEF Fits
<1>9. ASSUME Fits(NewItem, wanted) PROVE wanted = NothingWanted
  <2>1. wanted \in Wanted /\ wanted.types = {} /\ wanted.preds = {} /\ wanted.all = FALSE
    BY <1>3, <1>6, <1>9 DEF Fits
  <2> QED BY <2>1 DEF Wanted, NothingWanted
<1> QED BY <1>8, <1>9

(* The event types of a call on an item that had none. *)
LEMMA TypesFit ==
  ASSUME NEW item, NEW wanted, Fits(item, wanted), item.types = << >>,
         NEW types \in Seq(EventTypes)
  PROVE  Fits([item EXCEPT !.types = @ \o SanitizeEventTypes(types)],
              [wanted EXCEPT !.types = ToSet(types) \ {Empty}])
<1> DEFINE q == SanitizeEventTypes(types)
           S == ToSet(types) \ {Empty}
           new == [item EXCEPT !.types = @ \o q]
           want == [wanted EXCEPT !.types = S]
<1>1. /\ q \in Seq(EventTypes) /\ ToSet(q) = S /\ q = CanonicalTypes(S)
  BY TypesAreCanonical
<1>2. S \subseteq EventTypes
  BY DEF ToSet
<1> HIDE DEF q, S
<1>3. << >> \o q = q
  BY <1>1
<1>4. item \in Item /\ wanted \in Wanted
  BY DEF Fits
<1>5. /\ new \in Item /\ new.types = q /\ new.preds = item.preds /\ new.all = item.all
  BY <1>1, <1>3, <1>4 DEF Item
<1>6. /\ want \in Wanted /\ want.types = S /\ want.preds = wanted.preds
      /\ want.all = wanted.all
  BY <1>2, <1>4 DEF Wanted
<1> HIDE DEF new, want
<1>7. KeysAreUnique(want) <=> KeysAreUnique(wanted)
  BY <1>6 DEF KeysAreUnique
<1>8. Fits(new, want)
  BY <1>1, <1>5, <1>6, <1>7 DEF Fits
<1> QED BY <1>8 DEF new, want, q, S

(* The predicates of a call on an item that had none. *)
LEMMA PredicatesFit ==
  ASSUME NEW item, NEW wanted, Fits(item, wanted), item.preds = << >>, item.all = FALSE,
         NEW preds \in Seq(Predicates), NEW all \in BOOLEAN
  PROVE  Fits([item EXCEPT !.preds = @ \o SanitizePredicates(preds), !.all = @ \/ all],
              [wanted EXCEPT !.preds = {x \in ToSet(preds) : x.key # Empty /\ x.val # Empty},
                             !.all = all])
<1> DEFINE q == SanitizePredicates(preds)
           S == {x \in ToSet(preds) : x.key # Empty /\ x.val # Empty}
           new == [item EXCEPT !.preds = @ \o q, !.all = @ \/ all]
           want == [wanted EXCEPT !.preds = S, !.all = all]
<1>1. /\ q \in Seq(Predicates) /\ ToSet(q) = S
      /\ (\A x, y \in S : x.key = y.key => x = y) => q = CanonicalPreds(S)
  BY PredicatesAreCanonical DEF Usable
<1>2. S \subseteq Predicates
  BY DEF ToSet
<1> HIDE DEF q, S
<1>3. << >> \o q = q
  BY <1>1
<1>4. item \in Item /\ wanted \in Wanted
  BY DEF Fits
<1>5. (item.all \/ all) = all
  OBVIOUS
<1>6. /\ new \in Item /\ new.types = item.types /\ new.preds = q /\ new.all = all
  BY <1>1, <1>3, <1>4, <1>5 DEF Item
<1>7. /\ want \in Wanted /\ want.types = wanted.types /\ want.preds = S /\ want.all = all
  BY <1>2, <1>4 DEF Wanted
<1> HIDE DEF new, want
<1>8. KeysAreUnique(want) => \A x, y \in S : x.key = y.key => x = y
  BY <1>7 DEF KeysAreUnique
<1>9. Fits(new, want)
  BY <1>1, <1>6, <1>7, <1>8 DEF Fits
<1> QED BY <1>9 DEF new, want, q, S

(* What a call returns that only describes the item under construction or  *)
(* a boundary is as the caller wants it.                                   *)
LEMMA QuietCallsMean ==
  ASSUME MemoryInv, NEW p \in Slots, NEW q \in Slots, CurrentMeans(builders[p]),
         \/ Matching(p, q)
         \/ \E types \in TypeLists : AnyEventTypeOf(p, q, types)
         \/ \E preds \in PredLists, all \in BOOLEAN : PredicatesOf(p, q, preds, all)
         \/ \E time \in Times : OccurredFrom(p, q, time) \/ OccurredUntil(p, q, time)
         \/ \E number \in Numbers : WithSequenceNumberHigherThan(p, q, number)
  PROVE  CurrentMeans(builders'[q])
<1>0. \A b : Returns(q, b) => builders'[q] = b
  BY DEF Returns, MemoryInv
<1>1. PICK A : builders[p] \in Builder(A)
  BY DEF MemoryInv, IsBuilder
<1>2. PICK old : old = builders[p]
  OBVIOUS
<1>3. old \in Builder(A) /\ Fits(old.item, old.wanted) /\ IsReady(old) /\ HasBounds(old)
  BY <1>1, <1>2 DEF CurrentMeans
<1>4. old.item \in Item /\ old.wanted \in Wanted
  BY <1>3 DEF Fits
<1>5. CASE Matching(p, q)
  <2>1. old.stage = "builder" /\ builders'[q] = [old EXCEPT !.stage = "empty", !.item = NewItem]
    BY <1>0, <1>2, <1>5 DEF Matching
  <2>2. old.item = NewItem
    BY <1>3, <2>1 DEF IsReady
  <2>3. builders'[q] = [old EXCEPT !.stage = "empty", !.item = NewItem]
    BY <2>1
  <2> DEFINE b == [old EXCEPT !.stage = "empty", !.item = NewItem]
  <2>4. /\ b.stage = "empty" /\ b.item = NewItem /\ b.wanted = old.wanted
        /\ b.from = old.from /\ b.until = old.until /\ b.after = old.after
    BY <1>3 DEF Builder
  <2> HIDE DEF b
  <2>5. CurrentMeans(b)
    BY <1>3, <2>2, <2>4 DEF CurrentMeans, IsReady, HasBounds
  <2> QED BY <2>3, <2>5 DEF b
<1>6. ASSUME NEW types \in TypeLists, AnyEventTypeOf(p, q, types)
      PROVE  CurrentMeans(builders'[q])
  <2> DEFINE b == [old EXCEPT
                     !.stage = IF @ = "empty" THEN "lackingPredicates" ELSE "completed",
                     !.item.types = @ \o SanitizeEventTypes(types),
                     !.wanted.types = ToSet(types) \ {Empty}]
             item == [old.item EXCEPT !.types = @ \o SanitizeEventTypes(types)]
             wanted == [old.wanted EXCEPT !.types = ToSet(types) \ {Empty}]
  <2>1. old.stage \in {"empty", "lackingEventTypes"} /\ builders'[q] = b
    BY <1>0, <1>2, <1>6 DEF AnyEventTypeOf
  <2>2. /\ b.stage = (IF old.stage = "empty" THEN "lackingPredicates" ELSE "completed")
        /\ b.item = item /\ b.wanted = wanted
        /\ b.from = old.from /\ b.until = old.until /\ b.after = old.after
    BY <1>3 DEF Builder
  <2>3. old.item.types = << >>
    BY <1>3, <2>1 DEF IsReady, NewItem
  <2>4. Fits(item, wanted)
    <3>1. types \in Seq(EventTypes)
      BY BuilderAssumption
    <3> QED BY <1>3, <2>3, <3>1, TypesFit
  <2>5. item.preds = old.item.preds /\ item.all = old.item.all
    BY <1>4 DEF Item
  <2>6. old.stage = "empty" => item.preds = << >> /\ item.all = FALSE
    BY <1>3, <2>5 DEF IsReady, NewItem
  <2> HIDE DEF b, item, wanted
  <2>7. IsReady(b)
    BY <2>1, <2>2, <2>6 DEF IsReady
  <2> QED BY <1>3, <2>1, <2>2, <2>4, <2>7 DEF CurrentMeans, HasBounds
<1>7. ASSUME NEW preds \in PredLists, NEW all \in BOOLEAN, PredicatesOf(p, q, preds, all)
      PROVE  CurrentMeans(builders'[q])
  <2> DEFINE S == {x \in ToSet(preds) : x.key # Empty /\ x.val # Empty}
             b == [old EXCEPT
                     !.stage = IF @ = "empty" THEN "lackingEventTypes" ELSE "completed",
                     !.item.preds = @ \o SanitizePredicates(preds),
                     !.item.all = @ \/ all,
                     !.wanted.preds = S,
                     !.wanted.all = all]
             item == [old.item EXCEPT !.preds = @ \o SanitizePredicates(preds), !.all = @ \/ all]
             wanted == [old.wanted EXCEPT !.preds = S, !.all = all]
  <2>1. old.stage \in {"empty", "lackingPredicates"} /\ builders'[q] = b
    BY <1>0, <1>2, <1>7 DEF PredicatesOf
  <2>2. /\ b.stage = (IF old.stage = "empty" THEN "lackingEventTypes" ELSE "completed")
        /\ b.item = item /\ b.wanted = wanted
        /\ b.from = old.from /\ b.until = old.until /\ b.after = old.after
    BY <1>3, <1>4 DEF Builder, Item, Wanted
  <2>3. old.item.preds = << >> /\ old.item.all = FALSE
    BY <1>3, <2>1 DEF IsReady, NewItem
  <2>4. Fits(item, wanted)
    <3>1. preds \in Seq(Predicates)
      BY BuilderAssumption
    <3> QED BY <1>3, <2>3, <3>1, PredicatesFit
  <2>5. item.types = old.item.types
    BY <1>4 DEF Item
  <2>6. old.stage = "empty" => item.types = << >>
    BY <1>3, <2>5 DEF IsReady, NewItem
  <2> HIDE DEF b, item, wanted
  <2>7. IsReady(b)
    BY <2>1, <2>2, <2>6 DEF IsReady
  <2> QED BY <1>3, <2>1, <2>2, <2>4, <2>7 DEF CurrentMeans, HasBounds
<1>8. ASSUME NEW n \in Nat,
             OccurredFrom(p, q, n) \/ OccurredUntil(p, q, n)
             \/ WithSequenceNumberHigherThan(p, q, n)
      PROVE  CurrentMeans(builders'[q])
  <2>1. PICK b : /\ builders'[q] = b
                 /\ \/ b = [old EXCEPT !.stage = "from", !.from = n]
                    \/ b = [old EXCEPT !.stage = "bounded", !.until = n]
                    \/ b = [old EXCEPT !.stage = "bounded", !.after = n]
    BY <1>0, <1>2, <1>8 DEF OccurredFrom, OccurredUntil, WithSequenceNumberHigherThan
  <2>2. /\ b.stage \in {"from", "bounded"} /\ b.item = old.item /\ b.wanted = old.wanted
        /\ b.from \in {old.from, n} /\ b.until \in {old.until, n} /\ b.after \in {old.after, n}
    BY <1>3, <2>1 DEF Builder
  <2> QED BY <1>3, <2>1, <2>2 DEF CurrentMeans, IsReady, HasBounds
<1> QED BY <1>5, <1>6, <1>7, <1>8, BuilderAssumption

(* append adds the item under construction to the items that are meant. *)
LEMMA AppendMeans ==
  ASSUME MemoryInv, ArraysAreFull, NEW p \in Slots, BuilderMeans(builders[p]),
         arrays' = AppendedTo(builders[p].items, builders[p].item),
         NEW x, x = Longer(builders[p].items),
         NEW m, m = Append(builders[p].meant, builders[p].wanted)
  PROVE  Means(x, m)'
<1>1. PICK old : old = builders[p]
  OBVIOUS
<1>2. /\ IsSlice(old.items) /\ ~HasRoom(old.items)
      /\ IsSeq(old.meant) /\ old.items.len = Len(old.meant)
  BY <1>1 DEF MemoryInv, ArraysAreFull, Holds
<1>3. PICK n \in Nat : n = Len(old.meant) /\ n = old.items.len
  BY <1>2, SeqFacts
<1>4. /\ \A i \in 1..n : Items(x)'[i] = Items(old.items)[i]
      /\ Items(x)'[n + 1] = old.item
  BY <1>1, <1>2, <1>3, ItemsOfLonger
<1>5. /\ DOMAIN old.meant = 1..n /\ DOMAIN m = 1..n + 1
      /\ \A i \in 1..n : m[i] = old.meant[i]
      /\ m[n + 1] = old.wanted
  <2>1. PICK S : old.meant \in Seq(S)
    BY <1>2 DEF IsSeq
  <2>2. PICK q, w : q = old.meant /\ w = old.wanted
    OBVIOUS
  <2>3. PICK T : T = S \cup {w}
    OBVIOUS
  <2>4. q \in Seq(T) /\ w \in T /\ m = Append(q, w) /\ n = Len(q)
    <3>1. m = Append(q, w) /\ n = Len(q)
      BY <1>1, <1>3, <2>2
    <3>2. q \in Seq(S)
      BY <2>1, <2>2
    <3>3. q \in Seq(T) /\ w \in T
      BY ONLY <2>3, <3>2
    <3> QED BY <3>1, <3>3
  <2>5. /\ DOMAIN q = 1..n /\ DOMAIN m = 1..n + 1
        /\ \A i \in 1..n : m[i] = q[i]
        /\ m[n + 1] = w
    BY ONLY <2>4
  <2> QED BY <2>2, <2>5
<1>6. /\ Fits(old.item, old.wanted)
      /\ \A i \in 1..n : Fits(Items(old.items)[i], old.meant[i])
  BY <1>1, <1>5 DEF BuilderMeans, CurrentMeans, Means
<1>7. \A i \in 1..n + 1 : Fits(Items(x)'[i], m[i])
  <2>1. \A i \in 1..n + 1 : i \in 1..n \/ i = n + 1
    OBVIOUS
  <2> QED BY <1>4, <1>5, <1>6, <2>1
<1> QED BY <1>5, <1>7 DEF Means

(* append leaves the items of all others as they are meant. *)
LEMMA OthersMean ==
  ASSUME MemoryInv, ArraysAreFull, MeaningInv, NEW p \in Slots, NEW item,
         arrays' = AppendedTo(builders[p].items, item)
  PROVE  /\ \A s \in Slots : builders'[s] = builders[s] => BuilderMeans(builders[s])'
         /\ \A s \in Slots : filters[s] # None /\ filters'[s] = filters[s] =>
              FilterMeans(filters[s])'
<1>1. IsSlice(builders[p].items) /\ ~HasRoom(builders[p].items)
  BY DEF MemoryInv, Holds, ArraysAreFull
<1>2. ASSUME NEW s \in Slots, builders'[s] = builders[s] PROVE BuilderMeans(builders[s])'
  <2>1. PICK b : b = builders[s]
    OBVIOUS
  <2>2. /\ IsSlice(b.items) /\ b.items.array \in Reachable
        /\ CurrentMeans(b) /\ Means(b.items, b.meant)
    BY <2>1 DEF MemoryInv, Holds, Reachable, MeaningInv, BuilderMeans
  <2>3. Items(b.items)' = Items(b.items)
    BY <1>1, <2>2, SliceStays
  <2>4. Means(b.items, b.meant)'
    BY <2>2, <2>3 DEF Means
  <2>5. builders'[s] = b
    BY <1>2, <2>1
  <2> QED BY <2>2, <2>4, <2>5 DEF BuilderMeans, CurrentMeans
<1>3. ASSUME NEW s \in Slots, filters[s] # None, filters'[s] = filters[s]
      PROVE  FilterMeans(filters[s])'
  <2>1. PICK f : f = filters[s]
    OBVIOUS
  <2>2. /\ IsSlice(f.items) /\ f.items.array \in Reachable
        /\ HasBounds(f) /\ Means(f.items, f.meant)
    BY <1>3, <2>1 DEF MemoryInv, Holds, Reachable, MeaningInv, FilterMeans
  <2>3. Items(f.items)' = Items(f.items)
    BY <1>1, <2>2, SliceStays
  <2>4. Means(f.items, f.meant)'
    BY <2>2, <2>3 DEF Means
  <2>5. filters'[s] = f
    BY <1>3, <2>1
  <2> QED BY <2>2, <2>4, <2>5 DEF FilterMeans
<1> QED BY <1>2, <1>3

LEMMA MeaningInitial == Init => MeaningInv
<1> SUFFICES ASSUME Init PROVE MeaningInv
  OBVIOUS
<1>1. /\ Start.item = NewItem /\ Start.wanted = NothingWanted /\ Start.stage = "builder"
      /\ Start.from = 0 /\ Start.until = 0 /\ Start.after = 0
      /\ Start.items = NilSlice /\ Start.meant = << >>
  BY DEF Start
<1>2. CurrentMeans(Start)
  BY <1>1, NothingFits DEF CurrentMeans, IsReady, HasBounds
<1>3. Means(Start.items, Start.meant)
  BY <1>1 DEF Means
<1> QED BY <1>2, <1>3 DEF Init, MeaningInv, BuilderMeans

LEMMA MeaningStep ==
  ASSUME MemoryInv, ArraysAreFull, MeaningInv, [Next]_vars
  PROVE  MeaningInv'
<1>1. ASSUME UNCHANGED arrays
      PROVE  /\ \A s \in Slots : builders'[s] = builders[s] => BuilderMeans(builders[s])'
             /\ \A s \in Slots : filters[s] # None /\ filters'[s] = filters[s] =>
                  FilterMeans(filters[s])'
  BY <1>1 DEF MeaningInv, BuilderMeans, CurrentMeans, FilterMeans, Means, Items
<1>2. ASSUME NEW p \in Slots, NEW q \in Slots,
             \/ Matching(p, q)
             \/ \E types \in TypeLists : AnyEventTypeOf(p, q, types)
             \/ \E preds \in PredLists, all \in BOOLEAN : PredicatesOf(p, q, preds, all)
             \/ \E time \in Times : OccurredFrom(p, q, time) \/ OccurredUntil(p, q, time)
             \/ \E number \in Numbers : WithSequenceNumberHigherThan(p, q, number)
      PROVE  MeaningInv'
  <2>1. CurrentMeans(builders'[q])
    BY <1>2, QuietCallsMean DEF MeaningInv, BuilderMeans
  <2>2. PICK b : /\ b.items = builders[p].items /\ b.meant = builders[p].meant
                 /\ Returns(q, b) /\ UNCHANGED <<arrays, filters>>
    BY <1>2, QuietCalls
  <2>3. builders'[q] = b /\ \A s \in Slots \ {q} : builders'[s] = builders[s]
    BY <2>2 DEF Returns, MemoryInv
  <2>4. Means(b.items, b.meant)'
    BY <2>2 DEF MeaningInv, BuilderMeans, Means, Items
  <2>5. BuilderMeans(builders[q])'
    BY <2>1, <2>3, <2>4 DEF BuilderMeans
  <2> QED BY <1>1, <2>2, <2>3, <2>5 DEF MeaningInv
<1>3. ASSUME NEW p \in Slots, NEW q \in Slots, OrMatching(p, q) PROVE MeaningInv'
  <2> DEFINE b == [builders[p] EXCEPT
                     !.stage = "empty", !.items = Longer(@), !.item = NewItem,
                     !.meant = Append(@, builders[p].wanted), !.wanted = NothingWanted]
  <2>1. /\ arrays' = AppendedTo(builders[p].items, builders[p].item)
        /\ Returns(q, b) /\ filters' = filters
    BY <1>3 DEF OrMatching
  <2>2. PICK A : builders[p] \in Builder(A)
    BY DEF MemoryInv, IsBuilder
  <2>3. /\ b.items = Longer(builders[p].items)
        /\ b.meant = Append(builders[p].meant, builders[p].wanted)
        /\ b.stage = "empty" /\ b.item = NewItem /\ b.wanted = NothingWanted
        /\ b.from = builders[p].from /\ b.until = builders[p].until
        /\ b.after = builders[p].after
    BY <2>2 DEF Builder
  <2>4. PICK new : new = b
    OBVIOUS
  <2> HIDE DEF b
  <2>5. builders'[q] = new /\ \A s \in Slots \ {q} : builders'[s] = builders[s]
    BY <2>1, <2>4 DEF Returns, MemoryInv
  <2>6. BuilderMeans(builders[p])
    BY DEF MeaningInv
  <2>7. CurrentMeans(new)
    BY <2>3, <2>4, <2>6, NothingFits DEF BuilderMeans, CurrentMeans, IsReady, HasBounds
  <2>8. Means(new.items, new.meant)'
    BY <2>1, <2>3, <2>4, <2>6, AppendMeans
  <2>9. BuilderMeans(builders[q])'
    BY <2>5, <2>7, <2>8 DEF BuilderMeans
  <2> QED BY <2>1, <2>5, <2>9, OthersMean DEF MeaningInv
<1>4. ASSUME NEW p \in Slots, NEW s \in Slots, MatchingAnyEvent(p, s) PROVE MeaningInv'
  <2>1. PICK f : /\ f = FilterOf(builders[p], builders[p].items, << >>)
                 /\ filters' = [filters EXCEPT ![s] = f]
    BY <1>4 DEF MatchingAnyEvent
  <2>2. filters'[s] = f /\ \A t \in Slots \ {s} : filters'[t] = filters[t]
    BY <2>1 DEF MemoryInv
  <2>3. HasBounds(f) /\ f.meant = << >>
    BY <2>1 DEF FilterOf, HasBounds, MeaningInv, BuilderMeans, CurrentMeans
  <2>4. FilterMeans(filters[s])'
    BY <2>2, <2>3 DEF FilterMeans, Means
  <2> QED BY <1>1, <1>4, <2>2, <2>4 DEF MeaningInv, MatchingAnyEvent
<1>5. ASSUME NEW p \in Slots, NEW s \in Slots, Finalize(p, s) PROVE MeaningInv'
  <2>1. PICK x, m : /\ x = Longer(builders[p].items)
                    /\ m = Append(builders[p].meant, builders[p].wanted)
    OBVIOUS
  <2>2. PICK f : /\ f = FilterOf(builders[p], x, m)
                 /\ filters' = [filters EXCEPT ![s] = f]
    BY <1>5, <2>1 DEF Finalize
  <2>3. arrays' = AppendedTo(builders[p].items, builders[p].item) /\ builders' = builders
    BY <1>5 DEF Finalize
  <2>4. filters'[s] = f /\ \A t \in Slots \ {s} : filters'[t] = filters[t]
    BY <2>2 DEF MemoryInv
  <2>5. HasBounds(f) /\ f.items = x /\ f.meant = m
    BY <2>2 DEF FilterOf, HasBounds, MeaningInv, BuilderMeans, CurrentMeans
  <2>6. Means(x, m)'
    BY <2>1, <2>3, AppendMeans DEF MeaningInv
  <2>7. FilterMeans(filters[s])'
    BY <2>4, <2>5, <2>6 DEF FilterMeans
  <2> QED BY <2>3, <2>4, <2>7, OthersMean DEF MeaningInv
<1>6. ASSUME NEW s \in Slots, NEW t \in Slots, NEW number \in Numbers, Reopen(s, t, number)
      PROVE  MeaningInv'
  <2>1. PICK f : /\ f = [filters[s] EXCEPT !.after = number]
                 /\ filters' = [filters EXCEPT ![t] = f]
    BY <1>6 DEF Reopen
  <2>2. /\ filters[s] # None /\ UNCHANGED <<arrays, builders>>
        /\ filters'[t] = f /\ \A u \in Slots \ {t} : filters'[u] = filters[u]
    BY <1>6, <2>1 DEF Reopen, MemoryInv
  <2>3. PICK A : filters[s] \in Filter(A)
    BY <2>2 DEF MemoryInv, IsFilter
  <2>4. /\ f.items = filters[s].items /\ f.meant = filters[s].meant
        /\ f.from = filters[s].from /\ f.until = filters[s].until /\ f.after = number
    BY <2>1, <2>3 DEF Filter
  <2>5. HasBounds(f)
    BY <2>2, <2>4, BuilderAssumption DEF MeaningInv, FilterMeans, HasBounds
  <2>6. Means(f.items, f.meant)'
    BY <2>2, <2>4 DEF MeaningInv, FilterMeans, Means, Items
  <2>7. FilterMeans(filters[t])'
    BY <2>2, <2>5, <2>6 DEF FilterMeans
  <2> QED BY <1>1, <2>2, <2>7 DEF MeaningInv
<1>7. CASE UNCHANGED vars
  BY <1>1, <1>7 DEF vars, MeaningInv
<1> QED BY <1>2, <1>3, <1>4, <1>5, <1>6, <1>7 DEF Next

-----------------------------------------------------------------------------
LEMMA EmptyIffNoElements ==
  ASSUME NEW T, NEW q \in Seq(T)
  PROVE  /\ q = << >> <=> DOMAIN q = {}
         /\ q = << >> <=> ToSet(q) = {}
<1>1. Len(q) \in Nat /\ DOMAIN q = 1..Len(q) /\ (q = << >> <=> Len(q) = 0)
  OBVIOUS
<1>2. PICK n \in Nat : n = Len(q)
  BY <1>1
<1>3. 1..n = {} <=> n = 0
  BY ONLY n \in Nat
<1>4. DOMAIN q = {} <=> Len(q) = 0
  BY <1>1, <1>2, <1>3
<1>5. ToSet(q) = {} <=> DOMAIN q = {}
  BY DEF ToSet
<1> QED BY <1>1, <1>4, <1>5

(* The expressions that the engine builds for one item. *)
LEMMA ItemSelects ==
  ASSUME NEW item, NEW wanted, Fits(item, wanted), NEW r
  PROVE  /\ IsVoid(item) <=> wanted.types = {} /\ wanted.preds = {}
         /\ TypesMatch(item, r) <=> wanted.types = {} \/ r.type \in wanted.types
         /\ PredicatesMatch(item, r) <=>
              \/ wanted.preds = {}
              \/ IF wanted.all THEN wanted.preds \subseteq r.payload
                 ELSE \E x \in wanted.preds : x \in r.payload
<1>1. item.types \in Seq(EventTypes) /\ item.preds \in Seq(Predicates) /\ item.all \in BOOLEAN
  BY DEF Fits, Item
<1>2. /\ item.types = << >> <=> wanted.types = {}
      /\ item.preds = << >> <=> wanted.preds = {}
  BY <1>1, EmptyIffNoElements DEF Fits
<1> QED BY <1>1, <1>2 DEF Fits, IsVoid, TypesMatch, PredicatesMatch

(* What holds for a filter as it can be read. *)
LEMMA FilterReads ==
  ASSUME MemoryInv, MeaningInv, NEW s \in Slots, NEW f, f = filters[s], f # None
  PROVE  /\ \E A : f \in Filter(A)
         /\ HasBounds(f) /\ IsSeq(f.meant)
         /\ ValueOf(f).items = Items(f.items)
         /\ ValueOf(f).from = f.from /\ ValueOf(f).until = f.until /\ ValueOf(f).after = f.after
         /\ DOMAIN Items(f.items) = DOMAIN f.meant
         /\ \A i \in DOMAIN f.meant : Fits(Items(f.items)[i], f.meant[i])
<1>1. /\ IsFilter(f) /\ IsSlice(f.items) /\ IsSeq(f.meant) /\ f.items.len = Len(f.meant)
      /\ HasBounds(f) /\ Means(f.items, f.meant)
  BY DEF MemoryInv, Holds, MeaningInv, FilterMeans
<1>2. PICK A : f \in Filter(A)
  BY <1>1 DEF IsFilter
<1>3. /\ ValueOf(f).items = Items(f.items)
      /\ ValueOf(f).from = f.from /\ ValueOf(f).until = f.until /\ ValueOf(f).after = f.after
  BY <1>2 DEF ValueOf, Filter
<1>4. DOMAIN Items(f.items) = 1..f.items.len
  BY <1>1, ItemsOfSlice
<1>5. DOMAIN f.meant = 1..Len(f.meant)
  <2>1. PICK S : f.meant \in Seq(S)
    BY <1>1 DEF IsSeq
  <2> QED BY <2>1
<1> QED BY <1>1, <1>2, <1>3, <1>4, <1>5 DEF Means

LEMMA MeaningSelects == MemoryInv /\ MeaningInv => SelectsWhatWasMeant
<1> SUFFICES ASSUME MemoryInv, MeaningInv,
                    NEW s \in Slots, filters[s] # None,
                    VoidItems(filters[s]) = {},
                    NEW r \in Rows
             PROVE  Matches(ValueOf(filters[s]), r) <=> Meant(filters[s], r)
  BY DEF SelectsWhatWasMeant
<1>1. PICK f : f = filters[s]
  OBVIOUS
<1>2. PICK v : v = ValueOf(f)
  OBVIOUS
<1>3. PICK I : I = Items(f.items)
  OBVIOUS
<1>4. /\ v.items = I /\ v.from = f.from /\ v.until = f.until /\ v.after = f.after
      /\ HasBounds(f) /\ IsSeq(f.meant) /\ DOMAIN I = DOMAIN f.meant
      /\ \A i \in DOMAIN f.meant : Fits(I[i], f.meant[i])
  BY <1>1, <1>2, <1>3, FilterReads
<1>5. f.meant = << >> <=> DOMAIN f.meant = {}
  <2>1. PICK S : f.meant \in Seq(S)
    BY <1>4 DEF IsSeq
  <2> QED BY <2>1, EmptyIffNoElements
<1> DEFINE Fine(i) ==
             /\ f.meant[i].types = {} \/ r.type \in f.meant[i].types
             /\ \/ f.meant[i].preds = {}
                \/ IF f.meant[i].all THEN f.meant[i].preds \subseteq r.payload
                   ELSE \E x \in f.meant[i].preds : x \in r.payload
           live == {i \in DOMAIN I : ~IsVoid(I[i])}
<1>6. \A i \in DOMAIN f.meant :
        /\ i \in VoidItems(f) <=> IsVoid(I[i])
        /\ TypesMatch(I[i], r) /\ PredicatesMatch(I[i], r) <=> Fine(i)
  BY <1>4, ItemSelects DEF VoidItems
<1>7. ItemsMatch(I, r) <=> live = {} \/ \E i \in live : Fine(i)
  BY <1>4, <1>6 DEF ItemsMatch
<1>8. live = DOMAIN f.meant \ VoidItems(f)
  BY <1>4, <1>6
<1> HIDE DEF live, Fine
<1>9. ItemsMatch(I, r) <=> (f.meant # << >> => \E i \in DOMAIN f.meant : Fine(i))
  <2>1. VoidItems(f) = {}
    BY <1>1
  <2> QED BY <1>5, <1>7, <1>8, <2>1
<1>10. OccurredAtMatches(v, r) <=> /\ f.from = 0 \/ f.from <= r.time
                                   /\ f.until = 0 \/ r.time <= f.until
  <2>1. r.time \in Nat
    BY BuilderAssumption
  <2> QED BY <1>4, <2>1 DEF OccurredAtMatches, HasBounds
<1>11. SequenceMatches(v, r) <=> r.seq > f.after
  <2>1. r.seq \in Nat \ {0}
    BY BuilderAssumption
  <2> QED BY <1>4, <2>1 DEF SequenceMatches, HasBounds
<1>12. Matches(v, r) <=> Meant(f, r)
  BY <1>4, <1>9, <1>10, <1>11 DEF Matches, Meant, Fine
<1> QED BY <1>1, <1>2, <1>12

LEMMA MeaningSerializes == MemoryInv /\ MeaningInv => SerializationIsCanonical
<1> SUFFICES ASSUME MemoryInv, MeaningInv,
                    NEW s \in Slots, filters[s] # None,
                    \A i \in DOMAIN filters[s].meant : KeysAreUnique(filters[s].meant[i])
             PROVE  Serialize(ValueOf(filters[s])) =
                      Serialize([filters[s] EXCEPT !.items =
                        [i \in DOMAIN filters[s].meant |-> CanonicalItem(filters[s].meant[i])]])
  BY DEF SerializationIsCanonical
<1>1. PICK f : f = filters[s]
  OBVIOUS
<1> DEFINE canonical == [i \in DOMAIN f.meant |-> CanonicalItem(f.meant[i])]
<1>2. PICK v, w : v = ValueOf(f) /\ w = [f EXCEPT !.items = canonical]
  OBVIOUS
<1>3. PICK I : I = Items(f.items)
  OBVIOUS
<1>4. /\ v.items = I /\ v.from = f.from /\ v.until = f.until /\ v.after = f.after
      /\ DOMAIN I = DOMAIN f.meant
      /\ \A i \in DOMAIN f.meant : Fits(I[i], f.meant[i])
  BY <1>1, <1>2, <1>3, FilterReads
<1>5. PICK A : f \in Filter(A)
  BY <1>1, FilterReads
<1>6. w.items = canonical /\ w.from = f.from /\ w.until = f.until /\ w.after = f.after
  BY <1>2, <1>5 DEF Filter
<1>7. \A i \in DOMAIN I : /\ I[i].types = canonical[i].types
                          /\ I[i].preds = canonical[i].preds
                          /\ I[i].all = canonical[i].all
  BY <1>1, <1>4 DEF Fits, CanonicalItem
<1>8. DOMAIN canonical = DOMAIN I
  BY <1>4
<1> HIDE DEF canonical
<1>9. [i \in DOMAIN I |-> <<I[i].types, I[i].preds, I[i].all>>] =
        [i \in DOMAIN canonical |->
           <<canonical[i].types, canonical[i].preds, canonical[i].all>>]
  BY <1>7, <1>8
<1>10. Serialize(v) = Serialize(w)
  BY <1>4, <1>6, <1>9 DEF Serialize
<1> QED BY <1>1, <1>2, <1>10 DEF canonical

LEMMA SmallFiltersAreMeant ==
  ASSUME MaxItems <= 3
  PROVE  Spec => [](MemoryInv /\ MeaningInv)
<1>1. Init => MemoryInv /\ ArraysAreFull /\ MeaningInv
  BY MemoryInitial, FullInitial, MeaningInitial
<1>2. MemoryInv /\ ArraysAreFull /\ MeaningInv /\ [Next]_vars =>
        (MemoryInv /\ ArraysAreFull /\ MeaningInv)'
  BY MemoryStep, FullStep, MeaningStep
<1> QED BY <1>1, <1>2, PTL DEF Spec

(* Every item of every builder and filter is what the chain of calls has   *)
(* asked for, each type and predicate once and in order, as long as        *)
(* filters have at most three items.                                       *)
THEOREM ItemsAreMeant ==
  ASSUME MaxItems <= 3
  PROVE  Spec => []MeaningInv
  BY SmallFiltersAreMeant, PTL

(* The WHERE clause selects the rows that the chain of calls describes,    *)
(* for any rows and any arguments that leave each item a condition, as     *)
(* long as filters have at most three items.  It says nothing of a filter  *)
(* with an item all of whose arguments are removed by sanitizing.          *)
THEOREM SmallFiltersSelect ==
  ASSUME MaxItems <= 3
  PROVE  Spec => []SelectsWhatWasMeant
  BY SmallFiltersAreMeant, MeaningSelects, PTL

(* Filters that mean the same have the same serialization, and so the      *)
(* same hash, as long as they have at most three items and no item uses a  *)
(* key twice.                                                              *)
THEOREM SmallFiltersSerialize ==
  ASSUME MaxItems <= 3
  PROVE  Spec => []SerializationIsCanonical
  BY SmallFiltersAreMeant, MeaningSerializes, PTL
=============================================================================
