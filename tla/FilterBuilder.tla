---------------------------- MODULE FilterBuilder ----------------------------
(***************************************************************************)
(* The fluent builder of filters, with the memory of its slices.  All      *)
(* methods have value receivers, so a builder is copied by every call; but *)
(* the items of a filter are a slice, and append writes into its array if  *)
(* there is room behind its length.  Builders and filters that were copied *)
(* from one another share that array.                                      *)
(*                                                                         *)
(* The interfaces of the builder restrict which methods can be called; the *)
(* stage of a builder names the interface it has been returned as.         *)
(***************************************************************************)
EXTENDS EventFilter

CONSTANTS
  Slots,      \* variables in which a client keeps builders and filters
  TypeLists,  \* arguments of AnyEventTypeOf
  PredLists,  \* arguments of AnyPredicateOf and AllPredicatesOf
  Times,      \* arguments of OccurredFrom and OccurredUntil
  Numbers,    \* arguments of WithSequenceNumberHigherThan
  Rows,       \* sample rows of the events table
  MaxItems    \* bound on the items of a filter

ASSUME BuilderAssumption ==
  /\ TypeLists \subseteq Seq(EventTypes) \ {<< >>} /\ PredLists \subseteq Seq(Predicates) \ {<< >>}
  /\ Times \subseteq Nat /\ Numbers \subseteq Nat
  /\ Rows \subseteq [type : EventTypes, payload : SUBSET Predicates, time : Nat, seq : Nat \ {0}]
  /\ IsFiniteSet(Slots) /\ MaxItems \in Nat

VARIABLES
  arrays,    \* the arrays behind the slices of items
  builders,  \* slot -> builder
  filters    \* slot -> filter

vars == <<arrays, builders, filters>>

-----------------------------------------------------------------------------
None == [stage |-> "none"]

(* Enough arrays for every slot to hold two of its own, and a new one. *)
Arrays == 1..2 * Cardinality(Slots) + 1

(* A slice: the array it points to (0: nil) and its length. *)
NilSlice == [array |-> 0, len |-> 0]

Capacity(slice) == IF slice.array = 0 THEN 0 ELSE Len(arrays[slice.array])

Items(slice) == IF slice.array = 0 THEN << >> ELSE SubSeq(arrays[slice.array], 1, slice.len)

(* The arrays somebody can still reach; the others are garbage. *)
Reachable == {builders[s].items.array : s \in Slots}
             \cup {filters[s].items.array : s \in {t \in Slots : filters[t] # None}}

NewArray == CHOOSE a \in Arrays : a \notin Reachable

(* append(slice, item): in place if the array has room, else in a new      *)
(* array of twice the capacity.                                            *)
HasRoom(slice) == slice.len < Capacity(slice)

Grown(slice, item) ==
  LET size == IF slice.len = 0 THEN 1 ELSE 2 * slice.len
  IN  Items(slice) \o <<item>> \o [i \in 1..size - slice.len - 1 |-> NewItem]

AppendedTo(slice, item) ==
  IF HasRoom(slice)
  THEN [arrays EXCEPT ![slice.array][slice.len + 1] = item]
  ELSE [a \in Arrays |-> IF a = NewArray THEN Grown(slice, item)
                         ELSE IF a \in Reachable THEN arrays[a] ELSE << >>]

Longer(slice) ==
  [array |-> IF HasRoom(slice) THEN slice.array ELSE NewArray, len |-> slice.len + 1]

(* A filter with its items as they can be read now. *)
ValueOf(f) == [f EXCEPT !.items = Items(f.items)]

(* BuildEventFilter.  wanted and meant record what the caller has asked    *)
(* for, the item under construction and the items before it, as sets.      *)
NothingWanted == [types |-> {}, preds |-> {}, all |-> FALSE]
Start ==
  [stage |-> "builder", items |-> NilSlice, item |-> NewItem,
   from |-> 0, until |-> 0, after |-> 0, wanted |-> NothingWanted, meant |-> << >>]

Init ==
  /\ arrays = [a \in Arrays |-> << >>]
  /\ builders = [s \in Slots |-> Start]
  /\ filters = [s \in Slots |-> None]

-----------------------------------------------------------------------------
(* The result of a call on the builder in slot p goes to slot q. *)
Returns(q, builder) == builders' = [builders EXCEPT ![q] = builder]

(* The stages in which an item is complete enough to be finalized. *)
ItemStages == {"lackingPredicates", "lackingEventTypes", "completed"}

Matching(p, q) ==
  /\ builders[p].stage = "builder"
  /\ Returns(q, [builders[p] EXCEPT !.stage = "empty", !.item = NewItem])
  /\ UNCHANGED <<arrays, filters>>

(* AnyEventTypeOf and AndAnyEventTypeOf *)
AnyEventTypeOf(p, q, types) ==
  /\ builders[p].stage \in {"empty", "lackingEventTypes"}
  /\ Returns(q, [builders[p] EXCEPT
        !.stage = IF @ = "empty" THEN "lackingPredicates" ELSE "completed",
        !.item.types = @ \o SanitizeEventTypes(types),
        !.wanted.types = ToSet(types) \ {Empty}])
  /\ UNCHANGED <<arrays, filters>>

(* AnyPredicateOf, AndAnyPredicateOf (all = FALSE), AllPredicatesOf and    *)
(* AndAllPredicatesOf (all = TRUE)                                         *)
PredicatesOf(p, q, preds, all) ==
  /\ builders[p].stage \in {"empty", "lackingPredicates"}
  /\ Returns(q, [builders[p] EXCEPT
        !.stage = IF @ = "empty" THEN "lackingEventTypes" ELSE "completed",
        !.item.preds = @ \o SanitizePredicates(preds),
        !.item.all = @ \/ all,
        !.wanted.preds = {x \in ToSet(preds) : x.key # Empty /\ x.val # Empty},
        !.wanted.all = all])
  /\ UNCHANGED <<arrays, filters>>

OccurredFrom(p, q, time) ==
  /\ builders[p].stage \in ItemStages \cup {"builder"}
  /\ Returns(q, [builders[p] EXCEPT !.stage = "from", !.from = time])
  /\ UNCHANGED <<arrays, filters>>

(* OccurredUntil and AndOccurredUntil *)
OccurredUntil(p, q, time) ==
  /\ builders[p].stage \in ItemStages \cup {"builder", "from"}
  /\ Returns(q, [builders[p] EXCEPT !.stage = "bounded", !.until = time])
  /\ UNCHANGED <<arrays, filters>>

WithSequenceNumberHigherThan(p, q, number) ==
  /\ builders[p].stage \in ItemStages \cup {"builder"}
  /\ Returns(q, [builders[p] EXCEPT !.stage = "bounded", !.after = number])
  /\ UNCHANGED <<arrays, filters>>

(* Mutant: the current item is not reset. *)
OrMatchingKeepingItem(p, q) ==
  /\ builders[p].stage \in ItemStages
  /\ Len(builders[p].meant) + 1 < MaxItems
  /\ arrays' = AppendedTo(builders[p].items, builders[p].item)
  /\ Returns(q, [builders[p] EXCEPT
        !.stage = "empty", !.items = Longer(@),
        !.meant = Append(@, builders[p].wanted), !.wanted = NothingWanted])
  /\ UNCHANGED filters

OrMatching(p, q) ==
  /\ builders[p].stage \in ItemStages
  /\ Len(builders[p].meant) + 1 < MaxItems
  /\ arrays' = AppendedTo(builders[p].items, builders[p].item)
  /\ Returns(q, [builders[p] EXCEPT
        !.stage = "empty", !.items = Longer(@), !.item = NewItem,
        !.meant = Append(@, builders[p].wanted), !.wanted = NothingWanted])
  /\ UNCHANGED filters

FilterOf(builder, items, meant) ==
  [stage |-> "filter", items |-> items, from |-> builder.from, until |-> builder.until,
   after |-> builder.after, meant |-> meant]

MatchingAnyEvent(p, s) ==
  /\ builders[p].stage = "builder"
  /\ filters' = [filters EXCEPT ![s] = FilterOf(builders[p], builders[p].items, << >>)]
  /\ UNCHANGED <<arrays, builders>>

(* Mutant: the item under construction is not added. *)
FinalizeWithoutItem(p, s) ==
  /\ builders[p].stage \in ItemStages \cup {"from", "bounded"}
  /\ filters' = [filters EXCEPT ![s] =
        FilterOf(builders[p], builders[p].items,
                 Append(builders[p].meant, builders[p].wanted))]
  /\ UNCHANGED <<arrays, builders>>

Finalize(p, s) ==
  /\ builders[p].stage \in ItemStages \cup {"from", "bounded"}
  /\ arrays' = AppendedTo(builders[p].items, builders[p].item)
  /\ filters' = [filters EXCEPT ![s] =
        FilterOf(builders[p], Longer(builders[p].items),
                 Append(builders[p].meant, builders[p].wanted))]
  /\ UNCHANGED builders

(* ReopenForSequenceFiltering on a filter without time boundaries, then    *)
(* WithSequenceNumberHigherThan and Finalize: a filter with the same slice *)
(* of items.  With time boundaries there is nothing to continue with.      *)
CanReopen(f) == f.from = 0 /\ f.until = 0

Reopen(s, t, number) ==
  /\ filters[s] # None
  /\ CanReopen(filters[s])
  /\ filters' = [filters EXCEPT ![t] = [filters[s] EXCEPT !.after = number]]
  /\ UNCHANGED <<arrays, builders>>

Next ==
  \/ \E p, q \in Slots :
       \/ Matching(p, q)
       \/ \E types \in TypeLists : AnyEventTypeOf(p, q, types)
       \/ \E preds \in PredLists, all \in BOOLEAN : PredicatesOf(p, q, preds, all)
       \/ \E time \in Times : OccurredFrom(p, q, time) \/ OccurredUntil(p, q, time)
       \/ \E number \in Numbers : WithSequenceNumberHigherThan(p, q, number)
       \/ OrMatching(p, q)
  \/ \E p, s \in Slots : MatchingAnyEvent(p, s) \/ Finalize(p, s)
  \/ \E s, t \in Slots, number \in Numbers : Reopen(s, t, number)

Spec == Init /\ [][Next]_vars

-----------------------------------------------------------------------------
IsSlice(slice) ==
  slice = NilSlice \/ (slice.array \in DOMAIN arrays /\ slice.len \in 1..Len(arrays[slice.array]))

(* Slices stay within their arrays; a filter has as many items as the      *)
(* chain of calls has asked for.                                           *)
TypeOK ==
  /\ \A s \in Slots : IsSlice(builders[s].items)
                      /\ builders[s].items.len = Len(builders[s].meant)
  /\ \A s \in Slots : filters[s] # None =>
       IsSlice(filters[s].items) /\ filters[s].items.len = Len(filters[s].meant)

(* The meaning of a filter for its reader: an event matches if one of the  *)
(* items does, an item by one of its event types and by one or all of its  *)
(* predicates, within the time boundaries (inclusive), above the sequence  *)
(* number (exclusive).                                                     *)
Meant(f, r) ==
  /\ f.meant # << >> =>
       \E i \in DOMAIN f.meant :
         LET item == f.meant[i]
         IN  /\ item.types = {} \/ r.type \in item.types
             /\ \/ item.preds = {}
                \/ IF item.all THEN item.preds \subseteq r.payload
                   ELSE \E x \in item.preds : x \in r.payload
  /\ f.from = 0 \/ f.from <= r.time
  /\ f.until = 0 \/ r.time <= f.until
  /\ r.seq > f.after

VoidItems(f) == {i \in DOMAIN f.meant : f.meant[i].types = {} /\ f.meant[i].preds = {}}

(* The WHERE clause selects what the calls of the chain have asked for, if *)
(* each of its items has a condition.  An item that has none, because      *)
(* sanitizing removed all of its arguments, is dropped from the OR: a      *)
(* filter of such items alone selects every event (FiltersHaveConditions), *)
(* one that has other items too selects what these select.                 *)
SelectsWhatWasMeant ==
  \A s \in Slots : (filters[s] # None /\ VoidItems(filters[s]) = {}) =>
    \A r \in Rows : Matches(ValueOf(filters[s]), r) <=> Meant(filters[s], r)

(* The item of everybody who wants the same: each type and predicate once, *)
(* in one order.  It is determined as long as no key is used twice.        *)
KeysAreUnique(wanted) == \A x, y \in wanted.preds : x.key = y.key => x = y

Listing(S, keys) ==
  [n \in 1..Cardinality(S) |-> CHOOSE x \in S : Cardinality({y \in S : keys[y] < keys[x]}) = n - 1]

CanonicalTypes(types) == Listing(types, [x \in types |-> x])
CanonicalPreds(preds) == Listing(preds, [x \in preds |-> x.key])

CanonicalItem(wanted) ==
  [types |-> CanonicalTypes(wanted.types), preds |-> CanonicalPreds(wanted.preds),
   all |-> wanted.all]

(* Filters that mean the same are serialized to the same, so Hash finds    *)
(* the snapshot of a filter whatever the order of the arguments, the       *)
(* duplicates and the empty strings it was built from - unless an item     *)
(* asks for two values of one key (eventstore/filter.go:88).               *)
SerializationIsCanonical ==
  \A s \in Slots : (filters[s] # None /\ \A i \in DOMAIN filters[s].meant :
                                          KeysAreUnique(filters[s].meant[i])) =>
    LET canonical == [i \in DOMAIN filters[s].meant |-> CanonicalItem(filters[s].meant[i])]
    IN  Serialize(ValueOf(filters[s])) = Serialize([filters[s] EXCEPT !.items = canonical])

(* A finalized filter without boundaries restricts what is read            *)
(* ("Finalize returns the Filter once it has at least one FilterItem with  *)
(* at least one EventType OR one Predicate", eventstore/filter.go:578);    *)
(* only MatchingAnyEvent gives one that does not.                          *)
HasBoundary(f) == f.from # 0 \/ f.until # 0 \/ f.after # 0

FiltersHaveConditions ==
  \A s \in Slots : (filters[s] # None /\ filters[s].meant # << >> /\ ~HasBoundary(filters[s])) =>
    \E i \in 1..filters[s].items.len : ~IsVoid(Items(filters[s].items)[i])

(* A filter that has been handed out keeps its items, whatever is done     *)
(* with the builders and filters it was made from ("Reuse slice            *)
(* (immutable)", eventstore/filter.go:617).                                *)
FinalizedFiltersAreImmutable ==
  [][\A s \in Slots : (filters[s] # None /\ filters'[s] = filters[s]) =>
       Items(filters[s].items)' = Items(filters[s].items)]_vars
=============================================================================
