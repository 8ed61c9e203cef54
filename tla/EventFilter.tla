----------------------------- MODULE EventFilter -----------------------------
(***************************************************************************)
(* Filters as values: what the builder does to the event types and         *)
(* predicates it is given, and the WHERE clause that the engine builds     *)
(* from a filter.                                                          *)
(*                                                                         *)
(* Event types, JSON keys and JSON values are numbers in the order of the  *)
(* strings they stand for; Empty is "".  Times are numbers, too; 0 is the  *)
(* zero time, that is, no boundary.                                        *)
(***************************************************************************)
EXTENDS Naturals, SequencesExt

Empty == 0

P(key, val) == [key |-> key, val |-> val]
Predicates == [key : Nat, val : Nat]
EventTypes == Nat

NewItem == [types |-> << >>, preds |-> << >>, all |-> FALSE]

-----------------------------------------------------------------------------
(* The elements of s at the places in I, in the order of their keys and,   *)
(* where these are equal, of their places.                                 *)
InOrder(s, I, keys) ==
  LET Precedes(i, j) == keys[i] < keys[j] \/ (keys[i] = keys[j] /\ i < j)
      Rank(i) == Cardinality({j \in I : Precedes(j, i)}) + 1
  IN  [n \in 1..Cardinality(I) |-> s[CHOOSE i \in I : Rank(i) = n]]

(* slices.DeleteFunc: what is left are the places in I. *)
Only(s, I) == InOrder(s, I, [i \in DOMAIN s |-> i])

(* slices.Sort and SortFunc: s in the order of the keys of its elements;   *)
(* stable, as the insertion sort for slices of up to 12 elements is.       *)
SortedBy(s, keys) == InOrder(s, DOMAIN s, keys)

(* slices.Compact: drops the elements that equal their predecessor. *)
Compact(s) == Only(s, {i \in DOMAIN s : i = 1 \/ s[i] # s[i - 1]})

NonemptyTypes(types) == Only(types, {i \in DOMAIN types : types[i] # Empty})

(* Mutant: Compact without the sorting before it. *)
SanitizeTypesUnsorted(types) == Compact(NonemptyTypes(types))

SanitizeEventTypes(types) ==
  LET kept == NonemptyTypes(types)
  IN  Compact(SortedBy(kept, kept))

(* Predicates are sorted by key only. *)
SanitizePredicates(preds) ==
  LET kept == Only(preds, {i \in DOMAIN preds : preds[i].key # Empty /\ preds[i].val # Empty})
  IN  Compact(SortedBy(kept, [i \in DOMAIN kept |-> kept[i].key]))

-----------------------------------------------------------------------------
(* The WHERE clause.  goqu drops an empty list of expressions from the     *)
(* list it is put into, so an item without event types and predicates is   *)
(* dropped from the OR over the items.                                     *)
(*                                                                         *)
(* A row: its event type, its payload as the set of its top-level string   *)
(* fields, its occurred_at and its sequence number.                        *)
TypesMatch(item, r) == item.types = << >> \/ r.type \in ToSet(item.types)

PredicatesMatch(item, r) ==
  \/ item.preds = << >>
  \/ item.all /\ ToSet(item.preds) \subseteq r.payload
  \/ ~item.all /\ ToSet(item.preds) \cap r.payload # {}

IsVoid(item) == item.types = << >> /\ item.preds = << >>

ItemsMatch(items, r) ==
  LET live == {i \in DOMAIN items : ~IsVoid(items[i])}
  IN  \/ live = {}
      \/ \E i \in live : TypesMatch(items[i], r) /\ PredicatesMatch(items[i], r)

OccurredAtMatches(f, r) ==
  /\ f.from # 0 => r.time >= f.from
  /\ f.until # 0 => r.time <= f.until

SequenceMatches(f, r) == f.after > 0 => r.seq > f.after

Matches(f, r) == ItemsMatch(f.items, r) /\ OccurredAtMatches(f, r) /\ SequenceMatches(f, r)

-----------------------------------------------------------------------------
(* What Hash is taken of: the lists of every item as they stand, how its   *)
(* predicates combine, and the boundaries that are set.                    *)
Serialize(f) ==
  LET Boundary(name, bound) == IF bound = 0 THEN << >> ELSE << <<name, bound>> >>
  IN  [items |-> [i \in DOMAIN f.items |->
                    <<f.items[i].types, f.items[i].preds, f.items[i].all>>],
       boundaries |-> Boundary("from", f.from) \o Boundary("until", f.until)
                      \o Boundary("after", f.after)]
=============================================================================
