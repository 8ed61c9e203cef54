--------------------------- MODULE FilterInvariants ---------------------------
(***************************************************************************)
(* What a chain of calls on the builder keeps up, call by call: the items  *)
(* that can be read through a slice, and the item under construction, are  *)
(* what the caller has asked for.                                          *)
(***************************************************************************)
EXTENDS FilterBuilder

Item == [types : Seq(EventTypes), preds : Seq(Predicates), all : BOOLEAN]
Wanted == [types : SUBSET EventTypes, preds : SUBSET Predicates, all : BOOLEAN]

(* The lists of an item have the elements that were asked for, in the      *)
(* canonical order.                                                        *)
Fits(item, wanted) ==
  /\ item \in Item /\ wanted \in Wanted
  /\ ToSet(item.types) = wanted.types
  /\ ToSet(item.preds) = wanted.preds
  /\ item.all = wanted.all
  /\ item.types = CanonicalTypes(wanted.types)
  /\ KeysAreUnique(wanted) => item.preds = CanonicalPreds(wanted.preds)

(* The next call finds the lists that it fills still empty. *)
IsReady(b) ==
  /\ b.stage \in {"builder", "empty"} => b.item = NewItem
  /\ b.stage = "lackingEventTypes" => b.item.types = << >>
  /\ b.stage = "lackingPredicates" => b.item.preds = << >> /\ b.item.all = FALSE

HasBounds(x) == x.from \in Nat /\ x.until \in Nat /\ x.after \in Nat

(* The items that can be read through a slice are those that are meant. *)
Means(slice, meant) == \A i \in DOMAIN meant : Fits(Items(slice)[i], meant[i])

(* The item under construction, and what the next call finds. *)
CurrentMeans(b) == Fits(b.item, b.wanted) /\ IsReady(b) /\ HasBounds(b)

BuilderMeans(b) == CurrentMeans(b) /\ Means(b.items, b.meant)

FilterMeans(f) == HasBounds(f) /\ Means(f.items, f.meant)

(* Every item of every builder and filter is what the calls of the chain   *)
(* have asked for, each type and predicate once, in the canonical order.   *)
MeaningInv ==
  \A s \in Slots : /\ BuilderMeans(builders[s])
                   /\ filters[s] # None => FilterMeans(filters[s])
=============================================================================
