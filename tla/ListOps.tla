------------------------------- MODULE ListOps -------------------------------
(***************************************************************************)
(* What the operations of lib/list.hh do to a list, as operators on        *)
(* sequences of [item, key].                                               *)
(***************************************************************************)
EXTENDS Integers, Sequences, FiniteSets, FiniteSetsExt

Element(item, key) == [item |-> item, key |-> key]

(* List::Append and Prepend use key 0. *)
ListAppend(q, item) == Append(q, Element(item, 0))

ListPrepend(q, item) == <<Element(item, 0)>> \o q

(* List::SortedInsert: before the first element with a greater key, so     *)
(* behind those with an equal one.                                         *)
SortedInsert(q, item, key) ==
  LET bigger == {i \in DOMAIN q : key < q[i].key}
      place == IF bigger = {} THEN Len(q) + 1 ELSE Min(bigger)
  IN  SubSeq(q, 1, place - 1) \o <<Element(item, key)>> \o SubSeq(q, place, Len(q))

(* List::SortedPop and List::Pop on a list that is not empty. *)
SortedPop(q) == Tail(q)

(* List::Has. *)
Has(q, item) == \E i \in DOMAIN q : q[i].item = item

(* List::Remove takes out the first element that holds the item. *)
ListRemove(q, item) ==
  LET i == Min({k \in DOMAIN q : q[k].item = item})
  IN  IF Has(q, item) THEN SubSeq(q, 1, i - 1) \o SubSeq(q, i + 1, Len(q)) ELSE q

(* The order SortedInsert keeps. *)
Sorted(q) == \A i, j \in DOMAIN q : i < j => q[i].key <= q[j].key
=============================================================================
