----------------------------- MODULE SortedList -----------------------------
(***************************************************************************)
(* What lockfree_skiplist promises its users (MemTable::add and get): an  *)
(* ordered list of nodes that only grows, one node at a time, each new    *)
(* node placed before the first node whose key is not smaller.  Nodes of  *)
(* one MemTable carry the same tag, so among equal keys the node inserted *)
(* last comes first, and find returns it.                                  *)
(***************************************************************************)
EXTENDS Naturals, Sequences, SequencesExt

CONSTANTS Nodes, NKey   \* NKey : [Nodes -> Nat]

VARIABLE list

(* The position before the first element whose key is >= NKey[n].        *)
Slot(s, n) == Len(SelectSeq(s, LAMBDA e : NKey[e] < NKey[n])) + 1

Insert(n) ==
    /\ n \notin ToSet(list)
    /\ list' = InsertAt(list, Slot(list, n), n)

Init == list = <<>>

Next == \E n \in Nodes : Insert(n)

Spec == Init /\ [][Next]_list

=============================================================================
