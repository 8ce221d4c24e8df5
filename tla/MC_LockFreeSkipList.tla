------------------------- MODULE MC_LockFreeSkipList -------------------------
EXTENDS LockFreeSkipList

CONSTANTS n1, n2, n3, g1

(* n1 < n2 = n3 by key.  n1 is as high as head_ (three levels), n2 two,  *)
(* n3 one: tall nodes race on the upper levels, and a retry can start    *)
(* from n1 as preds[kMaxHeight-1]; two nodes of one key race on level 0. *)
MCKey == [n \in {n1, n2, n3} |-> IF n = n1 THEN 1 ELSE 2]
MCHeight == [n \in {n1, n2, n3} |-> IF n = n3 THEN 1 ELSE IF n = n1 THEN 3 ELSE 2]

=============================================================================
