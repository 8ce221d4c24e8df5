------------------------------ MODULE NbrStack ------------------------------
(***************************************************************************)
(* nbr_stack<T> (src/include/ds/nbr_stack.h): the chain of immutable      *)
(* tables of one tier, newest at the head.  A stack value is a record:    *)
(*   head : the node at head_ (None when empty),                          *)
(*   next : every node's next pointer (None for a null pointer),          *)
(*   n    : the counter num_nodes_.                                       *)
(* Every table is pushed at most once, so a node is named by its table.   *)
(* Nodes that pop_backs_if unlinks keep their own next pointers, as the   *)
(* shared_ptr<Node>s an Iterator may still hold do.                       *)
(***************************************************************************)
EXTENDS Naturals, Sequences

CONSTANTS Ids, None

Empty == [head |-> None, next |-> [i \in Ids |-> None], n |-> 0]

(* The nodes reachable from p by next pointers, in iteration order.       *)
RECURSIVE ChainFrom(_, _)
ChainFrom(st, p) == IF p = None THEN <<>> ELSE <<p>> \o ChainFrom(st, st.next[p])

Chain(st) == ChainFrom(st, st.head)

(* empty() and size() read num_nodes_ under the shared lock smu_, not     *)
(* the chain itself.                                                      *)
IsEmpty(st) == st.n = 0

Size(st) == st.n

(* push_front: the new node's next is the old head; num_nodes_++.         *)
PushFront(st, t) ==
    [head |-> t, next |-> [st.next EXCEPT ![t] = st.head], n |-> st.n + 1]

(* pop_backs_if(crit): walk from the head; pred is the last node failing  *)
(* crit and last_cnt the number of nodes after it (all satisfying crit).  *)
(* Cut the chain after pred, or empty head_ if no node fails crit;        *)
(* num_nodes_ -= last_cnt.  Crit is the set of nodes satisfying crit.     *)
PopBacksIf(st, Crit) ==
    LET c       == Chain(st)
        fails   == {i \in 1..Len(c) : c[i] \notin Crit}
        lastCnt == IF fails = {} THEN Len(c)
                   ELSE Len(c) - (CHOOSE i \in fails : \A j \in fails : j =< i)
        predIx  == Len(c) - lastCnt
    IN [head |-> IF predIx = 0 /\ lastCnt > 0 THEN None ELSE st.head,
        next |-> IF predIx > 0 THEN [st.next EXCEPT ![c[predIx]] = None] ELSE st.next,
        n    |-> st.n - lastCnt]

=============================================================================
