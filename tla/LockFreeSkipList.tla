-------------------------- MODULE LockFreeSkipList --------------------------
(***************************************************************************)
(* lockfree_skiplist (src/ds/lockfree_skiplist.cc), the index of a        *)
(* MemTable: concurrent insert, one thread per new node, and concurrent   *)
(* find, each pointer load or compare-and-swap one step.                  *)
(*                                                                         *)
(* insert runs find_position (a descent that records preds/succs per      *)
(* level), stores the node's next pointers, publishes the node with a CAS *)
(* on preds[0]->next[0] and then links each upper level with its own CAS, *)
(* re-running find_position from preds[kMaxHeight-1] down to that level    *)
(* when the CAS fails.  Nodes are never removed.  A node is private until *)
(* its level-0 CAS, so its own stores before that are one step with it.   *)
(***************************************************************************)
EXTENDS Naturals, Sequences, FiniteSets, SequencesExt

CONSTANTS
    Nodes,       \* the nodes MemTable::add inserts, one inserting thread each
    NKey,        \* [Nodes -> 1..]: the user key (key 0 is head_key)
    NHeight,     \* [Nodes -> 1..MaxH]: the random height of the node
    MaxH,        \* kMaxHeight, the height of head_
    Finders,     \* threads calling find (MemTable::get)
    FindKeys,    \* keys the finders look up
    MaxFinds,    \* finds per finder thread
    HeadNode, Nil    \* head_ and NULL

VARIABLES
    nxt,         \* nxt[x][l]: x->next[l]
    ipc,         \* inserter: "find", "cas0", "up", "done"
    fp, fl,      \* find_position's pred and level
    minh,        \* find_position's min_h
    preds, succs,
    il,          \* the upper level being linked
    lin,         \* history: nodes in the order of their level-0 CAS
    gpc,         \* finder: "idle", "walk", "ret"
    gk, gp, gl,  \* find's key, pred and level
    gres,        \* what find returned
    gseen,       \* nodes with key gk published when the find began
    finds        \* finds begun per finder

vars == <<nxt, ipc, fp, fl, minh, preds, succs, il, lin,
          gpc, gk, gp, gl, gres, gseen, finds>>

All == Nodes \cup {HeadNode}
Lvls == 0..(MaxH - 1)
Ht(x) == IF x = HeadNode THEN MaxH ELSE NHeight[x]
KeyOf(x) == IF x = HeadNode THEN 0 ELSE NKey[x]

(* UINT64_cmp (common.h): NULL is greater than everything; then the key; *)
(* then the tag.  The tags of one MemTable's nodes are equal               *)
(* (seq_order_ << 8 | kTypeValue), so two nodes of one key compare equal.  *)
(* Against a node or a key alike.                                          *)
Cmp(a, k) == IF a = Nil \/ KeyOf(a) > k THEN 1
             ELSE IF KeyOf(a) < k THEN -1 ELSE 0

(* The nodes reachable from head_ at level l, in order.                   *)
RECURSIVE ChainFrom(_, _, _)
ChainFrom(x, l, d) ==
    IF d = 0 \/ nxt[x][l] = Nil THEN <<>>
    ELSE <<nxt[x][l]>> \o ChainFrom(nxt[x][l], l, d - 1)

Chain(l) == ChainFrom(HeadNode, l, Cardinality(Nodes))

Init ==
    /\ nxt = [x \in All |-> [l \in Lvls |-> Nil]]
    /\ ipc = [n \in Nodes |-> "find"]
    /\ fp = [n \in Nodes |-> HeadNode]
    /\ fl = [n \in Nodes |-> MaxH - 1]
    /\ minh = [n \in Nodes |-> 0]
    /\ preds = [n \in Nodes |-> [l \in Lvls |-> HeadNode]]
    /\ succs = [n \in Nodes |-> [l \in Lvls |-> Nil]]
    /\ il = [n \in Nodes |-> 1]
    /\ lin = <<>>
    /\ gpc = [f \in Finders |-> "idle"]
    /\ gk = [f \in Finders |-> CHOOSE k \in FindKeys : TRUE]
    /\ gp = [f \in Finders |-> HeadNode]
    /\ gl = [f \in Finders |-> MaxH - 1]
    /\ gres = [f \in Finders |-> Nil]
    /\ gseen = [f \in Finders |-> {}]
    /\ finds = [f \in Finders |-> 0]

finderVars == <<gpc, gk, gp, gl, gres, gseen, finds>>

-----------------------------------------------------------------------------
(* One iteration of find_position's inner loop: load pred->next[l]; move  *)
(* right while it compares below the node, else record preds[l] and       *)
(* succs[l] and go down; after level min_h, return to insert.             *)
FindPos(n) ==
    LET curr == nxt[fp[n]][fl[n]]
    IN /\ ipc[n] = "find"
       /\ IF Cmp(curr, NKey[n]) < 0
          THEN /\ fp' = [fp EXCEPT ![n] = curr]
               /\ UNCHANGED <<fl, preds, succs, ipc>>
          ELSE /\ preds' = [preds EXCEPT ![n][fl[n]] = fp[n]]
               /\ succs' = [succs EXCEPT ![n][fl[n]] = curr]
               /\ IF fl[n] = minh[n]
                  THEN ipc' = [ipc EXCEPT ![n] = IF minh[n] = 0 THEN "cas0" ELSE "up"]
                       /\ UNCHANGED <<fl, fp>>
                  ELSE fl' = [fl EXCEPT ![n] = @ - 1] /\ UNCHANGED <<fp, ipc>>
       /\ UNCHANGED <<nxt, minh, il, lin, finderVars>>

(* Restart find_position from preds[kMaxHeight-1] with min_h = h.         *)
Refind(n, h) ==
    /\ fp' = [fp EXCEPT ![n] = preds[n][MaxH - 1]]
    /\ fl' = [fl EXCEPT ![n] = Ht(preds[n][MaxH - 1]) - 1]
    /\ minh' = [minh EXCEPT ![n] = h]
    /\ ipc' = [ipc EXCEPT ![n] = "find"]

(* The node's next pointers from succs, then the level-0 CAS.             *)
(* Mutant: the level-0 link is a plain store.                              *)
Cas0NoCompare(n) ==
    /\ ipc[n] = "cas0"
    /\ nxt' = [nxt EXCEPT ![n] = [l \in Lvls |-> IF l < Ht(n) THEN succs[n][l] ELSE Nil],
                          ![preds[n][0]][0] = n]
    /\ lin' = Append(lin, n)
    /\ ipc' = [ipc EXCEPT ![n] = IF Ht(n) > 1 THEN "up" ELSE "done"]
    /\ UNCHANGED <<fp, fl, minh, preds, succs, il, finderVars>>

(* Mutant: a failed level-0 CAS retries with the same succs[0].            *)
Cas0NoRefind(n) ==
    LET linked == [nxt EXCEPT ![n] = [l \in Lvls |-> IF l < Ht(n) THEN succs[n][l] ELSE Nil]]
    IN /\ ipc[n] = "cas0"
       /\ \/ /\ nxt[preds[n][0]][0] = succs[n][0]
             /\ nxt' = [linked EXCEPT ![preds[n][0]][0] = n]
             /\ lin' = Append(lin, n)
             /\ ipc' = [ipc EXCEPT ![n] = IF Ht(n) > 1 THEN "up" ELSE "done"]
          \/ /\ nxt[preds[n][0]][0] # succs[n][0]
             /\ nxt' = linked
             /\ UNCHANGED <<ipc, lin>>
       /\ UNCHANGED <<fp, fl, minh, preds, succs, il, finderVars>>

Cas0(n) ==
    LET linked == [nxt EXCEPT ![n] = [l \in Lvls |-> IF l < Ht(n) THEN succs[n][l] ELSE Nil]]
    IN /\ ipc[n] = "cas0"
       /\ \/ /\ nxt[preds[n][0]][0] = succs[n][0]
             /\ nxt' = [linked EXCEPT ![preds[n][0]][0] = n]
             /\ lin' = Append(lin, n)
             /\ ipc' = [ipc EXCEPT ![n] = IF Ht(n) > 1 THEN "up" ELSE "done"]
             /\ UNCHANGED <<fp, fl, minh>>
          \/ /\ nxt[preds[n][0]][0] # succs[n][0]
             /\ nxt' = linked
             /\ Refind(n, 0)
             /\ UNCHANGED lin
       /\ UNCHANGED <<preds, succs, il, finderVars>>

(* The CAS on preds[l]->next[l] from succs[l] to the node.  On failure    *)
(* find_position runs again from level l, but node->next[l] keeps the     *)
(* successor stored before the level-0 CAS.                                *)
Up(n) ==
    LET l == il[n]
    IN /\ ipc[n] = "up"
       /\ \/ /\ nxt[preds[n][l]][l] = succs[n][l]
             /\ nxt' = [nxt EXCEPT ![preds[n][l]][l] = n]
             /\ il' = [il EXCEPT ![n] = l + 1]
             /\ ipc' = [ipc EXCEPT ![n] = IF l + 1 = Ht(n) THEN "done" ELSE "up"]
             /\ UNCHANGED <<fp, fl, minh>>
          \/ /\ nxt[preds[n][l]][l] # succs[n][l]
             /\ Refind(n, l)
             /\ UNCHANGED <<nxt, il>>
       /\ UNCHANGED <<preds, succs, lin, finderVars>>

-----------------------------------------------------------------------------
(* find(key): start at head_ at its top level; gseen records which nodes  *)
(* of the key are published at that moment.                                *)
FindStart(f) ==
    /\ gpc[f] = "idle" /\ finds[f] < MaxFinds
    /\ \E k \in FindKeys :
         /\ gk' = [gk EXCEPT ![f] = k]
         /\ gseen' = [gseen EXCEPT ![f] = {n \in ToSet(lin) : NKey[n] = k}]
    /\ gp' = [gp EXCEPT ![f] = HeadNode]
    /\ gl' = [gl EXCEPT ![f] = MaxH - 1]
    /\ gpc' = [gpc EXCEPT ![f] = "walk"]
    /\ finds' = [finds EXCEPT ![f] = @ + 1]
    /\ UNCHANGED <<gres, nxt, ipc, fp, fl, minh, preds, succs, il, lin>>

(* Mutant: the walk also moves past nodes equal to the key.               *)
FindStepPassEqual(f) ==
    LET curr == nxt[gp[f]][gl[f]]
    IN /\ gpc[f] = "walk"
       /\ IF Cmp(curr, gk[f]) =< 0
          THEN gp' = [gp EXCEPT ![f] = curr] /\ UNCHANGED <<gl, gpc, gres>>
          ELSE IF gl[f] > 0
               THEN gl' = [gl EXCEPT ![f] = @ - 1] /\ UNCHANGED <<gp, gpc, gres>>
               ELSE /\ gres' = [gres EXCEPT ![f] = IF Cmp(curr, gk[f]) = 0 THEN curr ELSE Nil]
                    /\ gpc' = [gpc EXCEPT ![f] = "ret"]
                    /\ UNCHANGED <<gp, gl>>
       /\ UNCHANGED <<gk, gseen, finds, nxt, ipc, fp, fl, minh, preds, succs, il, lin>>

(* One load of find's descent; at level 0 it returns curr if it compares *)
(* equal to the key, else NULL.                                           *)
FindStep(f) ==
    LET curr == nxt[gp[f]][gl[f]]
    IN /\ gpc[f] = "walk"
       /\ IF Cmp(curr, gk[f]) < 0
          THEN gp' = [gp EXCEPT ![f] = curr] /\ UNCHANGED <<gl, gpc, gres>>
          ELSE IF gl[f] > 0
               THEN gl' = [gl EXCEPT ![f] = @ - 1] /\ UNCHANGED <<gp, gpc, gres>>
               ELSE /\ gres' = [gres EXCEPT ![f] = IF Cmp(curr, gk[f]) = 0 THEN curr ELSE Nil]
                    /\ gpc' = [gpc EXCEPT ![f] = "ret"]
                    /\ UNCHANGED <<gp, gl>>
       /\ UNCHANGED <<gk, gseen, finds, nxt, ipc, fp, fl, minh, preds, succs, il, lin>>

(* MemTable::get uses the result and returns.                             *)
FindReturn(f) ==
    /\ gpc[f] = "ret"
    /\ gpc' = [gpc EXCEPT ![f] = "idle"]
    /\ UNCHANGED <<gk, gp, gl, gres, gseen, finds, nxt, ipc, fp, fl, minh, preds, succs, il, lin>>

-----------------------------------------------------------------------------
Terminated ==
    /\ \A n \in Nodes : ipc[n] = "done"
    /\ \A f \in Finders : gpc[f] = "idle" /\ finds[f] = MaxFinds

InsertStep(n) == FindPos(n) \/ Cas0(n) \/ Up(n)

FinderStep(f) == FindStart(f) \/ FindStep(f) \/ FindReturn(f)

Next ==
    \/ \E n \in Nodes : InsertStep(n)
    \/ \E f \in Finders : FinderStep(f)
    \/ Terminated /\ UNCHANGED vars

(* Every thread runs; the code takes no lock.                              *)
Fairness ==
    /\ \A n \in Nodes : WF_vars(InsertStep(n))
    /\ \A f \in Finders : WF_vars(FinderStep(f))

Spec == Init /\ [][Next]_vars /\ Fairness

-----------------------------------------------------------------------------
TypeOK ==
    /\ nxt \in [All -> [Lvls -> Nodes \cup {Nil}]]
    /\ ipc \in [Nodes -> {"find", "cas0", "up", "done"}]
    /\ fp \in [Nodes -> All] /\ fl \in [Nodes -> Lvls] /\ minh \in [Nodes -> Lvls]
    /\ preds \in [Nodes -> [Lvls -> All]]
    /\ succs \in [Nodes -> [Lvls -> Nodes \cup {Nil}]]
    /\ gpc \in [Finders -> {"idle", "walk", "ret"}]
    /\ gres \in [Finders -> Nodes \cup {Nil}]

(* The order in which nodes were published at level 0.                    *)
Pos(n) == CHOOSE i \in 1..Len(lin) : lin[i] = n

(* The level-0 list is the abstract sorted list: every step of insert     *)
(* either leaves it alone or, at the level-0 CAS, puts one new node       *)
(* before the first node whose key is not smaller, although other         *)
(* inserters change the list between find_position and the CAS.          *)
SL == INSTANCE SortedList WITH list <- Chain(0)

Refines == SL!Spec

(* find returns a node of the key whenever one was published before it    *)
(* began, and never one older than any of those: MemTable::get sees the   *)
(* latest put of the key that completed before the get, while upper       *)
(* levels are being linked and relinked around the search.               *)
FindNewest ==
    \A f \in Finders :
       gpc[f] = "ret" /\ gseen[f] # {} =>
          /\ gres[f] # Nil
          /\ \A m \in gseen[f] : Pos(gres[f]) >= Pos(m)

(* Every insert returns: each CAS failure is caused by another thread's  *)
(* successful CAS, and there are finitely many.                          *)
InsertCompletes == \A n \in Nodes : <>(ipc[n] = "done")

(* Once insert has returned, the node is linked at every level below its *)
(* height, as the skip list's search cost assumes.  This does not hold:   *)
(* a relink after a failed upper-level CAS uses the stale node->next[l]   *)
(* (lockfree_skiplist.cc:40) and drops a node linked there meanwhile;     *)
(* with INVARIANT IndexComplete, TLC shows it in 14 states.  It is kept   *)
(* out of LockFreeSkipList.cfg, whose properties are about correctness.  *)
IndexComplete ==
    \A n \in Nodes :
       ipc[n] = "done" => \A l \in 0..(Ht(n) - 1) : n \in ToSet(Chain(l))

=============================================================================
