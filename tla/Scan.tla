-------------------------------- MODULE Scan --------------------------------
(***************************************************************************)
(* brdb::scan (src/brdb_read.cc): a k-way merge over one iterator per     *)
(* shard, each on the shard's last-level PmemTable (the level that never  *)
(* rotates).  Every round std::sort orders the iterator vector with the   *)
(* scan's comparator and the front iterator's node is appended to the     *)
(* result, or the scan stops if the front iterator is not valid.          *)
(*                                                                         *)
(* A shard holds the keys k with k % kNumShards = s (brdb::get and put    *)
(* shard the same way).  The last level is a list of keys in ascending    *)
(* order; lockfree_pskiplist is not part of this repository, so its seek  *)
(* and next are taken as "first key >= the search key" and "the key after *)
(* this one".  For kNumShards =< 16 libstdc++'s std::sort is its          *)
(* insertion sort (__introsort_loop returns at once below the threshold   *)
(* of 16 and __final_insertion_sort calls __insertion_sort), modelled     *)
(* below as it runs: it is a deterministic function of the comparator's  *)
(* answers, whether or not the comparator is a strict weak order.         *)
(***************************************************************************)
EXTENDS Naturals, Sequences, SequencesExt, FiniteSets

CONSTANTS
    NShards,     \* kNumShards
    KeySpace     \* the user keys that may be stored

Shards == 0..(NShards - 1)

(* The sorted keys of a set: the last-level table of one shard.          *)
Sorted(S) == SetToSortSeq(S, LAMBDA a, b : a < b)

-----------------------------------------------------------------------------
(* An iterator of the scan is its shard and its position in that shard's  *)
(* key list; data[s] is the key list of shard s.                          *)

(* casc_pmem_table_iterator::valid: the iterator is on a node.            *)
Valid(data, it) == it.pos =< Len(data[it.shard])

(* casc_pmem_table_iterator::node()->key().                                *)
KeyAt(data, it) == data[it.shard][it.pos]

(* casc_pmem_table_iterator::seek(begin_key): the first node whose key is *)
(* not below the search key.                                              *)
Seek(data, s, key) ==
    [shard |-> s, pos |-> Len(SelectSeq(data[s], LAMBDA k : k < key)) + 1]

(* The comparator passed to std::sort: an invalid b or an invalid a makes  *)
(* a "less" than b; otherwise the keys decide.                            *)
ItLess(data, a, b) ==
    \/ ~Valid(data, b)
    \/ ~Valid(data, a)
    \/ KeyAt(data, a) < KeyAt(data, b)

(* libstdc++'s __insertion_sort, from position i on.  If the element at i *)
(* is less than the front it moves to the front; otherwise                *)
(* __unguarded_linear_insert shifts it left past every element it is less *)
(* than, stopping at the first (from the right) it is not less than.      *)
RECURSIVE InsertionSort(_, _, _)
InsertionSort(data, its, i) ==
    IF i > Len(its) THEN its
    ELSE LET val  == its[i]
             rest == SubSeq(its, i + 1, Len(its))
             stop == IF ItLess(data, val, its[1]) THEN 0
                     ELSE Max({r \in 1..(i - 1) : ~ItLess(data, val, its[r])})
         IN InsertionSort(data,
                          SubSeq(its, 1, stop) \o <<val>> \o SubSeq(its, stop + 1, i - 1) \o rest,
                          i + 1)

(* The loop `while (result->size() < len)`: sort, take the front          *)
(* iterator's node and advance it, or stop if the front is not valid.     *)
RECURSIVE ScanLoop(_, _, _, _)
ScanLoop(data, its, result, len) ==
    IF Len(result) >= len THEN result
    ELSE LET sorted == InsertionSort(data, its, 2)
             front  == sorted[1]
         IN IF Valid(data, front)
            THEN ScanLoop(data, [sorted EXCEPT ![1].pos = @ + 1],
                          Append(result, KeyAt(data, front)), len)
            ELSE result

(* brdb::scan: one iterator per shard, in shard order, each seeked to the *)
(* begin key, then the merge loop.                                        *)
ScanResult(data, begin, len) ==
    ScanLoop(data, [i \in 1..NShards |-> Seek(data, i - 1, begin)], <<>>, len)

-----------------------------------------------------------------------------
(* One call of scan: the keys stored in the last level of every shard and *)
(* the arguments.  The call only reads the tables (the last level is      *)
(* written by log-structured compaction, which this module leaves out),   *)
(* so its result is a function of these, and Next only stutters.          *)
CONSTANTS MaxLen   \* bound on the count argument

VARIABLES stored, from, count

vars == <<stored, from, count>>

(* The key list of every shard's last-level table.                        *)
Tables == [s \in Shards |-> Sorted({k \in stored : k % NShards = s})]

Init ==
    /\ stored \in SUBSET KeySpace
    /\ from \in KeySpace
    /\ count \in 1..MaxLen

Spec == Init /\ [][UNCHANGED vars]_vars

-----------------------------------------------------------------------------
(* What scan promises (spec.md: "ordered list of up to count entries >=    *)
(* start_key, merged across shards"): the len smallest stored keys that   *)
(* are not below the begin key, in ascending order.                       *)
ScanRef(data, begin, len) ==
    LET all == Sorted(UNION {{k \in ToSet(data[s]) : k >= begin} : s \in Shards})
    IN SubSeq(all, 1, IF len < Len(all) THEN len ELSE Len(all))

(* scan returns the smallest keys not below the begin key, as many as     *)
(* asked for or as exist, in ascending order, whichever shards hold them  *)
(* and whichever shard's iterator runs out first.                         *)
ScanComplete == ScanResult(Tables, from, count) = ScanRef(Tables, from, count)

=============================================================================
