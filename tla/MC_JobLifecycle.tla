-------------------------- MODULE MC_JobLifecycle --------------------------
EXTENDS JobLifecycle

CONSTANTS f1, f2, z1, z2, w1, w2

(* Two flushes of MemTables 1 and 2, each enqueueing the zipper job of    *)
(* its L0 table from its callback.                                        *)
MCFollow == [j \in {f1, f2, z1, z2} |-> IF j = f1 THEN z1 ELSE IF j = f2 THEN z2 ELSE NoJob]
MCLevel == [j \in {f1, f2, z1, z2} |-> IF j \in {f1, f2} THEN -1 ELSE 0]
MCSeq == [j \in {f1, f2, z1, z2} |-> IF j = f1 THEN 1 ELSE IF j = f2 THEN 2 ELSE 0]
=============================================================================
