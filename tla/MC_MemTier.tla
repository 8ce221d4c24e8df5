----------------------------- MODULE MC_MemTier -----------------------------
(* Model-checking instance of MemTier: threads, keys and workers are     *)
(* model values declared here and assigned in the .cfg files.            *)
EXTENDS MemTier

CONSTANTS w1, w2, r1, c1, k1, k2, wk1, wk2

(* Total puts and gets bound the behaviours; tables are bounded in Rotate. *)
=============================================================================
