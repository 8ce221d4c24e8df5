------------------------------- MODULE MC_Scan -------------------------------
EXTENDS Scan

(* Keys 1..6 over the shards: two keys per shard with three shards.       *)
MCKeys == 1..6
=============================================================================
