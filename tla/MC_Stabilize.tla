---------------------------- MODULE MC_Stabilize ----------------------------
EXTENDS Stabilize
(* One worker for job_mgr_ and for each backup manager.                   *)
MCMWorkers == {"mw"}
MCAWorkers == {"aw"}
MCBWorkers == {"bw"}
=============================================================================
