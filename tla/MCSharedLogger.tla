--------------------------- MODULE MCSharedLogger ---------------------------
(* Model-checking instance of SharedLogger: main plus workers, two     *)
(* configure calls (so a reconfiguration happens) and two log calls each.  *)
EXTENDS SharedLogger

MCMaxConfigures == 2
MCMaxLogs == 2
=============================================================================
