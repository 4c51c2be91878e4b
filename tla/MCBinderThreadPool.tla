------------------------- MODULE MCBinderThreadPool -------------------------
(* Instances of the thread pool for TLC.                                   *)
EXTENDS BinderThreadPool

SpawnFaults == {"spawn"}
=============================================================================
