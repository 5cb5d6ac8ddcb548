--------------------------- MODULE MCAtomicBundle ---------------------------
(* A depth publication: depth and execution cost files exist, a history    *)
(* file does not exist yet.                                                *)
EXTENDS AtomicBundle

Bundle == <<"depth", "cost", "history", "report">>
Present == {"depth", "cost", "report"}
=============================================================================
