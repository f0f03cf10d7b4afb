--------------------------- MODULE MCTaskManager ---------------------------
(* Small instances of TaskManager for TLC.  The proof module is extended   *)
(* for its inductive invariant IInv, which the run checks before tlapm     *)
(* proves it.                                                              *)
EXTENDS TaskManagerProofs

CONSTANTS d1, t1
=============================================================================
