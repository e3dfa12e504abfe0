--------------------------- MODULE MCTaskBarrier ---------------------------
(* Small instances of TaskBarrier for TLC.                                 *)
EXTENDS TaskBarrier
=============================================================================
