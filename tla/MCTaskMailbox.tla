--------------------------- MODULE MCTaskMailbox ---------------------------
(* Small instances of TaskMailbox for TLC.                                 *)
EXTENDS TaskMailbox
=============================================================================
