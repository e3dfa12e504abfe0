---------------------------- MODULE MCGuiWorker ----------------------------
(* Small instances of GuiWorker for TLC.                                   *)
EXTENDS GuiWorker
=============================================================================
