----------------------------- MODULE MCChannel -----------------------------
(* Small instances of Channel for TLC: some channels are synchronous, the  *)
(* others have queues of one capacity.                                     *)
EXTENDS Channel, TLC

CONSTANTS SyncChan, Capacity

MCSize == [c \in Chan |-> IF c \in SyncChan THEN 0 ELSE Capacity]

Symmetry == Permutations(Sender) \cup Permutations(Receiver)
=============================================================================
