---------------------------- MODULE MCChannelSet ----------------------------
(* Small instances of ChannelSet for TLC.                                  *)
EXTENDS ChannelSet, TLC

CONSTANTS SyncChan, Capacity

MCSize == [c \in Chan |-> IF c \in SyncChan THEN 0 ELSE Capacity]

Symmetry == Permutations(Sender) \cup Permutations(Receiver)
=============================================================================
