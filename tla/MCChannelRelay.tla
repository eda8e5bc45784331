--------------------------- MODULE MCChannelRelay ---------------------------
EXTENDS ChannelRelay, TLC

(* Neither processes nor connections are told apart.                       *)
Symmetric == Permutations(Procs) \cup Permutations(Conns)
=============================================================================
