--------------------------- MODULE MCSbcRaftdLog ----------------------------
(* Small instances of SbcRaftdLog for TLC.                                  *)
EXTENDS SbcRaftdLog, TLC

CONSTANTS k1, k2, i1, i2, a1, a2

MCTwoClients == {a1, a2}
MCKeys       == {k1, k2}
MCBanIds     == {i1, i2}
Symmetry     == Permutations(MCBanIds) \cup Permutations(MCKeys) \cup Permutations(MCTwoClients)
=============================================================================
