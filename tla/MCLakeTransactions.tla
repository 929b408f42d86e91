------------------------ MODULE MCLakeTransactions -------------------------
(***************************************************************************)
(* LakeTransactions for TLC.                                               *)
(***************************************************************************)
EXTENDS LakeTransactions

Symmetry == Permutations(Clients) \cup Permutations(Positions) \cup Permutations(Tables)
============================================================================
