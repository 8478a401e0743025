------------------------------- MODULE MCRestore -------------------------------
(* Restore for TLC: interchangeable torrents, uuids and legacy names. *)
EXTENDS Restore, TLC
RestoreSymmetry == Permutations(Torrents) \cup Permutations(Uuids) \cup Permutations(OldNames)
===============================================================================
