------------------------------- MODULE MCEngine -------------------------------
(* Module Engine on small instances; the .cfg files choose the surroundings. *)
EXTENDS EngineProperties, TLC

Symmetry == Permutations(Torrents) \cup Permutations(Tokens)
===============================================================================
