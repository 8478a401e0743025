---------------------------- MODULE MCSessionState ----------------------------
(* SessionState for TLC: interchangeable calls. *)
EXTENDS SessionState, TLC
CallSymmetry == Permutations(Calls)
===============================================================================
