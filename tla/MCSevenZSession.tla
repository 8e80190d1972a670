--------------------------- MODULE MCSevenZSession ---------------------------
(* Model-checking instances of SevenZSession. *)
EXTENDS SevenZSession, TLC

Symmetry == Permutations(Procs) \cup Permutations(Passwords) \cup Permutations(Sessions)
=============================================================================
