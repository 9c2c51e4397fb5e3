------------------------------ MODULE MC_Weekly ------------------------------
(* Three weekly stamps are enough for two awarders to go one too far. *)
EXTENDS Weekly, TLC

Symmetry == Permutations(Awards)
=============================================================================
