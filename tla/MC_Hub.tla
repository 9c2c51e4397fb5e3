------------------------------- MODULE MC_Hub -------------------------------
(* Two connections of one user, with one letter, which can replace each other *)
(* at any point of their lives.                                               *)
EXTENDS Hub

CONSTANT ann

MC_To == [l \in Letters |-> ann]
=============================================================================
