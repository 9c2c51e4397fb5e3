------------------------------- MODULE MC_Mail -------------------------------
(* A small relay: two correspondents, two letters, stamps of two types. *)
EXTENDS Mail, TLC

CONSTANTS s1, s2, flag, heart

MC_KindOf == (s1 :> flag) @@ (s2 :> heart)
=============================================================================
