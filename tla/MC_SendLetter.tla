---------------------------- MODULE MC_SendLetter ----------------------------
(* Two of Alice's handlers at work; stamps are named in either order. *)
EXTENDS SendLetter, TLC

CONSTANTS alice, bob, a1, a2, s1, s2

MC_UserOf == (a1 :> alice) @@ (a2 :> alice)
MC_Orders == {<<s1>>, <<s2>>, <<s1, s2>>, <<s2, s1>>}
=============================================================================
