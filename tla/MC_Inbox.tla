------------------------------- MODULE MC_Inbox -------------------------------
(* Three letters in pages of one, three delivery passes, two loads at once,   *)
(* one message on its way that shows another screen.                          *)
EXTENDS Inbox, TLC

Alike == Permutations(Letters)
=============================================================================
