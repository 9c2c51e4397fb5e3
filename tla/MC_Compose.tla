------------------------------ MODULE MC_Compose ------------------------------
(* Two threads with their drafts, one stamp that pays a letter, one letter     *)
(* being sent, one message on its way for each screen that can be shown.       *)
EXTENDS Compose
=============================================================================
