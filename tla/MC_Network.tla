------------------------------ MODULE MC_Network ------------------------------
(* Two screens' goroutines over a few connections. *)
EXTENDS Network
=============================================================================
