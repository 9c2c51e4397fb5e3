--------------------------- MODULE MC_RateLimiter ---------------------------
(* One address with room for one connection more than it has. *)
EXTENDS RateLimiter, TLC

CONSTANT home

MC_IpOf == [c \in Sockets |-> home]
Symmetry == Permutations(Registrations) \cup Permutations(Sockets)
=============================================================================
