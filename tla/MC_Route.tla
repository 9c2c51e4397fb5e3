------------------------------- MODULE MC_Route -------------------------------
(* Letters sent around the holidays that can move, in years of every type. *)
EXTENDS Route

MC_Dates == {At(d, 0) + h : d \in {182, 312, 357, 361}, h \in {7, 33, 45}}
MC_OneYear == {[jan1 |-> Monday, leap |-> FALSE]}
MC_Zones == {-10, 0}
=============================================================================
