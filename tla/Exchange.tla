------------------------------- MODULE Exchange -------------------------------
(***************************************************************************)
(* What the client's network layer promises to the screens: a request is   *)
(* carried out by the relay at most once, it ends once, and it ends well   *)
(* only if it was carried out.                                             *)
(***************************************************************************)
EXTENDS Naturals

CONSTANT Requests   \* identifiers of requests

VARIABLES
    asked,      \* the requests that were made
    carried,    \* how often the relay carried a request out
    outcome     \* "open", "ok" or "error": what the caller was told

vars == <<asked, carried, outcome>>

Init ==
    /\ asked = {}
    /\ carried = [r \in Requests |-> 0]
    /\ outcome = [r \in Requests |-> "open"]

Ask(r) ==
    /\ r \notin asked
    /\ asked' = asked \cup {r}
    /\ UNCHANGED <<carried, outcome>>

(* The relay may carry out what the caller has already given up. *)
CarryOut(r) ==
    /\ r \in asked /\ carried[r] = 0
    /\ carried' = [carried EXCEPT ![r] = 1]
    /\ UNCHANGED <<asked, outcome>>

Succeed(r) ==
    /\ r \in asked /\ outcome[r] = "open" /\ carried[r] = 1
    /\ outcome' = [outcome EXCEPT ![r] = "ok"]
    /\ UNCHANGED <<asked, carried>>

Fail(r) ==
    /\ r \in asked /\ outcome[r] = "open"
    /\ outcome' = [outcome EXCEPT ![r] = "error"]
    /\ UNCHANGED <<asked, carried>>

Next == \E r \in Requests : Ask(r) \/ CarryOut(r) \/ Succeed(r) \/ Fail(r)

Spec == Init /\ [][Next]_vars
=============================================================================
