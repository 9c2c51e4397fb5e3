----------------------------- MODULE PostOffice -----------------------------
(***************************************************************************)
(* What the relay promises about stamps and letters, without its tables: a *)
(* stamp is at one place at a time.  It appears in somebody's album, rides *)
(* on one letter, and comes to rest with that letter's recipient.  Only an *)
(* account no letter names may vanish, with the stamps in its album.       *)
(***************************************************************************)
EXTENDS Naturals, FiniteSets

CONSTANTS Accounts, Letters, Stamps,
          Nowhere,   \* the place of a stamp that has not been issued
          Unposted   \* the address of a letter that has not been written

VARIABLES
    place,    \* Nowhere, an account, or the letter the stamp rides on
    address,  \* <<from, to>> once a letter is posted
    arrived   \* the letters that reached their recipient

vars == <<place, address, arrived>>

Posted == {l \in Letters : address[l] # Unposted}
Named(u) == \E l \in Posted : u \in {address[l][1], address[l][2]}

Init ==
    /\ place = [s \in Stamps |-> Nowhere]
    /\ address = [l \in Letters |-> Unposted]
    /\ arrived = {}

Issue(s, u) ==
    /\ place[s] = Nowhere
    /\ place' = [place EXCEPT ![s] = u]
    /\ UNCHANGED <<address, arrived>>

Post(l, u, v, S) ==
    /\ l \notin Posted
    /\ \A s \in S : place[s] = u
    /\ address' = [address EXCEPT ![l] = <<u, v>>]
    /\ place' = [s \in Stamps |-> IF s \in S THEN l ELSE place[s]]
    /\ UNCHANGED arrived

(* A letter from the post office itself carries no stamps and does not travel. *)
Greet(l, u, v) ==
    /\ l \notin Posted
    /\ address' = [address EXCEPT ![l] = <<u, v>>]
    /\ arrived' = arrived \cup {l}
    /\ UNCHANGED place

Arrive(L) ==
    /\ L # {} /\ L \subseteq Posted \ arrived
    /\ arrived' = arrived \cup L
    /\ place' = [s \in Stamps |-> IF place[s] \in L THEN address[place[s]][2] ELSE place[s]]
    /\ UNCHANGED address

Vanish(U) ==
    /\ \A u \in U : ~Named(u)
    /\ place' = [s \in Stamps |-> IF place[s] \in U THEN Nowhere ELSE place[s]]
    /\ UNCHANGED <<address, arrived>>

Next ==
    \/ \E s \in Stamps, u \in Accounts : Issue(s, u)
    \/ \E l \in Letters, u, v \in Accounts : Greet(l, u, v)
    \/ \E l \in Letters, u, v \in Accounts, S \in SUBSET Stamps : Post(l, u, v, S)
    \/ \E L \in SUBSET Letters : Arrive(L)
    \/ \E U \in SUBSET Accounts : Vanish(U)

Spec == Init /\ [][Next]_vars
=============================================================================
