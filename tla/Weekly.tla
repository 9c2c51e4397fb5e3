------------------------------- MODULE Weekly -------------------------------
(***************************************************************************)
(* The weekly stamp (awardWeeklyStamp in internal/server/ws.go).  The relay *)
(* keeps no ledger of awards: whether a user is due is read off the stamps  *)
(* the user still owns, and the reading and the minting are two statements. *)
(* They are run by the hourly loop and, at every sign-in, by a goroutine of *)
(* its own, so several may be at it for one user.                           *)
(***************************************************************************)
EXTENDS Naturals, FiniteSets

CONSTANTS
    Users,
    Awards,    \* identifiers of weekly stamps
    Loop,      \* weeklyStampLoop
    Logins,    \* goroutines of handleAuthResponse
    Batch,     \* the LIMIT of the loop's query
    Week,      \* seven days
    MaxTime,   \* bound on the clock
    Nobody

Awarders == Logins \cup {Loop}

ASSUME WeeklyAssumption ==
    /\ IsFiniteSet(Logins) /\ IsFiniteSet(Awards) /\ IsFiniteSet(Users)
    /\ Loop \notin Logins /\ Nobody \notin Users
    /\ Week \in Nat \ {0} /\ Batch \in Nat \ {0} /\ MaxTime \in Nat

VARIABLES
    now,
    joined,   \* users.created_at
    award,    \* the weekly stamps minted so far, kept when they are spent
    awarder,  \* what each awarder is doing, and for whom
    list      \* the users the loop has still to visit

vars == <<now, joined, award, awarder, list>>

(* held: still owned by the user it was minted for, earned_via 'weekly'. *)
Award == [to : Users \cup {Nobody}, at : Nat, held : BOOLEAN]
NoAward == [to |-> Nobody, at |-> 0, held |-> FALSE]
Idle == [pc |-> "idle", for |-> Nobody]

Minted == {i \in Awards : award[i].to # Nobody}
Owned(u) == {i \in Minted : award[i].to = u /\ award[i].held}
IsRecent(i) == award[i].at + Week > now

Init ==
    /\ now = 0
    /\ joined \in [Users -> 0 .. MaxTime]
    /\ award = [i \in Awards |-> NoAward]
    /\ awarder = [a \in Awarders |-> Idle]
    /\ list = {}
-----------------------------------------------------------------------------
Tick ==
    /\ now < MaxTime
    /\ now' = now + 1
    /\ UNCHANGED <<joined, award, awarder, list>>

(* A spent stamp has no owner, and later its recipient's with earned_via      *)
(* 'transfer': it is nobody's weekly stamp any more.                          *)
Spend(i) ==
    /\ award[i].held
    /\ award' = [award EXCEPT ![i].held = FALSE]
    /\ UNCHANGED <<now, joined, awarder, list>>

Joined == {u \in Users : joined[u] <= now}

(* GetUsersNeedingWeeklyStamp, but for its LIMIT. *)
Needing ==
    {u \in Joined : joined[u] + Week <= now /\ ~ \E i \in Owned(u) : IsRecent(i)}

(* The hourly tick: as many of them as the query's LIMIT lets through. *)
ListUsers ==
    /\ list = {} /\ awarder[Loop] = Idle
    /\ \E some \in SUBSET Needing :
          /\ some # {}
          /\ Cardinality(some) = Batch
                \/ (some = Needing /\ Cardinality(some) < Batch)
          /\ list' = some
    /\ UNCHANGED <<now, joined, award, awarder>>

Visit(u) ==
    /\ awarder[Loop] = Idle /\ u \in list
    /\ list' = list \ {u}
    /\ awarder' = [awarder EXCEPT ![Loop] = [pc |-> "look", for |-> u]]
    /\ UNCHANGED <<now, joined, award>>

SignIn(a, u) ==
    /\ awarder[a] = Idle /\ u \in Joined
    /\ awarder' = [awarder EXCEPT ![a] = [pc |-> "look", for |-> u]]
    /\ UNCHANGED <<now, joined, award, list>>

(* GetLastWeeklyStampTime is at least t ago: the last weekly stamp's creation *)
(* or, without one, the account's.                                            *)
LastIsAgo(u, t) ==
    IF Owned(u) = {} THEN joined[u] + t <= now
                     ELSE \A i \in Owned(u) : award[i].at + t <= now

Look(a) ==
    /\ awarder[a].pc = "look"
    /\ awarder' = [awarder EXCEPT ![a] =
           IF LastIsAgo(@.for, Week) THEN [@ EXCEPT !.pc = "mint"] ELSE Idle]
    /\ UNCHANGED <<now, joined, award, list>>

(* Mutant: the loop mints twice, as the welcome letter has it. *)
MintTwo(a) ==
    \E i, j \in Awards \ Minted :
        /\ i # j /\ awarder[a].pc = "mint"
        /\ award' = [award EXCEPT ![i] = [to |-> awarder[a].for, at |-> now, held |-> TRUE],
                                  ![j] = [to |-> awarder[a].for, at |-> now, held |-> TRUE]]
        /\ awarder' = [awarder EXCEPT ![a] = Idle]
        /\ UNCHANGED <<now, joined, list>>

Mint(a) ==
    \E i \in Awards \ Minted :
        /\ awarder[a].pc = "mint"
        /\ award' = [award EXCEPT ![i] = [to |-> awarder[a].for, at |-> now, held |-> TRUE]]
        /\ awarder' = [awarder EXCEPT ![a] = Idle]
        /\ UNCHANGED <<now, joined, list>>

(* Mutant: a failure leaves the awarder where no step takes it up again. *)
Jam(a) ==
    /\ awarder[a] # Idle
    /\ awarder' = [awarder EXCEPT ![a].pc = "failed"]
    /\ UNCHANGED <<now, joined, award, list>>

(* A query fails, and the awarder leaves this user alone. *)
Fail(a) ==
    /\ awarder[a] # Idle
    /\ awarder' = [awarder EXCEPT ![a] = Idle]
    /\ UNCHANGED <<now, joined, award, list>>

(* The relay restarts: whatever was being done is forgotten. *)
Restart ==
    /\ awarder' = [a \in Awarders |-> Idle]
    /\ list' = {}
    /\ UNCHANGED <<now, joined, award>>

Next ==
    \/ Tick
    \/ Restart
    \/ \E i \in Awards : Spend(i)
    \/ ListUsers
    \/ \E u \in Users : Visit(u) \/ \E a \in Logins : SignIn(a, u)
    \/ \E a \in Awarders : Look(a) \/ Mint(a) \/ Fail(a)

Spec == Init /\ [][Next]_vars
-----------------------------------------------------------------------------
(* Every variable holds a value of its type. *)
TypeOK ==
    /\ now \in Nat
    /\ joined \in [Users -> Nat]
    /\ award \in [Awards -> Award]
    /\ awarder \in [Awarders -> [pc : {"idle", "look", "mint"}, for : Users \cup {Nobody}]]
    /\ list \subseteq Users

Fresh(u) == {i \in Owned(u) : IsRecent(i)}
MintingFor(u) == {a \in Awarders : awarder[a].pc = "mint" /\ awarder[a].for = u}

(* A user never owns more weekly stamps of the last week than there are        *)
(* awarders: what the race between looking and minting can add is bounded.     *)
FreshStampsBounded ==
    \A u \in Users :
        Cardinality(Fresh(u)) + Cardinality(MintingFor(u)) <= Cardinality(Awarders)

(* Nobody gets a weekly stamp in the first week of the account. *)
FirstWeekHasNone ==
    \A i \in Minted : joined[award[i].to] + Week <= award[i].at

(* The two queries agree: at a sign-in too, a stamp is minted only for a user  *)
(* whom GetUsersNeedingWeeklyStamp would list at that moment.                  *)
OnlyTheNeedyAreServed ==
    [][\A a \in Awarders, u \in Users :
          awarder[a] = [pc |-> "look", for |-> u] /\ awarder'[a].pc = "mint"
              => u \in Needing]_vars

(* "awards 1 random common/state stamp if 7+ days since last weekly award"     *)
(* (awardWeeklyStamp): two awards to one user lie a week apart.                *)
OneAwardAWeek ==
    \A i, j \in Minted :
        i # j /\ award[i].to = award[j].to /\ award[i].at <= award[j].at
            => award[i].at + Week <= award[j].at
=============================================================================
