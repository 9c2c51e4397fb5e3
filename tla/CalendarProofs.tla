---------------------------- MODULE CalendarProofs ----------------------------
(***************************************************************************)
(* Theorems about what goes by the calendar: the weekly stamp, for any     *)
(* number of users, stamps and goroutines that award them; and the         *)
(* schedule of a route, for any year, dates, zones and distances.          *)
(***************************************************************************)
EXTENDS Weekly, Route, FiniteSetTheorems, TLAPS

(* FreshStampsBounded is inductive given the types. *)
IInv == TypeOK /\ FreshStampsBounded

(* The sets that are counted are finite. *)
LEMMA FiniteCounts ==
    ASSUME NEW u
    PROVE  /\ IsFiniteSet(Awarders) /\ Cardinality(Awarders) \in Nat
           /\ IsFiniteSet(Fresh(u)) /\ Cardinality(Fresh(u)) \in Nat
           /\ IsFiniteSet(MintingFor(u)) /\ Cardinality(MintingFor(u)) \in Nat
           /\ Cardinality(MintingFor(u)) <= Cardinality(Awarders)
<1>1. IsFiniteSet(Awarders)
  BY WeeklyAssumption, FS_AddElement DEF Awarders
<1>2. MintingFor(u) \in SUBSET Awarders /\ Fresh(u) \in SUBSET Awards
  BY DEF MintingFor, Fresh, Owned, Minted
<1>3. /\ IsFiniteSet(MintingFor(u)) /\ IsFiniteSet(Fresh(u))
      /\ Cardinality(MintingFor(u)) <= Cardinality(Awarders)
  BY <1>1, <1>2, FS_Subset, WeeklyAssumption
<1> QED BY <1>1, <1>3, FS_CardinalityType

(* The same in the next state. *)
LEMMA FiniteCountsNext ==
    ASSUME NEW u
    PROVE  /\ IsFiniteSet(Fresh(u)') /\ Cardinality(Fresh(u)') \in Nat
           /\ IsFiniteSet(MintingFor(u)') /\ Cardinality(MintingFor(u)') \in Nat
           /\ Cardinality(MintingFor(u)') <= Cardinality(Awarders)
<1>1. MintingFor(u)' \in SUBSET Awarders /\ Fresh(u)' \in SUBSET Awards
  BY DEF MintingFor, Fresh, Owned, Minted
<1>2. /\ IsFiniteSet(MintingFor(u)') /\ IsFiniteSet(Fresh(u)')
      /\ Cardinality(MintingFor(u)') <= Cardinality(Awarders)
  BY <1>1, FiniteCounts, FS_Subset, WeeklyAssumption
<1> QED BY <1>2, FS_CardinalityType

(* A step after which a user has no more fresh stamps and nobody new mints for  *)
(* the user keeps the bound.                                                   *)
LEMMA FewerIsFine ==
    ASSUME FreshStampsBounded,
           \A u \in Users : Fresh(u)' \subseteq Fresh(u) /\ MintingFor(u)' \subseteq MintingFor(u)
    PROVE  FreshStampsBounded'
<1> SUFFICES ASSUME NEW u \in Users
             PROVE  Cardinality(Fresh(u)') + Cardinality(MintingFor(u)') <= Cardinality(Awarders)
  BY DEF FreshStampsBounded
<1>1. Cardinality(Fresh(u)) + Cardinality(MintingFor(u)) <= Cardinality(Awarders)
  BY DEF FreshStampsBounded
<1>2. Cardinality(Fresh(u)') <= Cardinality(Fresh(u))
  BY FiniteCounts, FS_Subset
<1>3. Cardinality(MintingFor(u)') <= Cardinality(MintingFor(u))
  BY FiniteCounts, FS_Subset
<1> QED BY <1>1, <1>2, <1>3, FiniteCounts, FiniteCountsNext

(* Nothing has been minted at the start. *)
LEMMA InitIInv == Init => IInv
<1> SUFFICES ASSUME Init PROVE IInv
  OBVIOUS
<1>1. TypeOK
  BY WeeklyAssumption DEF Init, TypeOK, Award, NoAward, Idle
<1>2. ASSUME NEW u \in Users PROVE Fresh(u) = {} /\ MintingFor(u) = {}
  BY DEF Init, Fresh, Owned, Minted, MintingFor, NoAward, Idle
<1>3. FreshStampsBounded
  <2> SUFFICES ASSUME NEW u \in Users
               PROVE  Cardinality(Fresh(u)) + Cardinality(MintingFor(u)) <= Cardinality(Awarders)
    BY DEF FreshStampsBounded
  <2> QED BY <1>2, FS_EmptySet, FiniteCounts
<1> QED BY <1>1, <1>3 DEF IInv

(* Every step keeps the types. *)
LEMMA NextTypeOK == TypeOK /\ [Next]_vars => TypeOK'
<1> SUFFICES ASSUME TypeOK, [Next]_vars PROVE TypeOK'
  OBVIOUS
<1> USE WeeklyAssumption DEF TypeOK, Idle
<1>1. CASE Tick
  BY <1>1 DEF Tick
<1>2. CASE Restart
  BY <1>2 DEF Restart
<1>3. ASSUME NEW i \in Awards, Spend(i) PROVE TypeOK'
  BY <1>3 DEF Spend, Award
<1>4. CASE ListUsers
  BY <1>4 DEF ListUsers, Needing, Joined
<1>5. ASSUME NEW u \in Users, Visit(u) PROVE TypeOK'
  BY <1>5 DEF Visit, Awarders
<1>6. ASSUME NEW u \in Users, NEW a \in Logins, SignIn(a, u) PROVE TypeOK'
  BY <1>6 DEF SignIn, Awarders
<1>7. ASSUME NEW a \in Awarders, Look(a) PROVE TypeOK'
  BY <1>7 DEF Look
<1>8. ASSUME NEW a \in Awarders, Mint(a) PROVE TypeOK'
  BY <1>8 DEF Mint, Award
<1>9. ASSUME NEW a \in Awarders, Fail(a) PROVE TypeOK'
  BY <1>9 DEF Fail
<1>10. CASE UNCHANGED vars
  BY <1>10 DEF vars
<1> QED BY <1>1, <1>2, <1>3, <1>4, <1>5, <1>6, <1>7, <1>8, <1>9, <1>10 DEF Next

(* Every step keeps the bound: a look that succeeds finds no fresh stamp, and   *)
(* a minting trades the awarder that was at it for one fresh stamp.             *)
LEMMA NextFreshBounded == IInv /\ [Next]_vars => FreshStampsBounded'
<1> SUFFICES ASSUME TypeOK, FreshStampsBounded, [Next]_vars PROVE FreshStampsBounded'
  BY DEF IInv
<1> DEFINE Fewer == \A u \in Users : /\ Fresh(u)' \subseteq Fresh(u)
                                     /\ MintingFor(u)' \subseteq MintingFor(u)
<1>1. CASE Tick
  <2>1. now \in Nat /\ now' = now + 1 /\ award' = award /\ awarder' = awarder
    BY <1>1 DEF Tick, TypeOK
  <2>2. \A i \in Awards : award[i].at \in Nat
    BY DEF TypeOK, Award
  <2>3. Fewer
    BY <2>1, <2>2, WeeklyAssumption DEF Fresh, Owned, Minted, IsRecent, MintingFor
  <2> QED BY <2>3, FewerIsFine
<1>2. CASE Restart
  <2>1. Fewer
    BY <1>2 DEF Restart, Idle, Fresh, Owned, Minted, IsRecent, MintingFor
  <2> QED BY <2>1, FewerIsFine
<1>3. ASSUME NEW i \in Awards, Spend(i) PROVE FreshStampsBounded'
  <2>1. Fewer
    BY <1>3 DEF Spend, TypeOK, Award, Fresh, Owned, Minted, IsRecent, MintingFor
  <2> QED BY <2>1, FewerIsFine
<1>4. CASE ListUsers
  <2>1. Fewer
    BY <1>4 DEF ListUsers, Fresh, Owned, Minted, IsRecent, MintingFor
  <2> QED BY <2>1, FewerIsFine
<1>5. ASSUME NEW v \in Users, Visit(v) PROVE FreshStampsBounded'
  <2>1. Fewer
    BY <1>5 DEF Visit, TypeOK, Awarders, Fresh, Owned, Minted, IsRecent, MintingFor
  <2> QED BY <2>1, FewerIsFine
<1>6. ASSUME NEW v \in Users, NEW a \in Logins, SignIn(a, v) PROVE FreshStampsBounded'
  <2>1. Fewer
    BY <1>6 DEF SignIn, TypeOK, Awarders, Fresh, Owned, Minted, IsRecent, MintingFor
  <2> QED BY <2>1, FewerIsFine
<1>7. ASSUME NEW a \in Awarders, Look(a) PROVE FreshStampsBounded'
  <2> PICK v : v = awarder[a].for
    OBVIOUS
  <2>1. award' = award /\ now' = now /\ \A b \in Awarders \ {a} : awarder'[b] = awarder[b]
    BY <1>7 DEF Look, TypeOK
  <2>2. CASE LastIsAgo(v, Week)
    <3>1. Fresh(v)' = {}
      <4>1. \A i \in Owned(v) : award[i].at + Week <= now
        BY <2>2, WeeklyAssumption DEF LastIsAgo, TypeOK, Owned, Minted
      <4>2. now \in Nat /\ \A i \in Awards : award[i].at \in Nat
        BY DEF TypeOK, Award
      <4> QED BY <2>1, <4>1, <4>2, WeeklyAssumption DEF Fresh, Owned, Minted, IsRecent
    <3>2. \A u \in Users \ {v} : /\ Fresh(u)' \subseteq Fresh(u)
                                 /\ MintingFor(u)' \subseteq MintingFor(u)
      BY <1>7, <2>1, <2>2 DEF Look, TypeOK, Fresh, Owned, Minted, IsRecent, MintingFor
    <3> SUFFICES ASSUME NEW u \in Users
                 PROVE  Cardinality(Fresh(u)') + Cardinality(MintingFor(u)')
                          <= Cardinality(Awarders)
      BY DEF FreshStampsBounded
    <3>3. CASE u = v
      <4>1. Cardinality(Fresh(u)') = 0
        BY <3>1, <3>3, FS_EmptySet
      <4> QED BY <4>1, FiniteCountsNext, FiniteCounts
    <3>4. CASE u # v
      <4>1. /\ Cardinality(Fresh(u)') <= Cardinality(Fresh(u))
            /\ Cardinality(MintingFor(u)') <= Cardinality(MintingFor(u))
        BY <3>2, <3>4, FiniteCounts, FS_Subset
      <4>2. Cardinality(Fresh(u)) + Cardinality(MintingFor(u)) <= Cardinality(Awarders)
        BY DEF FreshStampsBounded
      <4> QED BY <4>1, <4>2, FiniteCounts, FiniteCountsNext
    <3> QED BY <3>3, <3>4
  <2>3. CASE ~LastIsAgo(v, Week)
    <3>1. Fewer
      BY <1>7, <2>1, <2>3 DEF Look, TypeOK, Idle, Fresh, Owned, Minted, IsRecent, MintingFor
    <3> QED BY <3>1, FewerIsFine
  <2> QED BY <2>2, <2>3
<1>8. ASSUME NEW a \in Awarders, Mint(a) PROVE FreshStampsBounded'
  <2> PICK v : v = awarder[a].for
    OBVIOUS
  <2>1. PICK i \in Awards \ Minted :
            /\ awarder[a].pc = "mint" /\ now' = now
            /\ award' = [award EXCEPT ![i] = [to |-> v, at |-> now, held |-> TRUE]]
            /\ awarder' = [awarder EXCEPT ![a] = Idle]
    BY <1>8 DEF Mint
  <2>2. \A u \in Users : u # v => Fresh(u)' \subseteq Fresh(u) /\ MintingFor(u)' \subseteq MintingFor(u)
    BY <2>1 DEF TypeOK, Idle, Fresh, Owned, Minted, IsRecent, MintingFor
  <2>3. Fresh(v)' \subseteq Fresh(v) \cup {i}
    BY <2>1 DEF TypeOK, Fresh, Owned, Minted, IsRecent, MintingFor
  <2>4. MintingFor(v)' = MintingFor(v) \ {a} /\ a \in MintingFor(v)
    BY <2>1 DEF TypeOK, Idle, Fresh, Owned, Minted, IsRecent, MintingFor
  <2> SUFFICES ASSUME NEW u \in Users
               PROVE  Cardinality(Fresh(u)') + Cardinality(MintingFor(u)')
                        <= Cardinality(Awarders)
    BY DEF FreshStampsBounded
  <2>5. Cardinality(Fresh(u)) + Cardinality(MintingFor(u)) <= Cardinality(Awarders)
    BY DEF FreshStampsBounded
  <2>6. CASE u # v
    <3>1. /\ Cardinality(Fresh(u)') <= Cardinality(Fresh(u))
          /\ Cardinality(MintingFor(u)') <= Cardinality(MintingFor(u))
      BY <2>2, <2>6, FiniteCounts, FS_Subset
    <3> QED BY <3>1, <2>5, FiniteCounts, FiniteCountsNext
  <2>7. CASE u = v
    <3>1. /\ IsFiniteSet(Fresh(v) \cup {i})
          /\ Cardinality(Fresh(v) \cup {i}) <= Cardinality(Fresh(v)) + 1
      <4>1. IsFiniteSet(Fresh(v)) /\ Cardinality(Fresh(v)) \in Nat
        BY FiniteCounts
      <4>2. /\ IsFiniteSet(Fresh(v) \cup {i})
            /\ Cardinality(Fresh(v) \cup {i}) =
                 IF i \in Fresh(v) THEN Cardinality(Fresh(v)) ELSE Cardinality(Fresh(v)) + 1
        BY <4>1, FS_AddElement
      <4> QED BY <4>1, <4>2
    <3>2. Cardinality(Fresh(v)') <= Cardinality(Fresh(v) \cup {i})
      BY <2>3, <3>1, FS_Subset
    <3>3. Cardinality(Fresh(v) \cup {i}) \in Nat
      BY <3>1, FS_CardinalityType
    <3>4. Cardinality(MintingFor(v)') = Cardinality(MintingFor(v)) - 1
      <4>1. IsFiniteSet(MintingFor(v))
        BY FiniteCounts
      <4>2. Cardinality(MintingFor(v) \ {a}) = Cardinality(MintingFor(v)) - 1
        BY <2>4, <4>1, FS_RemoveElement
      <4> QED BY <2>4, <4>2
    <3> QED BY <2>5, <2>7, <3>1, <3>2, <3>3, <3>4, FiniteCounts, FiniteCountsNext
  <2> QED BY <2>6, <2>7
<1>9. ASSUME NEW a \in Awarders, Fail(a) PROVE FreshStampsBounded'
  <2>1. Fewer
    BY <1>9 DEF Fail, TypeOK, Idle, Fresh, Owned, Minted, IsRecent, MintingFor
  <2> QED BY <2>1, FewerIsFine
<1>10. CASE UNCHANGED vars
  <2>1. Fewer
    BY <1>10 DEF vars, Fresh, Owned, Minted, IsRecent, MintingFor
  <2> QED BY <2>1, FewerIsFine
<1> QED BY <1>1, <1>2, <1>3, <1>4, <1>5, <1>6, <1>7, <1>8, <1>9, <1>10 DEF Next

(* Every variable keeps its type. *)
THEOREM TypeCorrect == Spec => []TypeOK
<1>1. Init => TypeOK
  BY InitIInv DEF IInv
<1> QED BY <1>1, NextTypeOK, PTL DEF Spec

(* However many awarders race, a user never owns more weekly stamps of the last *)
(* week than there are awarders.                                               *)
THEOREM FreshStampsStayBounded == Spec => []FreshStampsBounded
<1>1. IInv /\ [Next]_vars => IInv'
  BY NextTypeOK, NextFreshBounded DEF IInv
<1>2. IInv => FreshStampsBounded
  BY DEF IInv
<1> QED BY InitIInv, <1>1, <1>2, PTL DEF Spec

(* An awarder that is about to mint found a user whose account is a week old,   *)
(* and no stamp was minted for a younger one.                                  *)
WaitsAWeek ==
    /\ FirstWeekHasNone
    /\ \A a \in Awarders :
          awarder[a].pc = "mint" => /\ awarder[a].for \in Users
                                    /\ joined[awarder[a].for] + Week <= now
    /\ \A a \in Awarders : awarder[a].pc = "look" => awarder[a].for \in Users

(* The stamps of a user were minted a week after the account at the earliest,   *)
(* so a week after any of them it is older still.                              *)
LEMMA NextWaitsAWeek == TypeOK /\ WaitsAWeek /\ [Next]_vars => WaitsAWeek'
<1> SUFFICES ASSUME TypeOK, WaitsAWeek, [Next]_vars PROVE WaitsAWeek'
  OBVIOUS
<1> USE WeeklyAssumption DEF WaitsAWeek, FirstWeekHasNone, Minted, TypeOK, Award, Idle
<1>1. CASE Tick
  <2>1. now' = now + 1 /\ joined' = joined /\ award' = award /\ awarder' = awarder
    BY <1>1 DEF Tick
  <2> QED BY <2>1
<1>2. CASE Restart
  BY <1>2 DEF Restart
<1>3. ASSUME NEW i \in Awards, Spend(i) PROVE WaitsAWeek'
  BY <1>3 DEF Spend
<1>4. CASE ListUsers
  BY <1>4 DEF ListUsers
<1>5. ASSUME NEW u \in Users, Visit(u) PROVE WaitsAWeek'
  BY <1>5 DEF Visit, Awarders
<1>6. ASSUME NEW u \in Users, NEW a \in Logins, SignIn(a, u) PROVE WaitsAWeek'
  BY <1>6 DEF SignIn, Awarders
<1>7. ASSUME NEW a \in Awarders, Look(a) PROVE WaitsAWeek'
  <2>1. PICK v \in Users : v = awarder[a].for
    BY <1>7 DEF Look
  <2>2. ASSUME LastIsAgo(v, Week) PROVE joined[v] + Week <= now
    <3>1. CASE Owned(v) = {}
      BY <2>2, <3>1 DEF LastIsAgo
    <3>2. CASE Owned(v) # {}
      <4>1. PICK i \in Owned(v) : award[i].at + Week <= now
        BY <2>2, <3>2 DEF LastIsAgo
      <4>2. joined[v] + Week <= award[i].at
        BY <4>1 DEF Owned
      <4>3. award[i].at \in Nat /\ joined[v] \in Nat
        BY <4>1 DEF Owned
      <4> QED BY <4>1, <4>2, <4>3
    <3> QED BY <3>1, <3>2
  <2>3. /\ UNCHANGED <<now, joined, award>>
        /\ awarder' = [awarder EXCEPT ![a] =
               IF LastIsAgo(v, Week) THEN [awarder[a] EXCEPT !.pc = "mint"] ELSE Idle]
    BY <1>7, <2>1 DEF Look
  <2> QED BY <2>1, <2>2, <2>3
<1>8. ASSUME NEW a \in Awarders, Mint(a) PROVE WaitsAWeek'
  BY <1>8 DEF Mint
<1>9. ASSUME NEW a \in Awarders, Fail(a) PROVE WaitsAWeek'
  BY <1>9 DEF Fail
<1>10. CASE UNCHANGED vars
  BY <1>10 DEF vars
<1> QED BY <1>1, <1>2, <1>3, <1>4, <1>5, <1>6, <1>7, <1>8, <1>9, <1>10 DEF Next

(* The first week of an account brings no weekly stamp, whoever spends what. *)
THEOREM NoStampInTheFirstWeek == Spec => []FirstWeekHasNone
<1>1. Init => TypeOK /\ WaitsAWeek
  BY InitIInv DEF IInv, Init, WaitsAWeek, FirstWeekHasNone, Minted, NoAward, Idle
<1>2. TypeOK /\ WaitsAWeek /\ [Next]_vars => (TypeOK /\ WaitsAWeek)'
  BY NextTypeOK, NextWaitsAWeek
<1>3. WaitsAWeek => FirstWeekHasNone
  BY DEF WaitsAWeek
<1> QED BY <1>1, <1>2, <1>3, PTL DEF Spec

(* Who is found due is due by the loop's query too.  The account is a week old   *)
(* because every stamp it owns is, and none was minted in its first week.       *)
LEMMA DueIsNeedy ==
    ASSUME TypeOK, FirstWeekHasNone, NEW u \in Users, LastIsAgo(u, Week)
    PROVE  u \in Needing
<1>1. now \in Nat /\ joined[u] \in Nat /\ \A i \in Owned(u) : award[i].at \in Nat
  BY DEF TypeOK, Award, Owned, Minted
<1>2. joined[u] + Week <= now /\ \A i \in Owned(u) : award[i].at + Week <= now
  <2>1. CASE Owned(u) = {}
    BY <2>1 DEF LastIsAgo
  <2>2. CASE Owned(u) # {}
    <3>1. \A i \in Owned(u) : award[i].at + Week <= now /\ joined[u] + Week <= award[i].at
      BY <2>2 DEF LastIsAgo, FirstWeekHasNone, Owned
    <3> QED BY <1>1, <2>2, <3>1, WeeklyAssumption
  <2> QED BY <2>1, <2>2
<1> QED BY <1>1, <1>2, WeeklyAssumption DEF Needing, Joined, IsRecent

(* No other step lets an awarder go on to mint. *)
LEMMA OnlyLookServes ==
    ASSUME TypeOK, FirstWeekHasNone, [Next]_vars, NEW a \in Awarders, NEW u \in Users,
           awarder[a] = [pc |-> "look", for |-> u], awarder'[a].pc = "mint"
    PROVE  u \in Needing
<1> USE DEF TypeOK, Idle
<1>1. ~(Tick \/ Restart \/ ListUsers \/ UNCHANGED vars)
  BY DEF Tick, Restart, ListUsers, vars
<1>2. ASSUME NEW i \in Awards, Spend(i) PROVE FALSE
  BY <1>2 DEF Spend
<1>3. ASSUME NEW v \in Users, Visit(v) PROVE FALSE
  BY <1>3 DEF Visit, Awarders
<1>4. ASSUME NEW v \in Users, NEW b \in Logins, SignIn(b, v) PROVE FALSE
  BY <1>4 DEF SignIn, Awarders
<1>5. ASSUME NEW b \in Awarders, Look(b) PROVE LastIsAgo(u, Week)
  BY <1>5 DEF Look
<1>6. ASSUME NEW b \in Awarders, Mint(b) PROVE FALSE
  BY <1>6 DEF Mint
<1>7. ASSUME NEW b \in Awarders, Fail(b) PROVE FALSE
  BY <1>7 DEF Fail
<1>8. LastIsAgo(u, Week)
  BY <1>1, <1>2, <1>3, <1>4, <1>5, <1>6, <1>7 DEF Next
<1> QED BY <1>8, DueIsNeedy

(* The award's own test never mints a stamp the loop's query would not give. *)
THEOREM TheQueriesAgree == Spec => OnlyTheNeedyAreServed
<1>1. TypeOK /\ FirstWeekHasNone /\ [Next]_vars
        => [\A a \in Awarders, u \in Users :
               awarder[a] = [pc |-> "look", for |-> u] /\ awarder'[a].pc = "mint"
                   => u \in Needing]_vars
  BY OnlyLookServes
<1> QED BY <1>1, TypeCorrect, NoStampInTheFirstWeek, PTL DEF Spec, OnlyTheNeedyAreServed
-----------------------------------------------------------------------------
(* The hop a letter is at fits the turn its schedule takes next. *)
Stop(n, t) == n > 2 /\ 1 \in SelectFacilityHops(n, MaxFacilityHops(t))
OnTheWay ==
    /\ tier \in Tiers /\ intl \in BOOLEAN /\ customs \in BOOLEAN
    /\ cities \in 1 .. MaxHops /\ hop \in 0 .. cities - 1
    /\ pc \in {"mailbox", "counter", "road", "facility", "door", "delivered"}
    /\ pc \in {"mailbox", "counter"} => hop = 0
    /\ pc = "road" => hop < cities - 1
    /\ pc = "facility" => cities = 1 \/ hop < cities - 1
    /\ pc \in {"door", "delivered"} => hop = cities - 1
    /\ customs <=> intl /\ hop >= 1 /\ Stop(cities, tier)

(* selectFacilityHops: the first hop is a stop of short paths only. *)
LEMMA FirstHopIsAStop ==
    ASSUME NEW n \in 1 .. MaxHops, NEW t \in Tiers
    PROVE  Stop(n, t) <=> n > 2 /\ 2 * (n - 2) < 3 * (MaxFacilityHops(t) - 1)
<1>1. PICK max \in {3, 4, 5} : max = MaxFacilityHops(t)
  BY DEF MaxFacilityHops, Tiers
<1>2. ASSUME n > 2 PROVE 1 \in SelectFacilityHops(n, max) <=> 2 * (n - 2) < 3 * (max - 1)
  <2>0. n \in 3 .. 10
    BY <1>2 DEF MaxHops
  <2>1. CASE max >= n
    BY <1>1, <2>0, <2>1 DEF SelectFacilityHops
  <2>2. CASE max < n
    <3>1. 1 \in SelectFacilityHops(n, max) <=>
            \E i \in 1 .. max - 2 : Within((2 * i * (n - 2) + max - 1) \div (2 * (max - 1)), n) = 1
      BY <1>1, <2>0, <2>2 DEF SelectFacilityHops
    <3>2. CASE max = 3
      <4>1. 1 \in SelectFacilityHops(n, max) <=> Within((2 * (n - 2) + 2) \div 4, n) = 1
        BY <3>1, <3>2
      <4> QED BY <2>0, <2>2, <3>2, <4>1 DEF Within
    <3>3. CASE max = 4
      <4>1. 1 \in SelectFacilityHops(n, max) <=>
              Within((2 * (n - 2) + 3) \div 6, n) = 1 \/ Within((4 * (n - 2) + 3) \div 6, n) = 1
        BY <3>1, <3>3
      <4> QED BY <2>0, <2>2, <3>3, <4>1 DEF Within
    <3>4. CASE max = 5
      <4>1. 1 \in SelectFacilityHops(n, max) <=>
              \/ Within((2 * (n - 2) + 4) \div 8, n) = 1 \/ Within((4 * (n - 2) + 4) \div 8, n) = 1
              \/ Within((6 * (n - 2) + 4) \div 8, n) = 1
        BY <3>1, <3>4
      <4> QED BY <2>0, <2>2, <3>4, <4>1 DEF Within
    <3> QED BY <1>1, <3>2, <3>3, <3>4
  <2> QED BY <1>1, <2>0, <2>1, <2>2
<1> QED BY <1>1, <1>2 DEF Stop

LEMMA InitOnTheWay == RouteInit => OnTheWay
<1> SUFFICES ASSUME RouteInit PROVE OnTheWay
  OBVIOUS
<1>1. PICK n \in Nat \ {0} : cities = Sampled(n)
  BY RouteAssumption DEF RouteInit
<1>2. cities \in 1 .. MaxHops
  BY <1>1 DEF Sampled, MaxHops
<1>3. hop = 0 /\ customs = FALSE /\ ~(hop >= 1) /\ hop \in 0 .. cities - 1
  BY <1>2 DEF RouteInit, MaxHops
<1>4. /\ tier \in Tiers /\ intl \in BOOLEAN /\ pc \in {"mailbox", "counter"}
  BY DEF RouteInit
<1> QED BY <1>2, <1>3, <1>4 DEF OnTheWay

LEMMA NextOnTheWay == OnTheWay /\ [RouteNext]_route => OnTheWay'
<1> SUFFICES ASSUME OnTheWay, [RouteNext]_route PROVE OnTheWay'
  OBVIOUS
<1>1. CASE PickUp
  BY <1>1 DEF OnTheWay, PickUp, letter
<1>2. CASE Depart
  BY <1>2 DEF OnTheWay, Depart, letter, MaxHops
<1>3. CASE Travel
  <2>1. /\ hop' = hop + 1 /\ UNCHANGED <<tier, intl, cities>> /\ hop < cities - 1
        /\ cities \in 1 .. MaxHops /\ hop \in 0 .. cities - 1
    BY <1>3 DEF Travel, letter, OnTheWay
  <2>2. CASE hop + 1 = cities - 1 /\ pc' = "door" /\ UNCHANGED customs
    BY <2>1, <2>2 DEF OnTheWay, Stop, MaxHops
  <2>3. CASE /\ hop + 1 # cities - 1 /\ hop + 1 \in SelectFacilityHops(cities, MaxFacilityHops(tier))
             /\ pc' = "facility" /\ Enter(hop + 1)
    <3>1. customs' = (customs \/ (intl /\ hop + 1 = 1))
      BY <2>3 DEF Enter
    <3> QED BY <2>1, <2>3, <3>1 DEF OnTheWay, Stop, MaxHops
  <2>4. CASE /\ hop + 1 # cities - 1 /\ hop + 1 \notin SelectFacilityHops(cities, MaxFacilityHops(tier))
             /\ UNCHANGED <<pc, customs>>
    BY <1>3, <2>1, <2>4 DEF OnTheWay, Stop, MaxHops, Travel
  <2> QED BY <1>3, <2>2, <2>3, <2>4 DEF Travel
<1>4. CASE Dwell
  BY <1>4 DEF OnTheWay, Dwell, letter, MaxHops
<1>5. CASE Deliver
  BY <1>5 DEF OnTheWay, Deliver, letter
<1>6. CASE UNCHANGED route
  BY <1>6 DEF OnTheWay, route, letter
<1> QED BY <1>1, <1>2, <1>3, <1>4, <1>5, <1>6 DEF RouteNext

(* An international letter passes customs only if its path is short: whatever  *)
(* the graph, and however long its legs (scheduleHops, selectFacilityHops).    *)
THEOREM CustomsAreForShortPaths == RouteSpec => []CustomsOnShortPaths
<1>1. ASSUME OnTheWay PROVE CustomsOnShortPaths
  <2>1. ASSUME pc = "delivered"
        PROVE  customs <=> intl /\ cities > 2 /\ 2 * (cities - 2) < 3 * (MaxFacilityHops(tier) - 1)
    <3>1. hop = cities - 1 /\ cities \in 1 .. MaxHops /\ tier \in Tiers
      BY <1>1, <2>1 DEF OnTheWay
    <3>2. cities > 2 => hop >= 1
      BY <3>1 DEF MaxHops
    <3> QED BY <1>1, <3>1, <3>2, FirstHopIsAStop DEF OnTheWay, Stop
  <2> QED BY <2>1 DEF CustomsOnShortPaths
<1> QED BY <1>1, InitOnTheWay, NextOnTheWay, PTL DEF RouteSpec

-----------------------------------------------------------------------------
(* The calendar. *)
Leap(y) == IF y.leap THEN 1 ELSE 0

LEMMA YearIs ==
    ASSUME NEW y \in YearTypes
    PROVE  Leap(y) \in 0 .. 1 /\ Length(y) = 365 + Leap(y) /\ y.jan1 \in 0 .. 6
<1>1. y.jan1 \in 0 .. 6 /\ y.leap \in BOOLEAN
  BY DEF YearTypes, Sunday, Saturday
<1> QED BY <1>1 DEF Leap, Length

LEMMA Firsts ==
    ASSUME NEW y \in YearTypes
    PROVE  /\ First(y, 1) = 0 /\ First(y, 2) = 31
           /\ First(y, 3) = 59 + Leap(y) /\ First(y, 4) = 90 + Leap(y)
           /\ First(y, 5) = 120 + Leap(y) /\ First(y, 6) = 151 + Leap(y)
           /\ First(y, 7) = 181 + Leap(y) /\ First(y, 8) = 212 + Leap(y)
           /\ First(y, 9) = 243 + Leap(y) /\ First(y, 10) = 273 + Leap(y)
           /\ First(y, 11) = 304 + Leap(y) /\ First(y, 12) = 334 + Leap(y)
<1>1. /\ MonthStarts[1] = 0 /\ MonthStarts[2] = 31 /\ MonthStarts[3] = 59 /\ MonthStarts[4] = 90
      /\ MonthStarts[5] = 120 /\ MonthStarts[6] = 151 /\ MonthStarts[7] = 181 /\ MonthStarts[8] = 212
      /\ MonthStarts[9] = 243 /\ MonthStarts[10] = 273 /\ MonthStarts[11] = 304 /\ MonthStarts[12] = 334
  BY DEF MonthStarts
<1> QED BY <1>1 DEF First, Leap

(* A day is in the one month that has begun and is not over. *)
InMonth(y, d, m) == First(y, m) <= d /\ (m = 12 \/ d < First(y, m + 1))
LEMMA MonthIs ==
    ASSUME NEW y \in YearTypes, NEW n \in Nat, NEW d \in 0 .. Length(y) - 1, d = n - NewYear(y, n)
    PROVE  \A m \in 1 .. 12 : MonthOf(y, n) = m <=> InMonth(y, d, m)
<1> USE DEF InMonth
<1>0. d \in 0 .. 365
  BY YearIs
<1>1. \E m \in 1 .. 12 : InMonth(y, d, m)
  BY <1>0, Firsts, YearIs
<1>2. \A m, k \in 1 .. 12 : m < k => ~(InMonth(y, d, m) /\ InMonth(y, d, k))
  <2>1. \A m \in 1 .. 12 : First(y, m) \in Int
    BY Firsts, YearIs
  <2>2. \A m \in 1 .. 11 : First(y, m) < First(y, m + 1)
    BY Firsts, YearIs
  <2> QED BY <1>0, Firsts, YearIs
<1>3. MonthOf(y, n) = CHOOSE m \in 1 .. 12 : InMonth(y, d, m)
  BY DEF MonthOf
<1> QED BY <1>1, <1>2, <1>3

LEMMA DayIs ==
    ASSUME NEW y \in YearTypes, NEW n \in 0 .. Length(y) - 1, NEW m \in 1 .. 12, NEW k \in Int
    PROVE  /\ Number(y, n, m, k) = First(y, m) + k - 1
           /\ MonthOf(y, n) = m /\ DayOf(y, n) = k <=> n = First(y, m) + k - 1 /\ InMonth(y, n, m)
<1>1. NewYear(y, n) = 0 /\ n \in Nat /\ n = n - NewYear(y, n)
  BY YearIs DEF NewYear
<1>2. MonthOf(y, n) = m <=> InMonth(y, n, m)
  BY <1>1, MonthIs
<1>3. First(y, m) \in Int
  BY Firsts, YearIs
<1>4. Number(y, n, m, k) = First(y, m) + k - 1
  BY <1>1, <1>3 DEF Number
<1>5. MonthOf(y, n) = m => DayOf(y, n) = n - First(y, m) + 1
  BY <1>1, <1>3 DEF Number, DayOf
<1> QED BY <1>2, <1>3, <1>4, <1>5

(* isObservedFixed: the nearest weekday to the date. *)
LEMMA FixedIs ==
    ASSUME NEW y \in YearTypes, NEW n \in 0 .. Length(y) - 1, NEW f \in Fixed
    PROVE  IsObservedFixed(y, n, f[1], f[2]) <=> n = Nearest(y, First(y, f[1]) + f[2] - 1)
<1>1. PICK m \in 1 .. 12, k \in 1 .. 25 :
        m = f[1] /\ k = f[2] /\ <<m, k>> \in {<<1, 1>>, <<6, 19>>, <<7, 4>>, <<11, 11>>, <<12, 25>>}
  BY DEF Fixed
<1>2. PICK d \in Int : d = First(y, m) + k - 1
  BY Firsts, YearIs
<1>3. PICK s \in -1 .. 1 : s = CASE Weekday(y, d) = Saturday -> -1 [] Weekday(y, d) = Sunday -> 1 [] OTHER -> 0
  OBVIOUS
<1>4. Number(y, n, m, k) = d /\ (MonthOf(y, n) = m /\ DayOf(y, n) = k + s <=> n = d + s /\ InMonth(y, n, m))
  <2>1. k + s \in Int
    OBVIOUS
  <2>2. First(y, m) + (k + s) - 1 = d + s
    BY <1>2, Firsts, YearIs
  <2> QED BY <1>2, <2>1, <2>2, DayIs
<1>5. IsObservedFixed(y, n, m, k) <=> n = d + s /\ InMonth(y, n, m)
  BY <1>3, <1>4 DEF IsObservedFixed
<1>6. Nearest(y, d) = d + s
  BY <1>2, <1>3 DEF Nearest, Saturday, Sunday
<1>7. n = d + s => InMonth(y, n, m)
  BY <1>1, <1>2, Firsts, YearIs DEF InMonth
<1> QED BY <1>1, <1>2, <1>5, <1>6, <1>7

(* The days of a month that are one weekday, a week apart. *)
WeekApart(S, first, length, j, wd) ==
    \A d : d \in S <=> d \in Int /\ first <= d /\ d < first + length /\ (j + d) % 7 = wd

(* A new member adds one to the count. *)
LEMMA OneMore ==
    ASSUME NEW T, IsFiniteSet(T), NEW n \in Nat, Cardinality(T) = n, NEW e, e \notin T, NEW U, U = T \cup {e}
    PROVE  IsFiniteSet(U) /\ Cardinality(U) = n + 1
  BY FS_AddElement

LEMMA KthIs ==
    ASSUME NEW S, NEW first \in Int, NEW length \in 28 .. 31, NEW j \in Int, NEW wd \in 0 .. 6,
           WeekApart(S, first, length, j, wd),
           NEW b \in S, b < first + 7, NEW k \in 1 .. 4
    PROVE  KthOf(S, k) = {b + 7 * (k - 1)}
<1> USE DEF WeekApart
<1>0. b \in first .. first + 6 /\ (j + b) % 7 = wd
  OBVIOUS
<1>1. \A d \in S : d \in {b, b + 7, b + 14, b + 21, b + 28}
  <2>1. ASSUME NEW d \in Int, first <= d, d < first + length, (j + d) % 7 = wd
        PROVE  d \in {b, b + 7, b + 14, b + 21, b + 28}
    BY <1>0, <2>1
  <2> QED BY <2>1
<1>2. b \in S /\ b + 7 \in S /\ b + 14 \in S /\ b + 21 \in S
  <2>1. b \in Int /\ b + 7 \in Int /\ b + 14 \in Int /\ b + 21 \in Int
    BY <1>0
  <2>2. first <= b /\ b + 21 < first + length
    BY <1>0
  <2>3. (j + (b + 7)) % 7 = wd /\ (j + (b + 14)) % 7 = wd /\ (j + (b + 21)) % 7 = wd
    BY <1>0
  <2> QED BY <2>1, <2>2, <2>3
<1>3. /\ {e \in S : e <= b} = {b}
      /\ {e \in S : e <= b + 7} = {b, b + 7}
      /\ {e \in S : e <= b + 14} = {b, b + 7, b + 14}
      /\ {e \in S : e <= b + 21} = {b, b + 7, b + 14, b + 21}
      /\ b + 28 \in S => {e \in S : e <= b + 28} = {b, b + 7, b + 14, b + 21, b + 28}
  BY <1>1, <1>2
<1>4. PICK one, two, three, four, five :
        /\ one = {b} /\ two = {b, b + 7} /\ three = {b, b + 7, b + 14}
        /\ four = {b, b + 7, b + 14, b + 21} /\ five = {b, b + 7, b + 14, b + 21, b + 28}
  OBVIOUS
<1>5. IsFiniteSet(one) /\ Cardinality(one) = 1
  BY <1>4, FS_Singleton
<1>6. /\ Cardinality(two) = 2 /\ Cardinality(three) = 3
      /\ Cardinality(four) = 4 /\ Cardinality(five) = 5
  <2>1. IsFiniteSet(two) /\ Cardinality(two) = 1 + 1
    <3>1. two = one \cup {b + 7} /\ b + 7 \notin one
      BY <1>4
    <3> QED BY OneMore, <1>5, <3>1
  <2>2. IsFiniteSet(three) /\ Cardinality(three) = 2 + 1
    <3>1. three = two \cup {b + 14} /\ b + 14 \notin two
      BY <1>4
    <3> QED BY OneMore, <2>1, <3>1
  <2>3. IsFiniteSet(four) /\ Cardinality(four) = 3 + 1
    <3>1. four = three \cup {b + 21} /\ b + 21 \notin three
      BY <1>4
    <3> QED BY OneMore, <2>2, <3>1
  <2>4. IsFiniteSet(five) /\ Cardinality(five) = 4 + 1
    <3>1. five = four \cup {b + 28} /\ b + 28 \notin four
      BY <1>4
    <3> QED BY OneMore, <2>3, <3>1
  <2> QED BY <2>1, <2>2, <2>3, <2>4
<1> DEFINE Upto(d) == Cardinality({e \in S : e <= d})
<1>8. /\ Upto(b) = 1 /\ Upto(b + 7) = 2 /\ Upto(b + 14) = 3 /\ Upto(b + 21) = 4
      /\ b + 28 \in S => Upto(b + 28) = 5
  BY <1>3, <1>4, <1>5, <1>6
<1>9. KthOf(S, k) = {d \in S : Upto(d) = k}
  BY DEF KthOf
<1> HIDE DEF Upto
<1>10. {d \in S : Upto(d) = 1} = {b} /\ {d \in S : Upto(d) = 2} = {b + 7}
       /\ {d \in S : Upto(d) = 3} = {b + 14} /\ {d \in S : Upto(d) = 4} = {b + 21}
  <2>1. \A i \in 1 .. 4 : \A d \in {d \in S : Upto(d) = i} : d # b + 28
    BY <1>8
  <2> QED BY <1>1, <1>2, <1>8, <2>1
<1>11. k = 1 \/ k = 2 \/ k = 3 \/ k = 4
  OBVIOUS
<1> QED BY <1>9, <1>10, <1>11

(* The days of a month that are one weekday. *)
LEMMA AreIs ==
    ASSUME NEW y \in YearTypes, NEW m \in 1 .. 12, NEW wd
    PROVE  \E length \in 28 .. 31 :
             /\ \A d : d \in Are(y, m, wd) <=>
                         d \in Int /\ First(y, m) <= d /\ d < First(y, m) + length /\ (y.jan1 + d) % 7 = wd
             /\ First(y, m) \in Nat /\ First(y, m) + length <= Length(y)
             /\ \A d \in Int : InMonth(y, d, m) /\ d < Length(y) <=> First(y, m) <= d /\ d < First(y, m) + length
<1>1. PICK length \in 28 .. 31 : length = (IF m = 12 THEN Length(y) ELSE First(y, m + 1)) - First(y, m)
  BY Firsts, YearIs
<1>2. First(y, m) \in Nat /\ First(y, m) + length <= Length(y) /\ Length(y) \in Nat
  BY <1>1, Firsts, YearIs
<1>3. \A d \in Int : InMonth(y, d, m) /\ d < Length(y) <=> First(y, m) <= d /\ d < First(y, m) + length
  <2>1. CASE m = 12
    BY <1>1, <1>2, <2>1 DEF InMonth
  <2>2. CASE m # 12
    <3>1. First(y, m + 1) = First(y, m) + length
      BY <1>1, <1>2, <2>2, Firsts, YearIs
    <3> QED BY <1>2, <2>2, <3>1 DEF InMonth
  <2> QED BY <2>1, <2>2
<1>4. \A d \in 0 .. Length(y) - 1 : MonthOf(y, d) = m <=> InMonth(y, d, m)
  <2>1. \A d \in 0 .. Length(y) - 1 : d \in Nat /\ d = d - NewYear(y, d)
    BY <1>2 DEF NewYear
  <2> QED BY <2>1, MonthIs
<1>5. \A d : d \in Are(y, m, wd) <=>
               d \in Int /\ First(y, m) <= d /\ d < First(y, m) + length /\ (y.jan1 + d) % 7 = wd
  <2>1. \A d : d \in Are(y, m, wd) <=> d \in 0 .. Length(y) - 1 /\ MonthOf(y, d) = m /\ (y.jan1 + d) % 7 = wd
    BY DEF Are, MonthDays, Weekday
  <2>2. \A d : d \in 0 .. Length(y) - 1 /\ MonthOf(y, d) = m <=>
               d \in Int /\ First(y, m) <= d /\ d < First(y, m) + length
    BY <1>2, <1>3, <1>4
  <2> QED BY <2>1, <2>2
<1> QED BY <1>2, <1>3, <1>5

(* NthWeekday finds the kth of them. *)
LEMMA NthIs ==
    ASSUME NEW y \in YearTypes, NEW n \in 0 .. Length(y) - 1, NEW m \in 1 .. 12, NEW wd \in 0 .. 6, NEW k \in 1 .. 4
    PROVE  /\ m = MonthOf(y, n) /\ DayOf(y, n) = NthWeekday(y, n, m, wd, k)
                <=> n \in KthOf(Are(y, m, wd), k)
           /\ KthOf(Are(y, m, wd), k) \subseteq 0 .. Length(y) - 1
<1>1. PICK first \in Nat, length \in 28 .. 31 :
        /\ first = First(y, m)
        /\ \A d : d \in Are(y, m, wd) <=> d \in Int /\ first <= d /\ d < first + length /\ (y.jan1 + d) % 7 = wd
        /\ first + length <= Length(y)
        /\ \A d \in Int : InMonth(y, d, m) /\ d < Length(y) <=> first <= d /\ d < first + length
  BY AreIs
<1>2. y.jan1 \in 0 .. 6 /\ Length(y) \in Nat /\ n \in Int /\ n < Length(y)
  BY YearIs
<1>3. PICK c \in 0 .. 6 : c = (wd - ((y.jan1 + first) % 7) + 7) % 7
  BY <1>2
<1>4. PICK b \in first .. first + 6 : b = first + c
  OBVIOUS
<1>5. (y.jan1 + b) % 7 = wd
  <2>1. PICK a \in Nat : a = y.jan1 + first
    BY <1>2
  <2>2. PICK r \in 0 .. 6 : r = a % 7
    BY <2>1
  <2>3. (a + c) % 7 = (r + c) % 7
    BY <2>2
  <2>4. c = (wd - r + 7) % 7
    BY <1>3, <2>1, <2>2
  <2>5. (r + c) % 7 = wd
    BY <2>4
  <2>6. y.jan1 + b = a + c
    BY <1>2, <1>4, <2>1
  <2> QED BY <2>3, <2>5, <2>6
<1>6. KthOf(Are(y, m, wd), k) = {b + 7 * (k - 1)}
  <2>1. PICK S : S = Are(y, m, wd)
    OBVIOUS
  <2>2. PICK j \in Int : j = y.jan1
    BY <1>2
  <2>3. WeekApart(S, first, length, j, wd)
    BY <1>1, <2>1, <2>2 DEF WeekApart
  <2>4. first \in Int /\ b \in S /\ b < first + 7
    BY <1>1, <1>5, <2>1
  <2>5. KthOf(S, k) = {b + 7 * (k - 1)}
    BY <2>3, <2>4, KthIs
  <2> QED BY <2>1, <2>5
<1>7. NthWeekday(y, n, m, wd, k) = 1 + c + (k - 1) * 7
  <2>1. Number(y, n, m, 1) = first
    <3>1. 1 \in Int /\ first + 1 - 1 = first
      OBVIOUS
    <3> QED BY <1>1, <3>1, DayIs
  <2>2. Weekday(y, Number(y, n, m, 1)) = (y.jan1 + first) % 7
    BY <2>1 DEF Weekday
  <2> QED BY <1>3, <2>2 DEF NthWeekday
<1>8. m = MonthOf(y, n) /\ DayOf(y, n) = 1 + c + (k - 1) * 7 <=> n = b + 7 * (k - 1) /\ InMonth(y, n, m)
  <2>1. PICK e \in Int : e = 1 + c + (k - 1) * 7
    OBVIOUS
  <2>2. MonthOf(y, n) = m /\ DayOf(y, n) = e <=> n = first + e - 1 /\ InMonth(y, n, m)
    BY <1>1, DayIs
  <2>3. first + e - 1 = b + 7 * (k - 1)
    BY <1>4, <2>1
  <2> QED BY <2>1, <2>2, <2>3
<1>9. b + 7 * (k - 1) \in first .. first + 27
  BY <1>4
<1>10. n = b + 7 * (k - 1) => InMonth(y, n, m)
  BY <1>1, <1>2, <1>9
<1> QED BY <1>1, <1>2, <1>6, <1>7, <1>8, <1>9, <1>10

(* LastMondayOfMay finds the last Monday of May. *)
LEMMA LastIs ==
    ASSUME NEW y \in YearTypes, NEW n \in 0 .. Length(y) - 1
    PROVE  /\ MonthOf(y, n) = 5 /\ DayOf(y, n) = LastMondayOfMay(y, n) <=> n \in LastOf(Are(y, 5, Monday))
           /\ LastOf(Are(y, 5, Monday)) \subseteq 0 .. Length(y) - 1
<1>1. PICK first \in Nat : first = First(y, 5) /\ first = 120 + Leap(y) /\ First(y, 6) = first + 31
  BY Firsts, YearIs
<1>2. \A d : d \in Are(y, 5, Monday) <=> d \in Int /\ first <= d /\ d < first + 31 /\ (y.jan1 + d) % 7 = 1
  <2>1. \A d \in Int : InMonth(y, d, 5) <=> first <= d /\ d < first + 31
    BY <1>1 DEF InMonth
  <2>2. PICK length \in 28 .. 31 :
          /\ \A d : d \in Are(y, 5, Monday) <=>
                      d \in Int /\ first <= d /\ d < first + length /\ (y.jan1 + d) % 7 = Monday
          /\ first + length <= Length(y)
          /\ \A d \in Int : InMonth(y, d, 5) /\ d < Length(y) <=> first <= d /\ d < first + length
    BY <1>1, AreIs
  <2>3. length = 31
    <3>1. first + length \in Int /\ ~(first + length < first + length)
      OBVIOUS
    <3>2. first + length < Length(y)
      BY <1>1, YearIs
    <3> QED BY <2>1, <2>2, <3>1, <3>2
  <2> QED BY <2>2, <2>3 DEF Monday
<1>3. y.jan1 \in 0 .. 6 /\ Length(y) \in Nat /\ first + 31 < Length(y)
  BY <1>1, YearIs
<1>4. PICK d \in 25 .. 31 : (y.jan1 + first + d - 1) % 7 = 1
  BY <1>3
<1>5. \A e \in 25 .. 31 : (y.jan1 + first + e - 1) % 7 = 1 => e = d
  <2>1. PICK base \in Nat : base = y.jan1 + first
    BY <1>3
  <2>2. ASSUME NEW i \in 25 .. 31, NEW j \in 25 .. 31,
               (base + i - 1) % 7 = 1, (base + j - 1) % 7 = 1
        PROVE  i = j
    <3> DEFINE x == base + i - 1
               z == base + j - 1
    <3>1. x \in Int /\ z \in Int /\ x - z = i - j
      OBVIOUS
    <3>2. x = 7 * (x \div 7) + 1 /\ x \div 7 \in Int
      BY <2>2, <3>1
    <3>3. z = 7 * (z \div 7) + 1 /\ z \div 7 \in Int
      BY <2>2, <3>1
    <3>4. i - j = 7 * ((x \div 7) - (z \div 7)) /\ i - j \in -6 .. 6
      BY <3>1, <3>2, <3>3
    <3> HIDE DEF x, z
    <3> QED BY <3>2, <3>3, <3>4
  <2> QED BY <1>4, <2>1, <2>2
<1>6. LastMondayOfMay(y, n) = d
  <2>1. \A e \in 25 .. 31 : Weekday(y, Number(y, n, 5, e)) = (y.jan1 + first + e - 1) % 7
    <3>1. ASSUME NEW e \in 25 .. 31 PROVE Weekday(y, Number(y, n, 5, e)) = (y.jan1 + first + e - 1) % 7
      <4>1. Number(y, n, 5, e) = first + e - 1
        BY <1>1, DayIs
      <4>2. y.jan1 + (first + e - 1) = y.jan1 + first + e - 1
        BY <1>3
      <4> QED BY <4>1, <4>2 DEF Weekday
    <3> QED BY <3>1
  <2> QED BY <1>4, <1>5, <2>1 DEF LastMondayOfMay, Monday
<1>7. LastOf(Are(y, 5, Monday)) = {first + d - 1}
  <2>1. first + d - 1 \in Are(y, 5, Monday)
    <3>1. y.jan1 + (first + d - 1) = y.jan1 + first + d - 1
      BY <1>3
    <3> QED BY <1>2, <1>4, <3>1
  <2>2. ASSUME NEW e \in Are(y, 5, Monday) PROVE e <= first + d - 1
    BY <1>2, <1>3, <1>4, <2>2
  <2>3. first + d - 1 \in Int /\ \A e \in Are(y, 5, Monday) : e \in Int
    BY <1>2
  <2> QED BY <2>1, <2>2, <2>3 DEF LastOf
<1>8. MonthOf(y, n) = 5 /\ DayOf(y, n) = d <=> n = first + d - 1 /\ InMonth(y, n, 5)
  BY <1>1, DayIs
<1>9. n = first + d - 1 => InMonth(y, n, 5)
  BY <1>1 DEF InMonth
<1> QED BY <1>3, <1>6, <1>7, <1>8, <1>9

(* The next January, with its New Year's Day and its third Monday. *)
NextMondays(y) == {d \in Length(y) .. Length(y) + 30 : Weekday(y, d) = Monday}

LEMMA JanuaryIs ==
    ASSUME NEW y \in YearTypes, NEW n \in Length(y) .. Length(y) + 30
    PROVE  /\ MonthOf(y, n) = 1 /\ DayOf(y, n) = n - Length(y) + 1
           /\ \A f \in Fixed : IsObservedFixed(y, n, f[1], f[2]) <=> f = <<1, 1>> /\ n = Nearest(y, Length(y))
           /\ DayOf(y, n) = NthWeekday(y, n, 1, Monday, 3) <=> n \in KthOf(NextMondays(y), 3)
<1>1. PICK len \in {365, 366} : len = Length(y) /\ n \in len .. len + 30
  BY YearIs
<1>2. NewYear(y, n) = len
  BY <1>1 DEF NewYear
<1>3. MonthOf(y, n) = 1
  <2>1. PICK d \in 0 .. 30 : d = n - len
    BY <1>1
  <2>2. d \in 0 .. Length(y) - 1 /\ n \in Nat /\ d = n - NewYear(y, n)
    BY <1>1, <1>2, <2>1
  <2>3. InMonth(y, d, 1)
    BY Firsts DEF InMonth
  <2>4. 1 \in 1 .. 12
    OBVIOUS
  <2> QED BY <2>2, <2>3, <2>4, MonthIs
<1>4. Number(y, n, 1, 1) = len
  BY <1>1, <1>2, Firsts DEF Number
<1>5. DayOf(y, n) = n - len + 1
  BY <1>3, <1>4 DEF DayOf
<1>6. PICK s \in -1 .. 1 :
        s = CASE Weekday(y, len) = Saturday -> -1 [] Weekday(y, len) = Sunday -> 1 [] OTHER -> 0
  OBVIOUS
<1>7. Nearest(y, len) = len + s
  BY <1>1, <1>6 DEF Nearest, Saturday, Sunday
<1>8. IsObservedFixed(y, n, 1, 1) <=> n = len + s
  <2>1. IsObservedFixed(y, n, 1, 1) <=> DayOf(y, n) = 1 + s
    BY <1>3, <1>4, <1>6 DEF IsObservedFixed
  <2> QED BY <1>1, <1>5, <2>1
<1>9. ASSUME NEW f \in Fixed
      PROVE  IsObservedFixed(y, n, f[1], f[2]) <=> f = <<1, 1>> /\ n = Nearest(y, Length(y))
  <2>1. CASE f = <<1, 1>>
    BY <1>1, <1>7, <1>8, <2>1
  <2>2. CASE f # <<1, 1>>
    <3>1. f[1] # 1
      BY <1>9, <2>2 DEF Fixed
    <3> QED BY <1>3, <2>2, <3>1 DEF IsObservedFixed
  <2> QED BY <2>1, <2>2
<1>10. y.jan1 \in 0 .. 6
  BY YearIs
<1>11. PICK c \in 0 .. 6 : c = (1 - ((y.jan1 + len) % 7) + 7) % 7
  BY <1>1, <1>10
<1>12. NthWeekday(y, n, 1, Monday, 3) = 15 + c
  <2>1. NthWeekday(y, n, 1, Monday, 3) = 1 + c + (3 - 1) * 7
    BY <1>4, <1>11 DEF NthWeekday, Weekday, Monday
  <2> QED BY <2>1
<1>13. (y.jan1 + (len + c)) % 7 = 1
  <2>1. PICK a \in Nat : a = y.jan1 + len
    BY <1>1, <1>10
  <2>2. PICK r \in 0 .. 6 : r = a % 7
    BY <2>1
  <2>3. (a + c) % 7 = (r + c) % 7
    BY <2>2
  <2>4. c = (1 - r + 7) % 7
    BY <1>11, <2>1, <2>2
  <2>5. (r + c) % 7 = 1
    BY <2>4
  <2>6. y.jan1 + (len + c) = a + c
    BY <1>1, <1>10, <2>1
  <2> QED BY <2>3, <2>5, <2>6
<1>14. KthOf(NextMondays(y), 3) = {len + c + 14}
  <2>1. PICK S : S = NextMondays(y)
    OBVIOUS
  <2>2. PICK j \in Int : j = y.jan1
    BY <1>10
  <2>3. WeekApart(S, len, 31, j, 1)
    BY <1>1, <2>1, <2>2 DEF WeekApart, NextMondays, Weekday, Monday
  <2>4. PICK b \in S : b = len + c
    BY <1>1, <1>13, <2>2, <2>3 DEF WeekApart
  <2>5. PICK length \in 28 .. 31, wd \in 0 .. 6, k \in 1 .. 4 : length = 31 /\ wd = 1 /\ k = 3
    OBVIOUS
  <2>6. len \in Int /\ b < len + 7 /\ WeekApart(S, len, length, j, wd)
    BY <1>1, <2>3, <2>4, <2>5
  <2>7. KthOf(S, 3) = {b + 7 * (3 - 1)}
    <3>1. KthOf(S, k) = {b + 7 * (k - 1)}
      BY <2>6, KthIs
    <3> QED BY <2>5, <3>1
  <2>8. b + 7 * (3 - 1) = len + c + 14
    BY <1>1, <2>4
  <2> QED BY <2>1, <2>7, <2>8
<1>15. n - len + 1 = 15 + c <=> n = len + c + 14
  BY <1>1
<1> QED BY <1>1, <1>3, <1>5, <1>9, <1>12, <1>14, <1>15

(* The days that are holidays as they are meant, one kind after the other. *)
LEMMA HolidaysAre ==
    ASSUME NEW y, NEW n
    PROVE  n \in HolidaysOf(y) <=>
             \/ \E f \in Fixed : n = Nearest(y, First(y, f[1]) + f[2] - 1)
             \/ n = Nearest(y, Length(y))
             \/ \E h \in Nths : n \in KthOf(Are(y, h[1], h[2]), h[3])
             \/ n \in LastOf(Are(y, 5, Monday))
             \/ n \in KthOf(NextMondays(y), 3)
<1> DEFINE Dated == {Nearest(y, First(y, f[1]) + f[2] - 1) : f \in Fixed}
           Counted == UNION {KthOf(Are(y, h[1], h[2]), h[3]) : h \in Nths}
           IsDated == \E f \in Fixed : n = Nearest(y, First(y, f[1]) + f[2] - 1)
           IsCounted == \E h \in Nths : n \in KthOf(Are(y, h[1], h[2]), h[3])
<1>1. HolidaysOf(y) = Dated \cup {Nearest(y, Length(y))} \cup Counted
                        \cup LastOf(Are(y, 5, Monday)) \cup KthOf(NextMondays(y), 3)
  BY DEF HolidaysOf, NextMondays
<1>2. n \in Dated <=> IsDated
  OBVIOUS
<1>3. n \in Counted <=> IsCounted
  OBVIOUS
<1> HIDE DEF Dated, Counted, IsDated, IsCounted
<1>4. n \in HolidaysOf(y) <=> \/ IsDated \/ n = Nearest(y, Length(y)) \/ IsCounted
                              \/ n \in LastOf(Are(y, 5, Monday)) \/ n \in KthOf(NextMondays(y), 3)
  BY <1>1, <1>2, <1>3
<1> QED BY <1>4 DEF IsDated, IsCounted

(* Where those of each kind are. *)
LEMMA HolidayBounds ==
    ASSUME NEW y \in YearTypes
    PROVE  /\ \A f \in Fixed : Nearest(y, First(y, f[1]) + f[2] - 1) \in -1 .. Length(y) - 1
           /\ Nearest(y, Length(y)) \in Length(y) - 1 .. Length(y) + 1
           /\ \A h \in Nths : KthOf(Are(y, h[1], h[2]), h[3]) \subseteq 0 .. Length(y) - 1
           /\ LastOf(Are(y, 5, Monday)) \subseteq 0 .. Length(y) - 1
           /\ KthOf(NextMondays(y), 3) \subseteq Length(y) .. Length(y) + 30
<1>1. Length(y) \in {365, 366} /\ 0 \in 0 .. Length(y) - 1
  BY YearIs
<1>2. ASSUME NEW d \in Int PROVE Nearest(y, d) \in d - 1 .. d + 1
  BY DEF Nearest, Saturday, Sunday
<1>3. ASSUME NEW f \in Fixed PROVE Nearest(y, First(y, f[1]) + f[2] - 1) \in -1 .. Length(y) - 1
  <2>1. PICK d \in 0 .. 358 + Leap(y) : d = First(y, f[1]) + f[2] - 1
    BY <1>3, Firsts, YearIs DEF Fixed
  <2>2. d \in Int /\ Leap(y) \in 0 .. 1
    BY YearIs
  <2>3. Nearest(y, d) \in d - 1 .. d + 1
    BY <1>2, <2>2
  <2> QED BY <1>1, <2>1, <2>2, <2>3, YearIs
<1>4. ASSUME NEW h \in Nths PROVE KthOf(Are(y, h[1], h[2]), h[3]) \subseteq 0 .. Length(y) - 1
  <2>1. h[1] \in 1 .. 12 /\ h[2] \in 0 .. 6 /\ h[3] \in 1 .. 4
    BY <1>4 DEF Nths, Monday, Thursday
  <2> QED BY <1>1, <2>1, NthIs
<1>5. LastOf(Are(y, 5, Monday)) \subseteq 0 .. Length(y) - 1
  BY <1>1, LastIs
<1> QED BY <1>1, <1>2, <1>3, <1>4, <1>5 DEF KthOf, NextMondays

(* IsFederalHoliday is true of the holidays as they are meant, this year ... *)
LEMMA HolidaysThisYear ==
    ASSUME NEW y \in YearTypes, NEW n \in 0 .. Length(y) - 1
    PROVE  IsFederalHoliday(y, n) <=> n \in HolidaysOf(y)
<1> DEFINE IsDated == \E f \in Fixed : n = Nearest(y, First(y, f[1]) + f[2] - 1)
           IsCounted == \E h \in Nths : n \in KthOf(Are(y, h[1], h[2]), h[3])
           IsLast == n \in LastOf(Are(y, 5, Monday))
           IsEve == /\ MonthOf(y, n) = 12 /\ DayOf(y, n) = 31
                    /\ Weekday(y, n) = Friday /\ Weekday(y, n + 1) = Saturday
<1>1. (\E f \in Fixed : IsObservedFixed(y, n, f[1], f[2])) <=> IsDated
  BY FixedIs
<1>2. (\E h \in Nths : h[1] = MonthOf(y, n) /\ DayOf(y, n) = NthWeekday(y, n, MonthOf(y, n), h[2], h[3])) <=> IsCounted
  <2>1. ASSUME NEW h \in Nths
        PROVE  h[1] = MonthOf(y, n) /\ DayOf(y, n) = NthWeekday(y, n, h[1], h[2], h[3])
                  <=> n \in KthOf(Are(y, h[1], h[2]), h[3])
    <3>1. PICK m \in 1 .. 12, wd \in 0 .. 6, k \in 1 .. 4 : m = h[1] /\ wd = h[2] /\ k = h[3]
      BY <2>1 DEF Nths, Monday, Thursday
    <3>2. m = MonthOf(y, n) /\ DayOf(y, n) = NthWeekday(y, n, m, wd, k) <=> n \in KthOf(Are(y, m, wd), k)
      BY NthIs
    <3> QED BY <3>1, <3>2
  <2> QED BY <2>1
<1>3. MonthOf(y, n) = 5 /\ DayOf(y, n) = LastMondayOfMay(y, n) <=> IsLast
  BY LastIs
<1>4. IsEve <=> n = Nearest(y, Length(y))
  <2>1. PICK len \in {365, 366} : len = Length(y) /\ First(y, 12) = len - 31
    BY Firsts, YearIs
  <2>2. y.jan1 \in 0 .. 6
    BY YearIs
  <2>3. MonthOf(y, n) = 12 /\ DayOf(y, n) = 31 <=> n = len - 1
    <3>1. 12 \in 1 .. 12 /\ 31 \in Int /\ First(y, 12) + 31 - 1 = len - 1
      BY <2>1
    <3>2. n = len - 1 => InMonth(y, n, 12)
      BY <2>1 DEF InMonth
    <3> QED BY <3>1, <3>2, DayIs
  <2>4. n = len - 1 => (Weekday(y, n + 1) = 6 <=> Weekday(y, len) = 6)
                       /\ (Weekday(y, n + 1) = 6 => Weekday(y, n) = 5)
    BY <2>1, <2>2 DEF Weekday
  <2>5. n = Nearest(y, len) <=> n = len - 1 /\ Weekday(y, len) = 6
    BY <2>1 DEF Nearest, Saturday, Sunday
  <2> QED BY <2>1, <2>3, <2>4, <2>5 DEF Friday, Saturday
<1>5. n \notin KthOf(NextMondays(y), 3)
  BY HolidayBounds, YearIs
<1>6. IsFederalHoliday(y, n) <=> IsDated \/ IsCounted \/ IsLast \/ IsEve
  BY <1>1, <1>2, <1>3 DEF IsFederalHoliday
<1>7. n \in HolidaysOf(y) <=> IsDated \/ n = Nearest(y, Length(y)) \/ IsCounted \/ IsLast
  BY <1>5, HolidaysAre
<1> QED BY <1>4, <1>6, <1>7

(* ... and next January. *)
LEMMA HolidaysNextYear ==
    ASSUME NEW y \in YearTypes, NEW n \in Length(y) .. Length(y) + 30
    PROVE  IsFederalHoliday(y, n) <=> n \in HolidaysOf(y)
<1>1. /\ MonthOf(y, n) = 1 /\ n \notin 0 .. Length(y) - 1
      /\ \A f \in Fixed : IsObservedFixed(y, n, f[1], f[2]) <=> f = <<1, 1>> /\ n = Nearest(y, Length(y))
      /\ DayOf(y, n) = NthWeekday(y, n, 1, Monday, 3) <=> n \in KthOf(NextMondays(y), 3)
  BY JanuaryIs, YearIs
<1>2. (\E f \in Fixed : IsObservedFixed(y, n, f[1], f[2])) <=> n = Nearest(y, Length(y))
  <2>1. <<1, 1>> \in Fixed
    BY DEF Fixed
  <2> QED BY <1>1, <2>1
<1>3. (\E h \in Nths : h[1] = 1 /\ DayOf(y, n) = NthWeekday(y, n, 1, h[2], h[3])) <=> n \in KthOf(NextMondays(y), 3)
  <2>1. <<1, Monday, 3>> \in Nths /\ \A h \in Nths : h[1] = 1 => h = <<1, Monday, 3>>
    BY DEF Nths
  <2> QED BY <1>1, <2>1
<1>4. IsFederalHoliday(y, n) <=> n = Nearest(y, Length(y)) \/ n \in KthOf(NextMondays(y), 3)
  BY <1>1, <1>2, <1>3 DEF IsFederalHoliday
<1>5. /\ ~\E f \in Fixed : n = Nearest(y, First(y, f[1]) + f[2] - 1)
      /\ ~\E h \in Nths : n \in KthOf(Are(y, h[1], h[2]), h[3])
      /\ n \notin LastOf(Are(y, 5, Monday))
  <2>1. n \notin -1 .. Length(y) - 1
    BY YearIs
  <2> QED BY <1>1, <2>1, HolidayBounds
<1> QED BY <1>4, <1>5, HolidaysAre

(* isFederalHoliday, a day at a time and by its month, finds the holidays     *)
(* that are meant: of every year type, on every day and on no other.          *)
THEOREM TheHolidaysAreMeant ==
    ASSUME NEW y \in YearTypes, NEW n \in Nat
    PROVE  <<y, n>> \in FederalHolidays <=> n \in HolidaysOf(y)
<1>1. Length(y) \in {365, 366}
  BY YearIs
<1>2. <<y, n>> \in Days <=> n <= Length(y) + 30
  BY <1>1 DEF Days
<1>3. <<y, n>> \in FederalHolidays <=> <<y, n>> \in Days /\ IsFederalHoliday(y, n)
  <2> DEFINE
         Holiday(d) == IsFederalHoliday(d[1], d[2])
         One(d) == IF Holiday(d) THEN {d} ELSE {}
  <2>1. FederalHolidays = UNION {One(d) : d \in Days}
    BY DEF FederalHolidays
  <2>2. Holiday(<<y, n>>) <=> IsFederalHoliday(y, n)
    OBVIOUS
  <2> HIDE DEF Holiday
  <2>3. \A d, e : e \in One(d) <=> e = d /\ Holiday(d)
    OBVIOUS
  <2> HIDE DEF One
  <2>4. \A e : e \in UNION {One(d) : d \in Days} <=> \E d \in Days : e \in One(d)
    OBVIOUS
  <2> QED BY <2>1, <2>2, <2>3, <2>4
<1>4. n \in HolidaysOf(y) => n <= Length(y) + 30
  <2>1. /\ \A f \in Fixed : Nearest(y, First(y, f[1]) + f[2] - 1) <= Length(y) + 30
        /\ Nearest(y, Length(y)) <= Length(y) + 30
    BY <1>1, HolidayBounds
  <2>2. /\ \A h \in Nths : n \in KthOf(Are(y, h[1], h[2]), h[3]) => n <= Length(y) + 30
        /\ n \in LastOf(Are(y, 5, Monday)) => n <= Length(y) + 30
        /\ n \in KthOf(NextMondays(y), 3) => n <= Length(y) + 30
    <3>1. \A d : d \in 0 .. Length(y) - 1 \/ d \in Length(y) .. Length(y) + 30 => d <= Length(y) + 30
      BY <1>1
    <3> QED BY <3>1, HolidayBounds
  <2> QED BY <2>1, <2>2, HolidaysAre
<1>5. n <= Length(y) + 30 => n \in 0 .. Length(y) - 1 \/ n \in Length(y) .. Length(y) + 30
  BY <1>1
<1> QED BY <1>2, <1>3, <1>4, <1>5, HolidaysThisYear, HolidaysNextYear

(* The two days on which express mail rests. *)
LEMMA RestDaysAre ==
    ASSUME NEW y \in YearTypes, NEW n \in Nat
    PROVE  <<y, n>> \in XmasAndNewYear <=> n \in {0, First(y, 12) + 24, Length(y)}
<1>1. PICK len \in {365, 366} : len = Length(y) /\ First(y, 12) = len - 31
  BY Firsts, YearIs
<1>2. <<y, n>> \in Days <=> n <= len + 30
  BY <1>1 DEF Days
<1>3. <<y, n>> \in XmasAndNewYear <=>
        <<y, n>> \in Days /\ <<MonthOf(y, n), DayOf(y, n)>> \in {<<12, 25>>, <<1, 1>>}
  <2> DEFINE
         Rests(d) == <<MonthOf(d[1], d[2]), DayOf(d[1], d[2])>> \in {<<12, 25>>, <<1, 1>>}
         One(d) == IF Rests(d) THEN {d} ELSE {}
  <2>1. XmasAndNewYear = UNION {One(d) : d \in Days}
    BY DEF XmasAndNewYear
  <2>2. Rests(<<y, n>>) <=> <<MonthOf(y, n), DayOf(y, n)>> \in {<<12, 25>>, <<1, 1>>}
    OBVIOUS
  <2> HIDE DEF Rests
  <2>3. \A d, e : e \in One(d) <=> e = d /\ Rests(d)
    OBVIOUS
  <2> HIDE DEF One
  <2>4. \A e : e \in UNION {One(d) : d \in Days} <=> \E d \in Days : e \in One(d)
    OBVIOUS
  <2> QED BY <2>1, <2>2, <2>3, <2>4
<1>4. <<MonthOf(y, n), DayOf(y, n)>> \in {<<12, 25>>, <<1, 1>>} <=>
        (MonthOf(y, n) = 12 /\ DayOf(y, n) = 25) \/ (MonthOf(y, n) = 1 /\ DayOf(y, n) = 1)
  OBVIOUS
<1>5. CASE n \in 0 .. len - 1
  <2>1. MonthOf(y, n) = 12 /\ DayOf(y, n) = 25 <=> n = len - 7
    <3>1. First(y, 12) + 25 - 1 = len - 7 /\ (n = len - 7 => InMonth(y, n, 12)) /\ 12 \in 1 .. 12 /\ 25 \in Int
      BY <1>1 DEF InMonth
    <3> QED BY <1>1, <1>5, <3>1, DayIs
  <2>2. MonthOf(y, n) = 1 /\ DayOf(y, n) = 1 <=> n = 0
    <3>1. First(y, 1) + 1 - 1 = 0 /\ (n = 0 => InMonth(y, n, 1)) /\ 1 \in 1 .. 12 /\ 1 \in Int
      BY Firsts DEF InMonth
    <3> QED BY <1>1, <1>5, <3>1, DayIs
  <2> QED BY <1>1, <1>2, <1>3, <1>4, <1>5, <2>1, <2>2
<1>6. CASE n \in len .. len + 30
  <2>1. MonthOf(y, n) = 1 /\ DayOf(y, n) = n - len + 1
    BY <1>1, <1>6, JanuaryIs
  <2> QED BY <1>1, <1>2, <1>3, <1>4, <1>6, <2>1
<1>7. CASE n > len + 30
  BY <1>1, <1>2, <1>3, <1>7
<1> QED BY <1>1, <1>5, <1>6, <1>7

(* The letter's own year and service. *)
LEMMA WorksIs ==
    ASSUME year \in YearTypes, NEW n \in Nat
    PROVE  IsBusinessDay(year, n, Express) <=> Works(n)
<1>1. <<year, n>> \in FederalHolidays <=> <<year, n>> \in Holidays
  <2>1. <<year, n>> \in Holidays <=> n \in HolidaysOf(year)
    BY DEF Holidays
  <2> QED BY <2>1, TheHolidaysAreMeant
<1>2. <<year, n>> \in XmasAndNewYear <=> n \in {0, First(year, 12) + 24, Length(year)}
  BY RestDaysAre
<1> QED BY <1>1, <1>2 DEF IsBusinessDay, Works

-----------------------------------------------------------------------------
LEMMA WeekdayAfter ==
    ASSUME NEW y \in YearTypes, NEW n \in Int, NEW i \in -1 .. 6
    PROVE  /\ Weekday(y, n) \in 0 .. 6 /\ Weekday(y, n + i) = (Weekday(y, n) + i) % 7
<1>1. PICK a \in Int : a = y.jan1 + n
  BY YearIs
<1>2. y.jan1 + (n + i) = a + i
  BY <1>1, YearIs
<1>3. a % 7 \in 0 .. 6 /\ (a + i) % 7 = ((a % 7) + i) % 7
  OBVIOUS
<1> QED BY <1>1, <1>2, <1>3 DEF Weekday

(* A Saturday is never a holiday, a Tuesday or Wednesday only on its date. *)
LEMMA HolidayWeekdays ==
    ASSUME NEW y \in YearTypes, NEW n \in Nat, n \in HolidaysOf(y)
    PROVE  /\ Weekday(y, n) # Saturday
           /\ Weekday(y, n) \in {2, 3} =>
                n = Length(y) \/ \E f \in Fixed : n = First(y, f[1]) + f[2] - 1
<1>1. y.jan1 \in 0 .. 6 /\ Length(y) \in Nat
  BY YearIs
<1>2. ASSUME NEW d \in Int, n = Nearest(y, d)
      PROVE  Weekday(y, n) # 6 /\ (Weekday(y, n) \in {2, 3} => n = d)
  <2>1. PICK w \in 0 .. 6 : w = Weekday(y, d)
    BY <1>1 DEF Weekday
  <2>2. /\ w = 6 => n = d - 1
        /\ w = 0 => n = d + 1
        /\ w \notin {0, 6} => n = d
    BY <1>2, <2>1 DEF Nearest, Saturday, Sunday
  <2>3. Weekday(y, d - 1) = (w + -1) % 7 /\ Weekday(y, d + 1) = (w + 1) % 7
    <3>1. d + -1 = d - 1
      OBVIOUS
    <3> QED BY <2>1, <3>1, WeekdayAfter
  <2>4. CASE w = 6
    BY <2>2, <2>3, <2>4
  <2>5. CASE w = 0
    BY <2>2, <2>3, <2>5
  <2>6. CASE w \notin {0, 6}
    BY <2>1, <2>2, <2>6
  <2> QED BY <2>4, <2>5, <2>6
<1>3. ASSUME NEW f \in Fixed, n = Nearest(y, First(y, f[1]) + f[2] - 1)
      PROVE  Weekday(y, n) # 6 /\ (Weekday(y, n) \in {2, 3} => n = First(y, f[1]) + f[2] - 1)
  <2>1. First(y, f[1]) + f[2] - 1 \in Int
    BY <1>3, Firsts, YearIs DEF Fixed
  <2> QED BY <1>2, <1>3, <2>1
<1>4. ASSUME NEW h \in Nths, n \in KthOf(Are(y, h[1], h[2]), h[3])
      PROVE  Weekday(y, n) \in {1, 4}
  <2>1. n \in Are(y, h[1], h[2])
    BY <1>4 DEF KthOf
  <2>2. Weekday(y, n) = h[2]
    BY <2>1 DEF Are
  <2> QED BY <1>4, <2>2 DEF Nths, Monday, Thursday
<1>5. n \in LastOf(Are(y, 5, Monday)) => Weekday(y, n) = 1
  BY DEF LastOf, Are, Monday
<1>6. n \in KthOf(NextMondays(y), 3) => Weekday(y, n) = 1
  BY DEF KthOf, NextMondays, Monday
<1>7. n = Nearest(y, Length(y)) => Weekday(y, n) # 6 /\ (Weekday(y, n) \in {2, 3} => n = Length(y))
  BY <1>1, <1>2
<1> QED BY <1>3, <1>4, <1>5, <1>6, <1>7, HolidaysAre DEF Saturday

(* The loop of advanceToBusinessDay ends, and after five days at most: that   *)
(* AdvanceToBusinessDay looks no further leaves nothing out.                  *)
THEOREM ABusinessDayComes ==
    ASSUME NEW y \in YearTypes, NEW n \in Nat, NEW express \in BOOLEAN
    PROVE  \E d \in n .. n + 5 : IsBusinessDay(y, d, express)
<1>1. PICK len \in {365, 366} : len = Length(y)
  BY YearIs
<1>2. CASE express
  <2>1. \A d \in Nat : IsBusinessDay(y, d, express) <=> d \notin {0, len - 7, len}
    <3>1. First(y, 12) + 24 = len - 7
      BY <1>1, Firsts, YearIs
    <3> QED BY <1>1, <1>2, <3>1, RestDaysAre DEF IsBusinessDay
  <2>2. n \in Nat /\ n + 1 \in Nat /\ n \in n .. n + 5 /\ n + 1 \in n .. n + 5
    OBVIOUS
  <2>3. n \notin {0, len - 7, len} \/ n + 1 \notin {0, len - 7, len}
    OBVIOUS
  <2> QED BY <2>1, <2>2, <2>3
<1>3. CASE ~express
  <2>1. \A d \in Nat : IsBusinessDay(y, d, express) <=> Weekday(y, d) # 0 /\ d \notin HolidaysOf(y)
    BY <1>3, TheHolidaysAreMeant DEF IsBusinessDay, Sunday
  <2>2. PICK w \in 0 .. 6 : w = Weekday(y, n)
    BY YearIs DEF Weekday
  <2>3. CASE w # 0
    <3>1. PICK d \in n .. n + 5 : d = n + (6 - w)
      BY <2>3
    <3>2. Weekday(y, d) = 6 /\ d \in Nat
      <4>1. 6 - w \in -1 .. 6
        BY <2>3
      <4>2. Weekday(y, n + (6 - w)) = (w + (6 - w)) % 7
        BY <2>2, <4>1, WeekdayAfter
      <4> QED BY <3>1, <4>2
    <3> QED BY <2>1, <3>2, HolidayWeekdays DEF Saturday
  <2>4. CASE w = 0
    <3>1. Weekday(y, n + 2) = 2 /\ Weekday(y, n + 3) = 3 /\ n + 2 \in Nat /\ n + 3 \in Nat
      <4>1. 2 \in -1 .. 6 /\ 3 \in -1 .. 6 /\ n \in Int
        OBVIOUS
      <4>2. Weekday(y, n + 2) = (Weekday(y, n) + 2) % 7
        BY <4>1, WeekdayAfter
      <4>3. Weekday(y, n + 3) = (Weekday(y, n) + 3) % 7
        BY <4>1, WeekdayAfter
      <4> QED BY <2>2, <2>4, <4>2, <4>3
    <3>2. \A d \in Nat : d \in HolidaysOf(y) /\ Weekday(y, d) \in {2, 3} =>
            d \in {0, len - 196, len - 181, len - 51, len - 7, len}
      <4>1. ASSUME NEW f \in Fixed
            PROVE  First(y, f[1]) + f[2] - 1 \in {0, len - 196, len - 181, len - 51, len - 7, len}
        BY <1>1, <4>1, Firsts, YearIs DEF Fixed
      <4> QED BY <1>1, <4>1, HolidayWeekdays
    <3>3. n + 2 \notin HolidaysOf(y) \/ n + 3 \notin HolidaysOf(y)
      BY <3>1, <3>2
    <3>4. n + 2 \in n .. n + 5 /\ n + 3 \in n .. n + 5
      OBVIOUS
    <3> QED BY <2>1, <3>1, <3>3, <3>4
  <2> QED BY <2>3, <2>4
<1> QED BY <1>2, <1>3

(* AdvanceToBusinessDay finds the first. *)
LEMMA AdvanceIs ==
    ASSUME NEW y \in YearTypes, NEW n \in Nat, NEW express \in BOOLEAN,
           NEW d, d = AdvanceToBusinessDay(y, n, express)
    PROVE  /\ d \in n .. n + 5 /\ d \in Nat /\ IsBusinessDay(y, d, express)
           /\ \A e \in n .. d - 1 : ~IsBusinessDay(y, e, express)
<1> DEFINE B(e) == IsBusinessDay(y, e, express)
<1>1. \E e \in n .. n + 5 : B(e)
  BY ABusinessDayComes
<1>2. d = CHOOSE e \in n .. n + 5 : B(e) /\ \A c \in n .. e - 1 : ~B(c)
  BY DEF AdvanceToBusinessDay
<1> HIDE DEF B
<1>3. \E e \in n .. n + 5 : B(e) /\ \A c \in n .. e - 1 : ~B(c)
  <2>1. \A c : c \in n .. n + 5 <=> c \in {n, n + 1, n + 2, n + 3, n + 4, n + 5}
    OBVIOUS
  <2> QED BY <1>1, <2>1
<1>4. d \in n .. n + 5 /\ B(d) /\ \A c \in n .. d - 1 : ~B(c)
  BY <1>2, <1>3
<1> QED BY <1>4 DEF B

-----------------------------------------------------------------------------
(* The time of day. *)
LEMMA TimeIs ==
    ASSUME NEW t \in Nat
    PROVE  \E n \in Nat, c \in 0 .. 47 : t = 48 * n + c /\ DayAt(t) = n /\ Hour(t) = c \div 2 /\ t % Day = c
<1>1. PICK n \in Nat, c \in 0 .. 47 : n = t \div 48 /\ c = t % 48
  OBVIOUS
<1>2. t = 48 * n + c
  BY <1>1
<1> QED BY <1>1, <1>2 DEF DayAt, Hour, Day

LEMMA TimeOf ==
    ASSUME NEW n \in Nat, NEW c \in 0 .. 47, NEW t, t = 48 * n + c
    PROVE  t \in Nat /\ DayAt(t) = n /\ Hour(t) = c \div 2
<1>1. t \div 48 = n /\ t % 48 = c
  OBVIOUS
<1> QED BY <1>1 DEF DayAt, Hour, Day

LEMMA HoursAre ==
    ASSUME NEW x \in BOOLEAN
    PROVE  /\ OpenHr(x) \in 5 .. 6 /\ CloseHr(x) \in 22 .. 23 /\ DeliveryEnd(x) \in 17 .. 19
           /\ DeliveryStart = 9 /\ PostOfficeCutoff = 17 /\ EveningDispatchCutoff = 18 /\ ProcessingStart = 6
BY DEF OpenHr, CloseHr, DeliveryEnd, DeliveryStart, PostOfficeCutoff, EveningDispatchCutoff, ProcessingStart

(* In the hours of a facility, on a business day. *)
InHours(y, t, x) ==
    IsBusinessDay(y, DayAt(t), x) /\ Hour(t) >= OpenHr(x) /\ t < At(DayAt(t), CloseHr(x))

LEMMA OpensNext ==
    ASSUME NEW y \in YearTypes, NEW t \in Nat, NEW x \in BOOLEAN, NEW r, r = NextBusinessOpen(y, t, x)
    PROVE  r \in Nat /\ r >= t /\ InHours(y, r, x)
<1>1. PICK n \in Nat, c \in 0 .. 47 : t = 48 * n + c /\ DayAt(t) = n
  BY TimeIs
<1>2. PICK d \in Nat : d = AdvanceToBusinessDay(y, n + 1, x) /\ d >= n + 1 /\ IsBusinessDay(y, d, x)
  <2>1. n + 1 \in Nat
    OBVIOUS
  <2> QED BY <2>1, AdvanceIs
<1>3. PICK h \in 5 .. 6, e \in 22 .. 23 : h = OpenHr(x) /\ e = CloseHr(x)
  BY HoursAre
<1>4. r = 48 * d + 2 * h
  BY <1>1, <1>2, <1>3 DEF NextBusinessOpen, At, Day
<1>5. r \in Nat /\ DayAt(r) = d /\ Hour(r) = (2 * h) \div 2
  <2>1. 2 * h \in 0 .. 47
    OBVIOUS
  <2> QED BY <1>4, <2>1, TimeOf
<1>6. r >= t /\ Hour(r) >= h /\ r < 48 * d + 2 * e
  BY <1>1, <1>2, <1>4, <1>5
<1> QED BY <1>2, <1>3, <1>5, <1>6 DEF InHours, At, Day

LEMMA SnapsToHours ==
    ASSUME NEW y \in YearTypes, NEW t \in Nat, NEW x \in BOOLEAN, NEW r, r = SnapToFacilityHours(y, t, x)
    PROVE  r \in Nat /\ r >= t /\ InHours(y, r, x)
<1>1. PICK n \in Nat, c \in 0 .. 47 : t = 48 * n + c /\ DayAt(t) = n /\ Hour(t) = c \div 2
  BY TimeIs
<1>2. PICK h \in 5 .. 6, e \in 22 .. 23 : h = OpenHr(x) /\ e = CloseHr(x)
  BY HoursAre
<1>3. CASE Hour(t) >= e \/ ~IsOpenDay(y, t, x)
  BY <1>2, <1>3, OpensNext DEF SnapToFacilityHours
<1>4. CASE Hour(t) < e /\ IsOpenDay(y, t, x) /\ Hour(t) < h
  <2>1. r = 48 * n + 2 * h
    BY <1>1, <1>2, <1>4 DEF SnapToFacilityHours, At, Day
  <2>2. 2 * h \in 0 .. 47
    OBVIOUS
  <2>3. r \in Nat /\ DayAt(r) = n /\ Hour(r) = (2 * h) \div 2
    BY <2>1, <2>2, TimeOf
  <2>4. r >= t /\ Hour(r) >= h /\ r < 48 * n + 2 * e
    BY <1>1, <1>4, <2>1, <2>3
  <2> QED BY <1>1, <1>2, <1>4, <2>3, <2>4 DEF InHours, IsOpenDay, At, Day
<1>5. CASE Hour(t) < e /\ IsOpenDay(y, t, x) /\ ~(Hour(t) < h)
  <2>1. r = t
    BY <1>1, <1>2, <1>5 DEF SnapToFacilityHours
  <2>2. Hour(t) >= h /\ t < 48 * n + 2 * e
    BY <1>1, <1>5
  <2> QED BY <1>1, <1>2, <1>5, <2>1, <2>2 DEF InHours, IsOpenDay, At, Day
<1>6. Hour(t) \in Int
  BY <1>1
<1> QED BY <1>2, <1>3, <1>4, <1>5, <1>6

(* A turn of AddFacilityHours. *)
LEMMA TurnsInHours ==
    ASSUME NEW y \in YearTypes, NEW t \in Nat, NEW x \in BOOLEAN, NEW rest \in Nat,
           NEW turn, turn = FacilityTurn(y, t, rest, x)
    PROVE  /\ turn.time \in Nat /\ turn.time >= t /\ turn.left \in Nat
           /\ turn.left > 0 => InHours(y, turn.time, x)
<1>1. PICK today \in Int : today = LeftToday(t, x)
  <2>1. PICK n \in Nat : DayAt(t) = n
    BY TimeIs
  <2> QED BY <2>1, HoursAre DEF LeftToday, At, Day
<1>2. CASE rest <= today
  <2>1. turn = [time |-> t + rest, left |-> 0]
    BY <1>1, <1>2 DEF FacilityTurn
  <2> QED BY <2>1
<1>3. CASE ~(rest <= today)
  <2>1. turn = [time |-> NextBusinessOpen(y, t, x), left |-> rest - today]
    BY <1>1, <1>3 DEF FacilityTurn
  <2>2. PICK r : r = NextBusinessOpen(y, t, x)
    OBVIOUS
  <2>3. r \in Nat /\ r >= t /\ InHours(y, r, x)
    BY <2>2, OpensNext
  <2>4. rest - today \in Nat
    BY <1>3
  <2> QED BY <2>1, <2>2, <2>3, <2>4
<1> QED BY <1>2, <1>3

LEMMA StartsLater ==
    ASSUME NEW y \in YearTypes, NEW t \in Nat, NEW x \in BOOLEAN, NEW r, r = NextProcessingStart(y, t, x)
    PROVE  r \in Nat /\ r >= t
<1>1. PICK n \in Nat, c \in 0 .. 47 : t = 48 * n + c /\ DayAt(t) = n /\ Hour(t) = c \div 2
  BY TimeIs
<1>2. CASE Hour(t) < 17 /\ IsOpenDay(y, t, x)
  BY <1>2 DEF NextProcessingStart, PostOfficeCutoff
<1>3. CASE ~(Hour(t) < 17 /\ IsOpenDay(y, t, x))
  <2>1. PICK k \in Nat : k = IF Hour(t) >= 17 THEN n + 1 ELSE n
    OBVIOUS
  <2>2. PICK d \in Nat : d = AdvanceToBusinessDay(y, k, x) /\ d >= k /\ IsBusinessDay(y, d, x)
    BY AdvanceIs
  <2>3. r = 48 * d + 12
    <3>1. r = At(AdvanceToBusinessDay(y, k, x), 6)
      BY <1>1, <1>3, <2>1 DEF NextProcessingStart, PostOfficeCutoff, ProcessingStart
    <3> QED BY <2>2, <3>1 DEF At, Day
  <2>4. d >= n + 1
    <3>1. CASE Hour(t) >= 17
      BY <2>1, <2>2, <3>1
    <3>2. CASE ~IsOpenDay(y, t, x)
      <4>1. d # n
        BY <1>1, <2>2, <3>2 DEF IsOpenDay
      <4> QED BY <2>1, <2>2, <4>1
    <3>3. Hour(t) \in Int
      BY <1>1
    <3> QED BY <1>3, <3>1, <3>2, <3>3
  <2> QED BY <1>1, <2>3, <2>4
<1> QED BY <1>2, <1>3

(* The carrier comes between 11 and 3, later than the letter. *)
LEMMA PicksUpLater ==
    ASSUME NEW y \in YearTypes, NEW t \in Nat, NEW p \in NextCarrierPickup(y, t)
    PROVE  /\ p \in Nat /\ p >= t
           /\ \E n \in Nat, c \in 22 .. 29 : p = 48 * n + c /\ DayAt(p) = n
<1>1. PICK n \in Nat, c \in 0 .. 47 : t = 48 * n + c /\ DayAt(t) = n /\ t % Day = c
  BY TimeIs
<1>2. PICK d \in Nat : d = AdvanceToBusinessDay(y, n + 1, FALSE) /\ d >= n + 1
  <2>1. PICK x \in BOOLEAN : x = FALSE
    OBVIOUS
  <2>2. PICK d \in Nat : d = AdvanceToBusinessDay(y, n + 1, x) /\ d >= n + 1
    <3>1. n + 1 \in Nat
      OBVIOUS
    <3> QED BY <3>1, AdvanceIs
  <2> QED BY <2>1, <2>2
<1>3. \/ \E k \in 22 .. 29 : k > c /\ p = 48 * n + k
      \/ \E k \in 22 .. 29 : p = 48 * d + k
  <2>1. \/ \E k \in CarrierTimes : t % Day < k /\ p = DayAt(t) * Day + k
        \/ \E k \in CarrierTimes : p = AdvanceToBusinessDay(y, DayAt(t) + 1, FALSE) * Day + k
    BY DEF NextCarrierPickup
  <2>2. CASE \E k \in CarrierTimes : t % Day < k /\ p = DayAt(t) * Day + k
    <3>1. PICK k \in 22 .. 29 : c < k /\ p = n * 48 + k
      BY <1>1, <2>2 DEF CarrierTimes, Day
    <3> QED BY <3>1
  <2>3. CASE \E k \in CarrierTimes : p = AdvanceToBusinessDay(y, DayAt(t) + 1, FALSE) * Day + k
    <3>1. PICK k \in 22 .. 29 : p = d * 48 + k
      BY <1>1, <1>2, <2>3 DEF CarrierTimes, Day
    <3> QED BY <3>1
  <2> QED BY <2>1, <2>2, <2>3
<1>4. PICK m \in Nat, k \in 22 .. 29 : p = 48 * m + k /\ ((m = n /\ k > c) \/ m >= n + 1)
  BY <1>2, <1>3
<1>5. DayAt(p) = m
  <2>1. k \in 0 .. 47
    OBVIOUS
  <2>2. p = 48 * m + k
    BY <1>4
  <2> QED BY <2>1, <2>2, TimeOf, ZenonT(30)
<1>6. p \in Nat /\ p >= t
  BY <1>1, <1>4
<1> QED BY <1>4, <1>5, <1>6

(* A slot is in the first window that can be made. *)
LEMMA DeliversInTime ==
    ASSUME NEW y \in YearTypes, NEW t \in Nat, NEW x \in BOOLEAN, NEW s \in NextDeliverySlot(y, t, x)
    PROVE  /\ s \in Nat /\ s >= t /\ IsBusinessDay(y, DayAt(s), x)
           /\ Hour(s) >= DeliveryStart /\ Hour(s) < DeliveryEnd(x)
           /\ \A n \in DayAt(t) .. DayAt(s) - 1 : n \in Nat /\ (IsBusinessDay(y, n, x) => t >= At(n, DeliveryEnd(x)))
<1>1. PICK n \in Nat, c \in 0 .. 47 : t = 48 * n + c /\ DayAt(t) = n /\ Hour(t) = c \div 2
  BY TimeIs
<1>2. PICK e \in 17 .. 19 : e = DeliveryEnd(x)
  BY HoursAre
<1>3. At(n, e) = 48 * n + 2 * e
  BY DEF At, Day
<1>4. CASE Hour(t) >= 9 /\ t < At(n, e) /\ IsOpenDay(y, t, x)
  <2>1. s \in t .. 48 * n + 2 * e - 1
    BY <1>1, <1>2, <1>3, <1>4 DEF NextDeliverySlot, DeliveryStart
  <2>2. PICK k \in 0 .. 47 : s = 48 * n + k /\ k >= c /\ k < 2 * e
    <3>1. s - 48 * n \in 0 .. 47 /\ s = 48 * n + (s - 48 * n) /\ s - 48 * n >= c /\ s - 48 * n < 2 * e
      BY <1>1, <2>1
    <3> QED BY <3>1
  <2>3. s \in Nat /\ DayAt(s) = n /\ Hour(s) = k \div 2
    BY <2>2, TimeOf
  <2>4. Hour(s) >= 9 /\ Hour(s) < e /\ s >= t
    BY <1>1, <1>4, <2>1, <2>2, <2>3
  <2> QED BY <1>1, <1>2, <1>4, <2>3, <2>4 DEF IsOpenDay, DeliveryStart
<1>5. CASE ~(Hour(t) >= 9 /\ t < At(n, e) /\ IsOpenDay(y, t, x))
  <2>1. PICK k \in Nat : k = IF Hour(t) >= e \/ ~IsOpenDay(y, t, x) THEN n + 1 ELSE n
    OBVIOUS
  <2>2. PICK d \in Nat : /\ d = AdvanceToBusinessDay(y, k, x) /\ d >= k /\ IsBusinessDay(y, d, x)
                         /\ \A i \in k .. d - 1 : ~IsBusinessDay(y, i, x)
    BY AdvanceIs
  <2>3. s \in At(d, 9) .. At(d, e) - 1
    BY <1>1, <1>2, <1>5, <2>1, <2>2 DEF NextDeliverySlot, DeliveryStart
  <2>4. PICK r \in 0 .. 47 : s = 48 * d + r /\ r >= 18 /\ r < 2 * e
    <3>1. s \in 48 * d + 18 .. 48 * d + 2 * e - 1
      BY <2>3 DEF At, Day
    <3>2. s - 48 * d \in 0 .. 47 /\ s = 48 * d + (s - 48 * d) /\ s - 48 * d >= 18 /\ s - 48 * d < 2 * e
      BY <3>1
    <3> QED BY <3>2
  <2>5. s \in Nat /\ DayAt(s) = d /\ Hour(s) = r \div 2
    BY <2>4, TimeOf
  <2>6. Hour(s) >= 9 /\ Hour(s) < e
    BY <2>4, <2>5
  <2>7. s >= t
    <3>1. CASE k = n + 1
      BY <1>1, <2>2, <2>4, <3>1
    <3>2. CASE k # n + 1
      <4>1. ~(Hour(t) >= e) /\ IsOpenDay(y, t, x) /\ k = n
        BY <2>1, <3>2
      <4>2. t < At(n, e)
        BY <1>1, <1>3, <4>1
      <4>3. ~(Hour(t) >= 9)
        BY <1>5, <4>1, <4>2
      <4> QED BY <1>1, <2>2, <2>4, <4>1, <4>3
    <3> QED BY <3>1, <3>2
  <2>8. ASSUME NEW i \in n .. d - 1, IsBusinessDay(y, i, x) PROVE t >= At(i, e)
    <3>1. i \notin k .. d - 1
      BY <2>2, <2>8
    <3>2. k = n + 1 /\ i = n
      BY <2>1, <2>8, <3>1
    <3>3. Hour(t) >= e
      BY <1>1, <2>1, <2>8, <3>2 DEF IsOpenDay
    <3> QED BY <1>1, <1>3, <3>2, <3>3
  <2> QED BY <1>1, <1>2, <2>2, <2>5, <2>6, <2>7, <2>8 DEF DeliveryStart
<1> QED BY <1>4, <1>5

-----------------------------------------------------------------------------
(* No clock is before the year. *)
Timed ==
    /\ year \in YearTypes /\ tier \in Tiers /\ zone \in -Day .. Day
    /\ cursor \in Int /\ cursor >= Day /\ left \in Nat

LEMMA InitTimed == RouteInit => Timed
<1> SUFFICES ASSUME RouteInit PROVE Timed
  OBVIOUS
<1>1. PICK t \in Dates : \E z \in Zones : zone = z /\ cursor = t - z
  BY DEF RouteInit
<1>2. PICK z \in Zones : zone = z /\ cursor = t - z
  BY <1>1
<1>3. t \in Nat /\ t >= 2 * Day /\ z \in -Day .. Day /\ year \in YearTypes
  BY RouteAssumption DEF RouteInit
<1>4. cursor \in Int /\ cursor >= Day
  BY <1>2, <1>3 DEF Day
<1> QED BY <1>2, <1>3, <1>4 DEF RouteInit, Timed

(* A step that leaves the letter where it is takes it from one time on the *)
(* local clock to a later one.                                             *)
LEMMA Later ==
    ASSUME Timed, NEW t \in Nat, t >= Local, cursor' = t - zone, UNCHANGED <<year, tier, zone>>, left' \in Nat
    PROVE  Timed' /\ cursor' >= cursor /\ cursor' + zone' = t
<1>1. PICK z \in Int, c \in Int : z = zone /\ c = cursor
  BY DEF Timed, Day
<1>2. cursor' = t - z /\ t >= c + z
  BY <1>1 DEF Local
<1>3. cursor' >= c /\ cursor' + z = t /\ cursor' \in Int
  BY <1>1, <1>2
<1> QED BY <1>1, <1>3 DEF Timed, Day

LEMMA LocalType == Timed => Local \in Nat /\ Express \in BOOLEAN
<1> SUFFICES ASSUME Timed PROVE Local \in Nat
  BY DEF Express
<1> QED BY DEF Timed, Local, Day

(* The hours of the facility where the letter comes to be. *)
LEMMA WorksInHours ==
    ASSUME Timed, NEW t \in Nat, InHours(year, t, Express), cursor' + zone' = t, cursor' >= cursor, pc' = "facility"
    PROVE  Moved
<1>1. DayAt(t) \in Nat
  BY TimeIs
<1>2. Works(DayAt(t)) /\ Hour(t) >= OpenHr(Express) /\ t < At(DayAt(t), CloseHr(Express))
  BY <1>1, WorksIs DEF Timed, InHours
<1> QED BY <1>2 DEF Moved

(* A step takes the letter on in time, and works in opening hours. *)
LEMMA NextMoves == Timed /\ [RouteNext]_route => Timed' /\ [Moved]_route
<1> SUFFICES ASSUME Timed, [RouteNext]_route PROVE Timed' /\ [Moved]_route
  OBVIOUS
<1>0. Local \in Nat /\ Express \in BOOLEAN /\ year \in YearTypes
  BY LocalType DEF Timed
<1>1. CASE PickUp
  <2>1. PICK pickup \in NextCarrierPickup(year, Local) : \E round \in 3 .. 8 :
          cursor' = (IF Hour(pickup + round) < EveningDispatchCutoff THEN pickup + round
                     ELSE At(DayAt(pickup), PostOfficeCutoff)) - zone
    BY <1>1 DEF PickUp
  <2>2. PICK round \in 3 .. 8 :
          cursor' = (IF Hour(pickup + round) < EveningDispatchCutoff THEN pickup + round
                     ELSE At(DayAt(pickup), PostOfficeCutoff)) - zone
    BY <2>1
  <2>3. pickup \in Nat /\ pickup >= Local /\ \E n \in Nat, c \in 22 .. 29 : pickup = 48 * n + c /\ DayAt(pickup) = n
    BY <1>0, PicksUpLater
  <2>4. PICK t \in Nat : /\ t >= pickup
                         /\ t = IF Hour(pickup + round) < EveningDispatchCutoff THEN pickup + round
                                ELSE At(DayAt(pickup), PostOfficeCutoff)
    BY <2>3 DEF At, Day, PostOfficeCutoff
  <2>5. cursor' = t - zone /\ t >= Local /\ UNCHANGED <<year, tier, zone, left>>
    BY <1>0, <1>1, <2>2, <2>3, <2>4 DEF PickUp, letter
  <2>6. Timed' /\ cursor' >= cursor
    BY <2>5, Later DEF Timed
  <2> QED BY <1>1, <2>6 DEF PickUp, Moved
<1>2. CASE Depart
  <2>1. PICK start : start = NextProcessingStart(year, Local, Express)
    OBVIOUS
  <2>2. start \in Nat /\ start >= Local
    BY <1>0, <2>1, StartsLater
  <2>3. UNCHANGED <<year, tier, zone>>
    BY <1>2 DEF Depart, letter
  <2>4. CASE cities = 1
    <3>1. PICK t : t = SnapToFacilityHours(year, start, Express)
      OBVIOUS
    <3>2. t \in Nat /\ t >= start /\ InHours(year, t, Express)
      BY <1>0, <2>2, <3>1, SnapsToHours
    <3>3. cursor' = t - zone /\ left' \in Nat /\ pc' = "facility"
      BY <1>2, <2>1, <2>4, <3>1, RouteAssumption DEF Depart
    <3>4. t >= Local
      BY <1>0, <2>2, <3>2
    <3>5. Timed' /\ cursor' >= cursor /\ cursor' + zone' = t
      BY <2>3, <3>2, <3>3, <3>4, Later
    <3> QED BY <3>2, <3>3, <3>5, WorksInHours
  <2>5. CASE cities # 1
    <3>1. cursor' = start - zone /\ left' = left /\ pc' = "road"
      BY <1>2, <2>1, <2>5 DEF Depart
    <3>2. Timed' /\ cursor' >= cursor
      BY <2>2, <2>3, <3>1, Later DEF Timed
    <3> QED BY <3>1, <3>2 DEF Moved
  <2> QED BY <2>4, <2>5
<1>3. CASE Travel
  <2>1. PICK leg \in Legs : \E z \in Zones :
          /\ zone' = z
          /\ \/ cursor' = cursor + leg /\ pc' \in {"door", pc} /\ UNCHANGED left
             \/ /\ cursor' = SnapToFacilityHours(year, cursor + leg + z, Express) - z
                /\ pc' = "facility" /\ Enter(hop + 1)
    BY <1>3 DEF Travel
  <2>2. PICK z \in Zones :
          /\ zone' = z
          /\ \/ cursor' = cursor + leg /\ pc' \in {"door", pc} /\ UNCHANGED left
             \/ /\ cursor' = SnapToFacilityHours(year, cursor + leg + z, Express) - z
                /\ pc' = "facility" /\ Enter(hop + 1)
    BY <2>1
  <2>3. leg \in Nat /\ z \in -Day .. Day /\ z \in Int /\ year' = year /\ tier' = tier /\ pc = "road"
    BY <1>3, RouteAssumption DEF Travel, letter, Day
  <2>4. CASE cursor' = cursor + leg /\ pc' \in {"door", pc} /\ UNCHANGED left
    <3>1. Timed' /\ cursor' >= cursor
      BY <2>2, <2>3, <2>4 DEF Timed, Day
    <3> QED BY <2>3, <2>4, <3>1 DEF Moved
  <2>5. CASE /\ cursor' = SnapToFacilityHours(year, cursor + leg + z, Express) - z
             /\ pc' = "facility" /\ Enter(hop + 1)
    <3>1. PICK s \in Nat : s = cursor + leg + z
      BY <2>3 DEF Timed, Day
    <3>2. PICK t : t = SnapToFacilityHours(year, s, Express)
      OBVIOUS
    <3>3. t \in Nat /\ t >= s /\ InHours(year, t, Express)
      BY <1>0, <3>1, <3>2, SnapsToHours
    <3>4. left' \in Nat
      <4>1. PICK dwell \in Dwells : left' = dwell + (IF intl /\ hop + 1 = 1 THEN CustomsTime(tier) ELSE 0)
        BY <2>5 DEF Enter
      <4>2. dwell \in Nat
        BY RouteAssumption
      <4>3. CustomsTime(tier) \in Nat
        BY DEF Timed, Tiers, CustomsTime
      <4> QED BY <4>1, <4>2, <4>3
    <3>5. cursor' = t - z /\ zone' = z
      BY <2>2, <2>5, <3>1, <3>2
    <3>6. cursor' \in Int /\ cursor' >= cursor /\ cursor' + zone' = t
      BY <2>3, <3>1, <3>3, <3>5 DEF Timed, Day
    <3>7. Timed'
      BY <2>3, <3>4, <3>5, <3>6 DEF Timed, Day
    <3> QED BY <2>5, <3>3, <3>6, <3>7, WorksInHours
  <2> QED BY <2>2, <2>4, <2>5
<1>4. CASE Dwell
  <2>1. PICK turn : turn = FacilityTurn(year, Local, left, Express)
    OBVIOUS
  <2>2. /\ turn.time \in Nat /\ turn.time >= Local /\ turn.left \in Nat
        /\ turn.left > 0 => InHours(year, turn.time, Express)
    BY <1>0, <2>1, TurnsInHours DEF Timed
  <2>3. /\ cursor' = turn.time - zone /\ left' = turn.left /\ UNCHANGED <<year, tier, zone>>
        /\ pc' \in {"facility", "door", "road"} /\ (pc' = "facility" => turn.left > 0)
    BY <1>4, <2>1 DEF Dwell, letter
  <2>4. Timed' /\ cursor' >= cursor /\ cursor' + zone' = turn.time
    BY <2>2, <2>3, Later
  <2>5. CASE pc' = "facility"
    BY <2>2, <2>3, <2>4, <2>5, WorksInHours
  <2>6. CASE pc' # "facility"
    BY <2>3, <2>4, <2>6 DEF Moved
  <2> QED BY <2>5, <2>6
<1>5. CASE Deliver
  <2>1. PICK s \in NextDeliverySlot(year, Local, Express) : cursor' = s - zone
    BY <1>5 DEF Deliver
  <2>2. /\ s \in Nat /\ s >= Local /\ IsBusinessDay(year, DayAt(s), Express)
        /\ Hour(s) >= DeliveryStart /\ Hour(s) < DeliveryEnd(Express)
        /\ \A n \in DayAt(Local) .. DayAt(s) - 1 :
             n \in Nat /\ (IsBusinessDay(year, n, Express) => Local >= At(n, DeliveryEnd(Express)))
    BY <1>0, DeliversInTime
  <2>3. Timed' /\ cursor' >= cursor /\ cursor' + zone' = s /\ pc' = "delivered"
    BY <1>5, <2>1, <2>2, Later DEF Deliver, letter, Timed
  <2>4. Works(DayAt(s))
    <3>1. DayAt(s) \in Nat
      BY <2>2, TimeIs
    <3> QED BY <1>0, <2>2, <3>1, WorksIs
  <2>5. \A n \in DayAt(Local) .. DayAt(s) - 1 : Works(n) => Local >= At(n, DeliveryEnd(Express))
    BY <1>0, <2>2, WorksIs
  <2> QED BY <2>2, <2>3, <2>4, <2>5 DEF Moved
<1>6. CASE UNCHANGED route
  BY <1>6 DEF Timed, route, letter
<1> QED BY <1>1, <1>2, <1>3, <1>4, <1>5, <1>6 DEF RouteNext

(* Whatever the dates, distances and zones: a letter moves forward in time, is *)
(* worked on and delivered only in the hours of days that are neither Sundays  *)
(* nor holidays as they are meant, and on the first whose window it can make   *)
(* (scheduleHops, AddFacilityHours, NextDeliverySlot).                         *)
THEOREM LettersKeepTheHours == RouteSpec => LettersMoveInOpeningHours
BY InitTimed, NextMoves, PTL DEF RouteSpec, LettersMoveInOpeningHours
=============================================================================
