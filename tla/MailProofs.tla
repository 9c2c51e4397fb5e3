----------------------------- MODULE MailProofs -----------------------------
(***************************************************************************)
(* Theorems about the tables of module Mail, for any number of accounts,   *)
(* letters and stamps.                                                     *)
(***************************************************************************)
EXTENDS Mail, TLAPS

(* A stamp some letter once carried is owned by the recipient of a letter, so  *)
(* the reaper, which spares every correspondent, never takes it away.          *)
KeepersAreNamed ==
    \A l \in Sent : \A s \in letter[l].stamps :
        owner[s] \in Accounts => \E m \in Sent : letter[m].recipient = owner[s]

(* The inductive invariant. *)
IInv == TypeOK /\ StampCustody /\ NothingDangles /\ KeepersAreNamed

(* The sets of letters are sets of letters, and a letter in one is written. *)
LEMMA LetterSets ==
    /\ Travelling \subseteq Sent /\ Arrived \subseteq Sent /\ Sent \subseteq Letters
    /\ Due \subseteq Travelling
BY DEF Travelling, Arrived, Sent, Due

(* CarrierIn picks a letter that carries the stamp. *)
LEMMA CarrierCarries ==
    ASSUME NEW L, NEW s \in Carried(L)
    PROVE  CarrierIn(L, s) \in L /\ s \in letter[CarrierIn(L, s)].stamps
BY DEF Carried, CarrierIn

(* The migrated, empty tables satisfy the invariant. *)
LEMMA InitIInv == Init => IInv
<1> SUFFICES ASSUME Init PROVE IInv
  OBVIOUS
<1> USE MailAssumption DEF Init, Accounts
<1>1. TypeOK
  BY DEF TypeOK, Letter, Blank
<1>2. Sent = {} /\ Travelling = {} /\ Issued = {}
  BY DEF Sent, Travelling, Issued, Blank
<1>3. StampCustody
  BY <1>2 DEF StampCustody
<1>4. NothingDangles /\ KeepersAreNamed
  BY <1>2 DEF NothingDangles, KeepersAreNamed
<1> QED BY <1>1, <1>3, <1>4 DEF IInv

(* Every transaction leaves well-typed tables behind. *)
LEMMA NextTypeOK == TypeOK /\ [Next]_vars => TypeOK'
<1> SUFFICES ASSUME TypeOK, [Next]_vars PROVE TypeOK'
  OBVIOUS
<1> USE MailAssumption DEF TypeOK, Accounts
<1>1. CASE Tick
  BY <1>1 DEF Tick
<1>2. ASSUME NEW u \in Users, CreateUser(u) PROVE TypeOK'
  BY <1>2 DEF CreateUser
<1>3. ASSUME NEW u \in Accounts, NEW s \in Stamps, CreateStamp(u, s) PROVE TypeOK'
  BY <1>3 DEF CreateStamp
<1>4. ASSUME NEW u \in Users, NEW v \in Users, NEW l \in Letters, NEW S \in SUBSET Stamps,
             NEW release \in now .. MaxTime, CreateMessage(u, v, l, S, release)
      PROVE  TypeOK'
  <2>1. letter' \in [Letters -> Letter]
    BY <1>4 DEF CreateMessage, Letter
  <2> QED BY <1>4, <2>1 DEF CreateMessage
<1>5. ASSUME NEW u \in Users, NEW l \in Letters, CreateWelcomeMessage(u, l) PROVE TypeOK'
  <2>1. letter' \in [Letters -> Letter]
    BY <1>5 DEF CreateWelcomeMessage, Letter
  <2> QED BY <1>5, <2>1 DEF CreateWelcomeMessage
<1>6. CASE DeliverMessages
  <2>1. letter' \in [Letters -> Letter]
    <3>1. \A l \in Letters : letter[l] \in Letter
      OBVIOUS
    <3>2. \A x \in Letter : [x EXCEPT !.status = "delivered"] \in Letter
      BY DEF Letter
    <3> QED BY <1>6, <3>1, <3>2 DEF DeliverMessages
  <2>2. ASSUME NEW s \in Stamps PROVE owner'[s] \in Accounts \cup {InMail, Unissued}
    <3>1. CASE s \in Carried(Due)
      <4>1. CarrierIn(Due, s) \in Letters
        BY <3>1, CarrierCarries, LetterSets
      <4>2. Heir(s) \in Accounts
        BY <4>1 DEF Heir, Letter
      <4> QED BY <1>6, <3>1, <4>2 DEF DeliverMessages
    <3>2. CASE s \notin Carried(Due)
      BY <1>6, <3>2 DEF DeliverMessages
    <3> QED BY <3>1, <3>2
  <2>3. owner' \in [Stamps -> Accounts \cup {InMail, Unissued}]
    BY <1>6, <2>2 DEF DeliverMessages
  <2>4. \A u \in Accounts : KindsFor(Due, u) \subseteq Kinds
    BY DEF KindsFor, Carried
  <2>5. discovered' \in [Accounts -> SUBSET Kinds]
    BY <1>6, <2>4 DEF DeliverMessages
  <2> QED BY <1>6, <2>1, <2>3, <2>5 DEF DeliverMessages
<1>7. ASSUME NEW l \in Letters, MarkRead(l) PROVE TypeOK'
  BY <1>7 DEF MarkRead, Letter
<1>8. ASSUME NEW idle \in SUBSET Accounts, ReapGhostAccounts(idle) PROVE TypeOK'
  BY <1>8 DEF ReapGhostAccounts
<1>9. CASE UNCHANGED vars
  BY <1>9 DEF vars
<1> QED BY <1>1, <1>2, <1>3, <1>4, <1>5, <1>6, <1>7, <1>8, <1>9 DEF Next

(* Every column keeps its type. *)
THEOREM TypeCorrect == Spec => []TypeOK
<1>1. Init => TypeOK
  BY InitIInv DEF IInv
<1> QED BY <1>1, NextTypeOK, PTL DEF Spec

(* What CreateMessage leaves behind: one more letter, carrying stamps that no  *)
(* travelling letter carried.                                                  *)
PostedAlone(u, v, l, S) ==
    /\ l \notin Sent /\ letter'[l].stamps = S
    /\ \A m \in Sent : letter'[m] = letter[m]
    /\ Sent' = Sent \cup {l} /\ Travelling' = Travelling \cup {l}
    /\ letter'[l].sender = u /\ letter'[l].recipient = v
    /\ \A m \in Travelling : letter[m].stamps \cap S = {}

(* A letter posted by CreateMessage takes its owner's stamps along. *)
LEMMA CreateMessagePosts ==
    ASSUME IInv, NEW u, NEW v, NEW l \in Letters, NEW S \in SUBSET Stamps,
           NEW release, CreateMessage(u, v, l, S, release)
    PROVE  PostedAlone(u, v, l, S)
<1>1. /\ l \notin Sent /\ letter'[l].stamps = S
      /\ letter'[l].sender = u /\ letter'[l].recipient = v
      /\ letter'[l].status = "in_transit"
      /\ \A m \in Letters \ {l} : letter'[m] = letter[m]
  BY DEF CreateMessage, IInv, TypeOK, Sent
<1>2. Sent' = Sent \cup {l} /\ Travelling' = Travelling \cup {l}
  BY <1>1 DEF Sent, Travelling
<1>3. \A s \in S : owner[s] # InMail
  <2>1. u \in Accounts
    BY DEF CreateMessage, IInv, TypeOK
  <2> QED BY <2>1, MailAssumption DEF CreateMessage, OwnedBy
<1>4. \A m \in Travelling : letter[m].stamps \cap S = {}
  BY <1>3 DEF IInv, StampCustody
<1>5. \A m \in Sent : letter'[m] = letter[m]
  BY <1>1, LetterSets
<1> QED BY <1>1, <1>2, <1>4, <1>5 DEF PostedAlone

(* What DeliverMessages leaves behind: the due letters no longer travel, and   *)
(* the stamps they carried belong to the recipient of the letter they were on. *)
LEMMA DeliveredToHeirs ==
    ASSUME IInv, DeliverMessages
    PROVE  /\ Sent' = Sent /\ Travelling' = Travelling \ Due
           /\ Arrived' = Arrived \cup Due
           /\ \A l \in Letters : /\ letter'[l].stamps = letter[l].stamps
                                 /\ letter'[l].sender = letter[l].sender
                                 /\ letter'[l].recipient = letter[l].recipient
                                 /\ letter'[l].releaseAt = letter[l].releaseAt
           /\ \A s \in Carried(Due) : \E l \in Due :
                 s \in letter[l].stamps /\ owner'[s] = letter[l].recipient
           /\ \A s \in Stamps \ Carried(Due) : owner'[s] = owner[s]
<1>1. \A l \in Letters : /\ letter'[l].stamps = letter[l].stamps
                         /\ letter'[l].sender = letter[l].sender
                         /\ letter'[l].recipient = letter[l].recipient
                         /\ letter'[l].releaseAt = letter[l].releaseAt
                         /\ letter'[l].status =
                               IF l \in Due THEN "delivered" ELSE letter[l].status
  BY DEF DeliverMessages, IInv, TypeOK, Letter
<1>2. Sent' = Sent
  BY <1>1, LetterSets DEF Sent
<1>3. Travelling' = Travelling \ Due
  BY <1>1, LetterSets DEF Travelling
<1>4. Arrived' = Arrived \cup Due
  BY <1>1, LetterSets DEF Arrived, Travelling
<1>5. ASSUME NEW s \in Carried(Due)
      PROVE  \E l \in Due : s \in letter[l].stamps /\ owner'[s] = letter[l].recipient
  <2>1. s \in Stamps /\ owner'[s] = Heir(s)
    BY <1>5 DEF DeliverMessages, Carried
  <2> QED BY <2>1, CarrierCarries DEF Heir
<1>6. \A s \in Stamps \ Carried(Due) : owner'[s] = owner[s]
  BY DEF DeliverMessages
<1> QED BY <1>1, <1>2, <1>3, <1>4, <1>5, <1>6

(* Only posting takes a stamp from its owner, and only delivery gives it to another. *)
LEMMA NextStampCustody == IInv /\ [Next]_vars => StampCustody'
<1> SUFFICES ASSUME IInv, [Next]_vars PROVE StampCustody'
  OBVIOUS
<1>a. TypeOK /\ StampCustody
  BY DEF IInv
<1> USE MailAssumption DEF Accounts
<1>1. CASE UNCHANGED <<letter, owner>>
  BY <1>a, <1>1 DEF StampCustody, Travelling
<1>2. ASSUME NEW u \in Accounts, NEW s \in Stamps, CreateStamp(u, s) PROVE StampCustody'
  BY <1>a, <1>2 DEF CreateStamp, StampCustody, Travelling, TypeOK
<1>3. ASSUME NEW u \in Users, NEW v \in Users, NEW l \in Letters, NEW S \in SUBSET Stamps,
             NEW release \in now .. MaxTime, CreateMessage(u, v, l, S, release)
      PROVE  StampCustody'
  <2>0. PostedAlone(u, v, l, S)
    BY <1>3, CreateMessagePosts
  <2>1. \A s \in Stamps : owner'[s] = IF s \in S THEN InMail ELSE owner[s]
    BY <1>3 DEF CreateMessage
  <2>2. /\ letter'[l].stamps = S /\ Travelling' = Travelling \cup {l}
        /\ \A m \in Travelling : letter'[m] = letter[m] /\ letter[m].stamps \cap S = {}
    BY <2>0, LetterSets DEF PostedAlone
  <2>3. \A s \in Stamps : owner'[s] = InMail <=> \E m \in Travelling' : s \in letter'[m].stamps
    BY <1>a, <2>1, <2>2 DEF StampCustody
  <2>4. \A m, n \in Travelling' : m # n => letter'[m].stamps \cap letter'[n].stamps = {}
    BY <1>a, <2>2 DEF StampCustody
  <2> QED BY <2>3, <2>4 DEF StampCustody
<1>4. ASSUME NEW u \in Users, NEW l \in Letters, CreateWelcomeMessage(u, l)
      PROVE  StampCustody'
  <2>1. Travelling' = Travelling /\ \A m \in Travelling : letter'[m] = letter[m]
    BY <1>4, <1>a DEF CreateWelcomeMessage, Travelling, TypeOK
  <2> QED BY <1>4, <1>a, <2>1 DEF CreateWelcomeMessage, StampCustody
<1>5. CASE DeliverMessages
  <2>1. ASSUME NEW s \in Stamps
        PROVE  owner'[s] = InMail <=> \E l \in Travelling' : s \in letter'[l].stamps
    <3>1. CASE s \in Carried(Due)
      <4>1. PICK l \in Due : s \in letter[l].stamps /\ owner'[s] = letter[l].recipient
        BY <1>5, <3>1, DeliveredToHeirs
      <4>2. letter[l].recipient \in Accounts
        BY <1>a, LetterSets DEF TypeOK, Letter
      <4>3. \A m \in Travelling \ Due : s \notin letter[m].stamps
        BY <1>a, <4>1, LetterSets DEF StampCustody
      <4> QED BY <1>5, <4>1, <4>2, <4>3, DeliveredToHeirs, LetterSets
    <3>2. CASE s \notin Carried(Due)
      <4>1. \A l \in Due : s \notin letter[l].stamps
        BY <3>2 DEF Carried
      <4> QED BY <1>5, <1>a, <3>2, <4>1, DeliveredToHeirs, LetterSets DEF StampCustody
    <3> QED BY <3>1, <3>2
  <2>2. \A l, m \in Travelling' : l # m => letter'[l].stamps \cap letter'[m].stamps = {}
    BY <1>5, <1>a, DeliveredToHeirs, LetterSets DEF StampCustody
  <2> QED BY <2>1, <2>2 DEF StampCustody
<1>6. ASSUME NEW l \in Letters, MarkRead(l) PROVE StampCustody'
  <2>1. Travelling' = Travelling /\ \A m \in Letters : letter'[m].stamps = letter[m].stamps
    BY <1>6, <1>a DEF MarkRead, Travelling, TypeOK, Letter
  <2> QED BY <1>6, <1>a, <2>1, LetterSets DEF MarkRead, StampCustody
<1>7. ASSUME NEW idle \in SUBSET Accounts, ReapGhostAccounts(idle) PROVE StampCustody'
  BY <1>7, <1>a DEF ReapGhostAccounts, StampCustody, Travelling, TypeOK
<1> QED
  BY <1>1, <1>2, <1>3, <1>4, <1>5, <1>6, <1>7 DEF Next, vars, Tick, CreateUser

(* Rows are deleted by the reaper alone, and only where nothing refers to them. *)
LEMMA NextNothingDangles == IInv /\ [Next]_vars => NothingDangles'
<1> SUFFICES ASSUME IInv, [Next]_vars PROVE NothingDangles'
  OBVIOUS
<1>a. TypeOK /\ NothingDangles /\ KeepersAreNamed
  BY DEF IInv
<1> USE MailAssumption DEF Accounts
<1>1. CASE UNCHANGED <<accounts, letter, owner>>
  BY <1>a, <1>1 DEF NothingDangles, Sent, Issued
<1>2. ASSUME NEW u \in Users, CreateUser(u) PROVE NothingDangles'
  BY <1>a, <1>2 DEF CreateUser, NothingDangles, Sent, Issued
<1>3. ASSUME NEW u \in Accounts, NEW s \in Stamps, CreateStamp(u, s) PROVE NothingDangles'
  BY <1>a, <1>3 DEF CreateStamp, NothingDangles, Sent, Issued, TypeOK
<1>4. ASSUME NEW u \in Users, NEW v \in Users, NEW l \in Letters, NEW S \in SUBSET Stamps,
             NEW release \in now .. MaxTime, CreateMessage(u, v, l, S, release)
      PROVE  NothingDangles'
  <2>0. PostedAlone(u, v, l, S)
    BY <1>4, CreateMessagePosts
  <2>1. /\ letter'[l].stamps = S /\ Sent' = Sent \cup {l}
        /\ letter'[l].sender = u /\ letter'[l].recipient = v
        /\ \A m \in Sent : letter'[m] = letter[m]
    BY <2>0, LetterSets DEF PostedAlone
  <2>2. S \subseteq Issued /\ Issued' = Issued
    BY <1>4, <1>a DEF CreateMessage, OwnedBy, Issued, TypeOK
  <2>3. {u, v} \subseteq accounts /\ accounts' = accounts
    BY <1>4 DEF CreateMessage
  <2>4. \A s \in Stamps : owner'[s] = InMail \/ owner'[s] = owner[s]
    BY <1>4 DEF CreateMessage
  <2> QED BY <1>a, <2>1, <2>2, <2>3, <2>4 DEF NothingDangles, Issued
<1>5. ASSUME NEW u \in Users, NEW l \in Letters, CreateWelcomeMessage(u, l)
      PROVE  NothingDangles'
  <2>1. /\ Sent' = Sent \cup {l} /\ \A m \in Sent : letter'[m] = letter[m]
        /\ letter'[l].stamps = {} /\ letter'[l].sender = System
        /\ letter'[l].recipient = u
    BY <1>5, <1>a DEF CreateWelcomeMessage, Sent, TypeOK
  <2>2. {u, System} \subseteq accounts /\ accounts' = accounts /\ owner' = owner
    BY <1>5 DEF CreateWelcomeMessage
  <2> QED BY <1>a, <2>1, <2>2 DEF NothingDangles, Issued
<1>6. CASE DeliverMessages
  <2>1. /\ Sent' = Sent /\ accounts' = accounts
        /\ \A l \in Sent : /\ letter'[l].stamps = letter[l].stamps
                           /\ letter'[l].sender = letter[l].sender
                           /\ letter'[l].recipient = letter[l].recipient
    BY <1>6, DeliveredToHeirs, LetterSets DEF DeliverMessages
  <2>2. ASSUME NEW s \in Stamps
        PROVE  \/ owner'[s] = owner[s]
               \/ owner'[s] \in accounts /\ owner[s] # Unissued
    <3>1. CASE s \in Carried(Due)
      <4>1. PICK l \in Due : s \in letter[l].stamps /\ owner'[s] = letter[l].recipient
        BY <1>6, <3>1, DeliveredToHeirs
      <4> QED BY <1>a, <4>1, LetterSets DEF NothingDangles, Issued
    <3>2. CASE s \notin Carried(Due)
      BY <1>6, <3>2, DeliveredToHeirs
    <3> QED BY <3>1, <3>2
  <2>3. accounts \subseteq Accounts
    BY <1>a DEF TypeOK
  <2> QED BY <1>a, <2>1, <2>2, <2>3 DEF NothingDangles, Issued
<1>7. ASSUME NEW l \in Letters, MarkRead(l) PROVE NothingDangles'
  <2>1. /\ Sent' = Sent
        /\ \A m \in Letters : /\ letter'[m].stamps = letter[m].stamps
                              /\ letter'[m].sender = letter[m].sender
                              /\ letter'[m].recipient = letter[m].recipient
    BY <1>7, <1>a DEF MarkRead, Sent, TypeOK, Letter
  <2> QED BY <1>7, <1>a, <2>1, LetterSets DEF MarkRead, NothingDangles, Issued
<1>8. ASSUME NEW idle \in SUBSET Accounts, ReapGhostAccounts(idle) PROVE NothingDangles'
  <2>1. Sent' = Sent /\ letter' = letter /\ accounts' = accounts \ idle
    BY <1>8 DEF ReapGhostAccounts, Sent
  <2>2. \A s \in Stamps : owner'[s] = IF owner[s] \in idle THEN Unissued ELSE owner[s]
    BY <1>8 DEF ReapGhostAccounts
  <2>3. \A l \in Sent : letter[l].sender \notin idle /\ letter[l].recipient \notin idle
    BY <1>8 DEF ReapGhostAccounts, Ghosts, Party
  <2>4. \A l \in Sent : \A s \in letter[l].stamps : owner[s] \notin idle
    BY <1>a, <2>3 DEF KeepersAreNamed
  <2>5. \A l \in Sent : letter[l].stamps \subseteq Issued'
    BY <1>a, <2>2, <2>4 DEF NothingDangles, Issued
  <2> QED BY <1>a, <2>1, <2>2, <2>3, <2>5 DEF NothingDangles, Issued
<1> QED
  BY <1>1, <1>2, <1>3, <1>4, <1>5, <1>6, <1>7, <1>8 DEF Next, vars, Tick

(* The owner of a stamp that once came on a letter remains some letter's recipient. *)
LEMMA NextKeepersAreNamed == IInv /\ [Next]_vars => KeepersAreNamed'
<1> SUFFICES ASSUME IInv, [Next]_vars PROVE KeepersAreNamed'
  OBVIOUS
<1>a. TypeOK /\ NothingDangles /\ KeepersAreNamed
  BY DEF IInv
<1>b. \A l \in Sent : letter[l].stamps \subseteq Stamps
  BY <1>a DEF TypeOK, Letter, Sent
<1> USE MailAssumption DEF Accounts
<1>1. CASE UNCHANGED <<letter, owner>>
  BY <1>a, <1>1 DEF KeepersAreNamed, Sent
<1>2. ASSUME NEW u \in Accounts, NEW s \in Stamps, CreateStamp(u, s) PROVE KeepersAreNamed'
  <2>1. \A l \in Sent : s \notin letter[l].stamps
    BY <1>a, <1>2 DEF CreateStamp, NothingDangles, Issued
  <2>2. \A l \in Sent : \A c \in letter[l].stamps : owner'[c] = owner[c]
    BY <1>a, <1>b, <1>2, <2>1 DEF CreateStamp, TypeOK
  <2> QED BY <1>a, <1>2, <2>2 DEF CreateStamp, KeepersAreNamed, Sent
<1>3. ASSUME NEW u \in Users, NEW v \in Users, NEW l \in Letters, NEW S \in SUBSET Stamps,
             NEW release \in now .. MaxTime, CreateMessage(u, v, l, S, release)
      PROVE  KeepersAreNamed'
  <2>0. PostedAlone(u, v, l, S)
    BY <1>3, CreateMessagePosts
  <2>1. /\ letter'[l].stamps = S /\ Sent' = Sent \cup {l}
        /\ letter'[l].sender = u /\ letter'[l].recipient = v
        /\ \A m \in Sent : letter'[m] = letter[m]
    BY <2>0, LetterSets DEF PostedAlone
  <2>2. \A s \in Stamps : owner'[s] = IF s \in S THEN InMail ELSE owner[s]
    BY <1>3 DEF CreateMessage
  <2> QED BY <1>a, <1>b, <2>1, <2>2 DEF KeepersAreNamed
<1>4. ASSUME NEW u \in Users, NEW l \in Letters, CreateWelcomeMessage(u, l)
      PROVE  KeepersAreNamed'
  <2>1. /\ Sent' = Sent \cup {l} /\ \A m \in Sent : letter'[m] = letter[m]
        /\ letter'[l].stamps = {} /\ owner' = owner
    BY <1>4, <1>a DEF CreateWelcomeMessage, Sent, TypeOK
  <2> QED BY <1>a, <2>1 DEF KeepersAreNamed
<1>5. CASE DeliverMessages
  <2>1. /\ Sent' = Sent
        /\ \A l \in Sent : /\ letter'[l].stamps = letter[l].stamps
                           /\ letter'[l].recipient = letter[l].recipient
    BY <1>5, DeliveredToHeirs, LetterSets
  <2>2. ASSUME NEW s \in Stamps
        PROVE  owner'[s] = owner[s] \/ \E m \in Sent : letter[m].recipient = owner'[s]
    BY <1>5, DeliveredToHeirs, LetterSets
  <2> QED BY <1>a, <1>b, <2>1, <2>2 DEF KeepersAreNamed
<1>6. ASSUME NEW l \in Letters, MarkRead(l) PROVE KeepersAreNamed'
  <2>1. /\ Sent' = Sent /\ owner' = owner
        /\ \A m \in Letters : /\ letter'[m].stamps = letter[m].stamps
                              /\ letter'[m].recipient = letter[m].recipient
    BY <1>6, <1>a DEF MarkRead, Sent, TypeOK, Letter
  <2> QED BY <1>a, <2>1, LetterSets DEF KeepersAreNamed
<1>7. ASSUME NEW idle \in SUBSET Accounts, ReapGhostAccounts(idle) PROVE KeepersAreNamed'
  <2>1. Sent' = Sent /\ letter' = letter
    BY <1>7 DEF ReapGhostAccounts, Sent
  <2>2. \A s \in Stamps : owner'[s] = IF owner[s] \in idle THEN Unissued ELSE owner[s]
    BY <1>7 DEF ReapGhostAccounts
  <2> QED BY <1>a, <1>b, <2>1, <2>2 DEF KeepersAreNamed
<1> QED
  BY <1>1, <1>2, <1>3, <1>4, <1>5, <1>6, <1>7 DEF Next, vars, Tick, CreateUser

(* The tables satisfy the inductive invariant at all times. *)
THEOREM Invariance == Spec => []IInv
<1>1. IInv /\ [Next]_vars => IInv'
  BY NextTypeOK, NextStampCustody, NextNothingDangles, NextKeepersAreNamed DEF IInv
<1> QED BY InitIInv, <1>1, PTL DEF Spec

(* No stamp is ever lost in the mail or posted twice. *)
THEOREM StampsAreConserved == Spec => []StampCustody
BY Invariance, PTL DEF IInv

(* The reaper leaves no letter without its correspondents and no letter's      *)
(* stamps without their rows.                                                  *)
THEOREM ReapingIsSafe == Spec => []NothingDangles
BY Invariance, PTL DEF IInv

(* No transaction delivers a letter before its release or marks one read on its way. *)
LEMMA NextNeverEarly == IInv /\ NeverEarly /\ [Next]_vars => NeverEarly'
<1> SUFFICES ASSUME IInv, NeverEarly, [Next]_vars PROVE NeverEarly'
  OBVIOUS
<1>a. TypeOK
  BY DEF IInv
<1>b. now \in Nat /\ \A l \in Letters : letter[l].releaseAt \in Nat
  BY <1>a DEF TypeOK, Letter
<1>1. CASE UNCHANGED <<now, letter>>
  BY <1>1 DEF NeverEarly, Arrived
<1>2. CASE Tick
  BY <1>b, <1>2, LetterSets DEF Tick, NeverEarly, Arrived
<1>3. ASSUME NEW u \in Users, NEW v \in Users, NEW l \in Letters, NEW S \in SUBSET Stamps,
             NEW release \in now .. MaxTime, CreateMessage(u, v, l, S, release)
      PROVE  NeverEarly'
  <2>1. Arrived' = Arrived /\ (\A m \in Arrived : letter'[m] = letter[m]) /\ now' = now
    BY <1>a, <1>3 DEF CreateMessage, Arrived, TypeOK
  <2> QED BY <2>1 DEF NeverEarly
<1>4. ASSUME NEW u \in Users, NEW l \in Letters, CreateWelcomeMessage(u, l)
      PROVE  NeverEarly'
  <2>1. /\ Arrived' = Arrived \cup {l} /\ letter'[l].releaseAt = now /\ now' = now
        /\ \A m \in Arrived : letter'[m] = letter[m]
    BY <1>a, <1>4 DEF CreateWelcomeMessage, Arrived, TypeOK
  <2> QED BY <1>b, <2>1 DEF NeverEarly
<1>5. CASE DeliverMessages
  <2>1. now' = now
    BY <1>5 DEF DeliverMessages
  <2> QED BY <1>5, <2>1, DeliveredToHeirs, LetterSets DEF NeverEarly, Due
<1>6. ASSUME NEW l \in Letters, MarkRead(l) PROVE NeverEarly'
  <2>1. /\ Arrived' = Arrived /\ now' = now
        /\ \A m \in Letters : letter'[m].releaseAt = letter[m].releaseAt
    BY <1>a, <1>6 DEF MarkRead, Arrived, TypeOK, Letter
  <2> QED BY <2>1, LetterSets DEF NeverEarly
<1> QED
  BY <1>1, <1>2, <1>3, <1>4, <1>5, <1>6
     DEF Next, vars, CreateUser, CreateStamp, ReapGhostAccounts

(* No letter is delivered or read before its release time. *)
THEOREM NoLetterIsEarly == Spec => []NeverEarly
<1>1. Init => NeverEarly
  BY DEF Init, NeverEarly, Arrived, Blank
<1> QED BY <1>1, NextNeverEarly, Invariance, PTL DEF Spec

(* A stamp changes hands in the transaction that records its discovery. *)
LEMMA NextTransfersDiscovered ==
    IInv /\ TransfersDiscovered /\ [Next]_vars => TransfersDiscovered'
<1> SUFFICES ASSUME IInv, TransfersDiscovered, [Next]_vars PROVE TransfersDiscovered'
  OBVIOUS
<1>a. TypeOK /\ NothingDangles
  BY DEF IInv
<1> USE MailAssumption DEF Accounts
<1>1. CASE UNCHANGED <<owner, earnedVia, discovered>>
  BY <1>1 DEF TransfersDiscovered, Issued
<1>2. ASSUME NEW u \in Accounts, NEW s \in Stamps, CreateStamp(u, s)
      PROVE  TransfersDiscovered'
  <2>1. \A v \in Accounts : discovered[v] \subseteq discovered'[v]
    BY <1>a, <1>2 DEF CreateStamp, TypeOK
  <2> QED BY <1>a, <1>2, <2>1 DEF CreateStamp, TransfersDiscovered, Issued, TypeOK
<1>3. ASSUME NEW u \in Users, NEW v \in Users, NEW l \in Letters, NEW S \in SUBSET Stamps,
             NEW release \in now .. MaxTime, CreateMessage(u, v, l, S, release)
      PROVE  TransfersDiscovered'
  <2>1. \A s \in Stamps : owner'[s] = IF s \in S THEN InMail ELSE owner[s]
    BY <1>3 DEF CreateMessage
  <2>2. earnedVia' = earnedVia /\ discovered' = discovered
    BY <1>3 DEF CreateMessage
  <2> QED BY <2>1, <2>2 DEF TransfersDiscovered, Issued
<1>4. CASE DeliverMessages
  <2> SUFFICES ASSUME NEW s \in Stamps, owner'[s] # Unissued, owner'[s] # InMail,
                      earnedVia'[s] = "transfer"
               PROVE  KindOf[s] \in discovered'[owner'[s]]
    BY DEF TransfersDiscovered, Issued
  <2>1. \A v \in Accounts : discovered'[v] = discovered[v] \cup KindsFor(Due, v)
    BY <1>4 DEF DeliverMessages
  <2>2. CASE s \in Carried(Due)
    <3>1. PICK l \in Due : s \in letter[l].stamps /\ owner'[s] = letter[l].recipient
      BY <1>4, <2>2, DeliveredToHeirs
    <3>2. letter[l].recipient \in Accounts
      BY <1>a, LetterSets DEF TypeOK, Letter
    <3>3. s \in Carried({m \in Due : letter[m].recipient = owner'[s]})
      BY <3>1 DEF Carried
    <3>4. KindOf[s] \in KindsFor(Due, owner'[s])
      BY <3>3 DEF KindsFor
    <3> QED BY <2>1, <3>1, <3>2, <3>4
  <2>3. CASE s \notin Carried(Due)
    <3>1. owner'[s] = owner[s] /\ earnedVia'[s] = earnedVia[s]
      BY <1>4, <2>3 DEF DeliverMessages
    <3>2. owner[s] \in Accounts
      BY <1>a, <3>1 DEF TypeOK
    <3> QED BY <2>1, <3>1, <3>2 DEF TransfersDiscovered, Issued
  <2> QED BY <2>2, <2>3
<1>5. ASSUME NEW idle \in SUBSET Accounts, ReapGhostAccounts(idle)
      PROVE  TransfersDiscovered'
  <2>1. \A s \in Stamps : owner'[s] = IF owner[s] \in idle THEN Unissued ELSE owner[s]
    BY <1>5 DEF ReapGhostAccounts
  <2>2. \A u \in Accounts \ idle : discovered'[u] = discovered[u]
    BY <1>5 DEF ReapGhostAccounts
  <2>3. \A s \in Issued : owner[s] # InMail => owner[s] \in Accounts
    BY <1>a DEF TypeOK, Issued
  <2> QED BY <1>5, <2>1, <2>2, <2>3 DEF ReapGhostAccounts, TransfersDiscovered, Issued
<1> QED
  BY <1>1, <1>2, <1>3, <1>4, <1>5
     DEF Next, vars, Tick, CreateUser, CreateWelcomeMessage, MarkRead

(* Whoever receives a stamp in the mail has its type in the collection. *)
THEOREM ReceivedStampsAreDiscovered == Spec => []TransfersDiscovered
<1>1. Init => TransfersDiscovered
  BY DEF Init, TransfersDiscovered, Issued
<1> QED BY <1>1, NextTransfersDiscovered, Invariance, PTL DEF Spec
-----------------------------------------------------------------------------
(* The tables implement module PostOffice: seen through Place, every step is a   *)
(* step of the post office or leaves it unchanged.                               *)

(* The mapped state after a step, spelt out stamp by stamp. *)
LEMMA PlaceOnLetter ==
    ASSUME IInv, NEW s \in Stamps, NEW l \in Travelling, s \in letter[l].stamps
    PROVE  Place(s) = l
<1>1. owner[s] = InMail /\ \A m \in Travelling : s \in letter[m].stamps => m = l
  BY LetterSets DEF IInv, StampCustody
<1>2. CarrierIn(Travelling, s) = l
  BY <1>1 DEF CarrierIn
<1> QED BY <1>1, <1>2 DEF Place

(* The empty tables are an empty post office. *)
LEMMA InitPromise == Init => Promise!Init
<1> SUFFICES ASSUME Init PROVE Promise!Init
  OBVIOUS
<1>1. Sent = {} /\ Arrived = {}
  BY DEF Init, Sent, Arrived, Blank
<1>2. \A s \in Stamps : Place(s) = Unissued
  BY MailAssumption DEF Init, Place
<1> QED BY <1>1, <1>2 DEF Promise!Init, AddressOf

(* When no stamp and no address changes, the post office stands still. *)
LEMMA SamePlaces ==
    ASSUME IInv, IInv', Travelling' = Travelling, owner' = owner,
           \A l \in Travelling : letter'[l].stamps = letter[l].stamps
    PROVE  \A s \in Stamps : Place(s)' = Place(s)
<1> SUFFICES ASSUME NEW s \in Stamps PROVE Place(s)' = Place(s)
  OBVIOUS
<1>1. CASE \E l \in Travelling : s \in letter[l].stamps
  <2>1. PICK l \in Travelling : s \in letter[l].stamps
    BY <1>1
  <2>2. Place(s) = l
    BY <2>1, PlaceOnLetter
  <2>3. Place(s)' = l
    <3>1. owner'[s] = InMail /\ \A m \in Travelling' : s \in letter'[m].stamps => m = l
      BY <2>1, LetterSets DEF IInv, StampCustody
    <3> QED BY <2>1, <3>1 DEF Place, CarrierIn
  <2> QED BY <2>2, <2>3
<1>2. CASE \A l \in Travelling : s \notin letter[l].stamps
  <2>1. owner[s] # InMail
    BY <1>2 DEF IInv, StampCustody
  <2> QED BY <2>1 DEF Place
<1> QED BY <1>1, <1>2

(* Every transaction is a step of the post office or changes nothing it shows. *)
LEMMA NextPromise == IInv /\ IInv' /\ [Next]_vars => [Promise!Next]_(Promise!vars)
<1> SUFFICES ASSUME IInv, IInv', [Next]_vars PROVE [Promise!Next]_(Promise!vars)
  OBVIOUS
<1>a. TypeOK /\ StampCustody /\ NothingDangles
  BY DEF IInv
<1> USE MailAssumption
<1>1. CASE UNCHANGED <<letter, owner>>
  <2>1. UNCHANGED Promise!vars
    BY <1>1 DEF Promise!vars, Place, AddressOf, CarrierIn, Travelling, Sent, Arrived
  <2> QED BY <2>1
<1>2. ASSUME NEW u \in Accounts, NEW s \in Stamps, CreateStamp(u, s) PROVE Promise!Next
  <2>1. /\ \A c \in Stamps : Place(c)' = IF c = s THEN u ELSE Place(c)
        /\ Place(s) = Unissued
    BY <1>2, <1>a DEF CreateStamp, Place, CarrierIn, Travelling, Accounts, TypeOK
  <2>2. UNCHANGED <<Arrived, [l \in Letters |-> AddressOf(l)]>>
    BY <1>2 DEF CreateStamp, Arrived, AddressOf, Sent
  <2>3. Promise!Issue(s, u)
    BY <2>1, <2>2 DEF Promise!Issue
  <2> QED BY <2>3 DEF Promise!Next, Accounts
<1>3. ASSUME NEW u \in Users, NEW v \in Users, NEW l \in Letters, NEW S \in SUBSET Stamps,
             NEW release \in now .. MaxTime, CreateMessage(u, v, l, S, release)
      PROVE  Promise!Next
  <2>0. PostedAlone(u, v, l, S)
    BY <1>3, CreateMessagePosts
  <2>1. /\ l \notin Sent /\ letter'[l].stamps = S
        /\ \A m \in Sent : letter'[m] = letter[m]
        /\ Sent' = Sent \cup {l} /\ Travelling' = Travelling \cup {l}
        /\ letter'[l].sender = u /\ letter'[l].recipient = v
        /\ \A m \in Travelling : letter[m].stamps \cap S = {}
    BY <2>0 DEF PostedAlone
  <2>2. \A s \in Stamps : owner'[s] = IF s \in S THEN InMail ELSE owner[s]
    BY <1>3 DEF CreateMessage
  <2>3. \A s \in S : owner[s] = u /\ u \in Accounts
    BY <1>3 DEF CreateMessage, OwnedBy, Accounts
  <2>4. \A s \in S : Place(s) = u
    BY <2>3 DEF Place
  <2>5. ASSUME NEW s \in Stamps PROVE Place(s)' = IF s \in S THEN l ELSE Place(s)
    <3>1. CASE s \in S
      <4>1. owner'[s] = InMail /\ \A m \in Travelling' : s \in letter'[m].stamps <=> m = l
        BY <3>1, <2>1, <2>2, LetterSets
      <4> QED BY <3>1, <4>1, <2>1 DEF Place, CarrierIn
    <3>2. CASE s \notin S
      <4>1. owner'[s] = owner[s]
        BY <3>2, <2>2
      <4>2. CASE owner[s] = InMail
        <5>1. PICK m \in Travelling : s \in letter[m].stamps
          BY <1>a, <4>2 DEF StampCustody
        <5>2. Place(s) = m
          BY <5>1, PlaceOnLetter
        <5>3. \A n \in Travelling' : s \in letter'[n].stamps <=> n = m
          BY <1>a, <2>1, <3>2, <5>1, LetterSets DEF StampCustody
        <5> QED BY <2>1, <3>2, <4>1, <4>2, <5>1, <5>2, <5>3 DEF Place, CarrierIn
      <4>3. CASE owner[s] # InMail
        BY <3>2, <4>1, <4>3 DEF Place
      <4> QED BY <4>2, <4>3
    <3> QED BY <3>1, <3>2
  <2>6. \A m \in Letters : AddressOf(m)' = IF m = l THEN <<u, v>> ELSE AddressOf(m)
    BY <2>1 DEF AddressOf
  <2>7. AddressOf(l) = <<>> /\ Arrived' = Arrived
    BY <2>1, <1>3, <1>a DEF AddressOf, CreateMessage, Arrived, TypeOK
  <2>8. Promise!Post(l, u, v, S)
    BY <2>4, <2>5, <2>6, <2>7 DEF Promise!Post, Promise!Posted
  <2> QED BY <2>8 DEF Promise!Next, Accounts
<1>4. ASSUME NEW u \in Users, NEW l \in Letters, CreateWelcomeMessage(u, l)
      PROVE  Promise!Next
  <2>1. /\ l \notin Sent /\ Sent' = Sent \cup {l} /\ Travelling' = Travelling
        /\ Arrived' = Arrived \cup {l} /\ owner' = owner
        /\ letter'[l].sender = System /\ letter'[l].recipient = u
        /\ \A m \in Letters \ {l} : letter'[m] = letter[m]
    BY <1>4, <1>a DEF CreateWelcomeMessage, Sent, Travelling, Arrived, TypeOK
  <2>2. \A s \in Stamps : Place(s)' = Place(s)
    BY <2>1, SamePlaces, LetterSets
  <2>3. \A m \in Letters : AddressOf(m)' = IF m = l THEN <<System, u>> ELSE AddressOf(m)
    BY <2>1, LetterSets DEF AddressOf
  <2>4. AddressOf(l) = <<>>
    BY <2>1 DEF AddressOf
  <2>5. Promise!Greet(l, System, u)
    BY <2>1, <2>2, <2>3, <2>4 DEF Promise!Greet, Promise!Posted
  <2> QED BY <2>5 DEF Promise!Next, Accounts
<1>5. CASE DeliverMessages
  <2>1. /\ Sent' = Sent /\ Travelling' = Travelling \ Due /\ Arrived' = Arrived \cup Due
        /\ \A l \in Letters : /\ letter'[l].stamps = letter[l].stamps
                              /\ letter'[l].sender = letter[l].sender
                              /\ letter'[l].recipient = letter[l].recipient
    BY <1>5, DeliveredToHeirs
  <2>2. ASSUME NEW l \in Letters PROVE AddressOf(l)' = AddressOf(l)
    BY <2>1 DEF AddressOf
  <2>3. Due # {} /\ Due \subseteq Sent \ Arrived
    BY <1>5, LetterSets DEF DeliverMessages, Due, Travelling, Arrived
  <2>4. \A l \in Due : AddressOf(l) = <<letter[l].sender, letter[l].recipient>>
    BY <2>3 DEF AddressOf
  <2>5. ASSUME NEW s \in Stamps
        PROVE  Place(s)' = IF Place(s) \in Due THEN AddressOf(Place(s))[2] ELSE Place(s)
    <3>1. CASE s \in Carried(Due)
      <4>1. PICK l \in Due : s \in letter[l].stamps /\ owner'[s] = letter[l].recipient
        BY <1>5, <3>1, DeliveredToHeirs
      <4>2. Place(s) = l
        BY <4>1, PlaceOnLetter, LetterSets
      <4>3. letter[l].recipient \in Accounts
        BY <1>a, LetterSets DEF TypeOK, Letter
      <4>4. Place(s)' = letter[l].recipient
        BY <4>1, <4>3 DEF Place
      <4> QED BY <2>4, <4>2, <4>4
    <3>2. CASE s \notin Carried(Due)
      <4>1. owner'[s] = owner[s]
        BY <1>5, <3>2, DeliveredToHeirs
      <4>2. CASE owner[s] = InMail
        <5>1. PICK l \in Travelling : s \in letter[l].stamps
          BY <1>a, <4>2 DEF StampCustody
        <5>2. l \in Travelling \ Due
          BY <3>2, <5>1 DEF Carried
        <5>3. Place(s) = l
          BY <5>1, PlaceOnLetter
        <5>4. \A m \in Travelling' : s \in letter'[m].stamps <=> m = l
          BY <1>a, <2>1, <5>1, <5>2, LetterSets DEF StampCustody
        <5>5. Place(s)' = l
          BY <2>1, <4>1, <4>2, <5>2, <5>4 DEF Place, CarrierIn
        <5> QED BY <5>2, <5>3, <5>5
      <4>3. CASE owner[s] # InMail
        <5>1. Place(s) = owner[s] /\ Place(s)' = owner[s]
          BY <4>1, <4>3 DEF Place
        <5>2. owner[s] \notin Due
          BY <1>a, LetterSets DEF TypeOK
        <5> QED BY <5>1, <5>2
      <4> QED BY <4>2, <4>3
    <3> QED BY <3>1, <3>2
  <2>6. Promise!Arrive(Due)
    <3>1. Due \subseteq Promise!Posted \ Arrived
      BY <2>3, <2>4, LetterSets DEF Promise!Posted
    <3>2. \A s \in Stamps : Place(s) \in Due => Place(s) \in Letters
      BY LetterSets
    <3> QED BY <2>1, <2>2, <2>3, <2>5, <3>1, <3>2 DEF Promise!Arrive
  <2>7. Due \in SUBSET Letters
    BY LetterSets
  <2> QED BY <2>6, <2>7 DEF Promise!Next
<1>6. ASSUME NEW l \in Letters, MarkRead(l) PROVE UNCHANGED Promise!vars
  <2>1. /\ Sent' = Sent /\ Travelling' = Travelling /\ Arrived' = Arrived /\ owner' = owner
        /\ \A m \in Letters : /\ letter'[m].stamps = letter[m].stamps
                              /\ letter'[m].sender = letter[m].sender
                              /\ letter'[m].recipient = letter[m].recipient
    BY <1>6, <1>a DEF MarkRead, Sent, Travelling, Arrived, TypeOK, Letter
  <2>2. \A s \in Stamps : Place(s)' = Place(s)
    BY <2>1, SamePlaces, LetterSets
  <2>3. \A m \in Letters : AddressOf(m)' = AddressOf(m)
    BY <2>1 DEF AddressOf
  <2> QED BY <2>1, <2>2, <2>3 DEF Promise!vars
<1>7. ASSUME NEW idle \in SUBSET Accounts, ReapGhostAccounts(idle) PROVE Promise!Next
  <2>1. letter' = letter /\ idle \subseteq Ghosts
        /\ \A s \in Stamps : owner'[s] = IF owner[s] \in idle THEN Unissued ELSE owner[s]
    BY <1>7 DEF ReapGhostAccounts
  <2>2. \A s \in Stamps : Place(s)' = IF Place(s) \in idle THEN Unissued ELSE Place(s)
    <3> SUFFICES ASSUME NEW s \in Stamps
                 PROVE  Place(s)' = IF Place(s) \in idle THEN Unissued ELSE Place(s)
      OBVIOUS
    <3>1. CASE owner[s] = InMail
      <4>1. PICK l \in Travelling : s \in letter[l].stamps
        BY <1>a, <3>1 DEF StampCustody
      <4>2. Place(s) \notin idle
        BY <4>1, PlaceOnLetter, LetterSets
      <4>3. owner'[s] = InMail
        BY <2>1, <3>1
      <4>4. Place(s)' = Place(s)
        BY <2>1, <3>1, <4>3 DEF Place, CarrierIn, Travelling
      <4> QED BY <4>2, <4>4
    <3>2. CASE owner[s] # InMail
      BY <2>1, <3>2 DEF Place
    <3> QED BY <3>1, <3>2
  <2>3. Arrived' = Arrived /\ \A l \in Letters : AddressOf(l)' = AddressOf(l)
    BY <2>1 DEF Arrived, AddressOf, Sent
  <2>4. \A u \in idle : ~Promise!Named(u)
    <3>1. \A l \in Promise!Posted : l \in Sent
          /\ AddressOf(l) = <<letter[l].sender, letter[l].recipient>>
      BY DEF Promise!Posted, AddressOf
    <3>2. \A u \in idle : \A l \in Sent : u \notin {letter[l].sender, letter[l].recipient}
      BY <2>1 DEF Ghosts, Party
    <3> SUFFICES ASSUME NEW u \in idle, NEW l \in Promise!Posted
                 PROVE  u # AddressOf(l)[1] /\ u # AddressOf(l)[2]
      BY DEF Promise!Named, Promise!Posted
    <3> QED BY <3>1, <3>2
  <2>5. Promise!Vanish(idle)
    BY <2>2, <2>3, <2>4 DEF Promise!Vanish
  <2> QED BY <2>5 DEF Promise!Next
<1> QED
  BY <1>1, <1>2, <1>3, <1>4, <1>5, <1>6, <1>7 DEF Next, vars, Tick, CreateUser

(* The relay's tables implement the post office's promise about stamps. *)
THEOREM TheTablesKeepThePromise == Spec => KeepsThePromise
<1>1. Spec => []IInv
  BY Invariance
<1> QED BY <1>1, InitPromise, NextPromise, PTL DEF Spec, KeepsThePromise, Promise!Spec
=============================================================================
