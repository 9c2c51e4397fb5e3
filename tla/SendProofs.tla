----------------------------- MODULE SendProofs -----------------------------
(***************************************************************************)
(* Theorems about the send_letter handler, for any number of users,        *)
(* letters, stamps and handlers at work.                                   *)
(***************************************************************************)
EXTENDS SendLetter, FiniteSetTheorems, TLAPS

(* The handlers of u for letters to v that are past the pair count, and those  *)
(* that are past the look for a block.                                         *)
Counted == {"total"} \cup Transaction
Cleared == {"pair", "total"} \cup Transaction
Busy(u, v, steps) == Past(u, steps) \cap To(v)

(* A handler at work has a recipient and stamps, and is at one of them. *)
Underway ==
    \A c \in Sessions :
        /\ session[c].pc # "idle" => session[c].to \in Users /\ session[c].order \in Orders
        /\ session[c].pc = "attach" => session[c].next \in 1 .. Len(session[c].order)

(* Letters that were stored have a recipient. *)
Addressed ==
    \A l \in Letters : letter[l].status # "unsent" => letter[l].recipient \in Users

(* Letters are late only where there is a block. *)
LateIsBlocked ==
    \A l \in Letters :
        letter[l].late => <<letter[l].recipient, letter[l].sender>> \in blocks

IInv == TypeOK /\ Underway /\ Addressed /\ LateIsBlocked /\ PairLimitSlack /\ BlockSlack

(* The sets that are counted are finite. *)
LEMMA FiniteCounts ==
    ASSUME NEW u, NEW v, NEW steps
    PROVE  /\ IsFiniteSet(SessionsOf(u)) /\ Cardinality(SessionsOf(u)) \in Nat
           /\ IsFiniteSet(Busy(u, v, steps)) /\ Cardinality(Busy(u, v, steps)) \in Nat
           /\ Cardinality(Busy(u, v, steps)) <= Cardinality(SessionsOf(u))
           /\ IsFiniteSet(RecentTo(u, v)) /\ Cardinality(RecentTo(u, v)) \in Nat
           /\ IsFiniteSet(LateFrom(u, v)) /\ Cardinality(LateFrom(u, v)) \in Nat
<1>1. /\ SessionsOf(u) \in SUBSET Sessions
      /\ RecentTo(u, v) \in SUBSET Letters /\ LateFrom(u, v) \in SUBSET Letters
  BY DEF SessionsOf, RecentTo, Recent, LateFrom, Sent, Travelling, Arrived
<1>2. Busy(u, v, steps) \in SUBSET SessionsOf(u)
  BY DEF Busy, Past
<1>3. /\ IsFiniteSet(SessionsOf(u))
      /\ IsFiniteSet(RecentTo(u, v)) /\ IsFiniteSet(LateFrom(u, v))
  BY <1>1, FS_Subset, SendAssumption
<1>4. /\ IsFiniteSet(Busy(u, v, steps))
      /\ Cardinality(Busy(u, v, steps)) <= Cardinality(SessionsOf(u))
  BY <1>2, <1>3, FS_Subset
<1> QED BY <1>3, <1>4, FS_CardinalityType

(* The same in the next state. *)
LEMMA FiniteCountsNext ==
    ASSUME NEW u, NEW v, NEW steps
    PROVE  /\ IsFiniteSet(Busy(u, v, steps)') /\ Cardinality(Busy(u, v, steps)') \in Nat
           /\ Cardinality(Busy(u, v, steps)') <= Cardinality(SessionsOf(u))
           /\ IsFiniteSet(RecentTo(u, v)') /\ Cardinality(RecentTo(u, v)') \in Nat
           /\ IsFiniteSet(LateFrom(u, v)') /\ Cardinality(LateFrom(u, v)') \in Nat
<1>1. RecentTo(u, v)' \in SUBSET Letters /\ LateFrom(u, v)' \in SUBSET Letters
  BY DEF RecentTo, Recent, LateFrom, Sent, Travelling, Arrived
<1>2. Busy(u, v, steps)' \in SUBSET SessionsOf(u)
  BY DEF Busy, Past, SessionsOf
<1>3. IsFiniteSet(RecentTo(u, v)') /\ IsFiniteSet(LateFrom(u, v)')
  BY <1>1, FS_Subset, SendAssumption
<1>4. /\ IsFiniteSet(Busy(u, v, steps)')
      /\ Cardinality(Busy(u, v, steps)') <= Cardinality(SessionsOf(u))
  BY <1>2, FiniteCounts, FS_Subset
<1> QED BY <1>3, <1>4, FS_CardinalityType

(* What giving up and going on change. *)
LEMMA GaveUp ==
    ASSUME TypeOK, NEW c \in Sessions, GiveUp(c)
    PROVE  /\ UNCHANGED <<now, contacts, blocks, owner, letter>>
           /\ session' \in [Sessions -> Session] /\ session'[c] = Idle
           /\ \A d \in Sessions \ {c} : session'[d] = session[d]
           /\ rowLock' \in [Stamps -> Sessions \cup {Free}]
<1>1. Idle \in Session
  BY DEF Idle, Session
<1> QED BY <1>1 DEF GiveUp, Unlocked, TypeOK

LEMMA Advanced ==
    ASSUME TypeOK, NEW c \in Sessions, NEW pc \in Checks \cup Transaction, Advance(c, pc)
    PROVE  /\ UNCHANGED <<now, contacts, blocks, owner, letter, rowLock>>
           /\ session' \in [Sessions -> Session]
           /\ session'[c].pc = pc /\ session'[c].to = session[c].to
           /\ session'[c].order = session[c].order /\ session'[c].next = session[c].next
           /\ \A d \in Sessions \ {c} : session'[d] = session[d]
<1>1. session \in [Sessions -> Session]
  BY DEF TypeOK
<1>2. session[c] \in Session
  BY <1>1
<1>3. [session[c] EXCEPT !.pc = pc] \in Session
  BY <1>2 DEF Session
<1>4. session' = [session EXCEPT ![c] = [session[c] EXCEPT !.pc = pc]]
  BY <1>1 DEF Advance
<1>5. session'[c] = [session[c] EXCEPT !.pc = pc]
  BY <1>1, <1>4
<1> QED BY <1>1, <1>2, <1>3, <1>4, <1>5 DEF Advance, Session

(* Nothing is under way at the start, and the only letter is an old one. *)
LEMMA InitIInv == Init => IInv
<1> SUFFICES ASSUME Init PROVE IInv
  OBVIOUS
<1>1. Blank \in Letter /\ Idle \in Session
  BY DEF Blank, Letter, Idle, Session
<1>2. ASSUME NEW u \in Users, NEW v \in Users
      PROVE  /\ Old(v, u) \in Letter /\ Old(v, u).recipient = u
             /\ Old(v, u).sentAt = 0 /\ ~Old(v, u).late
  <2>1. (CHOOSE s \in Stamps : TRUE) \in Stamps
    BY SendAssumption
  <2> QED BY <2>1 DEF Old, Letter
<1>3. Served \subseteq Users
  BY SendAssumption DEF Served
<1>4. /\ letter \in [Letters -> Letter]
      /\ \A l \in Letters :
            /\ ~letter[l].late /\ letter[l].sentAt = 0
            /\ letter[l].status # "unsent" => letter[l].recipient \in Users
  <2>1. NoLetters \in [Letters -> Letter]
    BY <1>1 DEF NoLetters
  <2>2. CASE letter = NoLetters
    BY <2>1, <2>2 DEF NoLetters, Blank
  <2>3. ASSUME NEW u \in Users, NEW v \in Users,
               letter = [NoLetters EXCEPT ![CHOOSE l \in Letters : TRUE] = Old(v, u)]
        PROVE  <1>4!1 /\ <1>4!2
    <3> PICK i : i = CHOOSE l \in Letters : TRUE
      OBVIOUS
    <3>1. letter = [NoLetters EXCEPT ![i] = Old(v, u)]
      BY <2>3
    <3>2. letter \in [Letters -> Letter]
      BY <2>1, <3>1, <1>2
    <3>3. \A l \in Letters : letter[l] = Old(v, u) \/ letter[l] = Blank
      BY <2>1, <3>1 DEF NoLetters
    <3> QED BY <3>2, <3>3, <1>2 DEF Blank
  <2> QED BY <2>2, <2>3, <1>3 DEF Init
<1>5. now = Day /\ session = [c \in Sessions |-> Idle] /\ blocks = {}
  BY DEF Init
<1>6. TypeOK
  BY <1>1, <1>3, <1>4, <1>5, SendAssumption DEF Init, TypeOK
<1>7. Underway /\ Addressed /\ LateIsBlocked
  BY <1>4, <1>5 DEF Underway, Addressed, LateIsBlocked, Idle
<1>8. PairLimitSlack
  <2> SUFFICES ASSUME NEW u \in Users, NEW v \in Users
               PROVE  Cardinality(RecentTo(u, v)) + Cardinality(Busy(u, v, Counted))
                        < PairLimit + Cardinality(SessionsOf(u))
    BY DEF PairLimitSlack, Busy, Counted
  <2>1. RecentTo(u, v) = {}
    BY <1>4, <1>5, SendAssumption DEF RecentTo, Recent, Sent, Travelling, Arrived
  <2>2. Cardinality(RecentTo(u, v)) = 0
    BY <2>1, FS_EmptySet
  <2>3. Cardinality(Busy(u, v, Counted)) <= Cardinality(SessionsOf(u))
    BY FiniteCounts
  <2> QED BY <2>2, <2>3, FiniteCounts, SendAssumption
<1>9. BlockSlack
  BY <1>5 DEF BlockSlack
<1> QED BY <1>6, <1>7, <1>8, <1>9 DEF IInv

(* What each step of a handler does, for the types and the recipients: it       *)
(* keeps to the handler's request, or ends it.                                 *)
LEMMA NextStampIsOne ==
    ASSUME TypeOK, Underway, NEW c \in Sessions, session[c].pc = "attach"
    PROVE  NextStamp(c) \in Stamps
<1>1. session[c].order \in Seq(Stamps) /\ session[c].next \in 1 .. Len(session[c].order)
  BY SendAssumption DEF Underway
<1> QED BY <1>1 DEF NextStamp

(* The statements of the transaction change the handler's place in it. *)
LEMMA Inserted ==
    ASSUME TypeOK, Underway, NEW c \in Sessions, InsertMessage(c)
    PROVE  /\ session' \in [Sessions -> Session] /\ session'[c].pc = "attach"
           /\ session'[c].to = session[c].to /\ session'[c].order = session[c].order
           /\ session'[c].next \in 1 .. Len(session[c].order)
           /\ \A d \in Sessions \ {c} : session'[d] = session[d]
<1>1. session \in [Sessions -> Session] /\ session[c] \in Session /\ now \in Nat
  BY SendAssumption DEF TypeOK
<1>2. session' = [session EXCEPT ![c] = [session[c] EXCEPT !.pc = "attach", !.next = 1, !.begun = now]]
  BY <1>1 DEF InsertMessage
<1>3. [session[c] EXCEPT !.pc = "attach", !.next = 1, !.begun = now] \in Session
  BY <1>1 DEF Session, Transaction
<1>4. session'[c] = [session[c] EXCEPT !.pc = "attach", !.next = 1, !.begun = now]
  BY <1>1, <1>2
<1>5. session[c].order \in Seq(Stamps) /\ session[c].order # <<>>
  BY SendAssumption DEF Underway, InsertMessage
<1>6. Len(session[c].order) >= 1
  BY <1>5
<1>7. session'[c].next \in 1 .. Len(session[c].order)
  BY <1>1, <1>4, <1>5, <1>6 DEF Session
<1> QED BY <1>1, <1>2, <1>3, <1>4, <1>7 DEF Session

LEMMA Attached ==
    ASSUME TypeOK, Underway, NEW c \in Sessions, AttachStamp(c), ~GiveUp(c)
    PROVE  /\ session' \in [Sessions -> Session]
           /\ session[c].pc = "attach" /\ session'[c].pc \in {"attach", "commit"}
           /\ session'[c].to = session[c].to /\ session'[c].order = session[c].order
           /\ session'[c].pc = "attach" => session'[c].next \in 1 .. Len(session[c].order)
           /\ \A d \in Sessions \ {c} : session'[d] = session[d]
           /\ rowLock' \in [Stamps -> Sessions \cup {Free}]
           /\ UNCHANGED <<now, contacts, blocks, owner, letter>>
<1> PICK s, pc : s = NextStamp(c)
                 /\ pc = IF session[c].next = Len(session[c].order) THEN "commit" ELSE "attach"
  OBVIOUS
<1>1. /\ session \in [Sessions -> Session] /\ session[c] \in Session
      /\ rowLock \in [Stamps -> Sessions \cup {Free}]
  BY DEF TypeOK
<1>2. session[c].pc = "attach" /\ s \in Stamps /\ pc \in {"attach", "commit"}
  BY NextStampIsOne DEF AttachStamp
<1>3. session' = [session EXCEPT ![c] =
          [session[c] EXCEPT !.pc = pc, !.next = @ + 1, !.attached = @ \cup {s}]]
  BY <1>1 DEF AttachStamp
<1>4. [session[c] EXCEPT !.pc = pc, !.next = @ + 1, !.attached = @ \cup {s}] \in Session
  <2>1. /\ session[c].next + 1 \in Nat /\ session[c].attached \cup {s} \in SUBSET Stamps
        /\ pc \in {"idle"} \cup Checks \cup Transaction
    BY <1>1, <1>2 DEF Session, Transaction
  <2>2. \A n \in Nat, a \in SUBSET Stamps, p \in {"idle"} \cup Checks \cup Transaction :
          [session[c] EXCEPT !.pc = p, !.next = n, !.attached = a] \in Session
    BY <1>1 DEF Session
  <2> QED BY <2>1, <2>2
<1>5. session'[c] = [session[c] EXCEPT !.pc = pc, !.next = @ + 1, !.attached = @ \cup {s}]
  BY <1>1, <1>3
<1>6. /\ session'[c].pc = pc /\ session'[c].to = session[c].to
      /\ session'[c].order = session[c].order /\ session'[c].next = session[c].next + 1
  BY <1>1, <1>5 DEF Session
<1>7. session[c].order \in Seq(Stamps) /\ session[c].next \in 1 .. Len(session[c].order)
  BY <1>2, SendAssumption DEF Underway
<1>8. pc = "attach" => session[c].next + 1 \in 1 .. Len(session[c].order)
  BY <1>7
<1>9. /\ rowLock' \in [Stamps -> Sessions \cup {Free}]
      /\ UNCHANGED <<now, contacts, blocks, owner, letter>>
  BY <1>1 DEF AttachStamp
<1> QED BY <1>1, <1>2, <1>3, <1>4, <1>5, <1>6, <1>8, <1>9

(* Every letter that is stored has a recipient. *)
LEMMA Committed ==
    ASSUME TypeOK, Underway, NEW c \in Sessions, Commit(c)
    PROVE  /\ session' \in [Sessions -> Session] /\ session'[c] = Idle
           /\ \A d \in Sessions \ {c} : session'[d] = session[d]
           /\ Fresh \in Unsent /\ NewLetter(c) \in Letter
           /\ letter' = [letter EXCEPT ![Fresh] = NewLetter(c)]
           /\ NewLetter(c).recipient \in Users
<1>1. Idle \in Session
  BY DEF Idle, Session
<1>2. Fresh \in Unsent
  BY DEF Commit, Fresh
<1>3. session[c] \in Session /\ session[c].to \in Users /\ UserOf[c] \in Users
  BY SendAssumption DEF TypeOK, Underway, Commit
<1>4. NewLetter(c) \in Letter /\ NewLetter(c).recipient \in Users
  BY <1>3 DEF NewLetter, Letter, Session
<1> QED BY <1>1, <1>2, <1>4 DEF Commit, TypeOK

(* Every step keeps the types, the requests and the recipients. *)
LEMMA NextTypes ==
    TypeOK /\ Underway /\ Addressed /\ LateIsBlocked /\ [Next]_vars
      => TypeOK' /\ Underway' /\ Addressed' /\ LateIsBlocked'
<1> SUFFICES ASSUME TypeOK, Underway, Addressed, LateIsBlocked, [Next]_vars
             PROVE  TypeOK' /\ Underway' /\ Addressed' /\ LateIsBlocked'
  OBVIOUS
<1> DEFINE Goal == TypeOK' /\ Underway' /\ Addressed' /\ LateIsBlocked'
<1>0. Served \subseteq Users
  BY SendAssumption DEF Served
<1>1. CASE Tick
  BY <1>1, SendAssumption DEF Tick, TypeOK, Underway, Addressed, LateIsBlocked
<1>2. ASSUME NEW u \in Served, NEW v \in Users, AddContact(u, v) \/ DeleteContact(u, v)
      PROVE  Goal
  BY <1>0, <1>2 DEF AddContact, DeleteContact, TypeOK, Underway, Addressed, LateIsBlocked
<1>3. ASSUME NEW u \in Users, NEW v \in Served, BlockUser(u, v) PROVE Goal
  BY <1>0, <1>3 DEF BlockUser, TypeOK, Underway, Addressed, LateIsBlocked
<1>4. ASSUME NEW due \in SUBSET Letters, DeliverMessages(due) PROVE Goal
  <2>1. letter \in [Letters -> Letter] /\ due \subseteq Travelling
    BY <1>4 DEF TypeOK, DeliverMessages
  <2>2. \A l \in Letters : [letter[l] EXCEPT !.status = "delivered"] \in Letter
    BY <2>1 DEF Letter
  <2>3. /\ letter' \in [Letters -> Letter]
        /\ \A l \in Letters : letter'[l] = letter[l]
              \/ (l \in due /\ letter'[l] = [letter[l] EXCEPT !.status = "delivered"])
    BY <1>4, <2>1, <2>2 DEF DeliverMessages
  <2>4. \A l \in Letters :
          /\ letter'[l].recipient = letter[l].recipient /\ letter'[l].sender = letter[l].sender
          /\ letter'[l].late = letter[l].late
          /\ letter'[l].status # "unsent" => letter[l].status # "unsent"
    BY <2>1, <2>3 DEF Letter, Travelling
  <2>5. owner' \in [Stamps -> Users \cup {InMail}]
    <3>1. \A l \in due : letter[l].recipient \in Users
      BY <2>1 DEF Addressed, Travelling
    <3>2. ASSUME NEW s \in Stamps PROVE owner'[s] \in Users \cup {InMail}
      <4>1. CASE \E l \in due : s \in letter[l].stamps
        <5>1. (CHOOSE l \in due : s \in letter[l].stamps) \in due
          BY <4>1
        <5>2. owner'[s] = letter[CHOOSE l \in due : s \in letter[l].stamps].recipient
          BY <1>4, <4>1 DEF DeliverMessages
        <5> QED BY <3>1, <5>1, <5>2
      <4>2. CASE ~ \E l \in due : s \in letter[l].stamps
        BY <1>4, <4>2 DEF DeliverMessages, TypeOK
      <4> QED BY <4>1, <4>2
    <3>3. owner' = [s \in Stamps |-> owner'[s]]
      BY <1>4 DEF DeliverMessages
    <3> QED BY <3>2, <3>3
  <2>6. TypeOK'
    BY <1>4, <2>3, <2>5 DEF DeliverMessages, TypeOK
  <2>7. Underway' /\ Addressed' /\ LateIsBlocked'
    BY <1>4, <2>4 DEF DeliverMessages, Underway, Addressed, LateIsBlocked
  <2> QED BY <2>6, <2>7
<1>5. ASSUME NEW c \in Sessions, GiveUp(c) PROVE Goal
  <2>1. TypeOK'
    BY <1>5, GaveUp DEF TypeOK
  <2>2. Underway'
    BY <1>5, GaveUp DEF Underway, Idle
  <2>3. Addressed' /\ LateIsBlocked'
    BY <1>5, GaveUp DEF Addressed, LateIsBlocked
  <2> QED BY <2>1, <2>2, <2>3
<1>6. ASSUME NEW c \in Sessions, NEW pc \in (Checks \cup Transaction) \ {"attach"},
             session[c].pc # "idle", Advance(c, pc)
      PROVE  Goal
  <2>1. TypeOK'
    BY <1>6, Advanced DEF TypeOK
  <2>2. Underway'
    <3>1. /\ session'[c].pc = pc /\ session'[c].to = session[c].to
          /\ session'[c].order = session[c].order
          /\ \A d \in Sessions \ {c} : session'[d] = session[d]
      BY <1>6, Advanced
    <3> QED BY <1>6, <3>1 DEF Underway
  <2>3. Addressed' /\ LateIsBlocked'
    BY <1>6, Advanced DEF Addressed, LateIsBlocked
  <2> QED BY <2>1, <2>2, <2>3
<1>7. ASSUME NEW c \in Sessions, NEW v \in Users \ {UserOf[c]}, NEW order \in Orders,
             Request(c, v, order)
      PROVE  Goal
  <2>1. [Idle EXCEPT !.pc = "contact", !.to = v, !.order = order] \in Session
    BY DEF Idle, Session, Checks
  <2>2. /\ session' \in [Sessions -> Session]
        /\ session'[c] = [Idle EXCEPT !.pc = "contact", !.to = v, !.order = order]
        /\ \A d \in Sessions \ {c} : session'[d] = session[d]
    BY <1>7, <2>1 DEF Request, TypeOK
  <2>3. TypeOK'
    BY <1>7, <2>2 DEF Request, TypeOK
  <2>4. Underway' /\ Addressed' /\ LateIsBlocked'
    BY <1>7, <2>2 DEF Request, Idle, Underway, Addressed, LateIsBlocked
  <2> QED BY <2>3, <2>4
<1>8. ASSUME NEW c \in Sessions, IsContact(c) PROVE Goal
  <2>1. \E pc \in (Checks \cup Transaction) \ {"attach"} : Advance(c, pc)
    BY <1>8 DEF IsContact, Checks
  <2> QED BY <1>8, <2>1, <1>6 DEF IsContact
<1>9. ASSUME NEW c \in Sessions,
             HasReceivedFrom(c) \/ IsBlocked(c) \/ CheckPairLimit(c) \/ CheckTotalLimit(c)
      PROVE  Goal
  <2>1. \/ GiveUp(c)
        \/ \E pc \in (Checks \cup Transaction) \ {"attach"} : Advance(c, pc)
    BY <1>9 DEF HasReceivedFrom, IsBlocked, CheckPairLimit, CheckTotalLimit, Check,
                Checks, Transaction
  <2>2. session[c].pc # "idle"
    BY <1>9 DEF HasReceivedFrom, IsBlocked, CheckPairLimit, CheckTotalLimit, Check
  <2> QED BY <2>1, <2>2, <1>5, <1>6
<1>10. ASSUME NEW c \in Sessions, InsertMessage(c) PROVE Goal
  <2>1. TypeOK'
    BY <1>10, Inserted DEF InsertMessage, TypeOK
  <2>2. Underway' /\ Addressed' /\ LateIsBlocked'
    BY <1>10, Inserted DEF InsertMessage, Underway, Addressed, LateIsBlocked
  <2> QED BY <2>1, <2>2
<1>11. ASSUME NEW c \in Sessions, AttachStamp(c) PROVE Goal
  <2>1. CASE GiveUp(c)
    BY <2>1, <1>5
  <2>2. CASE ~GiveUp(c)
    <3>1. TypeOK'
      BY <1>11, <2>2, Attached DEF TypeOK
    <3>2. Underway' /\ Addressed' /\ LateIsBlocked'
      BY <1>11, <2>2, Attached DEF Underway, Addressed, LateIsBlocked
    <3> QED BY <3>1, <3>2
  <2> QED BY <2>1, <2>2
<1>12. ASSUME NEW c \in Sessions, Commit(c) PROVE Goal
  <2>1. TypeOK'
    BY <1>12, Committed DEF Commit, Unlocked, Unsent, TypeOK
  <2>2. Underway'
    BY <1>12, Committed DEF Underway, Idle
  <2>3. \A l \in Letters : letter'[l] = letter[l] \/ letter'[l] = NewLetter(c)
    BY <1>12, Committed DEF TypeOK
  <2>4. NewLetter(c).late => <<NewLetter(c).recipient, NewLetter(c).sender>> \in blocks
    <3>1. NewLetter(c).recipient = session[c].to /\ NewLetter(c).sender = UserOf[c]
      BY DEF NewLetter
    <3>2. NewLetter(c).late = (<<session[c].to, UserOf[c]>> \in blocks)
      BY DEF NewLetter
    <3> QED BY <3>1, <3>2
  <2>5. Addressed' /\ LateIsBlocked'
    <3>1. blocks' = blocks
      BY <1>12 DEF Commit
    <3>2. Addressed'
      BY <1>12, <2>3, Committed DEF Addressed
    <3>3. ASSUME NEW l \in Letters, letter'[l].late
          PROVE  <<letter'[l].recipient, letter'[l].sender>> \in blocks
      <4>1. CASE letter'[l] = letter[l]
        BY <3>3, <4>1 DEF LateIsBlocked
      <4>2. CASE letter'[l] = NewLetter(c)
        BY <3>3, <4>2, <2>4
      <4> QED BY <4>1, <4>2, <2>3
    <3> QED BY <3>1, <3>2, <3>3 DEF LateIsBlocked
  <2> QED BY <2>1, <2>2, <2>5
<1>13. ASSUME NEW c \in Sessions, DeadlockVictim(c) \/ Disconnect(c) PROVE Goal
  BY <1>5, <1>13 DEF DeadlockVictim, Disconnect
<1>14. CASE UNCHANGED vars
  BY <1>14 DEF vars, TypeOK, Underway, Addressed, LateIsBlocked
<1> QED BY <1>1, <1>2, <1>3, <1>4, <1>7, <1>8, <1>9, <1>10, <1>11, <1>12, <1>13, <1>14 DEF Next

(* A step after which no more letters count and no other handler is past a      *)
(* step keeps the bounds.                                                      *)
Fewer(steps) ==
    \A c \in Sessions :
        session'[c].pc \in steps => session[c].pc \in steps /\ session'[c].to = session[c].to

LEMMA FewerBusy ==
    ASSUME NEW steps, Fewer(steps), NEW u, NEW v
    PROVE  Busy(u, v, steps)' \subseteq Busy(u, v, steps)
BY DEF Fewer, Busy, Past, SessionsOf, To

LEMMA FewerPairs ==
    ASSUME PairLimitSlack, Fewer(Counted),
           \A u, v \in Users : RecentTo(u, v)' \subseteq RecentTo(u, v)
    PROVE  PairLimitSlack'
<1> SUFFICES ASSUME NEW u \in Users, NEW v \in Users
             PROVE  Cardinality(RecentTo(u, v)') + Cardinality(Busy(u, v, Counted)')
                      < PairLimit + Cardinality(SessionsOf(u))
  BY DEF PairLimitSlack, Busy, Counted, SessionsOf
<1>1. Cardinality(RecentTo(u, v)) + Cardinality(Busy(u, v, Counted))
        < PairLimit + Cardinality(SessionsOf(u))
  BY DEF PairLimitSlack, Busy, Counted
<1>2. Cardinality(RecentTo(u, v)') <= Cardinality(RecentTo(u, v))
  BY FiniteCounts, FS_Subset
<1>3. Busy(u, v, Counted)' \subseteq Busy(u, v, Counted)
  BY FewerBusy
<1>4. Cardinality(Busy(u, v, Counted)') <= Cardinality(Busy(u, v, Counted))
  BY <1>3, FiniteCounts, FS_Subset
<1>5. /\ Cardinality(RecentTo(u, v)) \in Nat /\ Cardinality(RecentTo(u, v)') \in Nat
      /\ Cardinality(Busy(u, v, Counted)) \in Nat /\ Cardinality(Busy(u, v, Counted)') \in Nat
      /\ Cardinality(SessionsOf(u)) \in Nat
  BY FiniteCounts, FiniteCountsNext
<1> QED BY <1>1, <1>2, <1>4, <1>5, SendAssumption

LEMMA FewerBlocked ==
    ASSUME BlockSlack, Fewer(Cleared),
           \A u, v \in Users :
               <<v, u>> \in blocks' => /\ <<v, u>> \in blocks
                                      /\ LateFrom(u, v)' \subseteq LateFrom(u, v)
    PROVE  BlockSlack'
<1> SUFFICES ASSUME NEW u \in Users, NEW v \in Users, <<v, u>> \in blocks'
             PROVE  Cardinality(LateFrom(u, v)') + Cardinality(Busy(u, v, Cleared)')
                      <= Cardinality(SessionsOf(u))
  BY DEF BlockSlack, Busy, Cleared, SessionsOf
<1>1. Cardinality(LateFrom(u, v)) + Cardinality(Busy(u, v, Cleared))
        <= Cardinality(SessionsOf(u))
  BY DEF BlockSlack, Busy, Cleared
<1>2. Cardinality(LateFrom(u, v)') <= Cardinality(LateFrom(u, v))
  BY FiniteCounts, FS_Subset
<1>3. Busy(u, v, Cleared)' \subseteq Busy(u, v, Cleared)
  BY FewerBusy
<1>4. Cardinality(Busy(u, v, Cleared)') <= Cardinality(Busy(u, v, Cleared))
  BY <1>3, FiniteCounts, FS_Subset
<1>5. /\ Cardinality(LateFrom(u, v)) \in Nat /\ Cardinality(LateFrom(u, v)') \in Nat
      /\ Cardinality(Busy(u, v, Cleared)) \in Nat /\ Cardinality(Busy(u, v, Cleared)') \in Nat
      /\ Cardinality(SessionsOf(u)) \in Nat
  BY FiniteCounts, FiniteCountsNext
<1> QED BY <1>1, <1>2, <1>4, <1>5

(* A handler that commits gives its place to its letter. *)
LEMMA TradesPlaces ==
    ASSUME TypeOK, Underway, NEW c \in Sessions, Commit(c), NEW steps, "commit" \in steps,
           "idle" \notin steps, NEW u \in Users, NEW v \in Users
    PROVE  \/ /\ RecentTo(u, v)' \subseteq RecentTo(u, v)
              /\ LateFrom(u, v)' \subseteq LateFrom(u, v)
              /\ Busy(u, v, steps)' \subseteq Busy(u, v, steps)
           \/ /\ Cardinality(RecentTo(u, v)') <= Cardinality(RecentTo(u, v)) + 1
              /\ Cardinality(LateFrom(u, v)') <= Cardinality(LateFrom(u, v)) + 1
              /\ Cardinality(Busy(u, v, steps)') = Cardinality(Busy(u, v, steps)) - 1
<1>1. /\ session'[c].pc = "idle" /\ session[c].pc = "commit"
      /\ \A d \in Sessions \ {c} : session'[d] = session[d]
  BY Committed DEF Idle, Commit
<1>2. Fewer(steps)
  BY <1>1 DEF Fewer
<1> PICK i : i = Fresh
  OBVIOUS
<1>3. /\ i \in Letters /\ now' = now
      /\ \A l \in Letters \ {i} : letter'[l] = letter[l]
      /\ letter'[i] = NewLetter(c)
  BY Committed DEF Commit, Unsent, TypeOK
<1>4. NewLetter(c).sender = UserOf[c] /\ NewLetter(c).recipient = session[c].to
  BY DEF NewLetter
<1>5. CASE UserOf[c] = u /\ session[c].to = v
  <2>1. RecentTo(u, v)' \subseteq RecentTo(u, v) \cup {i}
    BY <1>3 DEF RecentTo, Recent, Sent, Travelling, Arrived
  <2>2. LateFrom(u, v)' \subseteq LateFrom(u, v) \cup {i}
    BY <1>3 DEF LateFrom, Sent, Travelling, Arrived
  <2>3. c \in Busy(u, v, steps)
    BY <1>1, <1>5 DEF Busy, Past, SessionsOf, To
  <2>4. Busy(u, v, steps)' = Busy(u, v, steps) \ {c}
    BY <1>1 DEF Busy, Past, SessionsOf, To
  <2>5. ASSUME NEW S, NEW T, IsFiniteSet(S), T \subseteq S \cup {i}
        PROVE  Cardinality(T) <= Cardinality(S) + 1
    <3>1. IsFiniteSet(S \cup {i}) /\ Cardinality(S \cup {i}) <= Cardinality(S) + 1
      <4>1. /\ IsFiniteSet(S \cup {i})
            /\ Cardinality(S \cup {i}) =
                 IF i \in S THEN Cardinality(S) ELSE Cardinality(S) + 1
        BY <2>5, FS_AddElement
      <4>2. Cardinality(S) \in Nat
        BY <2>5, FS_CardinalityType
      <4> QED BY <4>1, <4>2
    <3>2. Cardinality(T) <= Cardinality(S \cup {i}) /\ IsFiniteSet(T)
      BY <2>5, <3>1, FS_Subset
    <3>3. Cardinality(T) \in Nat /\ Cardinality(S) \in Nat /\ Cardinality(S \cup {i}) \in Nat
      BY <2>5, <3>1, <3>2, FS_CardinalityType
    <3> QED BY <3>1, <3>2, <3>3
  <2>6. Cardinality(Busy(u, v, steps)') = Cardinality(Busy(u, v, steps)) - 1
    <3>1. IsFiniteSet(Busy(u, v, steps))
      BY FiniteCounts
    <3>2. Cardinality(Busy(u, v, steps) \ {c}) = Cardinality(Busy(u, v, steps)) - 1
      BY <2>3, <3>1, FS_RemoveElement
    <3> QED BY <2>4, <3>2
  <2>7. Cardinality(RecentTo(u, v)') <= Cardinality(RecentTo(u, v)) + 1
    BY <2>1, <2>5, FiniteCounts
  <2>8. Cardinality(LateFrom(u, v)') <= Cardinality(LateFrom(u, v)) + 1
    BY <2>2, <2>5, FiniteCounts
  <2> QED BY <2>6, <2>7, <2>8
<1>6. CASE ~(UserOf[c] = u /\ session[c].to = v)
  <2>1. RecentTo(u, v)' \subseteq RecentTo(u, v)
    BY <1>3, <1>4, <1>6 DEF RecentTo, Recent, Sent, Travelling, Arrived
  <2>2. LateFrom(u, v)' \subseteq LateFrom(u, v)
    BY <1>3, <1>4, <1>6 DEF LateFrom, Sent, Travelling, Arrived
  <2> QED BY <2>1, <2>2, <1>2, FewerBusy
<1> QED BY <1>5, <1>6

(* A handler's step other than these two keeps to the handlers it finds past    *)
(* the pair count; one other than IsBlocked to those past the look for a block. *)
LEMMA Quiet ==
    ASSUME TypeOK, Underway, NEW c \in Sessions,
           \/ GiveUp(c) \/ IsContact(c) \/ HasReceivedFrom(c) \/ CheckTotalLimit(c)
           \/ InsertMessage(c) \/ AttachStamp(c) \/ DeadlockVictim(c) \/ Disconnect(c)
           \/ \E v \in Users \ {UserOf[c]}, order \in Orders : Request(c, v, order)
    PROVE  Fewer(Counted) /\ Fewer(Cleared) /\ UNCHANGED <<now, blocks, letter>>
<1> DEFINE Goal == Fewer(Counted) /\ Fewer(Cleared) /\ UNCHANGED <<now, blocks, letter>>
<1> USE DEF Counted, Cleared, Transaction
<1>1. CASE GiveUp(c)
  BY <1>1, GaveUp DEF Fewer, Idle
<1>2. ASSUME NEW pc \in Checks \cup Transaction, Advance(c, pc),
             pc \in Counted => session[c].pc \in Counted,
             pc \in Cleared => session[c].pc \in Cleared
      PROVE  Goal
  BY <1>2, Advanced DEF Fewer
<1>3. CASE IsContact(c)
  <2>1. \E pc \in {"blocked", "received"} : Advance(c, pc)
    BY <1>3 DEF IsContact
  <2> QED BY <2>1, <1>2 DEF Checks
<1>4. CASE HasReceivedFrom(c)
  <2>1. GiveUp(c) \/ Advance(c, "blocked")
    BY <1>4 DEF HasReceivedFrom, Check
  <2> QED BY <2>1, <1>1, <1>2 DEF Checks
<1>5. CASE CheckTotalLimit(c)
  <2>1. session[c].pc = "total" /\ (GiveUp(c) \/ Advance(c, "insert"))
    BY <1>5 DEF CheckTotalLimit, Check
  <2> QED BY <2>1, <1>1, <1>2 DEF Checks
<1>6. CASE InsertMessage(c)
  <2>1. session[c].pc = "insert" /\ UNCHANGED <<now, blocks, letter>>
    BY <1>6 DEF InsertMessage
  <2> QED BY <2>1, <1>6, Inserted DEF Fewer
<1>7. CASE AttachStamp(c)
  <2>1. CASE ~GiveUp(c)
    BY <1>7, <2>1, Attached DEF Fewer
  <2> QED BY <1>1, <2>1
<1>8. CASE DeadlockVictim(c) \/ Disconnect(c)
  BY <1>1, <1>8 DEF DeadlockVictim, Disconnect
<1>9. ASSUME NEW v \in Users \ {UserOf[c]}, NEW order \in Orders, Request(c, v, order)
      PROVE  Goal
  <2>1. /\ session'[c].pc = "contact" /\ UNCHANGED <<now, blocks, letter>>
        /\ \A d \in Sessions \ {c} : session'[d] = session[d]
    BY <1>9 DEF Request, Idle, TypeOK
  <2> QED BY <2>1 DEF Fewer
<1> QED BY <1>1, <1>3, <1>4, <1>5, <1>6, <1>7, <1>8, <1>9

(* What counts depends on the letters and the clock only. *)
LEMMA SameLetters ==
    ASSUME UNCHANGED letter, NEW u, NEW v
    PROVE  /\ now' = now => RecentTo(u, v)' = RecentTo(u, v)
           /\ LateFrom(u, v)' = LateFrom(u, v)
BY DEF RecentTo, Recent, LateFrom, Sent, Travelling, Arrived

(* A delivery changes no letter's sender, recipient or date. *)
LEMMA DeliveredAreSent ==
    ASSUME TypeOK, NEW due, DeliverMessages(due), NEW u, NEW v
    PROVE  /\ RecentTo(u, v)' \subseteq RecentTo(u, v) /\ LateFrom(u, v)' \subseteq LateFrom(u, v)
<1>1. letter \in [Letters -> Letter] /\ due \subseteq Travelling
  BY DEF TypeOK, DeliverMessages
<1>2. \A l \in Letters : letter'[l] = IF l \in due THEN [letter[l] EXCEPT !.status = "delivered"]
                                                  ELSE letter[l]
  BY DEF DeliverMessages
<1>3. \A l \in Letters :
        /\ letter'[l].recipient = letter[l].recipient /\ letter'[l].sender = letter[l].sender
        /\ letter'[l].late = letter[l].late /\ letter'[l].sentAt = letter[l].sentAt
  BY <1>1, <1>2 DEF Letter
<1>4. \A l \in Letters : l \in Sent' => l \in Sent
  BY <1>1, <1>2 DEF Sent, Travelling, Arrived
<1>5. now' = now /\ Sent \subseteq Letters /\ Sent' \subseteq Letters
  BY DEF DeliverMessages, Sent, Travelling, Arrived
<1>6. RecentTo(u, v)' \subseteq RecentTo(u, v)
  BY <1>3, <1>4, <1>5 DEF RecentTo, Recent
<1>7. LateFrom(u, v)' \subseteq LateFrom(u, v)
  BY <1>3, <1>4, <1>5 DEF LateFrom
<1> QED BY <1>6, <1>7

(* The bound for one recipient: a handler passes the count only while fewer     *)
(* letters than the limit are fresh, and there are no more handlers past it     *)
(* than handlers; later the handler's place goes to its letter.                *)
LEMMA NextPairLimit == IInv /\ [Next]_vars => PairLimitSlack'
<1> SUFFICES ASSUME IInv, [Next]_vars PROVE PairLimitSlack'
  OBVIOUS
<1>0. TypeOK /\ Underway /\ PairLimitSlack
  BY DEF IInv
<1>1. CASE Tick
  <2>1. \A l \in Letters : letter[l].sentAt \in Nat
    BY <1>0 DEF TypeOK, Letter
  <2>2. now \in Nat /\ now' = now + 1 /\ letter' = letter /\ session' = session
    BY <1>0, <1>1, SendAssumption DEF Tick, TypeOK
  <2>3. ASSUME NEW u \in Users, NEW v \in Users PROVE RecentTo(u, v)' \subseteq RecentTo(u, v)
    BY <2>1, <2>2, SendAssumption DEF RecentTo, Recent, Sent, Travelling, Arrived
  <2> QED BY <1>0, <2>2, <2>3, FewerPairs DEF Fewer
<1>2. CASE \/ \E u \in Served, v \in Users : AddContact(u, v) \/ DeleteContact(u, v)
           \/ \E u \in Users, v \in Served : BlockUser(u, v)
           \/ UNCHANGED vars
  <2>1. UNCHANGED <<now, letter, session>>
    BY <1>2 DEF AddContact, DeleteContact, BlockUser, vars
  <2> QED BY <1>0, <2>1, SameLetters, FewerPairs DEF Fewer
<1>3. ASSUME NEW due \in SUBSET Letters, DeliverMessages(due) PROVE PairLimitSlack'
  <2>1. Fewer(Counted)
    BY <1>3 DEF DeliverMessages, Fewer
  <2> QED BY <1>0, <1>3, <2>1, DeliveredAreSent, FewerPairs
<1>4. ASSUME NEW c \in Sessions,
             Fewer(Counted) /\ UNCHANGED <<now, blocks, letter>>
      PROVE  PairLimitSlack'
  BY <1>0, <1>4, SameLetters, FewerPairs
<1>5. ASSUME NEW c \in Sessions, IsBlocked(c) PROVE PairLimitSlack'
  <2>1. CASE GiveUp(c)
    BY <1>0, <1>4, <2>1, Quiet
  <2>2. CASE Advance(c, "pair")
    <3>1. Fewer(Counted) /\ UNCHANGED <<now, blocks, letter>>
      <4>1. session'[c].pc = "pair" /\ \A d \in Sessions \ {c} : session'[d] = session[d]
        BY <1>0, <2>2, Advanced DEF Checks
      <4> QED BY <2>2, <4>1 DEF Advance, Fewer, Counted, Transaction
    <3> QED BY <1>4, <3>1
  <2> QED BY <1>5, <2>1, <2>2 DEF IsBlocked, Check
<1>6. ASSUME NEW c \in Sessions, CheckPairLimit(c) PROVE PairLimitSlack'
  <2>1. CASE GiveUp(c)
    BY <1>0, <1>4, <2>1, Quiet
  <2>2. CASE /\ Advance(c, "total")
             /\ Cardinality(RecentTo(UserOf[c], session[c].to)) < PairLimit
    <3> SUFFICES ASSUME NEW u \in Users, NEW v \in Users
                 PROVE  Cardinality(RecentTo(u, v)') + Cardinality(Busy(u, v, Counted)')
                          < PairLimit + Cardinality(SessionsOf(u))
      BY DEF PairLimitSlack, Busy, Counted, SessionsOf
    <3>1. RecentTo(u, v)' = RecentTo(u, v)
      BY <2>2, SameLetters DEF Advance
    <3>2. CASE u = UserOf[c] /\ v = session[c].to
      <4>1. Cardinality(RecentTo(u, v)') < PairLimit
        BY <2>2, <3>1, <3>2
      <4>2. /\ Cardinality(RecentTo(u, v)') \in Nat
            /\ Cardinality(Busy(u, v, Counted)') <= Cardinality(SessionsOf(u))
            /\ Cardinality(Busy(u, v, Counted)') \in Nat /\ Cardinality(SessionsOf(u)) \in Nat
        BY FiniteCounts, FiniteCountsNext
      <4> QED BY <4>1, <4>2, SendAssumption
    <3>3. CASE ~(u = UserOf[c] /\ v = session[c].to)
      <4>1. session'[c].to = session[c].to /\ \A d \in Sessions \ {c} : session'[d] = session[d]
        BY <1>0, <2>2, Advanced DEF Checks
      <4>2. Busy(u, v, Counted)' \subseteq Busy(u, v, Counted)
        BY <3>3, <4>1 DEF Busy, Past, SessionsOf, To
      <4>3. Cardinality(Busy(u, v, Counted)') <= Cardinality(Busy(u, v, Counted))
        BY <4>2, FiniteCounts, FS_Subset
      <4>4. Cardinality(RecentTo(u, v)) + Cardinality(Busy(u, v, Counted))
              < PairLimit + Cardinality(SessionsOf(u))
        BY <1>0 DEF PairLimitSlack, Busy, Counted
      <4> QED BY <3>1, <4>3, <4>4, FiniteCounts, FiniteCountsNext, SendAssumption
    <3> QED BY <3>2, <3>3
  <2> QED BY <1>6, <2>1, <2>2 DEF CheckPairLimit, Check, Below
<1>7. ASSUME NEW c \in Sessions, Commit(c) PROVE PairLimitSlack'
  <2> SUFFICES ASSUME NEW u \in Users, NEW v \in Users
               PROVE  Cardinality(RecentTo(u, v)') + Cardinality(Busy(u, v, Counted)')
                        < PairLimit + Cardinality(SessionsOf(u))
    BY DEF PairLimitSlack, Busy, Counted, SessionsOf
  <2>1. Cardinality(RecentTo(u, v)) + Cardinality(Busy(u, v, Counted))
          < PairLimit + Cardinality(SessionsOf(u))
    BY <1>0 DEF PairLimitSlack, Busy, Counted
  <2>2. "commit" \in Counted /\ "idle" \notin Counted
    BY DEF Counted, Transaction
  <2>3. CASE /\ RecentTo(u, v)' \subseteq RecentTo(u, v)
             /\ Busy(u, v, Counted)' \subseteq Busy(u, v, Counted)
    <3>1. /\ Cardinality(RecentTo(u, v)') <= Cardinality(RecentTo(u, v))
          /\ Cardinality(Busy(u, v, Counted)') <= Cardinality(Busy(u, v, Counted))
      BY <2>3, FiniteCounts, FS_Subset
    <3> QED BY <2>1, <3>1, FiniteCounts, FiniteCountsNext, SendAssumption
  <2>4. CASE /\ Cardinality(RecentTo(u, v)') <= Cardinality(RecentTo(u, v)) + 1
             /\ Cardinality(Busy(u, v, Counted)') = Cardinality(Busy(u, v, Counted)) - 1
    BY <2>1, <2>4, FiniteCounts, FiniteCountsNext, SendAssumption
  <2> QED BY <1>0, <1>7, <2>2, <2>3, <2>4, TradesPlaces
<1>8. ASSUME NEW c \in Sessions,
             \/ IsContact(c) \/ HasReceivedFrom(c) \/ CheckTotalLimit(c)
             \/ InsertMessage(c) \/ AttachStamp(c) \/ DeadlockVictim(c) \/ Disconnect(c)
             \/ \E v \in Users \ {UserOf[c]}, order \in Orders : Request(c, v, order)
      PROVE  PairLimitSlack'
  BY <1>0, <1>4, <1>8, Quiet
<1> QED BY <1>1, <1>2, <1>3, <1>5, <1>6, <1>7, <1>8 DEF Next

(* The bound after a block: a handler that looks for the block afterwards stops,*)
(* and before there was one no letter was late.                                *)
LEMMA NextBlockSlack == IInv /\ [Next]_vars => BlockSlack'
<1> SUFFICES ASSUME IInv, [Next]_vars PROVE BlockSlack'
  OBVIOUS
<1>0. TypeOK /\ Underway /\ LateIsBlocked /\ BlockSlack
  BY DEF IInv
<1>1. CASE \/ Tick \/ UNCHANGED vars
           \/ \E u \in Served, v \in Users : AddContact(u, v) \/ DeleteContact(u, v)
  <2>1. UNCHANGED <<blocks, letter, session>>
    BY <1>1 DEF Tick, AddContact, DeleteContact, vars
  <2> QED BY <1>0, <2>1, SameLetters, FewerBlocked DEF Fewer
<1>2. ASSUME NEW x \in Users, NEW y \in Served, BlockUser(x, y) PROVE BlockSlack'
  <2>1. UNCHANGED <<letter, session>> /\ blocks' = blocks \cup {<<x, y>>}
    BY <1>2 DEF BlockUser
  <2> SUFFICES ASSUME NEW u \in Users, NEW v \in Users, <<v, u>> \in blocks'
               PROVE  Cardinality(LateFrom(u, v)') + Cardinality(Busy(u, v, Cleared)')
                        <= Cardinality(SessionsOf(u))
    BY DEF BlockSlack, Busy, Cleared, SessionsOf
  <2>2. LateFrom(u, v)' = LateFrom(u, v) /\ Busy(u, v, Cleared)' = Busy(u, v, Cleared)
    BY <2>1, SameLetters DEF Busy, Past, SessionsOf, To
  <2>3. CASE <<v, u>> \in blocks
    BY <1>0, <2>2, <2>3 DEF BlockSlack, Busy, Cleared
  <2>4. CASE <<v, u>> \notin blocks
    <3>1. LateFrom(u, v) = {}
      BY <1>0, <2>4 DEF LateIsBlocked, LateFrom, Sent, Travelling, Arrived
    <3>2. Cardinality(LateFrom(u, v)) = 0
      BY <3>1, FS_EmptySet
    <3> QED BY <2>2, <3>2, FiniteCounts
  <2> QED BY <2>3, <2>4
<1>3. ASSUME NEW due \in SUBSET Letters, DeliverMessages(due) PROVE BlockSlack'
  <2>1. Fewer(Cleared) /\ blocks' = blocks
    BY <1>3 DEF DeliverMessages, Fewer
  <2> QED BY <1>0, <1>3, <2>1, DeliveredAreSent, FewerBlocked
<1>4. ASSUME NEW c \in Sessions, Fewer(Cleared) /\ UNCHANGED <<now, blocks, letter>>
      PROVE  BlockSlack'
  BY <1>0, <1>4, SameLetters, FewerBlocked
<1>5. ASSUME NEW c \in Sessions, IsBlocked(c) PROVE BlockSlack'
  <2>1. CASE GiveUp(c)
    BY <1>0, <1>4, <2>1, Quiet
  <2>2. CASE Advance(c, "pair") /\ <<session[c].to, UserOf[c]>> \notin blocks
    <3>1. UNCHANGED <<letter, blocks>>
      BY <2>2 DEF Advance
    <3>2. session'[c].to = session[c].to /\ \A d \in Sessions \ {c} : session'[d] = session[d]
      BY <1>0, <2>2, Advanced DEF Checks
    <3> SUFFICES ASSUME NEW u \in Users, NEW v \in Users, <<v, u>> \in blocks
                 PROVE  Cardinality(LateFrom(u, v)') + Cardinality(Busy(u, v, Cleared)')
                          <= Cardinality(SessionsOf(u))
      BY <3>1 DEF BlockSlack, Busy, Cleared, SessionsOf
    <3>3. LateFrom(u, v)' = LateFrom(u, v)
      BY <3>1, SameLetters
    <3>4. ~(u = UserOf[c] /\ v = session[c].to)
      BY <2>2
    <3>5. Busy(u, v, Cleared)' \subseteq Busy(u, v, Cleared)
      BY <3>2, <3>4 DEF Busy, Past, SessionsOf, To
    <3>6. Cardinality(Busy(u, v, Cleared)') <= Cardinality(Busy(u, v, Cleared))
      BY <3>5, FiniteCounts, FS_Subset
    <3>7. Cardinality(LateFrom(u, v)) + Cardinality(Busy(u, v, Cleared))
            <= Cardinality(SessionsOf(u))
      BY <1>0 DEF BlockSlack, Busy, Cleared
    <3> QED BY <3>3, <3>6, <3>7, FiniteCounts, FiniteCountsNext
  <2> QED BY <1>5, <2>1, <2>2 DEF IsBlocked, Check
<1>6. ASSUME NEW c \in Sessions, CheckPairLimit(c) PROVE BlockSlack'
  <2>1. CASE GiveUp(c)
    BY <1>0, <1>4, <2>1, Quiet
  <2>2. CASE Advance(c, "total")
    <3>1. /\ session[c].pc = "pair" /\ session'[c].to = session[c].to
          /\ \A d \in Sessions \ {c} : session'[d] = session[d]
      BY <1>0, <1>6, <2>2, Advanced DEF CheckPairLimit, Check, Checks
    <3>2. Fewer(Cleared) /\ UNCHANGED <<now, blocks, letter>>
      BY <2>2, <3>1 DEF Advance, Fewer, Cleared
    <3> QED BY <1>4, <3>2
  <2> QED BY <1>6, <2>1, <2>2 DEF CheckPairLimit, Check
<1>7. ASSUME NEW c \in Sessions, Commit(c) PROVE BlockSlack'
  <2>1. blocks' = blocks
    BY <1>7 DEF Commit
  <2> SUFFICES ASSUME NEW u \in Users, NEW v \in Users, <<v, u>> \in blocks
               PROVE  Cardinality(LateFrom(u, v)') + Cardinality(Busy(u, v, Cleared)')
                        <= Cardinality(SessionsOf(u))
    BY <2>1 DEF BlockSlack, Busy, Cleared, SessionsOf
  <2>2. Cardinality(LateFrom(u, v)) + Cardinality(Busy(u, v, Cleared))
          <= Cardinality(SessionsOf(u))
    BY <1>0 DEF BlockSlack, Busy, Cleared
  <2>3. "commit" \in Cleared /\ "idle" \notin Cleared
    BY DEF Cleared, Transaction
  <2>4. CASE /\ LateFrom(u, v)' \subseteq LateFrom(u, v)
             /\ Busy(u, v, Cleared)' \subseteq Busy(u, v, Cleared)
    <3>1. /\ Cardinality(LateFrom(u, v)') <= Cardinality(LateFrom(u, v))
          /\ Cardinality(Busy(u, v, Cleared)') <= Cardinality(Busy(u, v, Cleared))
      BY <2>4, FiniteCounts, FS_Subset
    <3> QED BY <2>2, <3>1, FiniteCounts, FiniteCountsNext
  <2>5. CASE /\ Cardinality(LateFrom(u, v)') <= Cardinality(LateFrom(u, v)) + 1
             /\ Cardinality(Busy(u, v, Cleared)') = Cardinality(Busy(u, v, Cleared)) - 1
    BY <2>2, <2>5, FiniteCounts, FiniteCountsNext
  <2> QED BY <1>0, <1>7, <2>3, <2>4, <2>5, TradesPlaces
<1>8. ASSUME NEW c \in Sessions,
             \/ IsContact(c) \/ HasReceivedFrom(c) \/ CheckTotalLimit(c)
             \/ InsertMessage(c) \/ AttachStamp(c) \/ DeadlockVictim(c) \/ Disconnect(c)
             \/ \E v \in Users \ {UserOf[c]}, order \in Orders : Request(c, v, order)
      PROVE  BlockSlack'
  BY <1>0, <1>4, <1>8, Quiet
<1> QED BY <1>1, <1>2, <1>3, <1>5, <1>6, <1>7, <1>8 DEF Next

LEMMA Invariance == Spec => []IInv
<1>1. IInv /\ [Next]_vars => IInv'
  BY NextTypes, NextPairLimit, NextBlockSlack DEF IInv
<1> QED BY InitIInv, <1>1, PTL DEF Spec

(* Every variable keeps its type. *)
THEOREM TypeCorrect == Spec => []TypeOK
<1>1. IInv => TypeOK
  BY DEF IInv
<1> QED BY Invariance, <1>1, PTL

(* The daily limit for one recipient (CheckRateLimit) is overrun by fewer        *)
(* letters than the sender has handlers at work, however their counts and       *)
(* transactions interleave.                                                    *)
THEOREM ThePairLimitGivesWay == Spec => []PairLimitSlack
<1>1. IInv => PairLimitSlack
  BY DEF IInv
<1> QED BY Invariance, <1>1, PTL

(* After a block no more letters get through than the sender had handlers at     *)
(* work on, whenever the block comes.                                          *)
THEOREM ABlockHolds == Spec => []BlockSlack
<1>1. IInv => BlockSlack
  BY DEF IInv
<1> QED BY Invariance, <1>1, PTL
-----------------------------------------------------------------------------
(* The stamps on their way: a handler's transaction has the rows of the stamps  *)
(* it attached, which are its user's; and a stamp without an owner is on one     *)
(* travelling letter.                                                            *)
Holds(c) == \A s \in session[c].attached : rowLock[s] = c /\ owner[s] = UserOf[c]
Carried ==
    /\ \A l \in Travelling : \A s \in letter[l].stamps : owner[s] = InMail
    /\ \A l, m \in Travelling : \A s \in Stamps : s \in letter[l].stamps /\ s \in letter[m].stamps => l = m
    /\ \A s \in Stamps : owner[s] = InMail => \E l \in Travelling : s \in letter[l].stamps
Custody == Carried /\ \A c \in Sessions : Holds(c)

(* At the start no stamp is on its way. *)
LEMMA InitCustody == Init => Custody
<1> SUFFICES ASSUME Init PROVE Custody
  OBVIOUS
<1>1. \A c \in Sessions : session[c].attached = {}
  BY DEF Init, Idle
<1>2. Travelling = {}
  <2>1. \A l \in Letters : NoLetters[l].status = "unsent"
    BY DEF NoLetters, Blank
  <2>2. ASSUME NEW u \in Served, NEW v \in Users, NEW i,
               letter = [NoLetters EXCEPT ![i] = Old(v, u)]
        PROVE  \A l \in Letters : letter[l].status # "in_transit"
    <3>1. Old(v, u).status = "delivered"
      BY DEF Old
    <3>2. \A l \in Letters : letter[l] = NoLetters[l] \/ letter[l] = Old(v, u)
      BY <2>2 DEF NoLetters
    <3> QED BY <2>1, <3>1, <3>2
  <2> QED BY <2>1, <2>2 DEF Init, Travelling
<1>3. \A s \in Stamps : owner[s] # InMail
  BY SendAssumption DEF Init
<1> QED BY <1>1, <1>2, <1>3 DEF Custody, Carried, Holds

(* What a delivery leaves of the letters and gives to their recipients. *)
LEMMA Delivered ==
    ASSUME TypeOK, Custody, NEW due \in SUBSET Letters, DeliverMessages(due)
    PROVE  /\ Travelling' = Travelling \ due /\ Arrived' = Arrived \cup due /\ due \subseteq Travelling
           /\ \A l \in Letters : /\ letter'[l].stamps = letter[l].stamps
                                 /\ letter'[l].sender = letter[l].sender
                                 /\ letter'[l].recipient = letter[l].recipient
           /\ \A l \in due : \A s \in letter[l].stamps : owner'[s] = letter[l].recipient
           /\ \A s \in Stamps : (\A l \in due : s \notin letter[l].stamps) => owner'[s] = owner[s]
<1>1. letter \in [Letters -> Letter] /\ due \subseteq Travelling
  BY DEF TypeOK, DeliverMessages
<1>2. \A l \in Letters : letter'[l] = IF l \in due THEN [letter[l] EXCEPT !.status = "delivered"]
                                                  ELSE letter[l]
  BY DEF DeliverMessages
<1>3. \A l \in Letters : /\ letter'[l].stamps = letter[l].stamps
                         /\ letter'[l].sender = letter[l].sender
                         /\ letter'[l].recipient = letter[l].recipient
                         /\ letter'[l].status = IF l \in due THEN "delivered" ELSE letter[l].status
  BY <1>1, <1>2 DEF Letter
<1>4. Travelling' = Travelling \ due /\ Arrived' = Arrived \cup due
  BY <1>1, <1>3 DEF Travelling, Arrived
<1>5. \A s \in Stamps : owner'[s] = IF \E l \in due : s \in letter[l].stamps
                                     THEN letter[CHOOSE l \in due : s \in letter[l].stamps].recipient ELSE owner[s]
  BY DEF DeliverMessages
<1>6. ASSUME NEW l \in due, NEW s \in letter[l].stamps PROVE owner'[s] = letter[l].recipient
  <2>1. s \in Stamps
    BY <1>1 DEF Letter
  <2>2. \A m \in due : s \in letter[m].stamps <=> m = l
    BY <1>1, <2>1 DEF Custody, Carried
  <2>3. (CHOOSE m \in due : s \in letter[m].stamps) = l
    BY <2>2
  <2> QED BY <1>5, <2>1, <2>3
<1> QED BY <1>1, <1>3, <1>4, <1>5, <1>6

(* What a commit stores, and where the stamps go. *)
LEMMA Stored ==
    ASSUME TypeOK, Underway, NEW c \in Sessions, Commit(c)
    PROVE  \E f \in Unsent :
              /\ Travelling' = Travelling \cup {f} /\ Arrived' = Arrived /\ f \in Letters
              /\ letter'[f] = NewLetter(c) /\ \A l \in Letters \ {f} : letter'[l] = letter[l]
              /\ \A s \in Stamps : owner'[s] = IF s \in session[c].attached THEN InMail ELSE owner[s]
              /\ session[c].to \in Users /\ session[c].attached \subseteq Stamps
<1>1. PICK f : f = Fresh
  OBVIOUS
<1>2. /\ f \in Unsent /\ letter' = [letter EXCEPT ![f] = NewLetter(c)]
      /\ letter \in [Letters -> Letter] /\ f \in Letters
  BY <1>1, Committed DEF TypeOK, Unsent
<1>3. letter'[f] = NewLetter(c) /\ \A l \in Letters \ {f} : letter'[l] = letter[l]
  BY <1>2
<1>4. NewLetter(c).status = "in_transit" /\ f \notin Travelling /\ f \notin Arrived
  BY <1>2 DEF NewLetter, Unsent, Sent
<1>5. Travelling' = Travelling \cup {f} /\ Arrived' = Arrived
  BY <1>2, <1>3, <1>4 DEF Travelling, Arrived
<1>6. session[c].to \in Users /\ session[c].attached \subseteq Stamps
  BY DEF TypeOK, Session, Underway, Commit
<1> QED BY <1>2, <1>3, <1>5, <1>6 DEF Commit

(* The stamps that transactions hold stay theirs, whatever other handlers do. *)
LEMMA NextHolds ==
    ASSUME TypeOK, Underway, Custody, [Next]_vars, NEW d \in Sessions
    PROVE  Holds(d)'
<1>0. /\ session \in [Sessions -> Session] /\ \A c \in Sessions : session[c].attached \subseteq Stamps
      /\ rowLock \in [Stamps -> Sessions \cup {Free}] /\ owner \in [Stamps -> Users \cup {InMail}]
      /\ Free \notin Sessions /\ InMail \notin Users /\ UserOf[d] \in Users /\ Holds(d)
  <2>1. \A c \in Sessions : session[c].attached \subseteq Stamps
    BY DEF TypeOK, Session
  <2> QED BY <2>1, SendAssumption DEF TypeOK, Custody
<1>1. ASSUME session'[d].attached \subseteq session[d].attached, owner' = owner,
             \A s \in Stamps : rowLock[s] = d => rowLock'[s] = d
      PROVE  Holds(d)'
  BY <1>0, <1>1 DEF Holds
<1>2. ASSUME NEW c \in Sessions, GiveUp(c) PROVE Holds(d)'
  <2>1. session'[c] = Idle /\ owner' = owner /\ \A e \in Sessions \ {c} : session'[e] = session[e]
    BY <1>2, GaveUp
  <2>2. CASE c = d
    BY <2>1, <2>2 DEF Holds, Idle
  <2>3. CASE c # d
    <3>1. \A s \in Stamps : rowLock[s] = d => rowLock'[s] = d
      BY <1>0, <1>2, <2>3 DEF GiveUp, Unlocked
    <3> QED BY <1>1, <2>1, <2>3, <3>1
  <2> QED BY <2>2, <2>3
<1>3. ASSUME NEW c \in Sessions, NEW pc, Advance(c, pc) PROVE Holds(d)'
  <2>1. session' = [session EXCEPT ![c] = [session[c] EXCEPT !.pc = pc]] /\ UNCHANGED <<owner, rowLock>>
    BY <1>0, <1>3 DEF Advance
  <2>2. session'[d].attached = session[d].attached
    BY <1>0, <2>1 DEF Session
  <2> QED BY <1>1, <2>1, <2>2
<1>4. ASSUME NEW c \in Sessions, InsertMessage(c) PROVE Holds(d)'
  <2>1. /\ session' = [session EXCEPT ![c] = [session[c] EXCEPT !.pc = "attach", !.next = 1, !.begun = now]]
        /\ UNCHANGED <<owner, rowLock>>
    BY <1>0, <1>4 DEF InsertMessage
  <2>2. session'[d].attached = session[d].attached
    BY <1>0, <2>1 DEF Session
  <2> QED BY <1>1, <2>1, <2>2
<1>5. ASSUME NEW c \in Sessions, NEW v, NEW order, Request(c, v, order) PROVE Holds(d)'
  <2>1. /\ session' = [session EXCEPT ![c] = [Idle EXCEPT !.pc = "contact", !.to = v, !.order = order]]
        /\ UNCHANGED <<owner, rowLock>>
    BY <1>5 DEF Request
  <2>2. [Idle EXCEPT !.pc = "contact", !.to = v, !.order = order].attached = {}
    BY DEF Idle
  <2>3. session'[d].attached \subseteq session[d].attached
    BY <1>0, <2>1, <2>2
  <2> QED BY <1>1, <2>1, <2>3
<1>6. ASSUME NEW c \in Sessions, AttachStamp(c) PROVE Holds(d)'
  <2>1. CASE GiveUp(c)
    BY <1>2, <2>1
  <2>2. CASE ~GiveUp(c)
    <3>1. PICK s : s = NextStamp(c)
      OBVIOUS
    <3>2. session[c].pc = "attach" /\ rowLock[s] \in {Free, c} /\ owner[s] = UserOf[c] /\ owner' = owner
          /\ rowLock' = [rowLock EXCEPT ![s] = c]
      BY <1>6, <2>2, <3>1 DEF AttachStamp, MayLock, OwnsNext
    <3>3. s \in Stamps
      BY <3>1, <3>2, NextStampIsOne
    <3>4. \A t \in Stamps : rowLock'[t] = IF t = s THEN c ELSE rowLock[t]
      BY <1>0, <3>2, <3>3
    <3>5. CASE c = d
      <4>1. PICK pc : pc = IF session[c].next = Len(session[c].order) THEN "commit" ELSE "attach"
        OBVIOUS
      <4>2. session' = [session EXCEPT ![c] =
                [session[c] EXCEPT !.pc = pc, !.next = @ + 1, !.attached = @ \cup {s}]]
        BY <1>0, <1>6, <2>2, <3>1, <4>1 DEF AttachStamp
      <4>3. session'[d].attached = session[d].attached \cup {s}
        BY <1>0, <3>5, <4>2 DEF Session
      <4> QED BY <1>0, <3>2, <3>3, <3>4, <3>5, <4>3 DEF Holds
    <3>6. CASE c # d
      <4>1. session'[d] = session[d]
        BY <1>6, <2>2, <3>6, Attached
      <4>2. \A t \in Stamps : rowLock[t] = d => rowLock'[t] = d
        BY <1>0, <3>2, <3>4, <3>6
      <4> QED BY <1>1, <3>2, <4>1, <4>2
    <3> QED BY <3>5, <3>6
  <2> QED BY <2>1, <2>2
<1>7. ASSUME NEW c \in Sessions, Commit(c) PROVE Holds(d)'
  <2>1. session'[c] = Idle /\ \A e \in Sessions \ {c} : session'[e] = session[e]
    BY <1>7, Committed
  <2>2. \A s \in Stamps : owner'[s] = IF s \in session[c].attached THEN InMail ELSE owner[s]
    BY <1>7 DEF Commit
  <2>3. \A s \in Stamps : rowLock'[s] = IF rowLock[s] = c THEN Free ELSE rowLock[s]
    BY <1>7 DEF Commit, Unlocked
  <2>4. CASE c = d
    BY <2>1, <2>4 DEF Holds, Idle
  <2>5. CASE c # d
    <3>1. Holds(c)
      BY DEF Custody
    <3> QED BY <1>0, <2>1, <2>2, <2>3, <2>5, <3>1 DEF Holds
  <2> QED BY <2>4, <2>5
<1>8. ASSUME NEW due \in SUBSET Letters, DeliverMessages(due) PROVE Holds(d)'
  <2>1. UNCHANGED <<rowLock, session>>
    BY <1>8 DEF DeliverMessages
  <2>2. ASSUME NEW s \in session[d].attached PROVE owner'[s] = owner[s]
    <3>1. s \in Stamps /\ owner[s] # InMail
      BY <1>0, <2>2 DEF Holds
    <3>2. \A l \in due : s \notin letter[l].stamps
      BY <1>8, <3>1, Delivered DEF Custody, Carried
    <3> QED BY <1>8, <3>1, <3>2, Delivered
  <2> QED BY <1>0, <2>1, <2>2 DEF Holds
<1>9. CASE \/ Tick \/ UNCHANGED vars
           \/ \E u \in Served, v \in Users : AddContact(u, v) \/ DeleteContact(u, v)
           \/ \E u \in Users, v \in Served : BlockUser(u, v)
  <2>1. UNCHANGED <<owner, rowLock, session>>
    BY <1>9 DEF Tick, vars, AddContact, DeleteContact, BlockUser
  <2> QED BY <1>1, <2>1
<1>10. ASSUME NEW c \in Sessions,
              IsContact(c) \/ HasReceivedFrom(c) \/ IsBlocked(c) \/ CheckPairLimit(c) \/ CheckTotalLimit(c)
       PROVE  Holds(d)'
  <2>1. GiveUp(c) \/ \E pc : Advance(c, pc)
    BY <1>10 DEF IsContact, HasReceivedFrom, IsBlocked, CheckPairLimit, CheckTotalLimit, Check
  <2> QED BY <1>2, <1>3, <2>1
<1>11. ASSUME NEW c \in Sessions, DeadlockVictim(c) \/ Disconnect(c) PROVE Holds(d)'
  BY <1>2, <1>11 DEF DeadlockVictim, Disconnect
<1> QED BY <1>4, <1>5, <1>6, <1>7, <1>8, <1>9, <1>10, <1>11 DEF Next

(* Only a commit and a delivery change letters and owners. *)
LEMMA OnlyPost ==
    ASSUME TypeOK, [Next]_vars
    PROVE  \/ UNCHANGED <<owner, letter>>
           \/ \E c \in Sessions : Commit(c)
           \/ \E due \in SUBSET Letters : DeliverMessages(due)
<1>1. ASSUME NEW c \in Sessions, GiveUp(c) \/ \E pc : Advance(c, pc) PROVE UNCHANGED <<owner, letter>>
  BY <1>1 DEF GiveUp, Advance
<1>2. ASSUME NEW c \in Sessions,
             IsContact(c) \/ HasReceivedFrom(c) \/ IsBlocked(c) \/ CheckPairLimit(c) \/ CheckTotalLimit(c)
      PROVE  UNCHANGED <<owner, letter>>
  BY <1>1, <1>2 DEF IsContact, HasReceivedFrom, IsBlocked, CheckPairLimit, CheckTotalLimit, Check
<1>3. ASSUME NEW c \in Sessions, InsertMessage(c) \/ AttachStamp(c) \/ DeadlockVictim(c) \/ Disconnect(c)
      PROVE  UNCHANGED <<owner, letter>>
  BY <1>1, <1>3 DEF InsertMessage, AttachStamp, DeadlockVictim, Disconnect
<1>4. CASE \E c \in Sessions, v \in Users, order \in Orders : Request(c, v, order)
  BY <1>4 DEF Request
<1>5. CASE \/ Tick \/ UNCHANGED vars
           \/ \E u \in Served, v \in Users : AddContact(u, v) \/ DeleteContact(u, v)
           \/ \E u \in Users, v \in Served : BlockUser(u, v)
  BY <1>5 DEF Tick, vars, AddContact, DeleteContact, BlockUser
<1> QED BY <1>2, <1>3, <1>4, <1>5 DEF Next

(* Each step leaves a stamp without an owner on one travelling letter. *)
LEMMA NextCustody == TypeOK /\ Underway /\ Addressed /\ Custody /\ [Next]_vars => Custody'
<1> SUFFICES ASSUME TypeOK, Underway, Addressed, Custody, [Next]_vars PROVE Custody'
  OBVIOUS
<1>0. Carried /\ letter \in [Letters -> Letter] /\ Travelling \subseteq Letters
      /\ \A l \in Letters : letter[l].stamps \subseteq Stamps
  <2>1. \A l \in Letters : letter[l].stamps \subseteq Stamps
    BY DEF TypeOK, Letter
  <2> QED BY <2>1 DEF Custody, TypeOK, Travelling
<1>1. ASSUME UNCHANGED <<owner, letter>> PROVE Carried'
  BY <1>0, <1>1 DEF Carried, Travelling
<1>2. ASSUME NEW c \in Sessions, Commit(c) PROVE Carried'
  <2>1. PICK f \in Unsent :
              /\ Travelling' = Travelling \cup {f} /\ f \in Letters
              /\ letter'[f] = NewLetter(c) /\ \A l \in Letters \ {f} : letter'[l] = letter[l]
              /\ \A s \in Stamps : owner'[s] = IF s \in session[c].attached THEN InMail ELSE owner[s]
              /\ session[c].attached \subseteq Stamps
    BY <1>2, Stored
  <2>2. letter'[f].stamps = session[c].attached /\ f \notin Travelling
    BY <2>1 DEF NewLetter, Unsent, Sent
  <2>3. \A s \in session[c].attached : owner[s] # InMail
    BY SendAssumption DEF Custody, Holds
  <2>4. \A l \in Travelling : letter'[l] = letter[l]
    BY <1>0, <2>1, <2>2
  <2>5. \A l \in Travelling' : \A s \in letter'[l].stamps : owner'[s] = InMail
    BY <1>0, <2>1, <2>2, <2>4 DEF Carried
  <2>6. ASSUME NEW l \in Travelling', NEW m \in Travelling', NEW s \in Stamps,
               s \in letter'[l].stamps, s \in letter'[m].stamps
        PROVE  l = m
    <3>1. CASE l = f \/ m = f
      BY <1>0, <2>1, <2>2, <2>3, <2>4, <2>6, <3>1 DEF Carried
    <3>2. CASE l # f /\ m # f
      BY <1>0, <2>1, <2>4, <2>6, <3>2 DEF Carried
    <3> QED BY <3>1, <3>2
  <2>7. ASSUME NEW s \in Stamps, owner'[s] = InMail PROVE \E l \in Travelling' : s \in letter'[l].stamps
    <3>1. CASE s \in session[c].attached
      BY <2>1, <2>2, <3>1
    <3>2. CASE s \notin session[c].attached
      BY <1>0, <2>1, <2>4, <2>7, <3>2 DEF Carried
    <3> QED BY <3>1, <3>2
  <2> QED BY <2>5, <2>6, <2>7 DEF Carried
<1>3. ASSUME NEW due \in SUBSET Letters, DeliverMessages(due) PROVE Carried'
  <2>1. /\ Travelling' = Travelling \ due /\ due \subseteq Travelling
        /\ \A l \in Letters : letter'[l].stamps = letter[l].stamps /\ letter'[l].recipient = letter[l].recipient
        /\ \A l \in due : \A s \in letter[l].stamps : owner'[s] = letter[l].recipient
        /\ \A s \in Stamps : (\A l \in due : s \notin letter[l].stamps) => owner'[s] = owner[s]
    BY <1>3, Delivered
  <2>2. \A l \in due : letter[l].recipient # InMail
    BY <2>1, SendAssumption DEF Addressed, Travelling
  <2>3. ASSUME NEW l \in Travelling', NEW s \in letter'[l].stamps PROVE owner'[s] = InMail
    <3>1. l \in Travelling /\ l \notin due /\ s \in letter[l].stamps /\ s \in Stamps
      BY <1>0, <2>1
    <3>2. \A m \in due : s \notin letter[m].stamps
      BY <1>0, <2>1, <3>1 DEF Carried
    <3> QED BY <1>0, <2>1, <3>1, <3>2 DEF Carried
  <2>4. \A l, m \in Travelling' : \A s \in Stamps : s \in letter'[l].stamps /\ s \in letter'[m].stamps => l = m
    BY <1>0, <2>1 DEF Carried
  <2>5. ASSUME NEW s \in Stamps, owner'[s] = InMail PROVE \E l \in Travelling' : s \in letter'[l].stamps
    <3>1. \A l \in due : s \notin letter[l].stamps
      BY <2>1, <2>2, <2>5
    <3>2. PICK l \in Travelling : s \in letter[l].stamps
      BY <1>0, <2>1, <2>5, <3>1 DEF Carried
    <3> QED BY <1>0, <2>1, <3>1, <3>2
  <2> QED BY <2>3, <2>4, <2>5 DEF Carried
<1>4. Carried'
  BY <1>1, <1>2, <1>3, OnlyPost
<1>5. \A c \in Sessions : Holds(c)'
  BY NextHolds
<1> QED BY <1>4, <1>5 DEF Custody

LEMMA CustodyHolds == Spec => [](IInv /\ Custody)
<1>1. Init => IInv /\ Custody
  BY InitIInv, InitCustody
<1>2. IInv /\ Custody /\ [Next]_vars => IInv' /\ Custody'
  BY NextTypes, NextPairLimit, NextBlockSlack, NextCustody DEF IInv
<1> QED BY <1>1, <1>2, PTL DEF Spec

(* Where a stamp is. *)
LEMMA PlaceIs ==
    ASSUME Carried, NEW s \in Stamps
    PROVE  /\ owner[s] # InMail => Place(s) = owner[s]
           /\ \A l \in Travelling : s \in letter[l].stamps => Place(s) = l
<1>1. owner[s] # InMail => Place(s) = owner[s]
  BY DEF Place
<1>2. ASSUME NEW l \in Travelling, s \in letter[l].stamps PROVE Place(s) = l
  <2>1. owner[s] = InMail /\ \A m \in Travelling : s \in letter[m].stamps <=> m = l
    BY <1>2 DEF Carried
  <2>2. (CHOOSE m \in Travelling : s \in letter[m].stamps) = l
    BY <2>1
  <2> QED BY <2>1, <2>2 DEF Place
<1> QED BY <1>1, <1>2

LEMMA PlaceIsNext ==
    ASSUME Carried', NEW s \in Stamps
    PROVE  /\ owner'[s] # InMail => Place(s)' = owner'[s]
           /\ \A l \in Travelling' : s \in letter'[l].stamps => Place(s)' = l
<1>1. owner'[s] # InMail => Place(s)' = owner'[s]
  BY DEF Place
<1>2. ASSUME NEW l \in Travelling', s \in letter'[l].stamps PROVE Place(s)' = l
  <2>1. owner'[s] = InMail /\ \A m \in Travelling' : s \in letter'[m].stamps <=> m = l
    BY <1>2 DEF Carried
  <2>2. (CHOOSE m \in Travelling' : s \in letter'[m].stamps) = l
    BY <2>1
  <2> QED BY <2>1, <2>2 DEF Place
<1> QED BY <1>1, <1>2

Address(l) == IF l \in Sent THEN <<letter[l].sender, letter[l].recipient>> ELSE <<>>

(* A commit posts one letter with all its stamps, taken from the sender's album. *)
LEMMA CommitPosts ==
    ASSUME TypeOK, Underway, Custody, Custody', NEW c \in Sessions, Commit(c)
    PROVE  Promise!Next
<1>1. PICK f \in Unsent :
              /\ Travelling' = Travelling \cup {f} /\ Arrived' = Arrived /\ f \in Letters
              /\ letter'[f] = NewLetter(c) /\ \A l \in Letters \ {f} : letter'[l] = letter[l]
              /\ \A s \in Stamps : owner'[s] = IF s \in session[c].attached THEN InMail ELSE owner[s]
              /\ session[c].to \in Users /\ session[c].attached \subseteq Stamps
  BY Stored
<1>2. PICK u, v, S : u = UserOf[c] /\ v = session[c].to /\ S = session[c].attached
  OBVIOUS
<1>3. u \in Users /\ v \in Users /\ S \in SUBSET Stamps /\ u # InMail
  BY <1>1, <1>2, SendAssumption
<1>4. letter'[f].stamps = S /\ letter'[f].sender = u /\ letter'[f].recipient = v
  BY <1>1, <1>2 DEF NewLetter
<1>5. f \notin Sent /\ Sent' = Sent \cup {f} /\ Sent \subseteq Letters /\ Travelling \subseteq Sent
  BY <1>1 DEF Unsent, Sent, Travelling, Arrived
<1>6. ASSUME NEW l \in Letters PROVE Address(l)' = IF l = f THEN <<u, v>> ELSE Address(l)
  BY <1>1, <1>4, <1>5 DEF Address
<1>7. ASSUME NEW s \in S PROVE Place(s) = u
  <2>1. owner[s] = u /\ s \in Stamps
    BY <1>2, <1>3 DEF Custody, Holds
  <2> QED BY <1>3, <2>1, PlaceIs DEF Custody
<1>8. ASSUME NEW s \in Stamps PROVE Place(s)' = IF s \in S THEN f ELSE Place(s)
  <2>1. CASE s \in S
    BY <1>1, <1>4, <2>1, PlaceIsNext DEF Custody
  <2>2. CASE s \notin S /\ owner[s] # InMail
    BY <1>1, <1>2, <2>2, PlaceIs, PlaceIsNext DEF Custody
  <2>3. CASE s \notin S /\ owner[s] = InMail
    <3>1. PICK l \in Travelling : s \in letter[l].stamps
      BY <2>3 DEF Custody, Carried
    <3>2. l \in Travelling' /\ letter'[l] = letter[l]
      BY <1>1, <1>5, <3>1
    <3> QED BY <2>3, <3>1, <3>2, PlaceIs, PlaceIsNext DEF Custody
  <2> QED BY <2>1, <2>2, <2>3
<1>9. Address(f) = <<>>
  BY <1>5 DEF Address
<1>10. Promise!Post(f, u, v, S)
  <2>1. f \notin Promise!Posted
    BY <1>9 DEF Promise!Posted, Address
  <2>2. \A s \in S : [t \in Stamps |-> Place(t)][s] = u
    BY <1>3, <1>7
  <2>3. [l \in Letters |-> Address(l)]' = [[l \in Letters |-> Address(l)] EXCEPT ![f] = <<u, v>>]
    BY <1>1, <1>6
  <2>4. [s \in Stamps |-> Place(s)]' = [s \in Stamps |-> IF s \in S THEN f ELSE [t \in Stamps |-> Place(t)][s]]
    BY <1>8
  <2> QED BY <1>1, <2>1, <2>2, <2>3, <2>4 DEF Promise!Post, Address
<1> QED BY <1>1, <1>3, <1>10 DEF Promise!Next

(* A delivery brings the letters' stamps into their recipients' albums. *)
LEMMA DeliveryArrives ==
    ASSUME TypeOK, Addressed, Custody, Custody', NEW due \in SUBSET Letters, DeliverMessages(due)
    PROVE  Promise!Next
<1>1. /\ Travelling' = Travelling \ due /\ Arrived' = Arrived \cup due /\ due \subseteq Travelling
      /\ \A l \in Letters : /\ letter'[l].stamps = letter[l].stamps
                            /\ letter'[l].sender = letter[l].sender
                            /\ letter'[l].recipient = letter[l].recipient
      /\ \A l \in due : \A s \in letter[l].stamps : owner'[s] = letter[l].recipient
      /\ \A s \in Stamps : (\A l \in due : s \notin letter[l].stamps) => owner'[s] = owner[s]
  BY Delivered
<1>2. Sent' = Sent /\ due # {} /\ due \subseteq Sent \ Arrived /\ Sent \subseteq Letters
  BY <1>1 DEF Sent, Travelling, Arrived, DeliverMessages
<1>3. ASSUME NEW l \in Letters PROVE Address(l)' = Address(l)
  BY <1>1, <1>2 DEF Address
<1>4. ASSUME NEW s \in Stamps
      PROVE  Place(s)' = IF Place(s) \in due THEN Address(Place(s))[2] ELSE Place(s)
  <2>1. ASSUME NEW l \in due, s \in letter[l].stamps
        PROVE  Place(s)' = IF Place(s) \in due THEN Address(Place(s))[2] ELSE Place(s)
    <3>1. Place(s) = l
      BY <1>1, <2>1, PlaceIs DEF Custody
    <3>2. owner'[s] = letter[l].recipient /\ letter[l].recipient # InMail
      BY <1>1, <2>1, SendAssumption DEF Addressed, Travelling
    <3>3. Address(l)[2] = letter[l].recipient
      BY <1>2 DEF Address
    <3> QED BY <3>1, <3>2, <3>3, PlaceIsNext DEF Custody
  <2>2. CASE (\A l \in due : s \notin letter[l].stamps) /\ owner[s] = InMail
    <3>1. PICK l \in Travelling : s \in letter[l].stamps
      BY <2>2 DEF Custody, Carried
    <3>2. l \notin due /\ l \in Travelling' /\ s \in letter'[l].stamps
      BY <1>1, <2>2, <3>1 DEF Travelling
    <3> QED BY <3>1, <3>2, PlaceIs, PlaceIsNext DEF Custody
  <2>3. CASE (\A l \in due : s \notin letter[l].stamps) /\ owner[s] # InMail
    <3>1. Place(s) = owner[s] /\ Place(s)' = owner[s]
      BY <1>1, <2>3, PlaceIs, PlaceIsNext DEF Custody
    <3>2. owner[s] \in Users /\ owner[s] \notin due
      BY <2>3, SendAssumption DEF TypeOK
    <3> QED BY <3>1, <3>2
  <2> QED BY <2>1, <2>2, <2>3
<1>5. Promise!Arrive(due)
  <2>1. \A l \in due : l \in Letters /\ Address(l) # <<>>
    BY <1>2 DEF Address
  <2>2. due \subseteq Promise!Posted \ Arrived
    BY <1>2, <2>1 DEF Promise!Posted, Address
  <2>3. [l \in Letters |-> Address(l)]' = [l \in Letters |-> Address(l)]
    BY <1>3
  <2>4. \A s \in Stamps : Place(s) \in due => [l \in Letters |-> Address(l)][Place(s)] = Address(Place(s))
    BY <2>1
  <2>5. [s \in Stamps |-> Place(s)]' =
          [s \in Stamps |-> IF [t \in Stamps |-> Place(t)][s] \in due
                              THEN [l \in Letters |-> Address(l)][[t \in Stamps |-> Place(t)][s]][2]
                              ELSE [t \in Stamps |-> Place(t)][s]]
    BY <1>4, <2>4
  <2> QED BY <1>1, <1>2, <2>2, <2>3, <2>5 DEF Promise!Arrive, Address
<1> QED BY <1>5 DEF Promise!Next

(* Whatever handlers are at work and however their statements interleave, the   *)
(* rows that are committed go the way of module PostOffice: a stamp leaves an    *)
(* album for one letter, and all of a letter's stamps leave together.            *)
THEOREM TheHandlersKeepThePromise == Spec => StampsKeepThePromise
<1>1. IInv /\ Custody /\ IInv' /\ Custody' /\ [Next]_vars
        => [<<owner, letter>>' # <<owner, letter>> => Promise!Next]_vars
  <2>1. SUFFICES ASSUME IInv, Custody, Custody', [Next]_vars, ~UNCHANGED <<owner, letter>> PROVE Promise!Next
    OBVIOUS
  <2> QED BY <2>1, OnlyPost, CommitPosts, DeliveryArrives DEF IInv
<1> QED BY <1>1, CustodyHolds, PTL DEF Spec, StampsKeepThePromise
=============================================================================
