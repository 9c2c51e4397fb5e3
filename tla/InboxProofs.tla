------------------------------ MODULE InboxProofs ------------------------------
(***************************************************************************)
(* Theorems about the list of delivered letters, for any letters, page     *)
(* sizes and numbers of commands on their way.                             *)
(***************************************************************************)
EXTENDS Inbox, FiniteSetTheorems, SequenceTheorems, TLAPS

(* There is a last pass, which Now is. *)
Latest(p) == (\A l \in Letters : at[l] <= p) /\ (p = 0 \/ \E l \in Letters : at[l] = p)
PassesCounted == \E p \in 0 .. MaxPasses : Latest(p)

(* Every letter once, newest first. *)
Ordered(items) ==
    \A i, j \in DOMAIN items : i < j => items[i] # items[j] /\ at[items[i]] >= at[items[j]]
Listed(items) == {items[i] : i \in DOMAIN items}

(* A page asked for by the date before is of letters delivered earlier.        *)
Earlier(before, l) == before = 0 \/ at[l] < before

(* An answer has the letters delivered by the pass it was looked up in, newest *)
(* first, and none is missing down to its oldest one, or at all if it says     *)
(* there is no more.                                                           *)
Whole(a) ==
    \A l \in Letters \ deleted :
      (/\ at[l] \in 1 .. a.upto /\ Earlier(a.before, l)
       /\ a.more => \E k \in Listed(a.letters) : at[k] < at[l])
      => l \in Listed(a.letters)
AnswerTrue(a) ==
    /\ a.before <= a.upto /\ a.upto <= Now
    /\ \A l \in Listed(a.letters) : at[l] >= 1 /\ Earlier(a.before, l)
    /\ Ordered(a.letters)
    /\ Whole(a)

(* Only pages that are appended are asked for by a date, one that has been. *)
PagesTrue ==
    \A s \in Slots :
        /\ loads[s].pc \in {"page", "answer"} => (loads[s].append <=> loads[s].before # 0)
        /\ loads[s].pc = "page" => loads[s].before <= Now
        /\ loads[s].pc = "answer" => AnswerTrue(loads[s])

(* The lists are as faithful as ListIsFaithful wants them, also the one put aside. *)
Complete(list) ==
    ~list.mixed =>
       \A l \in Letters \ deleted :
         (/\ at[l] \in 1 .. list.upto
          /\ list.hasMore => \E k \in Shown(list) : at[k] < at[l])
         => l \in Shown(list) \/ at[l] \in list.cuts
ListTrue(list) ==
    /\ \A l \in Shown(list) : at[l] >= 1
    /\ list.upto <= Now
    /\ Complete(list)
    /\ ~list.mixed /\ ~list.again => Ordered(list.items)
ListsTrue == \A list \in {inbox, cached} \ {Nothing} : ListTrue(list)

(* A cursor is at -1 only after a list was emptied above it. *)
OnList(list) ==
    /\ list.cursor >= -1 /\ (list.cursor < 0 => emptied)
    /\ list.items = <<>> => list.cursor <= 0
    /\ list.items # <<>> /\ ~crashed => list.cursor \in 0 .. Len(list.items) - 1
Cursors ==
    /\ crashed => emptied
    /\ \A list \in {inbox, cached} \ {Nothing} : OnList(list)

(* Until an answer moves the list, the question is about the letter at the cursor. *)
AskedOf(list) ==
    list.confirm # Nothing /\ ~list.moved =>
        list.items # <<>> /\ list.confirm = list.items[list.cursor + 1]
Asked == \A list \in {inbox, cached} \ {Nothing} : AskedOf(list)

IInv ==
    /\ TypeOK /\ PassesCounted /\ PagesTrue /\ ListsTrue
    /\ Cursors /\ Asked /\ DeletesAsAsked
-----------------------------------------------------------------------------
(* A key that changes the screen only sends a message. *)
Turns == OpenInbox \/ LeaveInbox \/ ReadLetter \/ Reply \/ ReplyToRead \/ BackToInbox \/ Posted

LEMMA TurnsFollow ==
    Turns => /\ UNCHANGED <<relay, screen, inbox, cached, loads, ghosts, crashed>>
             /\ \E p \in Places : coming' = [coming EXCEPT ![p] = coming[p] + 1]
<1>1. Turns => \E p \in Places : Follows(p)
  BY DEF Turns, OpenInbox, LeaveInbox, ReadLetter, Reply, ReplyToRead, BackToInbox, Posted, Places
<1>2. \A p \in Places : Follows(p) =>
          /\ UNCHANGED <<relay, screen, inbox, cached, loads, ghosts, crashed>>
          /\ coming' = [coming EXCEPT ![p] = coming[p] + 1]
  BY DEF Follows
<1> QED BY <1>1, <1>2

(* Now is the last pass. *)
LEMMA NowIs ==
    ASSUME TypeOK, NEW p \in 0 .. MaxPasses, Latest(p)
    PROVE  Now = p
<1>0. at \in [Letters -> 0 .. MaxPasses] /\ MaxPasses \in Nat
  BY InboxAssumption DEF TypeOK
<1>1. \A q \in 0 .. MaxPasses : Latest(q) => q = p
  BY <1>0 DEF Latest
<1>2. Now = CHOOSE q \in 0 .. MaxPasses : Latest(q)
  BY DEF Now, Latest
<1> QED BY <1>1, <1>2

(* No letter is from a later pass than Now. *)
LEMMA NowType ==
    ASSUME TypeOK, PassesCounted
    PROVE  Now \in 0 .. MaxPasses /\ Latest(Now)
BY NowIs DEF PassesCounted

(* The same letters, the same last pass. *)
LEMMA NowStays == UNCHANGED at => Now' = Now
BY DEF Now

(* A pass is later than all before it, and changes no letter delivered before. *)
LEMMA NowGoesOn ==
    ASSUME TypeOK, PassesCounted, NEW due \in SUBSET {l \in Letters : at[l] = 0}, DeliverMessages(due)
    PROVE  /\ PassesCounted' /\ Now' = Now + 1
           /\ \A l \in Letters : at'[l] = IF l \in due THEN Now + 1 ELSE at[l]
<1>0. at \in [Letters -> 0 .. MaxPasses] /\ MaxPasses \in Nat /\ Now \in 0 .. MaxPasses /\ Latest(Now)
  BY InboxAssumption, NowType DEF TypeOK
<1>1. Now < MaxPasses /\ due # {} /\ at' = [l \in Letters |-> IF l \in due THEN Now + 1 ELSE at[l]]
  BY DEF DeliverMessages
<1>2. PICK p \in 0 .. MaxPasses : p = Now + 1
  BY <1>0, <1>1
<1>3. at' \in [Letters -> 0 .. MaxPasses]
  BY <1>0, <1>1, <1>2
<1>4. (\A l \in Letters : at'[l] <= p) /\ \E l \in Letters : at'[l] = p
  BY <1>0, <1>1, <1>2 DEF Latest
<1>5. \A q \in 0 .. MaxPasses : (\A l \in Letters : at'[l] <= q) /\ (q = 0 \/ \E l \in Letters : at'[l] = q) => q = p
  BY <1>0, <1>2, <1>3, <1>4
<1>6. Now' = p
  BY <1>4, <1>5 DEF Now
<1> QED BY <1>1, <1>2, <1>4, <1>6 DEF PassesCounted, Latest
-----------------------------------------------------------------------------
(* A sequence of letters, its beginning, and one with another appended. *)
LEMMA Beginning ==
    ASSUME NEW S, NEW q \in Seq(S), NEW m \in 0 .. Len(q)
    PROVE  /\ SubSeq(q, 1, m) \in Seq(S)
           /\ DOMAIN SubSeq(q, 1, m) = 1 .. m
           /\ \A i \in 1 .. m : SubSeq(q, 1, m)[i] = q[i]
<1>1. \A i \in 1 .. m : q[i] \in S
  OBVIOUS
<1> QED BY <1>1

(* GetInboxWithSenders: as many letters as there are, or as were asked for. *)
LEMMA PageIs ==
    ASSUME TypeOK, NEW before, NEW limit \in Nat, NEW p \in GetInboxWithSenders(before, limit)
    PROVE  /\ p \in Seq(Delivered(before)) /\ Len(p) \in 0 .. limit
           /\ DOMAIN p = 1 .. Len(p) /\ \A i \in 1 .. Len(p) : p[i] \in Delivered(before)
           /\ IsFiniteSet(DOMAIN p) /\ Cardinality(DOMAIN p) = Len(p)
           /\ Ordered(p)
           /\ Len(p) < limit => Listed(p) = Delivered(before)
           /\ \A l \in Delivered(before) : l \notin Listed(p) => \A i \in DOMAIN p : at[p[i]] >= at[l]
<1> DEFINE found == Delivered(before)
           n == Shorter(limit, found)
<1>1. IsFiniteSet(found) /\ Cardinality(found) \in Nat
  <2>1. found \in SUBSET Letters
    BY DEF Delivered
  <2> QED BY <2>1, InboxAssumption, FS_Subset, FS_CardinalityType
<1>2. n \in 0 .. limit /\ (n < limit => n = Cardinality(found))
  BY <1>1 DEF Shorter
<1>3. /\ p \in [1 .. n -> found]
      /\ \A i, j \in 1 .. n : i < j => p[i] # p[j] /\ at[p[i]] >= at[p[j]]
      /\ \A l \in found : (\A i \in 1 .. n : p[i] # l) => \A i \in 1 .. n : at[p[i]] >= at[l]
  BY DEF GetInboxWithSenders
<1> HIDE DEF n, found
<1>4. p \in Seq(found) /\ Len(p) = n /\ DOMAIN p = 1 .. n
  BY <1>2, <1>3
<1>5. IsFiniteSet(1 .. n) /\ Cardinality(1 .. n) = n
  BY <1>2, FS_Interval
<1>6. ASSUME n < limit PROVE Listed(p) = found
  <2>1. p \in Injection(1 .. n, found)
    BY <1>2, <1>3 DEF Injection, IsInjective
  <2>2. p \in Surjection(1 .. n, found)
    BY <1>1, <1>2, <1>5, <1>6, <2>1, FS_Injection
  <2> QED BY <1>3, <1>4, <2>2 DEF Surjection, Listed
<1>7. Ordered(p)
  BY <1>3, <1>4 DEF Ordered
<1>8. \A l \in found : l \notin Listed(p) => \A i \in DOMAIN p : at[p[i]] >= at[l]
  BY <1>3, <1>4 DEF Listed
<1>9. /\ IsFiniteSet(DOMAIN p) /\ Cardinality(DOMAIN p) = Len(p) /\ Len(p) \in 0 .. limit
      /\ DOMAIN p = 1 .. Len(p) /\ \A i \in 1 .. Len(p) : p[i] \in Delivered(before)
  BY <1>2, <1>3, <1>4, <1>5 DEF found
<1>10. p \in Seq(Delivered(before)) /\ (Len(p) < limit => Listed(p) = Delivered(before))
  BY <1>4, <1>6 DEF found
<1> QED BY <1>7, <1>8, <1>9, <1>10 DEF found

(* handleGetInbox: the newest letters delivered before a date; what is missing is *)
(* older than all of them, and the answer says so.                                *)
LEMMA AnswerIs ==
    ASSUME TypeOK, NEW before, NEW page \in HandleGetInbox(before)
    PROVE  /\ page.letters \in Seq(Letters) /\ page.more \in BOOLEAN
           /\ Listed(page.letters) \subseteq Delivered(before)
           /\ Ordered(page.letters)
           /\ \A l \in Delivered(before) :
                (page.more => \E k \in Listed(page.letters) : at[k] < at[l]) => l \in Listed(page.letters)
<1>1. PageSize \in Nat /\ PageSize + 1 \in Nat
  BY InboxAssumption
<1>2. PICK p \in GetInboxWithSenders(before, PageSize + 1) :
        page = [letters |-> SubSeq(p, 1, Shorter(PageSize, DOMAIN p)), more |-> Len(p) > PageSize]
  BY DEF HandleGetInbox
<1>3. /\ p \in Seq(Delivered(before)) /\ Len(p) \in 0 .. PageSize + 1
      /\ \A i \in 1 .. Len(p) : p[i] \in Delivered(before)
      /\ IsFiniteSet(DOMAIN p) /\ Cardinality(DOMAIN p) = Len(p)
      /\ Ordered(p)
      /\ Len(p) < PageSize + 1 => Listed(p) = Delivered(before)
      /\ \A l \in Delivered(before) : l \notin Listed(p) => \A i \in DOMAIN p : at[p[i]] >= at[l]
  BY <1>1, PageIs
<1>4. PICK m : m = Shorter(PageSize, DOMAIN p)
  OBVIOUS
<1>5. PICK q : q = SubSeq(p, 1, m)
  OBVIOUS
<1>6. m \in 0 .. Len(p) /\ m = IF Len(p) < PageSize THEN Len(p) ELSE PageSize
  BY <1>1, <1>3, <1>4 DEF Shorter
<1>7. q \in Seq(Delivered(before)) /\ DOMAIN q = 1 .. m /\ \A i \in 1 .. m : q[i] = p[i]
  BY <1>3, <1>5, <1>6, Beginning
<1>8. DOMAIN p = 1 .. Len(p)
  BY <1>1, PageIs
<1>9. page.letters = q /\ page.more = (Len(p) > PageSize)
  BY <1>2, <1>4, <1>5
<1>10. Listed(q) \subseteq Delivered(before) /\ q \in Seq(Letters)
  <2>1. Delivered(before) \subseteq Letters
    BY DEF Delivered
  <2>2. \A i \in DOMAIN q : q[i] \in Delivered(before)
    BY <1>3, <1>6, <1>7
  <2>3. q \in Seq(Letters)
    BY <1>7, <2>1, SeqMonotonic
  <2> QED BY <2>2, <2>3 DEF Listed
<1>11. Ordered(q)
  BY <1>3, <1>6, <1>7, <1>8 DEF Ordered
<1>12. ASSUME NEW l \in Delivered(before), Len(p) > PageSize => \E k \in Listed(q) : at[k] < at[l]
       PROVE  l \in Listed(q)
  <2>1. CASE Len(p) <= PageSize
    <3>1. m = Len(p) /\ Listed(p) = Delivered(before)
      BY <1>1, <1>3, <1>6, <2>1
    <3> QED BY <1>7, <1>8, <3>1 DEF Listed
  <2>2. CASE Len(p) > PageSize
    <3>1. m = PageSize /\ Len(p) = PageSize + 1
      BY <1>1, <1>3, <1>6, <2>2
    <3>2. PICK i \in 1 .. m : at[p[i]] < at[l]
      BY <1>7, <1>12, <2>2 DEF Listed
    <3>3. i \in DOMAIN p /\ at[p[i]] \in Nat /\ at[l] \in Nat
      <4>1. p[i] \in Letters /\ l \in Letters
        BY <1>3, <1>6, <3>2, <1>12 DEF Delivered
      <4>2. at \in [Letters -> Nat]
        BY InboxAssumption DEF TypeOK
      <4>3. i \in DOMAIN p
        BY <1>3, <1>6, <1>8, <3>2
      <4> QED BY <4>1, <4>2, <4>3
    <3>4. PICK j \in 1 .. Len(p) : p[j] = l
      BY <1>3, <1>8, <3>2, <3>3 DEF Listed
    <3>5. ~(i < j)
      BY <1>3, <1>8, <3>2, <3>3, <3>4 DEF Ordered
    <3>6. j \in 1 .. m
      BY <1>1, <3>1, <3>2, <3>4, <3>5
    <3> QED BY <1>7, <3>4, <3>6 DEF Listed
  <2> QED BY <1>1, <1>3, <2>1, <2>2
<1>13. \A l \in Delivered(before) :
         (page.more => \E k \in Listed(page.letters) : at[k] < at[l]) => l \in Listed(page.letters)
  BY <1>9, <1>12
<1>14. page.more \in BOOLEAN
  BY <1>9
<1> QED BY <1>9, <1>10, <1>11, <1>13, <1>14

(* What Look puts in place of a question is true. *)
LEMMA LookMakes ==
    ASSUME TypeOK, PassesCounted, PagesTrue, NEW s \in Slots, Look(s)
    PROVE  \E a \in Answers : /\ loads' = [loads EXCEPT ![s] = a]
                              /\ AnswerTrue(a) /\ (a.append <=> a.before # 0)
<1>1. loads[s] \in Pages /\ (loads[s].append <=> loads[s].before # 0) /\ loads[s].before <= Now
  BY DEF TypeOK, Look, PagesTrue, Idle, Deletions, Pages, Answers
<1>2. PICK b \in 0 .. MaxPasses, append \in BOOLEAN :
        loads[s].before = b /\ loads[s].append = append /\ b <= Now /\ (append <=> b # 0)
  BY <1>1 DEF Pages
<1>3. PICK page \in HandleGetInbox(b) :
        loads' = [loads EXCEPT ![s] = [pc |-> "answer", letters |-> page.letters, more |-> page.more,
                                       upto |-> Now, before |-> b, append |-> append]]
  BY <1>2 DEF Look
<1>4. /\ page.letters \in Seq(Letters) /\ page.more \in BOOLEAN
      /\ Listed(page.letters) \subseteq Delivered(b)
      /\ Ordered(page.letters)
      /\ \A l \in Delivered(b) :
           (page.more => \E k \in Listed(page.letters) : at[k] < at[l]) => l \in Listed(page.letters)
  BY AnswerIs
<1>5. PICK a : a = [pc |-> "answer", letters |-> page.letters, more |-> page.more,
                    upto |-> Now, before |-> b, append |-> append]
  OBVIOUS
<1>6. /\ a.letters = page.letters /\ a.more = page.more /\ a.upto = Now /\ a.before = b /\ a.append = append
      /\ Now \in 0 .. MaxPasses /\ at \in [Letters -> 0 .. MaxPasses] /\ MaxPasses \in Nat
  BY <1>5, NowType, InboxAssumption DEF TypeOK
<1>7. a \in Answers
  BY <1>4, <1>5, <1>6 DEF Answers
<1>8. \A l \in Listed(a.letters) : at[l] >= 1 /\ Earlier(a.before, l)
  <2>1. \A l \in Delivered(b) : at[l] >= 1 /\ Earlier(b, l)
    BY <1>6 DEF Delivered, Earlier
  <2> QED BY <1>4, <1>6, <2>1
<1>9. Whole(a)
  <2>1. \A l \in Letters \ deleted : at[l] \in 1 .. Now /\ Earlier(b, l) => l \in Delivered(b)
    BY <1>6 DEF Delivered, Earlier
  <2> QED BY <1>4, <1>6, <2>1 DEF Whole
<1>10. AnswerTrue(a)
  BY <1>2, <1>4, <1>6, <1>8, <1>9 DEF AnswerTrue
<1> QED BY <1>2, <1>3, <1>5, <1>6, <1>7, <1>10

(* A step of the relay dates letters later than all before, and brings none back. *)
LEMMA RelayMoves ==
    ASSUME TypeOK, PassesCounted, [Next]_vars
    PROVE  /\ PassesCounted' /\ Now \in Nat /\ Now' \in Nat /\ Now <= Now' /\ deleted \subseteq deleted'
           /\ at \in [Letters -> Nat]
           /\ \A l \in Letters : at[l] <= Now /\ (at'[l] = at[l] \/ (at[l] = 0 /\ at'[l] = Now + 1))
<1>0. /\ Now \in 0 .. MaxPasses /\ Latest(Now) /\ MaxPasses \in Nat /\ Now \in Nat
      /\ at \in [Letters -> Nat]
  BY NowType, InboxAssumption DEF TypeOK
<1>1. ASSUME NEW due \in SUBSET {l \in Letters : at[l] = 0}, DeliverMessages(due)
      PROVE  /\ PassesCounted' /\ Now' = Now + 1 /\ UNCHANGED deleted
             /\ \A l \in Letters : at'[l] = IF l \in due THEN Now + 1 ELSE at[l]
  BY <1>1, NowGoesOn DEF DeliverMessages
<1>2. ASSUME UNCHANGED at PROVE PassesCounted' /\ Now' = Now
  BY <1>2, NowStays DEF PassesCounted, Latest
<1>3. CASE \E s \in Slots : DeleteLetter(s) \/ Look(s) \/ Fail(s) \/ Loaded(s)
  <2>1. UNCHANGED at /\ deleted \subseteq deleted'
    BY <1>3 DEF DeleteLetter, DeleteLetterForUser, Look, Fail, Loaded, relay
  <2> QED BY <1>0, <1>2, <2>1 DEF Latest
<1>4. CASE Keys \/ (\E p \in Places : Arrive(p)) \/ UNCHANGED vars
  <2>1. UNCHANGED relay
    BY <1>4, TurnsFollow DEF Keys, Turns, vars, Up, Down, AskToDelete, Confirm, Decline, Arrive
  <2> QED BY <1>0, <1>2, <2>1 DEF Latest, relay
<1>5. CASE \E due \in SUBSET {l \in Letters : at[l] = 0} : DeliverMessages(due)
  <2>1. PICK due \in SUBSET {l \in Letters : at[l] = 0} : DeliverMessages(due)
    BY <1>5
  <2> QED BY <1>0, <1>1, <2>1 DEF Latest
<1> QED BY <1>3, <1>4, <1>5 DEF Next

(* A list that is true stays so while the relay goes on. *)
LEMMA ListStays ==
    ASSUME TypeOK, PassesCounted, [Next]_vars, NEW list \in Lists, ListTrue(list)
    PROVE  ListTrue(list)'
<1>1. PICK items \in Seq(Letters) : items = list.items
  BY DEF Lists
<1>2. \A i \in DOMAIN items : items[i] \in Letters
  BY <1>1
<1>3. \A k \in Shown(list) : k \in Letters /\ at'[k] = at[k] /\ at[k] >= 1 /\ at[k] \in Nat
  <2>1. Shown(list) \subseteq Letters
    BY <1>1, <1>2 DEF Shown
  <2> QED BY <2>1, RelayMoves DEF ListTrue
<1>4. list.upto <= Now /\ list.upto \in Nat /\ list.upto <= Now'
  BY RelayMoves, InboxAssumption DEF ListTrue, Lists
<1>5. Complete(list)'
  <2>1. ASSUME ~list.mixed, NEW l \in Letters \ deleted', at'[l] \in 1 .. list.upto,
               list.hasMore => \E k \in Shown(list) : at'[k] < at'[l]
        PROVE  l \in Shown(list) \/ at'[l] \in list.cuts
    <3>1. at'[l] = at[l] /\ l \notin deleted
      BY <1>4, <2>1, RelayMoves
    <3> QED BY <1>3, <2>1, <3>1 DEF ListTrue, Complete
  <2> QED BY <2>1 DEF Complete, Shown
<1>6. Ordered(items) => Ordered(items)'
  <2>1. \A i \in DOMAIN items : at'[items[i]] = at[items[i]]
    BY <1>1, <1>3 DEF Shown
  <2> QED BY <2>1 DEF Ordered
<1>7. \A k \in Shown(list)' : at'[k] >= 1
  BY <1>3 DEF Shown
<1> QED BY <1>1, <1>4, <1>5, <1>6, <1>7 DEF ListTrue

(* So does an answer on its way. *)
LEMMA AnswerStays ==
    ASSUME TypeOK, PassesCounted, [Next]_vars, NEW a \in Answers, AnswerTrue(a)
    PROVE  AnswerTrue(a)'
<1>1. PICK items \in Seq(Letters) : items = a.letters
  BY DEF Answers
<1>2. \A k \in Listed(items) : k \in Letters /\ at'[k] = at[k] /\ at[k] >= 1 /\ at[k] \in Nat
  <2>1. Listed(items) \subseteq Letters
    BY <1>1 DEF Listed
  <2> QED BY <1>1, <2>1, RelayMoves DEF AnswerTrue
<1>3. a.upto <= Now /\ a.upto \in Nat /\ a.upto <= Now' /\ a.before <= a.upto
  BY RelayMoves, InboxAssumption DEF AnswerTrue, Answers
<1>4. Whole(a)'
  <2>1. ASSUME NEW l \in Letters \ deleted', at'[l] \in 1 .. a.upto, Earlier(a.before, l)',
               a.more => \E k \in Listed(items) : at'[k] < at'[l]
        PROVE  l \in Listed(items)
    <3>1. at'[l] = at[l] /\ l \notin deleted
      BY <1>3, <2>1, RelayMoves
    <3>2. Earlier(a.before, l)
      BY <2>1, <3>1 DEF Earlier
    <3> QED BY <1>1, <1>2, <2>1, <3>1, <3>2 DEF AnswerTrue, Whole
  <2> QED BY <1>1, <2>1 DEF Whole
<1>5. Ordered(items) => Ordered(items)'
  <2>1. \A i \in DOMAIN items : at'[items[i]] = at[items[i]]
    BY <1>1, <1>2 DEF Listed
  <2> QED BY <2>1 DEF Ordered
<1>6. \A k \in Listed(items) : at'[k] >= 1 /\ Earlier(a.before, k)'
  BY <1>1, <1>2 DEF AnswerTrue, Earlier
<1> QED BY <1>1, <1>3, <1>4, <1>5, <1>6 DEF AnswerTrue

-----------------------------------------------------------------------------
(* A page replaces the list: nothing is missing that was delivered by then. *)
LEMMA ReplacedTrue ==
    ASSUME TypeOK, PassesCounted, NEW a \in Answers, AnswerTrue(a), a.before = 0,
           NEW list \in Lists, list.items = a.letters, list.hasMore = a.more, list.upto = a.upto
    PROVE  ListTrue(list)
<1>1. Shown(list) = Listed(a.letters)
  BY DEF Shown, Listed
<1>2. Complete(list)
  <2>1. \A l \in Letters : Earlier(a.before, l)
    BY DEF Earlier
  <2> QED BY <1>1, <2>1 DEF AnswerTrue, Whole, Complete
<1> QED BY <1>1, <1>2 DEF AnswerTrue, ListTrue

(* A page is appended: unless the list ends before it, every letter that is not  *)
(* older than the page is in the list or of the date it was continued from; and  *)
(* unless the list goes beyond its beginning, they are in order.                 *)
LEMMA AppendedTrue ==
    ASSUME TypeOK, PassesCounted, NEW a \in Answers, AnswerTrue(a), a.before # 0,
           NEW old \in Lists, ListTrue(old),
           NEW list \in Lists, list.items = old.items \o a.letters, list.hasMore = a.more,
           list.upto = old.upto, list.cuts = old.cuts \cup {a.before},
           list.mixed = (old.mixed \/ \A l \in Shown(old) : at[l] > a.before),
           list.again = (old.again \/ \E l \in Shown(old) : at[l] < a.before)
    PROVE  ListTrue(list)
<1>1. PICK p \in Seq(Letters), q \in Seq(Letters) : p = old.items /\ q = a.letters
  BY DEF Lists, Answers
<1>2. PICK r \in Seq(Letters) : r = list.items
  BY DEF Lists
<1>3. /\ DOMAIN r = 1 .. Len(p) + Len(q) /\ DOMAIN p = 1 .. Len(p) /\ DOMAIN q = 1 .. Len(q)
      /\ Len(p) \in Nat /\ Len(q) \in Nat
      /\ \A i \in 1 .. Len(p) + Len(q) : r[i] = IF i <= Len(p) THEN p[i] ELSE q[i - Len(p)]
  <2>1. r = p \o q
    BY <1>1, <1>2
  <2> QED BY <2>1, ConcatProperties, LenProperties
<1>4. Shown(list) = Shown(old) \cup Listed(q) /\ Shown(old) \subseteq Letters /\ Listed(q) \subseteq Letters
  <2>0. Shown(old) = Listed(p) /\ Shown(list) = Listed(r)
    BY <1>1, <1>2 DEF Shown, Listed
  <2>1. ASSUME NEW i \in DOMAIN r PROVE r[i] \in Listed(p) \cup Listed(q)
    <3>1. CASE i <= Len(p)
      <4>1. i \in DOMAIN p /\ r[i] = p[i]
        BY <1>3, <2>1, <3>1
      <4> QED BY <4>1 DEF Listed
    <3>2. CASE ~(i <= Len(p))
      <4>1. i - Len(p) \in DOMAIN q /\ r[i] = q[i - Len(p)]
        BY <1>3, <2>1, <3>2
      <4> QED BY <4>1 DEF Listed
    <3> QED BY <3>1, <3>2
  <2>2. ASSUME NEW i \in DOMAIN p PROVE p[i] \in Listed(r)
    <3>1. i \in DOMAIN r /\ r[i] = p[i]
      BY <1>3, <2>2
    <3> QED BY <3>1 DEF Listed
  <2>3. ASSUME NEW j \in DOMAIN q PROVE q[j] \in Listed(r)
    <3>1. Len(p) + j \in 1 .. Len(p) + Len(q) /\ ~(Len(p) + j <= Len(p)) /\ Len(p) + j - Len(p) = j
      BY <1>3, <2>3
    <3>2. Len(p) + j \in DOMAIN r /\ r[Len(p) + j] = q[j]
      BY <1>3, <3>1
    <3> QED BY <3>2 DEF Listed
  <2>4. Shown(old) \subseteq Letters /\ Listed(q) \subseteq Letters
    BY <1>1 DEF Shown, Listed
  <2>5. Listed(r) = Listed(p) \cup Listed(q)
    BY <2>1, <2>2, <2>3 DEF Listed
  <2> QED BY <2>0, <2>4, <2>5
<1>5. /\ at \in [Letters -> Nat] /\ Now \in Nat /\ a.before \in Nat /\ a.upto \in Nat /\ old.upto \in Nat
      /\ a.before <= a.upto
      /\ \A k \in Listed(q) : at[k] >= 1 /\ at[k] < a.before
      /\ \A k \in Shown(old) : at[k] >= 1
  <2>1. at \in [Letters -> Nat] /\ Now \in Nat
    BY NowType, InboxAssumption DEF TypeOK
  <2>2. a.before \in Nat /\ a.upto \in Nat /\ old.upto \in Nat
    BY InboxAssumption DEF Answers, Lists
  <2>3. a.before <= a.upto /\ \A k \in Listed(q) : at[k] >= 1 /\ at[k] < a.before
    BY <1>1 DEF AnswerTrue, Earlier
  <2>4. \A k \in Shown(old) : at[k] >= 1
    BY DEF ListTrue
  <2> QED BY <2>1, <2>2, <2>3, <2>4
<1>6. ASSUME ~list.mixed, NEW l \in Letters \ deleted, at[l] \in 1 .. list.upto,
             list.hasMore => \E k \in Shown(list) : at[k] < at[l]
      PROVE  l \in Shown(list) \/ at[l] \in list.cuts
  <2>1. PICK m \in Shown(old) : ~(at[m] > a.before)
    BY <1>6
  <2>2. at[m] \in Nat /\ at[l] \in Nat
    BY <1>4, <1>5
  <2>3. ASSUME NEW k \in Shown(old), at[k] < at[l] PROVE l \in Shown(old) \/ at[l] \in old.cuts
    BY <1>6, <2>3 DEF ListTrue, Complete
  <2>4. CASE at[l] > a.before
    <3>1. at[m] < at[l]
      BY <1>5, <2>1, <2>2, <2>4
    <3> QED BY <1>4, <2>3, <3>1
  <2>5. CASE at[l] = a.before
    BY <2>5
  <2>6. CASE at[l] < a.before
    <3>1. Earlier(a.before, l) /\ at[l] \in 1 .. a.upto
      BY <1>5, <1>6, <2>2, <2>6 DEF Earlier
    <3>2. CASE a.more => \E k \in Listed(q) : at[k] < at[l]
      BY <1>1, <1>4, <3>1, <3>2 DEF AnswerTrue, Whole
    <3>3. CASE \E k \in Shown(old) : at[k] < at[l]
      BY <1>4, <2>3, <3>3
    <3> QED BY <1>4, <1>6, <3>2, <3>3
  <2> QED BY <1>5, <2>2, <2>4, <2>5, <2>6
<1>7. ASSUME ~list.mixed, ~list.again PROVE Ordered(list.items)
  <2>0. ~\E k \in Shown(old) : at[k] < a.before
    BY <1>7
  <2>1. \A k \in Shown(old) : at[k] >= a.before
    BY <1>4, <1>5, <2>0
  <2>2. Ordered(p) /\ Ordered(q)
    BY <1>1, <1>7 DEF ListTrue, AnswerTrue
  <2>3. ASSUME NEW i \in DOMAIN r, NEW j \in DOMAIN r, i < j
        PROVE  r[i] # r[j] /\ at[r[i]] >= at[r[j]]
    <3>1. CASE j <= Len(p)
      <4>1. i \in DOMAIN p /\ j \in DOMAIN p /\ r[i] = p[i] /\ r[j] = p[j]
        BY <1>3, <2>3, <3>1
      <4> QED BY <2>2, <2>3, <4>1 DEF Ordered
    <3>2. CASE i > Len(p)
      <4>1. PICK x \in DOMAIN q, y \in DOMAIN q : x < y /\ r[i] = q[x] /\ r[j] = q[y]
        <5>1. i - Len(p) \in DOMAIN q /\ j - Len(p) \in DOMAIN q /\ i - Len(p) < j - Len(p)
          BY <1>3, <2>3, <3>2
        <5>2. r[i] = q[i - Len(p)] /\ r[j] = q[j - Len(p)]
          BY <1>3, <2>3, <3>2
        <5> QED BY <5>1, <5>2
      <4> QED BY <2>2, <4>1 DEF Ordered
    <3>3. CASE i <= Len(p) /\ j > Len(p)
      <4>1. i \in DOMAIN p /\ r[i] = p[i] /\ j - Len(p) \in DOMAIN q /\ r[j] = q[j - Len(p)]
        BY <1>3, <2>3, <3>3
      <4>2. r[i] \in Shown(old) /\ r[j] \in Listed(q)
        BY <1>1, <4>1 DEF Shown, Listed
      <4>3. at[r[i]] >= a.before /\ at[r[j]] < a.before /\ at[r[i]] \in Nat /\ at[r[j]] \in Nat
        BY <1>4, <1>5, <2>1, <4>2
      <4> QED BY <1>5, <4>3
    <3> QED BY <1>3, <2>3, <3>1, <3>2, <3>3
  <2> QED BY <1>2, <2>3 DEF Ordered
<1>8. \A k \in Shown(list) : at[k] >= 1
  BY <1>4, <1>5
<1> QED BY <1>6, <1>7, <1>8 DEF ListTrue, Complete

-----------------------------------------------------------------------------
(* Two lists with the same letters are equally true. *)
SameLetters(f, g) ==
    /\ f.items = g.items /\ f.hasMore = g.hasMore /\ f.upto = g.upto
    /\ f.cuts = g.cuts /\ f.mixed = g.mixed /\ f.again = g.again

LEMMA EquallyTrue ==
    ASSUME NEW f, NEW g, SameLetters(f, g), ListTrue(g)
    PROVE  ListTrue(f)
BY DEF SameLetters, ListTrue, Complete, Shown

(* What the keys change of a list is not its letters. *)
LEMMA Moves ==
    ASSUME NEW g \in Lists, NEW c \in Int, NEW f, f = [g EXCEPT !.cursor = c]
    PROVE  /\ f \in Lists /\ SameLetters(f, g)
           /\ f.cursor = c /\ f.confirm = g.confirm /\ f.moved = g.moved
BY DEF Lists, SameLetters

LEMMA Answered ==
    ASSUME NEW g \in Lists, NEW f, f = [g EXCEPT !.confirm = Nothing]
    PROVE  /\ f \in Lists /\ SameLetters(f, g)
           /\ f.cursor = g.cursor /\ f.confirm = Nothing /\ f.moved = g.moved
BY DEF Lists, SameLetters

LEMMA Questioned ==
    ASSUME NEW g \in Lists, NEW l \in Letters, NEW f, f = [g EXCEPT !.confirm = l, !.moved = FALSE]
    PROVE  /\ f \in Lists /\ SameLetters(f, g)
           /\ f.cursor = g.cursor /\ f.confirm = l /\ f.moved = FALSE
BY DEF Lists, SameLetters

LEMMA Marked ==
    ASSUME NEW g \in Lists, NEW f, f = [g EXCEPT !.moved = TRUE]
    PROVE  /\ f \in Lists /\ SameLetters(f, g)
           /\ f.cursor = g.cursor /\ f.confirm = g.confirm /\ f.moved = TRUE
BY DEF Lists, SameLetters

(* A list that is put where another was, its cursor set back onto it. *)
LEMMA Clamped ==
    ASSUME NEW g \in Lists, NEW f, f = [Clamp(g) EXCEPT !.moved = TRUE]
    PROVE  /\ f \in Lists /\ SameLetters(f, g) /\ f.confirm = g.confirm /\ f.moved = TRUE
           /\ f.cursor = IF g.cursor >= Len(g.items) /\ g.cursor > 0 THEN Len(g.items) - 1 ELSE g.cursor
           /\ Clamp(g).items = g.items /\ Clamp(g).cursor = f.cursor
<1>1. Len(g.items) - 1 \in Int
  BY DEF Lists
<1>2. PICK h : h = Clamp(g)
  OBVIOUS
<1>3. /\ h \in Lists /\ SameLetters(h, g) /\ h.confirm = g.confirm
      /\ h.cursor = IF g.cursor >= Len(g.items) /\ g.cursor > 0 THEN Len(g.items) - 1 ELSE g.cursor
  <2>1. CASE g.cursor >= Len(g.items) /\ g.cursor > 0
    <3>0. PICK c \in Int : c = Len(g.items) - 1
      BY <1>1
    <3>1. h = [g EXCEPT !.cursor = c]
      BY <1>2, <2>1, <3>0 DEF Clamp
    <3>2. h \in Lists /\ SameLetters(h, g) /\ h.confirm = g.confirm /\ h.cursor = c
      BY <3>1, Moves
    <3> QED BY <2>1, <3>0, <3>2
  <2>2. CASE ~(g.cursor >= Len(g.items) /\ g.cursor > 0)
    BY <1>2, <2>2 DEF Clamp, SameLetters
  <2> QED BY <2>1, <2>2
<1>4. f \in Lists /\ SameLetters(f, h) /\ f.cursor = h.cursor /\ f.confirm = h.confirm /\ f.moved = TRUE
  BY <1>2, <1>3, Marked
<1> QED BY <1>2, <1>3, <1>4 DEF SameLetters

(* The list an answer makes of one: true, with the same cursor and question. *)
LEMMA AnswerMakes ==
    ASSUME TypeOK, PassesCounted, NEW a \in Answers, AnswerTrue(a), a.append <=> a.before # 0,
           NEW old \in Lists, ListTrue(old),
           NEW list, list = IF a.append THEN Continued(old, a) ELSE Replaced(old, a)
    PROVE  /\ list \in Lists /\ ListTrue(list)
           /\ list.cursor = old.cursor /\ list.confirm = old.confirm
<1>1. CASE a.append
  <2>1. a.before \in 1 .. MaxPasses
    BY <1>1, InboxAssumption DEF Answers
  <2>2. list = [old EXCEPT !.items = old.items \o a.letters, !.hasMore = a.more,
                           !.cuts = old.cuts \cup {a.before},
                           !.mixed = old.mixed \/ \A l \in Shown(old) : at[l] > a.before,
                           !.again = old.again \/ \E l \in Shown(old) : at[l] < a.before]
    BY <1>1 DEF Continued
  <2>3. /\ list.items = old.items \o a.letters /\ list.hasMore = a.more /\ list.upto = old.upto
        /\ list.cuts = old.cuts \cup {a.before}
        /\ list.mixed = (old.mixed \/ \A l \in Shown(old) : at[l] > a.before)
        /\ list.again = (old.again \/ \E l \in Shown(old) : at[l] < a.before)
        /\ list.cursor = old.cursor /\ list.confirm = old.confirm
    BY <2>2 DEF Lists
  <2>4. list \in Lists
    <3>1. PICK items \in Seq(Letters), cuts \in SUBSET (1 .. MaxPasses), mixed \in BOOLEAN, again \in BOOLEAN :
            /\ items = old.items \o a.letters /\ cuts = old.cuts \cup {a.before}
            /\ mixed = (old.mixed \/ \A l \in Shown(old) : at[l] > a.before)
            /\ again = (old.again \/ \E l \in Shown(old) : at[l] < a.before)
      <4>1. old.items \o a.letters \in Seq(Letters)
        BY ConcatProperties DEF Lists, Answers
      <4>2. old.cuts \cup {a.before} \in SUBSET (1 .. MaxPasses)
        BY <2>1 DEF Lists
      <4>3. /\ (old.mixed \/ \A l \in Shown(old) : at[l] > a.before) \in BOOLEAN
            /\ (old.again \/ \E l \in Shown(old) : at[l] < a.before) \in BOOLEAN
        OBVIOUS
      <4> QED BY <4>1, <4>2, <4>3
    <3>2. list = [old EXCEPT !.items = items, !.hasMore = a.more, !.cuts = cuts, !.mixed = mixed, !.again = again]
      BY <2>2, <3>1
    <3>3. a.more \in BOOLEAN
      BY DEF Answers
    <3> QED BY <3>2, <3>3 DEF Lists
  <2> QED BY <1>1, <2>3, <2>4, AppendedTrue
<1>2. CASE ~a.append
  <2>1. list = [old EXCEPT !.items = a.letters, !.hasMore = a.more, !.upto = a.upto,
                           !.cuts = {}, !.mixed = FALSE, !.again = FALSE]
    BY <1>2 DEF Replaced
  <2>2. /\ list \in Lists /\ list.items = a.letters /\ list.hasMore = a.more /\ list.upto = a.upto
        /\ list.cursor = old.cursor /\ list.confirm = old.confirm
    BY <2>1 DEF Lists, Answers
  <2> QED BY <1>2, <2>2, ReplacedTrue
<1> QED BY <1>1, <1>2

-----------------------------------------------------------------------------
(* A command that is asked for, or one that is done. *)
LoadsMove ==
    \/ UNCHANGED loads
    \/ \E s \in Slots, c \in {Idle} \cup Deletions \cup Pages \cup Answers :
         /\ loads' = [loads EXCEPT ![s] = c]
         /\ c.pc \in {"page", "answer"} => (c.append <=> c.before # 0)
         /\ c.pc = "page" => c.before <= Now
         /\ c.pc = "answer" => AnswerTrue(c)

(* A page after a list that is true is asked for by a date that has been. *)
LEMMA PrefetchMoves ==
    ASSUME TypeOK, PassesCounted, NEW list \in Lists, \A l \in Shown(list) : at[l] >= 1, MaybePrefetch(list)
    PROVE  LoadsMove
<1>1. CASE UNCHANGED loads
  BY <1>1 DEF LoadsMove
<1>2. CASE list.items # <<>> /\ \E s \in Slots : loads' = [loads EXCEPT ![s] = Page(at[list.items[Len(list.items)]], TRUE)]
  <2>1. PICK q \in Seq(Letters) : q = list.items
    BY DEF Lists
  <2>2. Len(q) \in DOMAIN q
    BY <1>2, <2>1
  <2>3. q[Len(q)] \in Letters /\ q[Len(q)] \in Shown(list)
    BY <2>1, <2>2 DEF Shown
  <2>4. PICK b \in 1 .. MaxPasses : b = at[q[Len(q)]] /\ b <= Now
    BY <2>3, NowType, InboxAssumption DEF TypeOK, Latest
  <2>5. PICK c : c = Page(b, TRUE)
    OBVIOUS
  <2>6. c \in Pages /\ c.pc = "page" /\ c.before = b /\ c.append = TRUE
    BY <2>4, <2>5, InboxAssumption DEF Page, Pages
  <2>7. \E s \in Slots : loads' = [loads EXCEPT ![s] = c]
    BY <1>2, <2>1, <2>4, <2>5
  <2>8. c.before # 0 /\ c.before <= Now /\ c.pc # "answer"
    BY <2>4, <2>6, InboxAssumption
  <2> QED BY <2>6, <2>7, <2>8 DEF LoadsMove
<1> QED BY <1>1, <1>2 DEF MaybePrefetch

(* Every step takes or ends one command at most. *)
LEMMA NextLoadsMove ==
    ASSUME TypeOK, PassesCounted, PagesTrue, ListsTrue, [Next]_vars
    PROVE  LoadsMove
<1>0. Idle.pc = "idle" /\ \A l \in Letters : [pc |-> "delete", letter |-> l] \in Deletions
  BY DEF Idle, Deletions
<1>1. ASSUME NEW s \in Slots, loads' = [loads EXCEPT ![s] = Idle] PROVE LoadsMove
  BY <1>0, <1>1 DEF LoadsMove
<1>2. ASSUME NEW s \in Slots, loads' = [loads EXCEPT ![s] = Page(0, FALSE)] PROVE LoadsMove
  <2>1. PICK c : c = Page(0, FALSE)
    OBVIOUS
  <2>2. c \in Pages /\ c.pc = "page" /\ c.before = 0 /\ c.append = FALSE /\ 0 <= Now
    BY <2>1, NowType, InboxAssumption DEF Page, Pages
  <2> QED BY <1>2, <2>1, <2>2 DEF LoadsMove
<1>3. ASSUME UNCHANGED loads PROVE LoadsMove
  BY <1>3 DEF LoadsMove
<1>4. ASSUME NEW s \in Slots, DeleteLetter(s) \/ Look(s) \/ Fail(s) \/ Loaded(s) PROVE LoadsMove
  <2>1. CASE DeleteLetter(s)
    BY <1>2, <2>1 DEF DeleteLetter
  <2>2. CASE Look(s)
    <3>1. PICK a \in Answers : /\ loads' = [loads EXCEPT ![s] = a]
                               /\ AnswerTrue(a) /\ (a.append <=> a.before # 0)
      BY <2>2, LookMakes
    <3>2. a.pc = "answer"
      BY DEF Answers
    <3> QED BY <3>1, <3>2 DEF LoadsMove
  <2>3. CASE Fail(s) \/ Loaded(s)
    BY <1>1, <2>3 DEF Fail, Loaded
  <2> QED BY <1>4, <2>1, <2>2, <2>3
<1>5. CASE \E due \in SUBSET {l \in Letters : at[l] = 0} : DeliverMessages(due)
  BY <1>3, <1>5 DEF DeliverMessages
<1>6. CASE Down
  <2>1. inbox \in Lists /\ inbox # Nothing /\ MaybePrefetch(Lowered)
    BY <1>6, InboxAssumption DEF Down, Browsing, IsOpen, TypeOK
  <2>2. ListTrue(inbox)
    BY <2>1 DEF ListsTrue
  <2>3. PICK c \in Int : c = IF inbox.cursor < Len(inbox.items) - 1 THEN inbox.cursor + 1 ELSE inbox.cursor
    BY <2>1 DEF Lists
  <2>4. PICK f : f = [inbox EXCEPT !.cursor = c]
    OBVIOUS
  <2>5. f = Lowered
    BY <2>3, <2>4 DEF Lowered
  <2>6. f \in Lists /\ SameLetters(f, inbox)
    BY <2>1, <2>4, Moves
  <2>7. \A l \in Shown(f) : at[l] >= 1
    BY <2>2, <2>6 DEF SameLetters, Shown, ListTrue
  <2> QED BY <2>1, <2>5, <2>6, <2>7, PrefetchMoves
<1>7. CASE Confirm
  <2>1. CASE UNCHANGED loads
    BY <1>3, <2>1
  <2>2. CASE inbox.cursor >= 0 /\ \E s \in Slots : loads' = [loads EXCEPT ![s] = [pc |-> "delete", letter |-> AtCursor]]
    <3>1. inbox \in Lists /\ inbox.cursor < Len(inbox.items)
      BY <1>7, InboxAssumption DEF Confirm, IsOpen, TypeOK
    <3>2. PICK q \in Seq(Letters), i \in Int : q = inbox.items /\ i = inbox.cursor + 1
      BY <3>1 DEF Lists
    <3>3. inbox.cursor \in Int
      BY <3>1 DEF Lists
    <3>4. i \in 1 .. Len(q)
      BY <2>2, <3>1, <3>2, <3>3
    <3>5. AtCursor \in Letters
      BY <3>2, <3>4, ElementOfSeq DEF AtCursor
    <3>6. PICK c \in Deletions : c = [pc |-> "delete", letter |-> AtCursor]
      BY <1>0, <3>5
    <3>7. c.pc = "delete"
      BY DEF Deletions
    <3> QED BY <2>2, <3>6, <3>7 DEF LoadsMove
  <2>3. inbox.cursor \in Int
    BY <1>7, InboxAssumption DEF Confirm, IsOpen, TypeOK, Lists
  <2> QED BY <1>7, <2>1, <2>2, <2>3 DEF Confirm
<1>8. CASE \E p \in Places : Arrive(p)
  BY <1>2, <1>3, <1>8 DEF Arrive, ShowInbox
<1>9. CASE Up \/ AskToDelete \/ Decline \/ Turns \/ UNCHANGED vars
  BY <1>3, <1>9, TurnsFollow DEF Up, AskToDelete, Decline, vars
<1> QED BY <1>4, <1>5, <1>6, <1>7, <1>8, <1>9 DEF Next, Keys, Turns

(* The questions and answers on their way stay true. *)
LEMMA NextPagesTrue ==
    ASSUME TypeOK, PassesCounted, PagesTrue, ListsTrue, [Next]_vars
    PROVE  PagesTrue' /\ loads' \in [Slots -> {Idle} \cup Deletions \cup Pages \cup Answers]
<1> DEFINE Good(c) == /\ c.pc \in {"page", "answer"} => (c.append <=> c.before # 0)
                      /\ c.pc = "page" => c.before <= Now
                      /\ c.pc = "answer" => AnswerTrue(c)
<1>1. loads \in [Slots -> {Idle} \cup Deletions \cup Pages \cup Answers] /\ \A s \in Slots : Good(loads[s])
  BY DEF TypeOK, PagesTrue
<1>2. /\ loads' \in [Slots -> {Idle} \cup Deletions \cup Pages \cup Answers]
      /\ \A s \in Slots : Good(loads'[s])
  <2>1. CASE UNCHANGED loads
    BY <1>1, <2>1
  <2>2. ASSUME NEW s \in Slots, NEW c \in {Idle} \cup Deletions \cup Pages \cup Answers, Good(c),
               loads' = [loads EXCEPT ![s] = c]
        PROVE  /\ loads' \in [Slots -> {Idle} \cup Deletions \cup Pages \cup Answers]
               /\ \A t \in Slots : Good(loads'[t])
    <3> HIDE DEF Good
    <3>1. \A t \in Slots : loads'[t] = IF t = s THEN c ELSE loads[t]
      BY <1>1, <2>2
    <3> QED BY <1>1, <2>2, <3>1
  <2> QED BY <2>1, <2>2, NextLoadsMove DEF LoadsMove
<1>3. ASSUME NEW s \in Slots, NEW c \in {Idle} \cup Deletions \cup Pages \cup Answers, c = loads'[s], Good(c)
      PROVE  /\ c.pc \in {"page", "answer"} => (c.append <=> c.before # 0)
             /\ c.pc = "page" => c.before <= Now'
             /\ c.pc = "answer" => AnswerTrue(c)'
  <2>1. c.pc = "answer" => c \in Answers
    BY DEF Idle, Deletions, Pages, Answers
  <2>2. c.pc = "page" => c \in Pages
    BY DEF Idle, Deletions, Pages, Answers
  <2>3. c.pc = "page" => c.before <= Now'
    BY <1>3, <2>2, RelayMoves, InboxAssumption DEF Pages
  <2> QED BY <1>3, <2>1, <2>3, AnswerStays
<1> QED BY <1>2, <1>3 DEF PagesTrue

-----------------------------------------------------------------------------
ScreensTyped ==
    /\ screen \in Places
    /\ inbox \in Lists \cup {Nothing} /\ (inbox # Nothing <=> screen = "inbox")
    /\ cached \in Lists \cup {Nothing}
ScreensGood == ScreensTyped /\ ListsTrue /\ Cursors

(* The list on the screen becomes another one. *)
LEMMA ListChanges ==
    ASSUME IInv, [Next]_vars, screen = "inbox", UNCHANGED <<screen, cached>>,
           NEW f \in Lists, inbox' = f, ListTrue(f),
           f.cursor >= -1, f.cursor < 0 => emptied', f.items = <<>> => f.cursor <= 0,
           f.items # <<>> /\ ~crashed' => f.cursor \in 0 .. Len(f.items) - 1,
           emptied => emptied', crashed => crashed', crashed' => emptied'
    PROVE  ScreensGood'
<1>1. ScreensTyped'
  BY InboxAssumption DEF ScreensTyped, IInv, TypeOK
<1>2. ListsTrue'
  <2>1. ListTrue(f)'
    BY ListStays DEF IInv
  <2>2. ASSUME NEW g, g = cached, g # Nothing PROVE ListTrue(g)'
    <3>1. g \in Lists /\ ListTrue(g)
      BY <2>2 DEF IInv, TypeOK, ListsTrue
    <3> QED BY <3>1, ListStays DEF IInv
  <2> QED BY <2>1, <2>2 DEF ListsTrue
<1>3. Cursors'
  <2>1. ASSUME NEW g, g = cached, g # Nothing PROVE OnList(g)'
    BY <2>1 DEF IInv, Cursors, OnList
  <2> QED BY <2>1 DEF Cursors, OnList
<1> QED BY <1>1, <1>2, <1>3 DEF ScreensGood

(* The lists stay, on other screens perhaps. *)
LEMMA ListsMove ==
    ASSUME IInv, [Next]_vars, UNCHANGED <<emptied, crashed>>, ScreensTyped',
           inbox' \in {inbox, cached, Empty, Nothing}, cached' \in {inbox, cached, Nothing}
    PROVE  ScreensGood'
<1>1. ASSUME NEW g \in {inbox, cached, Empty}, g # Nothing
      PROVE  g \in Lists /\ ListTrue(g) /\ OnList(g)'
  <2>1. CASE g \in {inbox, cached}
    BY <1>1, <2>1 DEF IInv, TypeOK, ListsTrue, Cursors, OnList
  <2>2. CASE g = Empty
    <3>1. g.items = <<>> /\ g.upto = 0 /\ g.cursor = 0 /\ g.cuts = {} /\ g.confirm = Nothing
          /\ g.hasMore = FALSE /\ g.moved = FALSE /\ g.mixed = FALSE /\ g.again = FALSE
      BY <2>2 DEF Empty
    <3>2. <<>> \in Seq(Letters) /\ DOMAIN <<>> = {} /\ 0 \in 0 .. MaxPasses
      BY InboxAssumption
    <3>3. g \in Lists
      BY <2>2, <3>2 DEF Empty, Lists
    <3>4. Shown(g) = {} /\ Ordered(g.items)
      BY <3>1, <3>2 DEF Shown, Ordered
    <3>5. g.upto <= Now /\ \A l \in Letters : at[l] \notin 1 .. g.upto
      BY <3>1, RelayMoves DEF IInv
    <3> QED BY <3>1, <3>3, <3>4, <3>5 DEF ListTrue, Complete, OnList
  <2> QED BY <1>1, <2>1, <2>2
<1>2. ASSUME NEW g, g \in {inbox', cached'} \ {Nothing} PROVE ListTrue(g)' /\ OnList(g)'
  BY <1>1, <1>2, ListStays DEF IInv
<1>3. crashed' => emptied'
  BY DEF IInv, Cursors
<1> QED BY <1>2, <1>3 DEF ScreensGood, ListsTrue, Cursors

(* The lists stay true, and their cursors on them, whatever is shown next. *)
LEMMA NextScreensGood == IInv /\ [Next]_vars => ScreensGood'
<1> SUFFICES ASSUME IInv, [Next]_vars PROVE ScreensGood'
  OBVIOUS
<1>0. ScreensTyped /\ Nothing \notin Lists
  BY InboxAssumption DEF IInv, TypeOK, ScreensTyped
<1>1. CASE UNCHANGED <<inbox, cached, screen, emptied, crashed>>
  BY <1>0, <1>1, ListsMove DEF ScreensTyped
<1>2. ASSUME screen = "inbox"
      PROVE  /\ inbox \in Lists /\ ListTrue(inbox) /\ inbox # Nothing
             /\ inbox.cursor \in Int /\ Len(inbox.items) \in Nat
             /\ inbox.cursor >= -1 /\ (inbox.cursor < 0 => emptied)
             /\ (inbox.items = <<>> => inbox.cursor <= 0)
             /\ (inbox.items # <<>> /\ ~crashed => inbox.cursor \in 0 .. Len(inbox.items) - 1)
             /\ (crashed => emptied)
  BY <1>0, <1>2 DEF ScreensTyped, Lists, IInv, ListsTrue, Cursors, OnList
<1>3. ASSUME screen = "inbox", UNCHANGED <<screen, cached, emptied, crashed>>, NEW c \in Int,
             inbox' = [inbox EXCEPT !.cursor = c], inbox.cursor < 0 => c < 0,
             c >= -1, c < 0 => emptied, inbox.items = <<>> => c <= 0,
             inbox.items # <<>> /\ ~crashed => c \in 0 .. Len(inbox.items) - 1
      PROVE  ScreensGood'
  <2>1. PICK f : f = [inbox EXCEPT !.cursor = c]
    OBVIOUS
  <2>2. f \in Lists /\ SameLetters(f, inbox) /\ f.cursor = c
    BY <1>2, <1>3, <2>1, Moves
  <2>3. ListTrue(f) /\ f.items = inbox.items
    BY <1>2, <1>3, <2>2, EquallyTrue DEF SameLetters
  <2> QED BY <1>2, <1>3, <2>1, <2>2, <2>3, ListChanges
<1>4. ASSUME screen = "inbox", UNCHANGED <<screen, cached, emptied>>, NEW f \in Lists, inbox' = f,
             SameLetters(f, inbox), f.cursor = inbox.cursor, crashed => crashed', crashed' => emptied
      PROVE  ScreensGood'
  <2>1. ListTrue(f) /\ f.items = inbox.items
    BY <1>2, <1>4, EquallyTrue DEF SameLetters
  <2> QED BY <1>2, <1>4, <2>1, ListChanges
<1>5. CASE Up
  <2>1. screen = "inbox" /\ inbox.cursor > 0 /\ inbox' = [inbox EXCEPT !.cursor = inbox.cursor - 1]
        /\ UNCHANGED <<screen, cached, emptied, crashed>> /\ ~crashed
    BY <1>5 DEF Up, Browsing, IsOpen, ghosts, screens
  <2>2. PICK c \in Int : c = inbox.cursor - 1
    BY <1>2, <2>1
  <2> QED BY <1>2, <1>3, <2>1, <2>2
<1>6. CASE Down
  <2>1. screen = "inbox" /\ inbox' = Lowered
        /\ UNCHANGED <<screen, cached, emptied, crashed>> /\ ~crashed
    BY <1>6 DEF Down, Browsing, IsOpen, ghosts, screens
  <2>2. PICK c \in Int : c = IF inbox.cursor < Len(inbox.items) - 1 THEN inbox.cursor + 1 ELSE inbox.cursor
    BY <1>2, <2>1
  <2>3. inbox' = [inbox EXCEPT !.cursor = c]
    BY <2>1, <2>2 DEF Lowered
  <2>4. inbox.items = <<>> => Len(inbox.items) = 0
    OBVIOUS
  <2>5. CASE inbox.cursor < Len(inbox.items) - 1
    BY <1>2, <1>3, <2>1, <2>2, <2>3, <2>4, <2>5
  <2>6. CASE ~(inbox.cursor < Len(inbox.items) - 1)
    BY <1>2, <1>3, <2>1, <2>2, <2>3, <2>6
  <2> QED BY <2>5, <2>6
<1>7. CASE AskToDelete
  <2>1. screen = "inbox" /\ inbox.items # <<>> /\ inbox' = [inbox EXCEPT !.confirm = AtCursor, !.moved = FALSE]
        /\ UNCHANGED <<screen, cached, emptied, crashed>> /\ ~crashed
    BY <1>7 DEF AskToDelete, Browsing, IsOpen, ghosts, screens
  <2>2. PICK q \in Seq(Letters) : q = inbox.items /\ inbox.cursor + 1 \in 1 .. Len(q)
    <3>1. PICK q \in Seq(Letters) : q = inbox.items
      BY <1>2, <2>1 DEF Lists
    <3>2. inbox.cursor + 1 \in 1 .. Len(q)
      BY <1>2, <2>1, <3>1
    <3> QED BY <3>1, <3>2
  <2>3. PICK l \in Letters : l = AtCursor
    BY <2>2, ElementOfSeq DEF AtCursor
  <2>4. PICK f : f = [inbox EXCEPT !.confirm = l, !.moved = FALSE]
    OBVIOUS
  <2>5. f \in Lists /\ SameLetters(f, inbox) /\ f.cursor = inbox.cursor
    <3>1. PICK g \in Lists : g = inbox
      BY <1>2, <2>1
    <3>2. f = [g EXCEPT !.confirm = l, !.moved = FALSE] /\ l \in Letters
      BY <2>3, <2>4, <3>1
    <3>3. f \in Lists /\ SameLetters(f, g) /\ f.cursor = g.cursor
      BY <3>2 DEF Lists, SameLetters
    <3> QED BY <3>1, <3>3
  <2>6. inbox' = f
    BY <2>1, <2>3, <2>4
  <2> QED BY <1>2, <1>4, <2>1, <2>5, <2>6
<1>8. CASE Confirm \/ Decline
  <2>1. screen = "inbox" /\ inbox' = [inbox EXCEPT !.confirm = Nothing]
        /\ UNCHANGED <<screen, cached, emptied>> /\ ~crashed /\ (crashed' => crashed \/ inbox.cursor < 0)
    BY <1>8 DEF Confirm, Decline, IsOpen, ghosts, screens
  <2>2. PICK f : f = [inbox EXCEPT !.confirm = Nothing]
    OBVIOUS
  <2>3. f \in Lists /\ SameLetters(f, inbox) /\ f.cursor = inbox.cursor
    BY <1>2, <2>1, <2>2, Answered
  <2> QED BY <1>2, <1>4, <2>1, <2>2, <2>3
<1>9. ASSUME NEW s \in Slots, Loaded(s) PROVE ScreensGood'
  <2>1. CASE screen # "inbox"
    BY <1>1, <1>9, <2>1 DEF Loaded, screens
  <2>2. CASE screen = "inbox"
    <3>1. PICK a : a = loads[s]
      OBVIOUS
    <3>2. a \in Answers /\ AnswerTrue(a) /\ (a.append <=> a.before # 0)
      BY <1>9, <3>1 DEF Loaded, IInv, TypeOK, PagesTrue, Idle, Deletions, Pages, Answers
    <3>3. PICK g : g = IF a.append THEN Continued(inbox, a) ELSE Replaced(inbox, a)
      OBVIOUS
    <3>4. /\ inbox' = [Clamp(g) EXCEPT !.moved = TRUE]
          /\ emptied' = (emptied \/ (g.items = <<>> /\ inbox.cursor > 0))
          /\ crashed' = ViewFails(Clamp(g))
          /\ UNCHANGED <<screen, cached>> /\ ~crashed
      BY <1>9, <2>2, <3>1, <3>3 DEF Loaded, screens
    <3>5. g \in Lists /\ ListTrue(g) /\ g.cursor = inbox.cursor
      BY <1>2, <2>2, <3>2, <3>3, AnswerMakes DEF IInv
    <3>6. PICK f : f = [Clamp(g) EXCEPT !.moved = TRUE]
      OBVIOUS
    <3>7. /\ f \in Lists /\ SameLetters(f, g)
          /\ f.cursor = IF g.cursor >= Len(g.items) /\ g.cursor > 0 THEN Len(g.items) - 1 ELSE g.cursor
          /\ Clamp(g).items = g.items /\ Clamp(g).cursor = f.cursor
      BY <3>5, <3>6, Clamped
    <3>8. ListTrue(f) /\ f.items = g.items
      BY <3>5, <3>7, EquallyTrue DEF SameLetters
    <3>9. Len(g.items) \in Nat /\ (g.items = <<>> <=> Len(g.items) = 0)
      <4>1. PICK q \in Seq(Letters) : q = g.items
        BY <3>5 DEF Lists
      <4> QED BY <4>1, EmptySeq
    <3>a. PICK c \in Int, n \in Nat, e \in Int : c = inbox.cursor /\ n = Len(g.items) /\ e = f.cursor
      BY <1>2, <2>2, <3>7, <3>9 DEF Lists
    <3>b. e = IF c >= n /\ c > 0 THEN n - 1 ELSE c
      BY <3>5, <3>7, <3>a
    <3>c. c >= -1 /\ (c < 0 => emptied)
      BY <1>2, <2>2, <3>a
    <3>d. e >= -1 /\ (n = 0 => e <= 0) /\ (n # 0 /\ ~(e < 0) => e \in 0 .. n - 1)
          /\ (e < 0 => emptied \/ (n = 0 /\ c > 0))
      BY <3>a, <3>b, <3>c
    <3>10. crashed' = (g.items # <<>> /\ f.cursor < 0)
      BY <3>4, <3>7 DEF ViewFails
    <3>11. f.cursor >= -1 /\ (f.cursor < 0 => emptied')
      BY <3>4, <3>9, <3>a, <3>d
    <3>12. /\ f.items = <<>> => f.cursor <= 0
           /\ f.items # <<>> /\ ~crashed' => f.cursor \in 0 .. Len(f.items) - 1
      BY <3>8, <3>9, <3>10, <3>11, <3>a, <3>d
    <3>13. (emptied => emptied') /\ (crashed => crashed') /\ (crashed' => emptied')
      BY <3>4, <3>10, <3>11
    <3> QED BY <2>2, <3>4, <3>6, <3>7, <3>8, <3>11, <3>12, <3>13, ListChanges
  <2> QED BY <2>1, <2>2
<1>10. CASE \E s \in Slots : DeleteLetter(s) \/ Look(s) \/ Fail(s)
  BY <1>1, <1>10 DEF DeleteLetter, Look, Fail, ghosts, screens
<1>11. CASE \/ UNCHANGED vars
            \/ \E due \in SUBSET {l \in Letters : at[l] = 0} : DeliverMessages(due)
  BY <1>1, <1>11 DEF vars, DeliverMessages, ghosts, screens
<1>12. CASE Turns
  BY <1>1, <1>12, TurnsFollow DEF ghosts
<1>13. ASSUME NEW p \in Places, Arrive(p) PROVE ScreensGood'
  <2>0. Empty \in Lists
    <3>1. <<>> \in Seq(Letters) /\ 0 \in 0 .. MaxPasses
      BY InboxAssumption
    <3> QED BY <3>1 DEF Empty, Lists
  <2>1. UNCHANGED <<emptied, crashed>>
    BY <1>13 DEF Arrive, ghosts
  <2>2. /\ inbox' \in {inbox, cached, Empty, Nothing} /\ cached' \in {inbox, cached, Nothing}
        /\ ScreensTyped'
    <3>1. CASE ShowInbox
      BY <1>0, <2>0, <3>1 DEF ShowInbox, Show, ScreensTyped, Places
    <3>2. CASE p # "inbox" /\ screen' = p /\ inbox' = Nothing /\ (UNCHANGED cached \/ PutAside)
      BY <1>0, <3>2 DEF PutAside, ScreensTyped
    <3> QED BY <1>13, <3>1, <3>2 DEF Arrive
  <2> QED BY <2>1, <2>2, ListsMove
<1> QED BY <1>5, <1>6, <1>7, <1>8, <1>9, <1>10, <1>11, <1>12, <1>13 DEF Next, Keys, Turns

-----------------------------------------------------------------------------
(* A question is put, and stays with its list. *)
LEMMA NextAsked == IInv /\ [Next]_vars => Asked'
<1> SUFFICES ASSUME IInv, [Next]_vars PROVE Asked'
  OBVIOUS
<1>0. /\ inbox \in Lists \cup {Nothing} /\ cached \in Lists \cup {Nothing} /\ Nothing \notin Lists
      /\ Asked
  BY InboxAssumption DEF IInv, TypeOK
<1>1. CASE UNCHANGED <<inbox, cached, crashed>>
  BY <1>0, <1>1 DEF Asked, AskedOf
<1>2. ASSUME UNCHANGED cached, inbox' # Nothing => inbox'.confirm = Nothing \/ inbox'.moved
      PROVE  Asked'
  BY <1>0, <1>2 DEF Asked, AskedOf
<1>3. ASSUME screen = "inbox" PROVE inbox \in Lists
  BY <1>0, <1>3 DEF IInv, TypeOK
<1>4. CASE Up
  <2>1. inbox \in Lists /\ inbox.confirm = Nothing /\ UNCHANGED cached
        /\ inbox' = [inbox EXCEPT !.cursor = inbox.cursor - 1]
    BY <1>3, <1>4 DEF Up, Browsing, IsOpen
  <2>2. PICK c \in Int : c = inbox.cursor - 1
    BY <2>1 DEF Lists
  <2>3. inbox'.confirm = Nothing
    BY <2>1, <2>2 DEF Lists
  <2> QED BY <1>2, <2>1, <2>3
<1>5. CASE Down
  <2>1. inbox \in Lists /\ inbox.confirm = Nothing /\ UNCHANGED cached /\ inbox' = Lowered
    BY <1>3, <1>5 DEF Down, Browsing, IsOpen
  <2>2. PICK c \in Int : c = IF inbox.cursor < Len(inbox.items) - 1 THEN inbox.cursor + 1 ELSE inbox.cursor
    BY <2>1 DEF Lists
  <2>3. inbox' = [inbox EXCEPT !.cursor = c]
    BY <2>1, <2>2 DEF Lowered
  <2>4. inbox'.confirm = Nothing
    BY <2>1, <2>3 DEF Lists
  <2> QED BY <1>2, <2>1, <2>4
<1>6. CASE AskToDelete
  <2>1. inbox \in Lists /\ inbox.items # <<>> /\ UNCHANGED cached
        /\ inbox' = [inbox EXCEPT !.confirm = AtCursor, !.moved = FALSE]
    BY <1>3, <1>6 DEF AskToDelete, Browsing, IsOpen
  <2>2. inbox'.items = inbox.items /\ inbox'.cursor = inbox.cursor /\ inbox'.confirm = AtCursor
    BY <2>1 DEF Lists
  <2>3. inbox'.confirm = inbox'.items[inbox'.cursor + 1]
    BY <2>2 DEF AtCursor
  <2> QED BY <1>0, <2>1, <2>2, <2>3 DEF Asked, AskedOf
<1>7. CASE Confirm \/ Decline
  <2>1. inbox \in Lists /\ UNCHANGED cached /\ inbox' = [inbox EXCEPT !.confirm = Nothing]
    BY <1>3, <1>7 DEF Confirm, Decline, IsOpen
  <2>2. inbox'.confirm = Nothing
    BY <2>1 DEF Lists
  <2> QED BY <1>2, <2>1, <2>2
<1>8. ASSUME NEW s \in Slots, Loaded(s) PROVE Asked'
  <2>1. UNCHANGED <<cached, screen>>
    BY <1>8 DEF Loaded, screens
  <2>2. CASE screen # "inbox"
    <3>1. inbox' = Nothing
      BY <1>8, <2>2 DEF Loaded, IInv, TypeOK
    <3> QED BY <1>2, <2>1, <3>1
  <2>3. CASE screen = "inbox"
    <3>1. PICK a : a = loads[s]
      OBVIOUS
    <3>2. a \in Answers /\ AnswerTrue(a) /\ (a.append <=> a.before # 0)
      BY <1>8, <3>1 DEF Loaded, IInv, TypeOK, PagesTrue, Idle, Deletions, Pages, Answers
    <3>3. PICK g : g = IF a.append THEN Continued(inbox, a) ELSE Replaced(inbox, a)
      OBVIOUS
    <3>4. inbox' = [Clamp(g) EXCEPT !.moved = TRUE]
      BY <1>8, <2>3, <3>1, <3>3 DEF Loaded
    <3>5. inbox \in Lists /\ ListTrue(inbox)
      BY <1>0, <1>3, <2>3 DEF IInv, ListsTrue
    <3>6. g \in Lists
      BY <3>2, <3>3, <3>5, AnswerMakes DEF IInv
    <3>7. PICK f : f = [Clamp(g) EXCEPT !.moved = TRUE]
      OBVIOUS
    <3>8. f.moved = TRUE
      BY <3>6, <3>7, Clamped
    <3> QED BY <1>2, <2>1, <3>4, <3>7, <3>8
  <2> QED BY <2>2, <2>3
<1>9. CASE \E s \in Slots : DeleteLetter(s) \/ Look(s) \/ Fail(s)
  BY <1>1, <1>9 DEF DeleteLetter, Look, Fail
<1>10. CASE \/ UNCHANGED vars \/ Turns
            \/ \E due \in SUBSET {l \in Letters : at[l] = 0} : DeliverMessages(due)
  BY <1>1, <1>10, TurnsFollow DEF vars, DeliverMessages
<1>11. ASSUME NEW p \in Places, Arrive(p) PROVE Asked'
  <2>1. inbox' \in {inbox, cached, Empty, Nothing} /\ cached' \in {inbox, cached, Nothing}
    BY <1>11 DEF Arrive, ShowInbox, Show, PutAside
  <2>2. AskedOf(Empty)
    BY DEF AskedOf, Empty
  <2>3. \A list \in {inbox, cached, Empty} : list # Nothing => AskedOf(list)
    BY <1>0, <2>2 DEF Asked
  <2>4. \A list \in {inbox', cached'} : list # Nothing => AskedOf(list)
    BY <2>1, <2>3
  <2> QED BY <2>4 DEF Asked, AskedOf
<1> QED BY <1>4, <1>5, <1>6, <1>7, <1>8, <1>9, <1>10, <1>11 DEF Next, Keys, Turns

(* The rest of the types; the letter deleted is the one at the cursor. *)
LEMMA NextTyped ==
    IInv /\ [Next]_vars => /\ at' \in [Letters -> 0 .. MaxPasses] /\ deleted' \subseteq Letters
                           /\ emptied' \in BOOLEAN /\ crashed' \in BOOLEAN
                           /\ mistaken' = {}
<1> SUFFICES ASSUME IInv, [Next]_vars
             PROVE  /\ at' \in [Letters -> 0 .. MaxPasses] /\ deleted' \subseteq Letters
                    /\ emptied' \in BOOLEAN /\ crashed' \in BOOLEAN
                    /\ mistaken' = {}
  OBVIOUS
<1>0. /\ at \in [Letters -> 0 .. MaxPasses] /\ deleted \subseteq Letters
      /\ emptied \in BOOLEAN /\ crashed \in BOOLEAN /\ mistaken = {}
  BY DEF IInv, TypeOK, DeletesAsAsked
<1>1. CASE UNCHANGED <<at, deleted, emptied, crashed, mistaken>>
  BY <1>0, <1>1
<1>2. ASSUME NEW due \in SUBSET {l \in Letters : at[l] = 0}, DeliverMessages(due)
      PROVE  at' \in [Letters -> 0 .. MaxPasses] /\ UNCHANGED <<deleted, emptied, crashed, mistaken>>
  <2>1. Now \in 0 .. MaxPasses /\ Now < MaxPasses /\ MaxPasses \in Nat
    BY <1>2, NowType, InboxAssumption DEF IInv, DeliverMessages
  <2>2. PICK p \in 0 .. MaxPasses : p = Now + 1
    BY <2>1
  <2>3. at' = [l \in Letters |-> IF l \in due THEN p ELSE at[l]]
    BY <1>2, <2>2 DEF DeliverMessages
  <2> QED BY <1>0, <1>2, <2>3 DEF DeliverMessages, ghosts
<1>3. ASSUME NEW s \in Slots, DeleteLetter(s)
      PROVE  deleted' \subseteq Letters /\ UNCHANGED <<at, emptied, crashed, mistaken>>
  <2>1. loads[s].letter \in Letters
    BY <1>3 DEF DeleteLetter, IInv, TypeOK, Idle, Deletions, Pages, Answers
  <2> QED BY <1>0, <1>3, <2>1 DEF DeleteLetter, DeleteLetterForUser, ghosts
<1>4. ASSUME NEW s \in Slots, Look(s) \/ Fail(s)
      PROVE  UNCHANGED <<at, deleted, emptied, crashed, mistaken>>
  BY <1>4 DEF Look, Fail, relay, ghosts
<1>5. ASSUME NEW s \in Slots, Loaded(s)
      PROVE  emptied' \in BOOLEAN /\ crashed' \in BOOLEAN /\ UNCHANGED <<at, deleted, mistaken>>
  <2>1. CASE screen # "inbox"
    BY <1>0, <1>5, <2>1 DEF Loaded, relay
  <2>2. CASE screen = "inbox"
    <3>1. PICK g : g = IF loads[s].append THEN Continued(inbox, loads[s]) ELSE Replaced(inbox, loads[s])
      OBVIOUS
    <3>2. /\ emptied' = (emptied \/ (g.items = <<>> /\ inbox.cursor > 0))
          /\ crashed' = ViewFails(Clamp(g)) /\ UNCHANGED <<relay, mistaken>>
      BY <1>5, <2>2, <3>1 DEF Loaded
    <3>3. emptied' \in BOOLEAN
      BY <3>2
    <3>4. crashed' \in BOOLEAN
      BY <3>2 DEF ViewFails
    <3> QED BY <3>2, <3>3, <3>4 DEF relay
  <2> QED BY <2>1, <2>2
<1>6. CASE Confirm
  <2>1. inbox # Nothing /\ inbox.confirm # Nothing /\ ~crashed /\ UNCHANGED <<at, deleted, emptied>>
    BY <1>6, InboxAssumption DEF Confirm, IsOpen, IInv, TypeOK, relay
  <2>2. inbox.moved \/ AtCursor = inbox.confirm
    BY <2>1 DEF IInv, Asked, AskedOf, AtCursor
  <2>3. mistaken' = {} /\ crashed' \in BOOLEAN
    BY <1>0, <1>6, <2>2 DEF Confirm
  <2> QED BY <1>0, <2>1, <2>3
<1>7. CASE \/ Up \/ Down \/ AskToDelete \/ Decline \/ Turns \/ UNCHANGED vars
           \/ \E p \in Places : Arrive(p)
  BY <1>1, <1>7, TurnsFollow DEF Up, Down, AskToDelete, Decline, Arrive, vars, relay, ghosts
<1> QED BY <1>0, <1>2, <1>3, <1>4, <1>5, <1>6, <1>7 DEF Next, Keys, Turns

(* Messages that are on their way are counted. *)
LEMMA NextComing == IInv /\ [Next]_vars => coming' \in [Places -> Nat]
<1> SUFFICES ASSUME IInv, [Next]_vars PROVE coming' \in [Places -> Nat]
  OBVIOUS
<1>0. coming \in [Places -> Nat]
  BY DEF IInv, TypeOK
<1>1. CASE Turns
  BY <1>0, <1>1, TurnsFollow
<1>2. CASE \E p \in Places : Arrive(p)
  BY <1>0, <1>2 DEF Arrive
<1>3. CASE \/ Up \/ Down \/ AskToDelete \/ Confirm \/ Decline \/ UNCHANGED vars
           \/ \E s \in Slots : DeleteLetter(s) \/ Look(s) \/ Fail(s) \/ Loaded(s)
           \/ \E due \in SUBSET {l \in Letters : at[l] = 0} : DeliverMessages(due)
  BY <1>0, <1>3 DEF Up, Down, AskToDelete, Confirm, Decline, vars, screens, DeleteLetter, Look, Fail,
                    Loaded, DeliverMessages
<1> QED BY <1>1, <1>2, <1>3 DEF Next, Keys, Turns

(* The relay's letters travel, and nothing is on the screen. *)
LEMMA InitInv == Init => IInv
<1> SUFFICES ASSUME Init PROVE IInv
  OBVIOUS
<1>0. 0 \in 0 .. MaxPasses /\ Idle \in {Idle} \cup Deletions \cup Pages \cup Answers
  BY InboxAssumption
<1>1. TypeOK
  <2>1. at \in [Letters -> 0 .. MaxPasses] /\ deleted \subseteq Letters
    BY <1>0 DEF Init
  <2>2. loads \in [Slots -> {Idle} \cup Deletions \cup Pages \cup Answers]
    BY <1>0 DEF Init
  <2> QED BY <2>1, <2>2 DEF Init, TypeOK, Places
<1>2. 0 \in 0 .. MaxPasses /\ Latest(0)
  BY InboxAssumption DEF Init, Latest
<1>3. PagesTrue
  BY DEF Init, PagesTrue, Idle
<1>4. ListsTrue /\ Cursors /\ Asked /\ DeletesAsAsked
  BY DEF Init, ListsTrue, Cursors, Asked, DeletesAsAsked
<1> QED BY <1>1, <1>2, <1>3, <1>4 DEF IInv, PassesCounted

(* Every step keeps the invariant. *)
LEMMA NextInv == IInv /\ [Next]_vars => IInv'
<1> SUFFICES ASSUME IInv, [Next]_vars PROVE IInv'
  OBVIOUS
<1>1. ScreensGood'
  BY NextScreensGood
<1>2. PagesTrue' /\ loads' \in [Slots -> {Idle} \cup Deletions \cup Pages \cup Answers]
  BY NextPagesTrue DEF IInv
<1>3. PassesCounted'
  BY RelayMoves DEF IInv
<1>4. Asked'
  BY NextAsked
<1>5. /\ at' \in [Letters -> 0 .. MaxPasses] /\ deleted' \subseteq Letters
      /\ emptied' \in BOOLEAN /\ crashed' \in BOOLEAN /\ mistaken' = {}
  BY NextTyped
<1>6. TypeOK'
  BY <1>1, <1>2, <1>5, NextComing DEF TypeOK, ScreensGood, ScreensTyped
<1> QED BY <1>1, <1>2, <1>3, <1>4, <1>5, <1>6 DEF IInv, ScreensGood, DeletesAsAsked

LEMMA Invariance == Spec => []IInv
BY InitInv, NextInv, PTL DEF Spec

(* The types: a list is on the screen exactly when the inbox is (tui.go        *)
(* switchTo, backToInboxMsg).                                                  *)
THEOREM TypesHold == Spec => []TypeOK
<1>1. IInv => TypeOK
  BY DEF IInv
<1> QED BY <1>1, Invariance, PTL

(* What the list shows is what the relay has, for any page size, any number of *)
(* commands on their way and their answers in any order: unless a page left a  *)
(* gap, nothing is missing but at the dates pages ended; unless one overlaps,  *)
(* every letter is listed once, newest first (handleGetInbox, inboxLoadedMsg). *)
THEOREM TheListIsFaithful == Spec => []ListIsFaithful
<1>1. ASSUME IInv PROVE ListIsFaithful
  <2>1. ASSUME screen = "inbox" PROVE ListTrue(inbox)
    <3>1. inbox # Nothing
      BY <1>1, <2>1 DEF IInv, TypeOK
    <3> QED BY <1>1, <3>1 DEF IInv, ListsTrue
  <2> QED BY <2>1 DEF ListIsFaithful, ListTrue, Complete, Ordered
<1> QED BY <1>1, Invariance, PTL

(* A letter that is deleted is the one the question was about, unless an answer *)
(* changed the list meanwhile (inbox.go, the "d" and "y" keys).                 *)
THEOREM DeletionsAreAsked == Spec => []DeletesAsAsked
<1>1. IInv => DeletesAsAsked
  BY DEF IInv
<1> QED BY <1>1, Invariance, PTL

(* The cursor of a list with letters is on one of them; only a list emptied     *)
(* above its cursor makes View fail (inbox.go, inboxLoadedMsg and View).        *)
THEOREM TheCursorIsOnTheList == Spec => []CursorOnList
<1>1. ASSUME IInv PROVE CursorOnList
  <2>1. ASSUME screen = "inbox" PROVE OnList(inbox)
    <3>1. inbox # Nothing
      BY <1>1, <2>1 DEF IInv, TypeOK
    <3> QED BY <1>1, <3>1 DEF IInv, Cursors
  <2> QED BY <1>1, <2>1 DEF CursorOnList, OnList, IInv, Cursors
<1> QED BY <1>1, Invariance, PTL
=============================================================================
