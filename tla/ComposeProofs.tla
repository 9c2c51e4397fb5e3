----------------------------- MODULE ComposeProofs -----------------------------
(***************************************************************************)
(* Theorems about the compose screen, for any number of threads, stamps,   *)
(* texts, and letters being sent at once.                                  *)
(***************************************************************************)
EXTENDS Compose, FiniteSetTheorems, TLAPS

(* A goroutine that has not read its letter yet. *)
KeyLetters ==
    [pc : {"key"}, body : Texts, sel : SUBSET Stamps, pressed : SUBSET Stamps,
     map : BOOLEAN, text : BOOLEAN, moved : BOOLEAN]
WireLetters == [pc : {"wire"}, body : Bodies, asChosen : BOOLEAN]
SentLetters == [pc : {"sent"}, body : Bodies]

(* Nothing is selected but in the stamp step, and nothing written before there *)
(* is a recipient.                                                             *)
InStep ==
    compose # Closed =>
        /\ compose.step # 3 => compose.sel = {}
        /\ compose.step = 0 => compose.body = 0

(* A draft whose text is to be kept is the text on its thread's screen. *)
DraftOnScreen ==
    ~crashed /\ compose # Closed /\ compose.step # 0 /\ drafts[compose.to] \in live =>
        compose.body = drafts[compose.to]

(* A text on the screen is in a draft when the screen is about to be replaced. *)
TextIsSafe ==
    ~crashed /\ compose # Closed /\ compose.body \in live /\ (\E d \in Destinations : coming[d] > 0) =>
        compose.body \in {drafts[t] : t \in Threads}

(* Stamps other than those pressed for are selected by the writer's own hand. *)
Pressed ==
    \A s \in Slots : sends[s].pc = "key" => sends[s].moved \/ sends[s].sel = sends[s].pressed

IInv == TypeOK /\ InStep /\ DraftOnScreen /\ TextIsSafe /\ NoTextLost /\ Pressed /\ PaidAsChosen

(* The states of a goroutine are told apart by its program counter. *)
LEMMA LetterKinds ==
    /\ Letters = KeyLetters \cup WireLetters \cup SentLetters \cup {Failure, Idle}
    /\ \A l \in Letters :
          /\ l.pc = "key" => l \in KeyLetters
          /\ l.pc = "wire" => l \in WireLetters
          /\ l.pc = "sent" => l \in SentLetters
          /\ l.pc = "failed" => l = Failure
          /\ l.pc = "idle" => l = Idle
BY DEF Letters, KeyLetters, WireLetters, SentLetters, Failure, Idle

(* Changing a field of a letter not yet read keeps its type and its other fields.*)
LEMMA KeyUpdates ==
    ASSUME NEW l \in KeyLetters
    PROVE  /\ [l EXCEPT !.map = FALSE] \in KeyLetters
           /\ [l EXCEPT !.map = FALSE].sel = l.sel
           /\ [l EXCEPT !.map = FALSE].pressed = l.pressed
           /\ l.moved => [l EXCEPT !.map = FALSE].moved
           /\ [l EXCEPT !.map = FALSE, !.text = FALSE] \in KeyLetters
           /\ [l EXCEPT !.map = FALSE, !.text = FALSE].sel = l.sel
           /\ [l EXCEPT !.map = FALSE, !.text = FALSE].pressed = l.pressed
           /\ l.moved => [l EXCEPT !.map = FALSE, !.text = FALSE].moved
           /\ \A b \in Texts : /\ [l EXCEPT !.body = b] \in KeyLetters
                               /\ [l EXCEPT !.body = b].sel = l.sel
                               /\ [l EXCEPT !.body = b].pressed = l.pressed
                               /\ l.moved => [l EXCEPT !.body = b].moved
           /\ \A sel \in SUBSET Stamps :
                  /\ [l EXCEPT !.sel = sel, !.moved = TRUE] \in KeyLetters
                  /\ [l EXCEPT !.sel = sel, !.moved = TRUE].moved
BY DEF KeyLetters

(* Each goroutine goes on as it may: letters not yet read keep their stamps or    *)
(* are marked as moved, and those on the wire carry what was chosen.              *)
Honest(l) ==
    /\ l \in Letters
    /\ l.pc = "key" => l.moved \/ l.sel = l.pressed
    /\ l.pc = "wire" => l.asChosen

(* Goroutines stay honest when the screen replaces its map or its text. *)
LEMMA OwnHonest ==
    ASSUME TypeOK, Pressed, PaidAsChosen
    PROVE  /\ \A s \in Slots : Honest(sends[s])
           /\ \A s \in Slots : Honest(OwnMap[s]) /\ Honest(Own[s])
<1>1. \A s \in Slots : Honest(sends[s])
  BY DEF TypeOK, Pressed, PaidAsChosen, Honest
<1>2. ASSUME NEW s \in Slots PROVE Honest(OwnMap[s]) /\ Honest(Own[s])
  <2>1. CASE sends[s].pc = "key"
    <3>1. sends[s] \in KeyLetters
      BY <1>1, <2>1, LetterKinds DEF Honest
    <3>2. OwnMap[s] = [sends[s] EXCEPT !.map = FALSE]
          /\ Own[s] = [sends[s] EXCEPT !.map = FALSE, !.text = FALSE]
      BY <2>1 DEF OwnMap, Own
    <3>3. \A l \in KeyLetters : l.pc = "key" /\ l \in Letters
      BY LetterKinds DEF KeyLetters
    <3>4. sends[s].moved \/ sends[s].sel = sends[s].pressed
      BY <1>1, <2>1 DEF Honest
    <3>5. OwnMap[s] \in KeyLetters /\ (OwnMap[s].moved \/ OwnMap[s].sel = OwnMap[s].pressed)
      BY <3>1, <3>2, <3>4, KeyUpdates
    <3>6. Own[s] \in KeyLetters /\ (Own[s].moved \/ Own[s].sel = Own[s].pressed)
      BY <3>1, <3>2, <3>4, KeyUpdates
    <3> QED BY <3>3, <3>5, <3>6 DEF Honest
  <2>2. CASE sends[s].pc # "key"
    BY <1>1, <2>2 DEF OwnMap, Own
  <2> QED BY <2>1, <2>2
<1> QED BY <1>1, <1>2

(* Every step leaves every goroutine honest. *)
LEMMA NextHonest ==
    ASSUME TypeOK, Pressed, PaidAsChosen, Next
    PROVE  sends' = [s \in Slots |-> sends'[s]] /\ \A s \in Slots : Honest(sends'[s])
<1> DEFINE Good == sends' = [s \in Slots |-> sends'[s]] /\ \A s \in Slots : Honest(sends'[s])
<1>0. \A s \in Slots : Honest(sends[s]) /\ Honest(OwnMap[s]) /\ Honest(Own[s])
  BY OwnHonest
<1>a. sends = [s \in Slots |-> sends[s]]
  BY DEF TypeOK
<1>b. OwnMap = [s \in Slots |-> OwnMap[s]] /\ Own = [s \in Slots |-> Own[s]]
  BY DEF OwnMap, Own
<1>c. Honest(Idle) /\ Honest(Failure)
  BY LetterKinds DEF Honest, Idle, Failure
<1>d. UNCHANGED sends => Good
  BY <1>0, <1>a
<1>e. sends' = OwnMap \/ sends' = Own => Good
  BY <1>0, <1>b
<1>f. ASSUME NEW s \in Slots, NEW l, Honest(l), sends' = [sends EXCEPT ![s] = l] PROVE Good
  BY <1>0, <1>a, <1>f
<1>1. LeaveRecipients \/ LeaveBody \/ ToShipping \/ BackToBody \/ FetchFailed => Good
  BY <1>d DEF LeaveRecipients, LeaveBody, ToShipping, BackToBody, FetchFailed
<1>2. /\ (\E t \in Threads : Address(t)) \/ (\E list \in SUBSET Stamps : Fetched(list)) => Good
      /\ (\E d \in Destinations : Elsewhere(d)) => Good
  BY <1>d DEF Address, Fetched, Elsewhere
<1>3. LeaveStamps \/ (\E n \in Tiers : ChooseTier(n)) \/ (\E d \in Destinations : Arrive(d)) => Good
  BY <1>e DEF LeaveStamps, ChooseTier, Arrive
<1>4. ASSUME NEW body \in Texts, Edit(body) PROVE Good
  <2>1. PICK seen \in SUBSET {s \in Slots : sends[s].pc = "key" /\ sends[s].text} :
          sends' = [s \in Slots |-> IF s \in seen THEN [sends[s] EXCEPT !.body = body] ELSE sends[s]]
    BY <1>4 DEF Edit
  <2>2. ASSUME NEW s \in Slots PROVE Honest(sends'[s])
    <3>1. CASE s \in seen
      <4>1. sends[s].pc = "key" /\ sends'[s] = [sends[s] EXCEPT !.body = body]
        BY <2>1, <3>1
      <4>2. sends[s] \in KeyLetters /\ (sends[s].moved \/ sends[s].sel = sends[s].pressed)
        BY <1>0, <4>1, LetterKinds DEF Honest
      <4>3. sends'[s] \in KeyLetters /\ (sends'[s].moved \/ sends'[s].sel = sends'[s].pressed)
        <5>1. PICK l : l = sends[s]
          OBVIOUS
        <5>2. l \in KeyLetters /\ (l.moved \/ l.sel = l.pressed) /\ sends'[s] = [l EXCEPT !.body = body]
          BY <5>1, <4>1, <4>2
        <5>3. /\ [l EXCEPT !.body = body] \in KeyLetters
              /\ [l EXCEPT !.body = body].sel = l.sel
              /\ [l EXCEPT !.body = body].pressed = l.pressed
              /\ l.moved => [l EXCEPT !.body = body].moved
          BY <5>2, KeyUpdates
        <5> QED BY <5>2, <5>3
      <4>4. sends'[s].pc = "key" /\ sends'[s] \in Letters
        BY <4>3, LetterKinds DEF KeyLetters
      <4> QED BY <4>3, <4>4 DEF Honest
    <3>2. CASE s \notin seen
      BY <2>1, <3>2, <1>0
    <3> QED BY <3>1, <3>2
  <2> QED BY <2>1, <2>2
<1>5. Write \/ Erase => Good
  BY <1>4, ComposeAssumption DEF Write, Erase, Texts, TypeOK
<1>6. ASSUME NEW x \in Stamps, Toggle(x) PROVE Good
  <2>1. Selection(x) \in SUBSET Stamps
    BY <1>6, ComposeAssumption DEF Toggle, Step, IsOpen, Selection, TypeOK, Screens
  <2>2. sends' = [s \in Slots |-> IF s \in {r \in Slots : sends[r].pc = "key" /\ sends[r].map}
                    THEN [sends[s] EXCEPT !.sel = Selection(x), !.moved = TRUE] ELSE sends[s]]
    BY <1>6 DEF Toggle
  <2>3. ASSUME NEW s \in Slots PROVE Honest(sends'[s])
    <3>1. CASE sends[s].pc = "key" /\ sends[s].map
      <4>1. sends'[s] = [sends[s] EXCEPT !.sel = Selection(x), !.moved = TRUE]
        BY <2>2, <3>1
      <4>2. sends[s] \in KeyLetters
        BY <1>0, <3>1, LetterKinds DEF Honest
      <4>3. sends'[s] \in KeyLetters /\ sends'[s].moved
        BY <4>1, <4>2, <2>1, KeyUpdates
      <4>4. sends'[s].pc = "key" /\ sends'[s] \in Letters
        BY <4>3, LetterKinds DEF KeyLetters
      <4> QED BY <4>3, <4>4 DEF Honest
    <3>2. CASE ~(sends[s].pc = "key" /\ sends[s].map)
      BY <2>2, <3>2, <1>0
    <3> QED BY <3>1, <3>2
  <2> QED BY <2>2, <2>3
<1>7. ASSUME NEW s \in Slots, Send(s) PROVE Good
  <2>1. compose.sel \in SUBSET Stamps /\ compose.body \in Texts
    BY <1>7 DEF Send, Step, IsOpen, TypeOK, Screens
  <2>2. PICK l : l = [pc |-> "key", body |-> compose.body, sel |-> compose.sel,
                      pressed |-> compose.sel, map |-> TRUE, text |-> TRUE, moved |-> FALSE]
    OBVIOUS
  <2>3. l \in KeyLetters /\ l.sel = l.pressed /\ l.pc = "key"
    BY <2>1, <2>2 DEF KeyLetters
  <2>4. Honest(l)
    BY <2>3, LetterKinds DEF Honest
  <2>5. sends' = [sends EXCEPT ![s] = l]
    BY <1>7, <2>2 DEF Send
  <2> QED BY <2>4, <2>5, <1>f
<1>8. ASSUME NEW s \in Slots, ReadLetter(s) PROVE Good
  <2>1. CASE Goto(s, Failure)
    BY <2>1, <1>c, <1>f DEF Goto
  <2>2. CASE sends[s].body # 0 /\ Goto(s, [pc |-> "wire", body |-> sends[s].body,
                  asChosen |-> sends[s].moved \/ sends[s].sel = sends[s].pressed])
    <3>1. sends[s].pc = "key" /\ sends[s] \in KeyLetters
      BY <1>8, <1>0, LetterKinds DEF ReadLetter, Honest
    <3>2. sends[s].body \in Bodies /\ (sends[s].moved \/ sends[s].sel = sends[s].pressed)
      BY <3>1, <1>0, <2>2, ComposeAssumption DEF KeyLetters, Texts, Bodies, Honest
    <3>3. PICK l : l = [pc |-> "wire", body |-> sends[s].body, asChosen |-> TRUE]
      OBVIOUS
    <3>4. l \in WireLetters /\ l.pc = "wire" /\ l.asChosen
      BY <3>2, <3>3 DEF WireLetters
    <3>5. Honest(l)
      BY <3>4, LetterKinds DEF Honest
    <3>6. (sends[s].moved \/ sends[s].sel = sends[s].pressed) = TRUE
      BY <3>2
    <3>7. sends' = [sends EXCEPT ![s] = l]
      BY <2>2, <3>3, <3>6 DEF Goto
    <3> QED BY <3>5, <3>7, <1>f
  <2> QED BY <1>8, <2>1, <2>2 DEF ReadLetter
<1>9. ASSUME NEW s \in Slots, Carry(s) PROVE Good
  <2>1. sends[s] \in WireLetters
    BY <1>9, <1>0, LetterKinds DEF Carry, Honest
  <2>2. PICK l : l = [pc |-> "sent", body |-> sends[s].body]
    OBVIOUS
  <2>3. l \in SentLetters /\ l.pc = "sent"
    BY <2>1, <2>2 DEF WireLetters, SentLetters
  <2>4. Honest(l)
    BY <2>3, LetterKinds DEF Honest
  <2>5. sends' = [sends EXCEPT ![s] = l] \/ sends' = [sends EXCEPT ![s] = Failure]
    BY <1>9, <2>2 DEF Carry, Goto
  <2> QED BY <2>4, <2>5, <1>c, <1>f
<1>10. ASSUME NEW s \in Slots, Sent(s) PROVE Good
  BY <1>10, <1>c, <1>f DEF Sent
<1>11. ASSUME NEW s \in Slots, Failed(s) PROVE Good
  BY <1>11, <1>c, <1>f DEF Failed
<1> QED BY <1>1, <1>2, <1>3, <1>5, <1>6, <1>7, <1>8, <1>9, <1>10, <1>11 DEF Next, Keys, Sending

(* What the screen shows keeps its type when a field changes. *)
LEMMA ScreenUpdates ==
    ASSUME NEW c \in Screens
    PROVE  /\ \A b \in Texts : [c EXCEPT !.body = b] \in Screens
           /\ \A n \in 0 .. 3 : [c EXCEPT !.step = n] \in Screens
           /\ \A list \in SUBSET Stamps : [c EXCEPT !.stamps = list] \in Screens
           /\ \A list \in SUBSET Stamps : [c EXCEPT !.sel = list] \in Screens
           /\ \A n \in Tiers : [c EXCEPT !.step = 3, !.need = n, !.sel = {}] \in Screens
           /\ \A b \in BOOLEAN : [c EXCEPT !.step = 2, !.sel = {}, !.strayed = b] \in Screens
           /\ \A b \in BOOLEAN : [c EXCEPT !.sending = b, !.strayed = FALSE] \in Screens
<1>1. \A d \in Screens, b \in Texts : [d EXCEPT !.body = b] \in Screens
  BY DEF Screens
<1>2. \A d \in Screens, n \in 0 .. 3 : [d EXCEPT !.step = n] \in Screens
  BY DEF Screens
<1>3. \A d \in Screens, list \in SUBSET Stamps : [d EXCEPT !.stamps = list] \in Screens
  BY DEF Screens
<1>4. \A d \in Screens, list \in SUBSET Stamps : [d EXCEPT !.sel = list] \in Screens
  BY DEF Screens
<1>5. \A d \in Screens, n \in Tiers : [d EXCEPT !.need = n] \in Screens
  BY DEF Screens
<1>6. \A d \in Screens, b \in BOOLEAN : [d EXCEPT !.strayed = b] \in Screens
  BY DEF Screens
<1>7. \A d \in Screens, b \in BOOLEAN : [d EXCEPT !.sending = b] \in Screens
  BY DEF Screens
<1>8. ASSUME NEW n \in Tiers PROVE [c EXCEPT !.step = 3, !.need = n, !.sel = {}] \in Screens
  <2>1. PICK d : d = [c EXCEPT !.step = 3]
    OBVIOUS
  <2>2. PICK e : e = [d EXCEPT !.need = n]
    OBVIOUS
  <2>3. [c EXCEPT !.step = 3, !.need = n, !.sel = {}] = [e EXCEPT !.sel = {}]
    BY <2>1, <2>2
  <2>4. d \in Screens
    <3>1. {2, 3} \subseteq 0 .. 3
      OBVIOUS
    <3> QED BY <2>1, <3>1, <1>2
  <2>5. e \in Screens
    BY <2>2, <2>4, <1>5
  <2> QED BY <2>3, <2>5, <1>4
<1>9. ASSUME NEW b \in BOOLEAN PROVE [c EXCEPT !.step = 2, !.sel = {}, !.strayed = b] \in Screens
  <2>1. PICK d : d = [c EXCEPT !.step = 2]
    OBVIOUS
  <2>2. PICK e : e = [d EXCEPT !.sel = {}]
    OBVIOUS
  <2>3. [c EXCEPT !.step = 2, !.sel = {}, !.strayed = b] = [e EXCEPT !.strayed = b]
    BY <2>1, <2>2
  <2>4. d \in Screens
    <3>1. {2, 3} \subseteq 0 .. 3
      OBVIOUS
    <3> QED BY <2>1, <3>1, <1>2
  <2>5. e \in Screens
    BY <2>2, <2>4, <1>4
  <2> QED BY <2>3, <2>5, <1>6
<1>10. ASSUME NEW b \in BOOLEAN PROVE [c EXCEPT !.sending = b, !.strayed = FALSE] \in Screens
  <2>1. PICK d : d = [c EXCEPT !.sending = b]
    OBVIOUS
  <2>2. [c EXCEPT !.sending = b, !.strayed = FALSE] = [d EXCEPT !.strayed = FALSE]
    BY <2>1
  <2> QED BY <2>1, <2>2, <1>6, <1>7
<1> QED BY <1>1, <1>2, <1>3, <1>4, <1>8, <1>9, <1>10

(* A new screen. *)
LEMMA FreshScreen ==
    Fresh \in Screens /\ Fresh.step = 0 /\ Fresh.to = Closed /\ Fresh.body = 0 /\ Fresh.sel = {}
        /\ Fresh.stamps = {} /\ Fresh.need = 0
BY ComposeAssumption DEF Fresh, Screens, Texts

(* A new screen is addressed with an empty text. *)
LEMMA AddressedFresh ==
    ASSUME NEW t \in Threads
    PROVE  [Fresh EXCEPT !.to = t, !.step = 1] = [Fresh EXCEPT !.to = t, !.step = 1, !.body = 0]
<1>1. PICK f \in Screens : f = Fresh
  BY FreshScreen
<1>2. PICK g : g = [f EXCEPT !.to = t, !.step = 1]
  OBVIOUS
<1>3. g.body = 0 /\ DOMAIN g = DOMAIN f /\ g = [x \in DOMAIN g |-> g[x]]
  BY <1>1, <1>2, FreshScreen DEF Screens
<1>4. [g EXCEPT !.body = 0] = g
  BY <1>3
<1>5. [f EXCEPT !.to = t, !.step = 1, !.body = 0] = [g EXCEPT !.body = 0]
  BY <1>2
<1> QED BY <1>1, <1>2, <1>4, <1>5

(* Toggling a stamp never selects more than the tier costs. *)
LEMMA SelectionFits ==
    ASSUME TypeOK, Step(3), NEW x \in compose.stamps
    PROVE  /\ Selection(x) \subseteq compose.stamps
           /\ Cardinality(Selection(x)) <= compose.need
<1>1. compose \in Screens /\ compose.sel \subseteq compose.stamps /\ x \in Stamps
      /\ Cardinality(compose.sel) <= compose.need /\ compose.need \in Nat /\ compose.sel \subseteq Stamps
  <2>1. compose \in Screens /\ compose.sel \subseteq compose.stamps
        /\ Cardinality(compose.sel) <= compose.need
    BY DEF TypeOK, Step, IsOpen
  <2>2. compose.stamps \subseteq Stamps /\ compose.need \in Tiers \cup {0}
    BY <2>1 DEF Screens
  <2>3. Tiers \cup {0} \subseteq Nat
    <3>1. \A n \in Nat : 1 .. n \subseteq Nat
      OBVIOUS
    <3> QED BY <3>1, ComposeAssumption, FS_CardinalityType
  <2> QED BY <2>1, <2>2, <2>3
<1>2. IsFiniteSet(compose.sel) /\ Cardinality(compose.sel) \in Nat
  BY <1>1, ComposeAssumption, FS_Subset, FS_CardinalityType
<1>3. CASE x \in compose.sel
  <2>1. IsFiniteSet(compose.sel \ {x}) /\ Cardinality(compose.sel \ {x}) = Cardinality(compose.sel) - 1
    BY <1>2, <1>3, FS_RemoveElement
  <2> QED BY <1>1, <1>2, <1>3, <2>1 DEF Selection
<1>4. CASE x \notin compose.sel
  <2>1. Cardinality(compose.sel \cup {x}) = Cardinality(compose.sel) + 1
    BY <1>2, <1>4, FS_AddElement
  <2> QED BY <1>1, <1>2, <1>4, <2>1 DEF Selection
<1> QED BY <1>3, <1>4

(* The screen's part of the types: what the keys and the answers make of it. *)
ScreenOK ==
    compose # Closed =>
        /\ compose \in Screens /\ (compose.to = Closed <=> compose.step = 0)
        /\ compose.sel \subseteq compose.stamps
        /\ Cardinality(compose.sel) <= compose.need
        /\ compose.step # 3 => compose.sel = {}
        /\ compose.step = 0 => compose.body = 0

(* An error leaves the screen what it is, ready to send. *)
LEMMA ErrorOK ==
    ASSUME ScreenOK, ~crashed, Error PROVE ScreenOK'
<1>1. CASE Step(3)
  <2>1. compose \in Screens /\ compose # Closed /\ compose.step = 3
    BY <1>1 DEF Step, IsOpen, ScreenOK
  <2>2. compose' = [compose EXCEPT !.sending = FALSE, !.strayed = FALSE]
    BY <1>1 DEF Error
  <2>3. compose' \in Screens
    BY <2>1, <2>2, ScreenUpdates
  <2>4. compose'.to = compose.to /\ compose'.step = compose.step /\ compose'.sel = compose.sel
        /\ compose'.stamps = compose.stamps /\ compose'.need = compose.need
    BY <2>1, <2>2 DEF Screens
  <2> QED BY <2>1, <2>3, <2>4 DEF ScreenOK
<1>2. CASE ~Step(3)
  BY <1>2 DEF Error, ScreenOK
<1> QED BY <1>1, <1>2

(* Every step leaves the screen what it may be. *)
LEMMA NextScreenOK == TypeOK /\ InStep /\ Next => ScreenOK'
<1> SUFFICES ASSUME TypeOK, InStep, Next PROVE ScreenOK'
  OBVIOUS
<1>0. ScreenOK
  BY DEF ScreenOK, TypeOK, InStep
<1>a. UNCHANGED compose \/ compose' = Closed => ScreenOK'
  BY <1>0 DEF ScreenOK
<1>b. ASSUME compose # Closed PROVE compose \in Screens
  BY <1>b, <1>0 DEF ScreenOK
<1>c. \A b \in Texts, t \in Threads : compose' = [Fresh EXCEPT !.to = t, !.step = 1, !.body = b] => ScreenOK'
  <2>1. SUFFICES ASSUME NEW b \in Texts, NEW t \in Threads,
                        compose' = [Fresh EXCEPT !.to = t, !.step = 1, !.body = b]
                 PROVE ScreenOK'
    OBVIOUS
  <2>2. compose' = [to |-> t, body |-> b, step |-> 1, stamps |-> {}, need |-> 0, sel |-> {},
                    sending |-> FALSE, strayed |-> FALSE]
    BY <2>1 DEF Fresh
  <2>3. compose' \in Screens
    BY <2>2, ComposeAssumption DEF Screens
  <2> QED BY <2>2, <2>3, FS_EmptySet, ComposeAssumption DEF ScreenOK
<1>d. \A t \in Threads : Addressed(t) => ScreenOK'
  <2>1. SUFFICES ASSUME NEW t \in Threads, Addressed(t) PROVE ScreenOK'
    OBVIOUS
  <2>2. LoadDraft(t) \in Texts /\ 0 \in Texts
    BY ComposeAssumption DEF LoadDraft, TypeOK, Texts
  <2>3. [Fresh EXCEPT !.to = t, !.step = 1] = [Fresh EXCEPT !.to = t, !.step = 1, !.body = 0]
    BY AddressedFresh
  <2> QED BY <2>1, <2>2, <2>3, <1>c DEF Addressed
<1>1. ASSUME NEW d \in Destinations, Arrive(d) PROVE ScreenOK'
  <2>1. CASE compose' = Fresh
    BY <2>1, FreshScreen, FS_EmptySet DEF ScreenOK
  <2> QED BY <1>1, <1>a, <1>d, <2>1 DEF Arrive
<1>2. LeaveRecipients \/ LeaveBody \/ (\E d \in Destinations : Elsewhere(d)) => ScreenOK'
  BY <1>a DEF LeaveRecipients, LeaveBody, Elsewhere
<1>3. ASSUME NEW body \in Texts, Edit(body) PROVE ScreenOK'
  <2>1. compose # Closed /\ compose.step = 1 /\ compose' = [compose EXCEPT !.body = body]
    BY <1>3 DEF Edit, Step, IsOpen
  <2>2. compose' \in Screens
    BY <2>1, <1>b, ScreenUpdates
  <2>3. compose'.to = compose.to /\ compose'.step = compose.step /\ compose'.sel = compose.sel
        /\ compose'.stamps = compose.stamps /\ compose'.need = compose.need
    BY <2>1, <1>b DEF Screens
  <2> QED BY <2>1, <2>2, <2>3, <1>0 DEF ScreenOK
<1>4. Write \/ Erase => ScreenOK'
  BY <1>3, ComposeAssumption DEF Write, Erase, Texts, TypeOK
<1>5. ASSUME NEW n \in {1, 2}, compose # Closed, compose.step \in {1, 2}, compose' = [compose EXCEPT !.step = n]
      PROVE ScreenOK'
  <2>1. compose' \in Screens
    <3>1. compose \in Screens /\ n \in 0 .. 3
      BY <1>5, <1>b
    <3> QED BY <1>5, <3>1, ScreenUpdates
  <2>2. compose'.to = compose.to /\ compose'.step = n /\ compose'.sel = compose.sel
        /\ compose'.stamps = compose.stamps /\ compose'.need = compose.need
    BY <1>5, <1>b DEF Screens
  <2> QED BY <1>5, <2>1, <2>2, <1>0 DEF ScreenOK
<1>6. ToShipping \/ BackToBody => ScreenOK'
  BY <1>5 DEF ToShipping, BackToBody, Step, IsOpen
<1>7. ASSUME LeaveStamps PROVE ScreenOK'
  <2>1. compose \in Screens /\ compose # Closed /\ compose.step = 3
        /\ compose' = [compose EXCEPT !.step = 2, !.sel = {}, !.strayed = @ \/ compose.sending]
    BY <1>7, <1>b DEF LeaveStamps, Step, IsOpen
  <2>2. (compose.strayed \/ compose.sending) \in BOOLEAN
    OBVIOUS
  <2>3. compose' = [compose EXCEPT !.step = 2, !.sel = {}, !.strayed = (compose.strayed \/ compose.sending)]
    BY <2>1
  <2>4. compose' \in Screens
    BY <2>1, <2>2, <2>3, ScreenUpdates
  <2>5. compose'.to = compose.to /\ compose'.step = 2 /\ compose'.sel = {}
        /\ compose'.stamps = compose.stamps /\ compose'.need = compose.need
    BY <2>1 DEF Screens
  <2>6. compose.need \in Nat
    BY <2>1, ComposeAssumption DEF Screens
  <2> QED BY <1>0, <2>1, <2>4, <2>5, <2>6, FS_EmptySet DEF ScreenOK
<1>8. (\E t \in Threads : Address(t)) => ScreenOK'
  BY <1>d DEF Address
<1>9. ASSUME NEW n \in Tiers, ChooseTier(n) PROVE ScreenOK'
  <2>1. compose \in Screens /\ compose # Closed /\ compose.step = 2
        /\ compose' = [compose EXCEPT !.step = 3, !.need = n, !.sel = {}]
    BY <1>9, <1>b DEF ChooseTier, Step, IsOpen
  <2>2. compose' \in Screens
    BY <2>1, ScreenUpdates
  <2>3. compose'.to = compose.to /\ compose'.step = 3 /\ compose'.sel = {}
        /\ compose'.stamps = compose.stamps /\ compose'.need = n
    BY <2>1 DEF Screens
  <2>4. n \in Nat
    BY ComposeAssumption
  <2> QED BY <1>0, <2>1, <2>2, <2>3, <2>4, FS_EmptySet DEF ScreenOK
<1>10. ASSUME NEW x \in Stamps, Toggle(x) PROVE ScreenOK'
  <2>1. compose \in Screens /\ compose # Closed /\ compose.step = 3 /\ x \in compose.stamps
        /\ compose' = [compose EXCEPT !.sel = Selection(x)]
    BY <1>10, <1>b DEF Toggle, Step, IsOpen
  <2>2. Selection(x) \subseteq compose.stamps /\ Cardinality(Selection(x)) <= compose.need
    BY <1>10, <2>1, SelectionFits DEF Toggle
  <2>3. compose.stamps \subseteq Stamps
    BY <2>1 DEF Screens
  <2>4. compose' \in Screens
    BY <2>1, <2>2, <2>3, ScreenUpdates
  <2>5. compose'.to = compose.to /\ compose'.step = 3 /\ compose'.sel = Selection(x)
        /\ compose'.stamps = compose.stamps /\ compose'.need = compose.need
    BY <2>1 DEF Screens
  <2> QED BY <1>0, <2>1, <2>2, <2>4, <2>5 DEF ScreenOK
<1>11. ASSUME NEW s \in Slots, Send(s) PROVE ScreenOK'
  <2>1. compose \in Screens /\ compose # Closed /\ compose.step = 3
        /\ compose' = [compose EXCEPT !.sending = TRUE, !.strayed = FALSE]
    BY <1>11, <1>b DEF Send, Step, IsOpen
  <2>2. compose' \in Screens
    BY <2>1, ScreenUpdates
  <2>3. compose'.to = compose.to /\ compose'.step = compose.step /\ compose'.sel = compose.sel
        /\ compose'.stamps = compose.stamps /\ compose'.need = compose.need
    BY <2>1 DEF Screens
  <2> QED BY <1>0, <2>1, <2>2, <2>3 DEF ScreenOK
<1>12. ASSUME NEW s \in Slots, ReadLetter(s) \/ Carry(s) \/ Sent(s) PROVE ScreenOK'
  BY <1>12, <1>a DEF ReadLetter, Carry, Sent, screen
<1>13. FetchFailed \/ (\E s \in Slots : Failed(s)) => ScreenOK'
  BY <1>0, ErrorOK DEF FetchFailed, Failed
<1>14. ASSUME NEW list \in SUBSET Stamps, Fetched(list) PROVE ScreenOK'
  <2>1. CASE UNCHANGED compose
    BY <2>1, <1>a
  <2>2. CASE Step(2) /\ compose' = [compose EXCEPT !.stamps = list]
    <3>1. compose \in Screens /\ compose # Closed /\ compose.step = 2
      BY <2>2, <1>b DEF Step, IsOpen
    <3>2. compose' \in Screens
      BY <3>1, <2>2, ScreenUpdates
    <3>3. compose'.to = compose.to /\ compose'.step = compose.step /\ compose'.sel = compose.sel
          /\ compose'.stamps = list /\ compose'.need = compose.need
      BY <3>1, <2>2 DEF Screens
    <3> QED BY <1>0, <3>1, <3>2, <3>3 DEF ScreenOK
  <2> QED BY <1>14, <2>1, <2>2 DEF Fetched
<1> QED BY <1>1, <1>2, <1>4, <1>6, <1>7, <1>8, <1>9, <1>10, <1>11, <1>12, <1>13, <1>14 DEF Next, Keys, Sending

(* Each step keeps the types. *)
LEMMA NextTypeOK == TypeOK /\ InStep /\ Pressed /\ PaidAsChosen /\ Next => TypeOK'
<1> SUFFICES ASSUME TypeOK, InStep, Pressed, PaidAsChosen, Next PROVE TypeOK'
  OBVIOUS
<1>1. ScreenOK'
  BY NextScreenOK
<1>2. sends' \in [Slots -> Letters]
  <2>1. sends' = [s \in Slots |-> sends'[s]] /\ \A s \in Slots : sends'[s] \in Letters
    BY NextHonest DEF Honest
  <2> QED BY <2>1
<1>3. /\ drafts \in [Threads -> Texts] /\ fetches \in 0 .. MaxFetches /\ written \in Texts
      /\ crashed \in BOOLEAN /\ live \subseteq Bodies /\ coming \in [Destinations -> Nat] /\ sends \in [Slots -> Letters]
      /\ (compose # Closed => compose.body \in Texts /\ compose.to \in Threads \cup {Closed})
  BY DEF TypeOK, Screens
<1>4. drafts' \in [Threads -> Texts]
  <2>1. CASE UNCHANGED drafts
    BY <2>1, <1>3
  <2>2. ASSUME NEW t \in Threads \cup {Closed}, NEW b \in Texts, drafts' = [drafts EXCEPT ![t] = b]
        PROVE drafts' \in [Threads -> Texts]
    BY <2>2, <1>3
  <2>3. 0 \in Texts
    BY ComposeAssumption DEF Texts
  <2>4. LeaveBody => drafts' \in [Threads -> Texts]
    BY <2>1, <2>2, <2>3, <1>3 DEF LeaveBody, SaveDraft, DeleteDraft, Step, IsOpen
  <2>5. (\E s \in Slots : Sent(s)) => drafts' \in [Threads -> Texts]
    BY <2>1, <2>2, <2>3, <1>3 DEF Sent, DeleteDraft, Step, IsOpen
  <2>6. LeaveRecipients \/ Write \/ Erase \/ ToShipping \/ BackToBody \/ LeaveStamps \/ FetchFailed
           => UNCHANGED drafts
    BY DEF LeaveRecipients, Write, Erase, Edit, ToShipping, BackToBody, LeaveStamps, FetchFailed
  <2>7. /\ \A t \in Threads : Address(t) => UNCHANGED drafts
        /\ \A d \in Destinations : Elsewhere(d) \/ Arrive(d) => UNCHANGED drafts
        /\ \A n \in Tiers : ChooseTier(n) => UNCHANGED drafts
        /\ \A x \in Stamps : Toggle(x) => UNCHANGED drafts
        /\ \A s \in Slots : Send(s) \/ ReadLetter(s) \/ Carry(s) \/ Failed(s) => UNCHANGED drafts
        /\ \A list \in SUBSET Stamps : Fetched(list) => UNCHANGED drafts
    BY DEF Address, Elsewhere, Arrive, ChooseTier, Toggle, Send, ReadLetter, Carry, Failed, Fetched
  <2> QED BY <2>1, <2>4, <2>5, <2>6, <2>7 DEF Next, Keys, Sending
<1>5. fetches' \in 0 .. MaxFetches
  <2>1. ToShipping \/ FetchFailed \/ (\E list \in SUBSET Stamps : Fetched(list)) => fetches' \in 0 .. MaxFetches
    BY <1>3, ComposeAssumption DEF ToShipping, FetchFailed, Fetched
  <2>2. LeaveRecipients \/ Write \/ Erase \/ LeaveBody \/ BackToBody \/ LeaveStamps => UNCHANGED fetches
    BY DEF LeaveRecipients, Write, Erase, Edit, LeaveBody, BackToBody, LeaveStamps
  <2>3. /\ \A t \in Threads : Address(t) => UNCHANGED fetches
        /\ \A d \in Destinations : Elsewhere(d) \/ Arrive(d) => UNCHANGED fetches
        /\ \A n \in Tiers : ChooseTier(n) => UNCHANGED fetches
        /\ \A x \in Stamps : Toggle(x) => UNCHANGED fetches
        /\ \A s \in Slots : Send(s) \/ ReadLetter(s) \/ Carry(s) \/ Sent(s) \/ Failed(s) => UNCHANGED fetches
    BY DEF Address, Elsewhere, Arrive, ChooseTier, Toggle, Send, ReadLetter, Carry, Sent, Failed, screen
  <2> QED BY <2>1, <2>2, <2>3, <1>3 DEF Next, Keys, Sending
<1>6. written' \in Texts
  <2>1. Write => written' \in Texts
    BY <1>3, ComposeAssumption DEF Write, Texts
  <2>2. LeaveRecipients \/ Erase \/ LeaveBody \/ ToShipping \/ BackToBody \/ LeaveStamps \/ FetchFailed
           => UNCHANGED written
    BY DEF LeaveRecipients, Erase, LeaveBody, ToShipping, BackToBody, LeaveStamps, FetchFailed, ghosts
  <2>3. /\ \A t \in Threads : Address(t) => UNCHANGED written
        /\ \A d \in Destinations : Elsewhere(d) \/ Arrive(d) => UNCHANGED written
        /\ \A n \in Tiers : ChooseTier(n) => UNCHANGED written
        /\ \A x \in Stamps : Toggle(x) => UNCHANGED written
        /\ \A s \in Slots : Send(s) \/ ReadLetter(s) \/ Carry(s) \/ Sent(s) \/ Failed(s) => UNCHANGED written
        /\ \A list \in SUBSET Stamps : Fetched(list) => UNCHANGED written
    BY DEF Address, Elsewhere, Arrive, ChooseTier, Toggle, Send, ReadLetter, Carry, Sent, Failed, Fetched, ghosts
  <2> QED BY <2>1, <2>2, <2>3, <1>3 DEF Next, Keys, Sending
<1>7. crashed' \in BOOLEAN
  <2>1. \A x \in Stamps : Toggle(x) => crashed' \in BOOLEAN
    BY DEF Toggle
  <2>2. LeaveRecipients \/ Write \/ Erase \/ LeaveBody \/ ToShipping \/ BackToBody \/ LeaveStamps
           \/ FetchFailed => UNCHANGED crashed
    BY DEF LeaveRecipients, Write, Erase, Edit, LeaveBody, ToShipping, BackToBody, LeaveStamps, FetchFailed
  <2>3. /\ \A t \in Threads : Address(t) => UNCHANGED crashed
        /\ \A d \in Destinations : Elsewhere(d) \/ Arrive(d) => UNCHANGED crashed
        /\ \A n \in Tiers : ChooseTier(n) => UNCHANGED crashed
        /\ \A s \in Slots : Send(s) \/ ReadLetter(s) \/ Carry(s) \/ Sent(s) \/ Failed(s) => UNCHANGED crashed
        /\ \A list \in SUBSET Stamps : Fetched(list) => UNCHANGED crashed
    BY DEF Address, Elsewhere, Arrive, ChooseTier, Send, ReadLetter, Carry, Sent, Failed, Fetched
  <2> QED BY <2>1, <2>2, <2>3, <1>3 DEF Next, Keys, Sending
<1>8. live' \subseteq Bodies
  <2>1. ASSUME NEW b \in Texts, Edit(b) PROVE live' \subseteq Bodies
    <3>1. {b} \ {0} \subseteq Bodies
      BY ComposeAssumption DEF Texts, Bodies
    <3> QED BY <2>1, <3>1, <1>3 DEF Edit
  <2>2. Write \/ Erase => live' \subseteq Bodies
    BY <2>1, <1>3, ComposeAssumption DEF Write, Erase, Texts
  <2>3. LeaveBody => live' \subseteq Bodies
    <3>1. \A b \in Texts : b # 0 => b \in Bodies
      BY ComposeAssumption DEF Texts, Bodies
    <3> QED BY <1>3, <3>1 DEF LeaveBody, SaveDraft, Step, IsOpen
  <2>4. LeaveRecipients \/ ToShipping \/ BackToBody \/ LeaveStamps \/ FetchFailed => live' \subseteq live
    BY DEF LeaveRecipients, ToShipping, BackToBody, LeaveStamps, FetchFailed, ghosts
  <2>5. /\ \A t \in Threads : Address(t) => live' \subseteq live
        /\ \A d \in Destinations : Elsewhere(d) \/ Arrive(d) => live' \subseteq live
        /\ \A n \in Tiers : ChooseTier(n) => live' \subseteq live
        /\ \A x \in Stamps : Toggle(x) => live' \subseteq live
        /\ \A s \in Slots : Send(s) \/ ReadLetter(s) \/ Carry(s) \/ Sent(s) \/ Failed(s) => live' \subseteq live
        /\ \A list \in SUBSET Stamps : Fetched(list) => live' \subseteq live
    BY DEF Address, Addressed, Elsewhere, Arrive, ChooseTier, Toggle, Send, ReadLetter, Carry, Sent, Failed, Fetched, ghosts
  <2> QED BY <2>2, <2>3, <2>4, <2>5, <1>3 DEF Next, Keys, Sending
<1>9. coming' \in [Destinations -> Nat]
  <2>1. ASSUME NEW d \in Destinations, Comes(d) PROVE coming' \in [Destinations -> Nat]
    BY <2>1, <1>3 DEF Comes
  <2>2. \A d \in Destinations : Arrive(d) => coming' \in [Destinations -> Nat]
    BY <1>3 DEF Arrive
  <2>3. /\ LeaveRecipients \/ LeaveBody => coming' \in [Destinations -> Nat]
        /\ \A d \in Destinations : Elsewhere(d) => coming' \in [Destinations -> Nat]
        /\ \A s \in Slots : Sent(s) => coming' \in [Destinations -> Nat]
    BY <2>1, <1>3 DEF LeaveRecipients, LeaveBody, Elsewhere, Sent, Follows, Destinations
  <2>4. Write \/ Erase \/ ToShipping \/ BackToBody \/ LeaveStamps \/ FetchFailed => UNCHANGED coming
    BY DEF Write, Erase, Edit, ToShipping, BackToBody, LeaveStamps, FetchFailed
  <2>5. /\ \A t \in Threads : Address(t) => UNCHANGED coming
        /\ \A n \in Tiers : ChooseTier(n) => UNCHANGED coming
        /\ \A x \in Stamps : Toggle(x) => UNCHANGED coming
        /\ \A s \in Slots : Send(s) \/ ReadLetter(s) \/ Carry(s) \/ Failed(s) => UNCHANGED coming
        /\ \A list \in SUBSET Stamps : Fetched(list) => UNCHANGED coming
    BY DEF Address, ChooseTier, Toggle, Send, ReadLetter, Carry, Failed, Fetched, screen
  <2> QED BY <2>2, <2>3, <2>4, <2>5, <1>3 DEF Next, Keys, Sending
<1> QED BY <1>1, <1>2, <1>4, <1>5, <1>6, <1>7, <1>8, <1>9 DEF TypeOK, ScreenOK

(* What a step that writes no text and no draft may do to the texts: the screen *)
(* shows the same one, or none that matters after as before.                   *)
Frame == drafts' = drafts /\ live' \subseteq live /\ (crashed => crashed')
SameText(c, d) == d \in Screens /\ d.body = c.body /\ d.to = c.to /\ (c.step = 0 <=> d.step = 0)
SameScreen == UNCHANGED compose \/ (compose # Closed /\ SameText(compose, compose'))
KeepsTexts ==
    /\ Frame /\ SameScreen
    /\ \/ UNCHANGED coming
       \/ compose = Closed \/ compose.body = 0

(* The changes steps make to the screen leave the text alone. *)
LEMMA UpdatesKeepText ==
    ASSUME NEW c \in Screens
    PROVE  /\ \A list \in SUBSET Stamps : SameText(c, [c EXCEPT !.stamps = list])
           /\ \A list \in SUBSET Stamps : SameText(c, [c EXCEPT !.sel = list])
           /\ \A n \in 1 .. 3 : c.step # 0 => SameText(c, [c EXCEPT !.step = n])
           /\ \A n \in Tiers : c.step # 0 => SameText(c, [c EXCEPT !.step = 3, !.need = n, !.sel = {}])
           /\ \A b \in BOOLEAN : c.step # 0 => SameText(c, [c EXCEPT !.step = 2, !.sel = {}, !.strayed = b])
           /\ \A b \in BOOLEAN : SameText(c, [c EXCEPT !.sending = b, !.strayed = FALSE])
<1>0. DOMAIN c = {"to", "body", "step", "stamps", "need", "sel", "sending", "strayed"}
  BY DEF Screens
<1>1. ASSUME NEW list \in SUBSET Stamps
      PROVE  SameText(c, [c EXCEPT !.stamps = list]) /\ SameText(c, [c EXCEPT !.sel = list])
  BY <1>0, ScreenUpdates DEF SameText
<1>2. ASSUME NEW n \in 1 .. 3, c.step # 0 PROVE SameText(c, [c EXCEPT !.step = n])
  <2>1. n \in 0 .. 3 /\ n # 0
    OBVIOUS
  <2>2. PICK d \in Screens : d = [c EXCEPT !.step = n]
    BY <2>1, ScreenUpdates
  <2>3. d.to = c.to /\ d.body = c.body /\ d.step = n
    BY <1>0, <2>2
  <2> QED BY <1>2, <2>1, <2>2, <2>3 DEF SameText
<1>3. ASSUME NEW n \in Tiers, c.step # 0 PROVE SameText(c, [c EXCEPT !.step = 3, !.need = n, !.sel = {}])
  <2>1. PICK d \in Screens : d = [c EXCEPT !.step = 3, !.need = n, !.sel = {}]
    BY ScreenUpdates
  <2>2. d.to = c.to /\ d.body = c.body /\ d.step = 3
    BY <1>0, <2>1
  <2> QED BY <2>1, <2>2, <1>3 DEF SameText
<1>4. ASSUME NEW b \in BOOLEAN, c.step # 0
      PROVE  SameText(c, [c EXCEPT !.step = 2, !.sel = {}, !.strayed = b])
  <2>1. PICK d \in Screens : d = [c EXCEPT !.step = 2, !.sel = {}, !.strayed = b]
    BY ScreenUpdates
  <2>2. d.to = c.to /\ d.body = c.body /\ d.step = 2
    BY <1>0, <2>1
  <2> QED BY <2>1, <2>2, <1>4 DEF SameText
<1>5. ASSUME NEW b \in BOOLEAN PROVE SameText(c, [c EXCEPT !.sending = b, !.strayed = FALSE])
  <2>1. PICK d \in Screens : d = [c EXCEPT !.sending = b, !.strayed = FALSE]
    BY ScreenUpdates
  <2>2. d.to = c.to /\ d.body = c.body /\ d.step = c.step
    BY <1>0, <2>1
  <2> QED BY <2>1, <2>2 DEF SameText
<1> QED BY <1>1, <1>2, <1>3, <1>4, <1>5

(* Most steps are such steps. *)
LEMMA StepKeepsTexts ==
    ASSUME TypeOK, InStep,
           \/ LeaveRecipients \/ ToShipping \/ BackToBody \/ LeaveStamps \/ FetchFailed
           \/ \E d \in Destinations : Elsewhere(d)
           \/ \E n \in Tiers : ChooseTier(n)
           \/ \E x \in Stamps : Toggle(x)
           \/ \E s \in Slots : Send(s) \/ ReadLetter(s) \/ Carry(s) \/ Failed(s)
           \/ \E list \in SUBSET Stamps : Fetched(list)
    PROVE  KeepsTexts
<1>0. compose # Closed => compose \in Screens
  BY DEF TypeOK
<1>a. compose # Closed /\ SameText(compose, compose') /\ Frame /\ UNCHANGED coming => KeepsTexts
  BY DEF KeepsTexts, SameScreen
<1>1. CASE \E d \in Destinations : Elsewhere(d)
  BY <1>1 DEF Elsewhere, KeepsTexts, SameScreen, Frame, ghosts
<1>2. CASE LeaveRecipients
  BY <1>2 DEF LeaveRecipients, KeepsTexts, SameScreen, Frame, Step, IsOpen, InStep, ghosts
<1>3. CASE ToShipping \/ BackToBody
  <2>1. compose \in Screens /\ compose # Closed /\ compose.step # 0 /\ Frame /\ UNCHANGED coming
    BY <1>0, <1>3 DEF ToShipping, BackToBody, Step, IsOpen, ghosts, Frame
  <2>2. compose' = [compose EXCEPT !.step = 1] \/ compose' = [compose EXCEPT !.step = 2]
    BY <1>3 DEF ToShipping, BackToBody
  <2>3. SameText(compose, [compose EXCEPT !.step = 1]) /\ SameText(compose, [compose EXCEPT !.step = 2])
    <3>1. {1, 2} \subseteq 1 .. 3
      OBVIOUS
    <3> QED BY <2>1, <3>1, UpdatesKeepText
  <2> QED BY <1>a, <2>1, <2>2, <2>3
<1>4. CASE LeaveStamps
  <2>1. compose \in Screens /\ compose # Closed /\ compose.step # 0 /\ Frame /\ UNCHANGED coming
    BY <1>0, <1>4 DEF LeaveStamps, Step, IsOpen, ghosts, Frame
  <2>2. PICK b \in BOOLEAN : b = (compose.strayed \/ compose.sending)
    OBVIOUS
  <2>3. compose' = [compose EXCEPT !.step = 2, !.sel = {}, !.strayed = b]
    BY <1>4, <2>2 DEF LeaveStamps
  <2> QED BY <1>a, <2>1, <2>3, UpdatesKeepText
<1>5. CASE FetchFailed \/ \E s \in Slots : Failed(s)
  <2>1. Frame /\ Error /\ UNCHANGED coming
    BY <1>5 DEF FetchFailed, Failed, ghosts, Frame
  <2>2. CASE Step(3)
    <3>1. compose \in Screens /\ compose # Closed
      BY <1>0, <2>2 DEF Step, IsOpen
    <3>2. compose' = [compose EXCEPT !.sending = FALSE, !.strayed = FALSE]
      BY <2>1, <2>2 DEF Error
    <3> QED BY <1>a, <2>1, <3>1, <3>2, UpdatesKeepText
  <2>3. CASE ~Step(3)
    BY <2>1, <2>3 DEF Error, KeepsTexts, SameScreen
  <2> QED BY <2>2, <2>3
<1>6. ASSUME NEW n \in Tiers, ChooseTier(n) PROVE KeepsTexts
  <2>1. compose \in Screens /\ compose # Closed /\ compose.step # 0 /\ Frame /\ UNCHANGED coming
        /\ compose' = [compose EXCEPT !.step = 3, !.need = n, !.sel = {}]
    <3>1. ~crashed /\ compose # Closed /\ compose.step = 2
          /\ compose' = [compose EXCEPT !.step = 3, !.need = n, !.sel = {}]
          /\ UNCHANGED <<drafts, live, crashed, coming>>
      BY <1>6 DEF ChooseTier, Step, IsOpen, ghosts
    <3> QED BY <1>0, <3>1 DEF Frame
  <2>2. SameText(compose, [compose EXCEPT !.step = 3, !.need = n, !.sel = {}])
    BY <2>1, UpdatesKeepText
  <2> QED BY <1>a, <2>1, <2>2
<1>7. ASSUME NEW x \in Stamps, Toggle(x) PROVE KeepsTexts
  <2>1. compose \in Screens /\ compose # Closed /\ Frame /\ UNCHANGED coming
        /\ compose' = [compose EXCEPT !.sel = Selection(x)]
    BY <1>0, <1>7 DEF Toggle, Step, IsOpen, ghosts, Frame, TypeOK
  <2>2. Selection(x) \in SUBSET Stamps
    BY <2>1, <1>7 DEF Selection, Screens
  <2>3. SameText(compose, [compose EXCEPT !.sel = Selection(x)])
    BY <2>1, <2>2, UpdatesKeepText
  <2> QED BY <1>a, <2>1, <2>3
<1>8. ASSUME NEW s \in Slots, Send(s) PROVE KeepsTexts
  <2>1. compose \in Screens /\ compose # Closed /\ Frame /\ UNCHANGED coming
        /\ compose' = [compose EXCEPT !.sending = TRUE, !.strayed = FALSE]
    BY <1>0, <1>8 DEF Send, Step, IsOpen, ghosts, Frame
  <2> QED BY <1>a, <2>1, UpdatesKeepText
<1>9. CASE \E s \in Slots : ReadLetter(s) \/ Carry(s)
  BY <1>9 DEF ReadLetter, Carry, KeepsTexts, SameScreen, Frame, ghosts, screen
<1>10. ASSUME NEW list \in SUBSET Stamps, Fetched(list) PROVE KeepsTexts
  <2>1. Frame /\ UNCHANGED coming
    BY <1>10 DEF Fetched, Frame, ghosts
  <2>2. CASE UNCHANGED compose
    BY <2>1, <2>2 DEF KeepsTexts, SameScreen
  <2>3. CASE Step(2) /\ compose' = [compose EXCEPT !.stamps = list]
    <3>1. compose \in Screens /\ compose # Closed
      BY <1>0, <2>3 DEF Step, IsOpen
    <3> QED BY <1>a, <2>1, <2>3, <3>1, UpdatesKeepText
  <2> QED BY <1>10, <2>2, <2>3 DEF Fetched
<1> QED BY <1>1, <1>2, <1>3, <1>4, <1>5, <1>6, <1>7, <1>8, <1>9, <1>10

(* A text stays on the screen or in a draft through every step. *)
LEMMA NextNoTextLost ==
    ASSUME TypeOK, InStep, DraftOnScreen, TextIsSafe, NoTextLost, Next
    PROVE  DraftOnScreen' /\ TextIsSafe' /\ NoTextLost'
<1> DEFINE Good == DraftOnScreen' /\ TextIsSafe' /\ NoTextLost'
           Saved == {drafts[t] : t \in Threads}
           Coming == \E d \in Destinations : coming[d] > 0
<1>0. /\ compose # Closed => compose \in Screens /\ (compose.to = Closed <=> compose.step = 0)
      /\ drafts \in [Threads -> Texts] /\ live \subseteq Bodies
  BY DEF TypeOK
<1>z. 0 \notin live
  BY <1>0, ComposeAssumption DEF Bodies
<1>t. ASSUME compose # Closed, compose.step # 0 PROVE compose.to \in Threads
  BY <1>0, <1>t DEF Screens
<1>s. ASSUME ~crashed, compose = Closed \/ compose.body \notin live \/ Coming PROVE live \subseteq Saved
  BY <1>s, <1>z DEF NoTextLost, TextIsSafe
<1>1. CASE KeepsTexts
  <2>1. compose = Closed <=> compose' = Closed
    BY <1>1, ComposeAssumption DEF KeepsTexts, SameScreen, SameText
  <2>2. compose # Closed => compose'.body = compose.body /\ compose'.to = compose.to
                             /\ (compose.step = 0 <=> compose'.step = 0)
    BY <1>1 DEF KeepsTexts, SameScreen, SameText
  <2>3. drafts' = drafts /\ live' \subseteq live /\ (crashed => crashed')
    BY <1>1 DEF KeepsTexts, Frame
  <2>4. DraftOnScreen'
    BY <2>1, <2>2, <2>3 DEF DraftOnScreen
  <2>5. NoTextLost'
    BY <2>1, <2>2, <2>3 DEF NoTextLost
  <2>6. CASE UNCHANGED coming
    BY <2>1, <2>2, <2>3, <2>4, <2>5, <2>6 DEF TextIsSafe
  <2>7. CASE compose = Closed \/ compose.body = 0
    BY <2>1, <2>2, <2>3, <2>4, <2>5, <2>7, <1>z DEF TextIsSafe
  <2> QED BY <1>1, <2>6, <2>7 DEF KeepsTexts
<1>2. ASSUME NEW b \in Texts, Edit(b) PROVE Good
  <2>1. /\ ~crashed /\ compose # Closed /\ compose.step = 1 /\ compose \in Screens
        /\ drafts' = drafts /\ coming' = coming /\ crashed' = crashed
        /\ compose' = [compose EXCEPT !.body = b]
        /\ live' = (live \ {compose.body}) \cup {c \in {b} \ {0} : \A d \in Destinations : coming[d] = 0}
    BY <1>0, <1>2 DEF Edit, Step, IsOpen
  <2>2. compose'.to = compose.to /\ compose'.step = 1 /\ compose'.body = b
    BY <2>1 DEF Screens
  <2>3. compose' # Closed
    BY <2>1, ScreenUpdates, ComposeAssumption
  <2>4. live \ {compose.body} \subseteq Saved
    BY <2>1 DEF NoTextLost
  <2>5. DraftOnScreen'
    BY <2>1, <2>2 DEF DraftOnScreen
  <2>6. NoTextLost'
    BY <2>1, <2>2, <2>3, <2>4 DEF NoTextLost
  <2>7. TextIsSafe'
    <3>1. ASSUME Coming PROVE live' = live \ {compose.body}
      <4>1. PICK d \in Destinations : coming[d] > 0
        BY <3>1
      <4>2. coming[d] # 0
        BY <4>1
      <4> QED BY <2>1, <4>2
    <3> QED BY <2>1, <2>2, <2>4, <3>1 DEF TextIsSafe
  <2> QED BY <2>5, <2>6, <2>7
<1>3. CASE Write \/ Erase
  BY <1>0, <1>2, <1>3, ComposeAssumption DEF Write, Erase, Texts, TypeOK
(* A draft other than the one of the thread on screen is left alone. *)
<1>4. ASSUME NEW t \in Threads, compose # Closed, compose.step # 0, compose.to = t,
             ~crashed, UNCHANGED <<compose, crashed>>,
             \/ drafts' = drafts
             \/ drafts' = [drafts EXCEPT ![t] = 0]
             \/ drafts' = [drafts EXCEPT ![t] = compose.body],
             compose.body \in live' => drafts'[t] = compose.body, live' \subseteq live \cup {compose.body}
      PROVE  Good
  <2>1. ASSUME NEW l \in live', l # compose.body PROVE l \in {drafts'[r] : r \in Threads} /\ l # drafts'[t]
    <3>1. l \in live /\ l # 0
      BY <2>1, <1>4, <1>z
    <3>2. PICK r \in Threads : l = drafts[r]
      BY <3>1, <2>1, <1>4 DEF NoTextLost
    <3>3. l # drafts[t]
      BY <3>1, <2>1, <1>4 DEF DraftOnScreen
    <3>4. l = drafts'[r] /\ l # drafts'[t]
      BY <3>1, <3>2, <3>3, <2>1, <1>4, <1>0
    <3> QED BY <3>4
  <2>2. ASSUME compose.body \in live' PROVE compose.body \in {drafts'[r] : r \in Threads}
    BY <2>2, <1>4
  <2> QED BY <2>1, <2>2, <1>4 DEF DraftOnScreen, TextIsSafe, NoTextLost
<1>5. CASE LeaveBody
  <2>1. ~crashed /\ compose # Closed /\ compose.step = 1 /\ compose \in Screens /\ compose.to \in Threads
        /\ compose.body \in Texts /\ UNCHANGED <<compose, crashed>>
    BY <1>0, <1>t, <1>5 DEF LeaveBody, Step, IsOpen, Screens
  <2>2. CASE compose.body = 0
    <3>1. drafts' \in {drafts, [drafts EXCEPT ![compose.to] = 0]} /\ live' = live
      BY <1>5, <2>2 DEF LeaveBody, DeleteDraft
    <3> QED BY <1>4, <1>z, <2>1, <2>2, <3>1
  <2>3. CASE compose.body # 0 /\ drafts' = [drafts EXCEPT ![compose.to] = compose.body]
                              /\ live' = live \cup {compose.body}
    <3>1. drafts'[compose.to] = compose.body
      BY <2>1, <2>3, <1>0
    <3>2. PICK t \in Threads : t = compose.to
      BY <2>1
    <3>3. compose.step # 0 /\ drafts' = [drafts EXCEPT ![t] = compose.body] /\ drafts'[t] = compose.body
          /\ live' \subseteq live \cup {compose.body}
      BY <2>1, <2>3, <3>1, <3>2
    <3> QED BY <1>4, <2>1, <3>2, <3>3
  <2>4. CASE compose.body # 0 /\ drafts' \in {drafts, [drafts EXCEPT ![compose.to] = 0]}
                              /\ live' = live \ {compose.body}
    BY <1>4, <2>1, <2>4
  <2> QED BY <1>5, <2>2, <2>3, <2>4 DEF LeaveBody, SaveDraft
<1>6. ASSUME NEW s \in Slots, Sent(s) PROVE Good
  <2>1. CASE Step(3)
    <3>1. /\ ~crashed /\ compose # Closed /\ compose.step = 3 /\ compose \in Screens
          /\ UNCHANGED <<compose, crashed>>
          /\ drafts' \in {drafts, [drafts EXCEPT ![compose.to] = 0]} /\ live' = live \ {compose.body}
      BY <1>0, <1>6, <2>1 DEF Sent, DeleteDraft, Step, IsOpen
    <3>2. compose.to \in Threads /\ compose.body \in Texts
      BY <1>t, <3>1 DEF Screens
    <3> QED BY <1>4, <3>1, <3>2
  <2>2. CASE ~Step(3)
    <3>1. KeepsTexts
      BY <1>6, <2>2 DEF Sent, KeepsTexts, SameScreen, Frame
    <3> QED BY <3>1, <1>1
  <2> QED BY <2>1, <2>2
<1>7. ASSUME NEW t \in Threads, Addressed(t), ~crashed, live \subseteq Saved, UNCHANGED <<drafts, crashed>>
      PROVE  Good
  <2>1. PICK b \in Texts : /\ compose' = [Fresh EXCEPT !.to = t, !.step = 1, !.body = b]
                           /\ \/ b = drafts[t] /\ live' = live
                              \/ b = 0 /\ live' = live \ {drafts[t]}
    <3>1. drafts[t] \in Texts /\ 0 \in Texts
      BY <1>0, ComposeAssumption DEF Texts
    <3>2. [Fresh EXCEPT !.to = t, !.step = 1] = [Fresh EXCEPT !.to = t, !.step = 1, !.body = 0]
      BY AddressedFresh
    <3> QED BY <1>7, <3>1, <3>2 DEF Addressed, LoadDraft
  <2>2. compose' = [to |-> t, body |-> b, step |-> 1, stamps |-> {}, need |-> 0, sel |-> {},
                    sending |-> FALSE, strayed |-> FALSE]
    BY <2>1 DEF Fresh
  <2>3. compose'.to = t /\ compose'.body = b /\ live' \subseteq Saved /\ (drafts[t] \in live' => b = drafts[t])
    BY <2>1, <2>2, <1>7
  <2> QED BY <2>3, <1>7 DEF DraftOnScreen, TextIsSafe, NoTextLost
<1>8. ASSUME NEW t \in Threads, Address(t) PROVE Good
  <2>1. ~crashed /\ compose # Closed /\ compose.body = 0 /\ Addressed(t) /\ UNCHANGED <<drafts, crashed>>
    BY <1>8 DEF Address, Step, IsOpen, InStep
  <2>2. live \subseteq Saved
    BY <2>1, <1>s, <1>z
  <2> QED BY <2>1, <2>2, <1>7
<1>9. ASSUME NEW d \in Destinations, Arrive(d) PROVE Good
  <2>1. ~crashed /\ Coming /\ UNCHANGED <<drafts, crashed>>
    BY <1>9 DEF Arrive
  <2>2. live \subseteq Saved
    BY <2>1, <1>s
  <2>3. CASE compose' = Closed /\ live' = live
    BY <2>1, <2>2, <2>3 DEF DraftOnScreen, TextIsSafe, NoTextLost
  <2>4. CASE compose' = Fresh /\ live' = live
    BY <2>1, <2>2, <2>4, <1>z, FreshScreen DEF DraftOnScreen, TextIsSafe, NoTextLost
  <2>5. CASE d \in Threads /\ Addressed(d)
    BY <2>1, <2>2, <2>5, <1>7
  <2> QED BY <1>9, <2>3, <2>4, <2>5 DEF Arrive
<1> QED BY <1>1, <1>3, <1>5, <1>6, <1>8, <1>9, StepKeepsTexts DEF Next, Keys, Sending

(* Initially no screen is open and nothing is written. *)
LEMMA InitInv == Init => IInv
<1> SUFFICES ASSUME Init PROVE IInv
  OBVIOUS
<1>1. compose = Closed /\ drafts = [t \in Threads |-> 0] /\ sends = [s \in Slots |-> Idle]
      /\ fetches = 0 /\ written = 0 /\ live = {} /\ crashed = FALSE
      /\ coming = [d \in Destinations |-> 0]
  BY DEF Init
<1>2. TypeOK
  <2>1. 0 \in Texts /\ 0 \in 0 .. MaxFetches /\ Idle \in Letters
    BY ComposeAssumption, LetterKinds DEF Texts
  <2> QED BY <1>1, <2>1 DEF TypeOK
<1>3. Pressed /\ PaidAsChosen
  BY <1>1 DEF Pressed, PaidAsChosen, Idle
<1> QED BY <1>1, <1>2, <1>3 DEF IInv, InStep, DraftOnScreen, TextIsSafe, NoTextLost

(* Every step keeps the invariant. *)
LEMMA NextInv == IInv /\ [Next]_vars => IInv'
<1> SUFFICES ASSUME IInv, [Next]_vars PROVE IInv'
  OBVIOUS
<1>1. CASE Next
  <2>1. TypeOK' /\ ScreenOK'
    BY <1>1, NextTypeOK, NextScreenOK DEF IInv
  <2>2. DraftOnScreen' /\ TextIsSafe' /\ NoTextLost'
    BY <1>1, NextNoTextLost DEF IInv
  <2>3. Pressed' /\ PaidAsChosen'
    BY <1>1, NextHonest DEF IInv, Honest, Pressed, PaidAsChosen
  <2> QED BY <2>1, <2>2, <2>3 DEF IInv, InStep, ScreenOK
<1>2. CASE UNCHANGED vars
  BY <1>2 DEF IInv, TypeOK, InStep, DraftOnScreen, TextIsSafe, NoTextLost, Pressed, PaidAsChosen,
              vars, screen, ghosts, Step, IsOpen
<1> QED BY <1>1, <1>2

(* The inductive invariant holds throughout. *)
LEMMA Invariance == Spec => []IInv
BY InitInv, NextInv, PTL DEF Spec

(* The screen, its drafts and the goroutines have their types: no more stamps are *)
(* selected than the tier costs, and none that is not in the list.                *)
THEOREM TypesHold == Spec => []TypeOK
BY Invariance, PTL DEF IInv

(* A text is on the screen or in a draft until it is rewritten, thrown away or    *)
(* posted (saveDraft, loadDraftIfExists, letterSentMsg, switchScreenMsg), but for *)
(* one whose draft could not be written or read, one written when the screen was *)
(* about to be replaced, and one overtaken by the answer for another letter.      *)
THEOREM NoTextIsLost == Spec => []NoTextLost
BY Invariance, PTL DEF IInv

(* A letter is sent with the stamps its writer pressed for, whatever the screen   *)
(* does meanwhile (updateStamp, sendLetter).                                      *)
THEOREM LettersPayAsChosen == Spec => []PaidAsChosen
BY Invariance, PTL DEF IInv
=============================================================================
