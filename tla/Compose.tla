-------------------------------- MODULE Compose --------------------------------
(***************************************************************************)
(* The compose screen and its drafts (client/compose.go, draft.go): a      *)
(* letter goes through the steps recipient, body, shipping and stamps, and *)
(* is sent by a goroutine that shares the map of selected stamps and the   *)
(* text with the screen it came from.  Answers and errors go to whatever   *)
(* screen is open when they arrive (client/tui.go), which need not be the  *)
(* one that asked; so does the message with which a screen gives way to    *)
(* another one, and keys may come before it.  All screens but this one are *)
(* one state, Closed: they let its answers fall.  What the relay makes of  *)
(* a letter is in module SendLetter; here it stores it or refuses it.      *)
(***************************************************************************)
EXTENDS Naturals, FiniteSets

CONSTANTS
    Threads,        \* draft keys: a contact, or a letter that is replied to
    Stamps,         \* the sender's stamps
    Tiers,          \* stamps required by the shipping tiers
    MaxBodies,      \* bound: versions of a text written
    MaxSends,       \* bound: letters being sent at once
    MaxFetches,     \* bound: other commands whose answer is awaited
    MaxComing,      \* bound: messages on their way that show one screen
    Anew,           \* the compose screen, nobody addressed (ScreenCompose)
    Closed          \* another screen is open

(* The text of a letter, 0 when it is empty, and what the screen shows. *)
Texts == 0 .. MaxBodies
(* What a message shows: another screen, or this one, addressed or not. *)
Destinations == Threads \cup {Anew, Closed}
Screens ==
    [to : Threads \cup {Closed}, body : Texts, step : 0 .. 3, stamps : SUBSET Stamps,
     need : Tiers \cup {0}, sel : SUBSET Stamps, sending : BOOLEAN, strayed : BOOLEAN]

ASSUME ComposeAssumption ==
    /\ IsFiniteSet(Stamps) /\ Tiers \subseteq 1 .. Cardinality(Stamps)
    /\ MaxBodies \in Nat /\ MaxSends \in Nat /\ MaxFetches \in Nat /\ MaxComing \in Nat
    /\ Anew \notin Threads /\ Closed \notin Threads \cup Screens \cup {Anew}

VARIABLES
    compose,    \* the screen's model, or Closed
    drafts,     \* by thread: the version of the text on disk, 0 for none
    sends,      \* goroutines that send a letter
    fetches,    \* commands on their way that load stamps or shipping
    coming,     \* by destination: messages on their way that show it
    written,    \* the number of versions written so far
    live,       \* versions to be kept: not rewritten, thrown away, posted or
                \* overtaken; not lost to a failed write or read of a draft; not
                \* written while the screen was about to be replaced
    crashed     \* the program died of a concurrent map write

screen == <<compose, fetches, coming>>
ghosts == <<written, live>>
vars == <<screen, drafts, sends, ghosts, crashed>>

Bodies == 1 .. MaxBodies
Slots == 1 .. MaxSends
Idle == [pc |-> "idle"]

Init ==
    /\ compose = Closed /\ drafts = [t \in Threads |-> 0]
    /\ sends = [s \in Slots |-> Idle]
    /\ fetches = 0 /\ coming = [d \in Destinations |-> 0]
    /\ written = 0 /\ live = {}
    /\ crashed = FALSE
-----------------------------------------------------------------------------
(* The screen. *)

IsOpen == ~crashed /\ compose # Closed
Step(n) == IsOpen /\ compose.step = n

(* A goroutine keeps the map and the text it was started with: what the      *)
(* screen replaces rather than changes is the goroutine's alone from then on.*)
OwnMap == [s \in Slots |-> IF sends[s].pc = "key" THEN [sends[s] EXCEPT !.map = FALSE] ELSE sends[s]]
Own == [s \in Slots |->
    IF sends[s].pc = "key" THEN [sends[s] EXCEPT !.map = FALSE, !.text = FALSE] ELSE sends[s]]

(* draft.go: one file for each thread; no file, an empty text and a file that *)
(* a failed write cut off look alike.  No error is looked at.                *)
LoadDraft(t) == drafts[t]

SaveDraft(t, body) ==
    \/ drafts' = [drafts EXCEPT ![t] = body] /\ live' = live \cup {body}
    \/ drafts' \in {drafts, [drafts EXCEPT ![t] = 0]} /\ live' = live \ {body}

DeleteDraft(t) == drafts' \in {drafts, [drafts EXCEPT ![t] = 0]}

(* NewComposeModel *)
Fresh == [to |-> Closed, body |-> 0, step |-> 0, stamps |-> {}, need |-> 0, sel |-> {},
          sending |-> FALSE, strayed |-> FALSE]

(* Faulty: the draft on disk is not loaded. *)
AddressedBlank(t) ==
    compose' = [Fresh EXCEPT !.to = t, !.step = 1] /\ UNCHANGED live

(* loadDraftIfExists: a draft that cannot be read is left aside.             *)
Addressed(t) ==
    \/ /\ compose' = [Fresh EXCEPT !.to = t, !.step = 1, !.body = LoadDraft(t)]
       /\ UNCHANGED live
    \/ /\ compose' = [Fresh EXCEPT !.to = t, !.step = 1]
       /\ live' = live \ {LoadDraft(t)}

(* A contact is picked. *)
Address(t) ==
    /\ Step(0) /\ Addressed(t)
    /\ UNCHANGED <<fetches, coming, drafts, sends, written, crashed>>

(* A command returns switchScreenMsg, composeToMsg or trackLetterMsg. *)
Comes(d) == coming' = [coming EXCEPT ![d] = @ + 1]
Follows(d) == coming[d] < MaxComing /\ Comes(d)

(* A key of another screen: to compose, to reply, or to a third one. *)
Elsewhere(d) ==
    /\ ~crashed /\ compose = Closed /\ Follows(d)
    /\ UNCHANGED <<compose, fetches, drafts, sends, ghosts, crashed>>

LeaveRecipients ==
    /\ Step(0) /\ Follows(Closed)
    /\ UNCHANGED <<compose, fetches, drafts, sends, ghosts, crashed>>

(* The message takes the place of whatever screen is there. *)
Arrive(d) ==
    /\ ~crashed /\ coming[d] > 0
    /\ coming' = [coming EXCEPT ![d] = @ - 1]
    /\ \/ d = Closed /\ compose' = Closed /\ UNCHANGED live
       \/ d = Anew /\ compose' = Fresh /\ UNCHANGED live
       \/ d \in Threads /\ Addressed(d)
    /\ sends' = Own
    /\ UNCHANGED <<fetches, drafts, written, crashed>>

(* The text area changes in place what a goroutine of this screen may still  *)
(* have to read.                                                             *)
Edit(body) ==
    /\ Step(1)
    /\ compose' = [compose EXCEPT !.body = body]
    /\ live' = (live \ {compose.body}) \cup {b \in {body} \ {0} : \A d \in Destinations : coming[d] = 0}
    /\ \E seen \in SUBSET {s \in Slots : sends[s].pc = "key" /\ sends[s].text} :
         sends' = [s \in Slots |-> IF s \in seen THEN [sends[s] EXCEPT !.body = body] ELSE sends[s]]
    /\ UNCHANGED <<fetches, coming, drafts, crashed>>

Write ==
    /\ written < MaxBodies
    /\ Edit(written + 1) /\ written' = written + 1

Erase == compose # Closed /\ compose.body # 0 /\ Edit(0) /\ UNCHANGED written

(* esc: saveDraft, where an empty text deletes the draft; until the message  *)
(* arrives the screen takes keys.                                            *)
LeaveBody ==
    /\ Step(1) /\ Follows(Closed)
    /\ IF compose.body = 0 THEN DeleteDraft(compose.to) /\ UNCHANGED live
       ELSE SaveDraft(compose.to, compose.body)
    /\ UNCHANGED <<compose, fetches, sends, written, crashed>>

(* ctrl+s: stamps and shipping are fetched. *)
ToShipping ==
    /\ Step(1) /\ fetches + 2 <= MaxFetches
    /\ compose' = [compose EXCEPT !.step = 2]
    /\ fetches' = fetches + 2
    /\ UNCHANGED <<coming, drafts, sends, ghosts, crashed>>

(* Faulty: a list of stamps is taken over in any step. *)
FetchedAnywhere(list) ==
    /\ ~crashed /\ fetches > 0
    /\ fetches' = fetches - 1
    /\ IF IsOpen THEN compose' \in {compose, [compose EXCEPT !.stamps = list]}
       ELSE UNCHANGED compose
    /\ UNCHANGED <<coming, drafts, sends, ghosts, crashed>>

(* An answer is used in this step only; the estimates leave the stamps alone.*)
Fetched(list) ==
    /\ ~crashed /\ fetches > 0
    /\ fetches' = fetches - 1
    /\ IF Step(2) THEN compose' \in {compose, [compose EXCEPT !.stamps = list]}
       ELSE UNCHANGED compose
    /\ UNCHANGED <<coming, drafts, sends, ghosts, crashed>>

(* A tier is locked while the list of stamps is shorter than its price. *)
ChooseTier(n) ==
    /\ Step(2) /\ Cardinality(compose.stamps) >= n
    /\ compose' = [compose EXCEPT !.step = 3, !.need = n, !.sel = {}]
    /\ sends' = OwnMap
    /\ UNCHANGED <<fetches, coming, drafts, ghosts, crashed>>

BackToBody ==
    /\ Step(2)
    /\ compose' = [compose EXCEPT !.step = 1]
    /\ UNCHANGED <<fetches, coming, drafts, sends, ghosts, crashed>>

Selection(x) ==
    IF x \in compose.sel THEN compose.sel \ {x}
    ELSE IF Cardinality(compose.sel) < compose.need THEN compose.sel \cup {x}
    ELSE compose.sel

(* The map is changed while a goroutine may be ranging over it: it sees the  *)
(* new selection, or the program dies.                                       *)
Toggle(x) ==
    /\ Step(3) /\ x \in compose.stamps
    /\ compose' = [compose EXCEPT !.sel = Selection(x)]
    /\ LET sharing == {s \in Slots : sends[s].pc = "key" /\ sends[s].map} IN
       /\ sends' = [s \in Slots |->
              IF s \in sharing THEN [sends[s] EXCEPT !.sel = Selection(x), !.moved = TRUE] ELSE sends[s]]
       /\ crashed' \in {FALSE, sharing # {}}
    /\ UNCHANGED <<fetches, coming, drafts, ghosts>>

(* Faulty: leaving empties the map instead of making a new one. *)
LeaveStampsCleared ==
    /\ Step(3)
    /\ compose' = [compose EXCEPT !.step = 2, !.sel = {}, !.strayed = @ \/ compose.sending]
    /\ sends' = [s \in Slots |->
          IF sends[s].pc = "key" /\ sends[s].map THEN [sends[s] EXCEPT !.sel = {}] ELSE sends[s]]
    /\ UNCHANGED <<fetches, coming, drafts, ghosts, crashed>>

(* The screen goes on sending: the answer will find it in another step. *)
LeaveStamps ==
    /\ Step(3)
    /\ compose' = [compose EXCEPT !.step = 2, !.sel = {}, !.strayed = @ \/ compose.sending]
    /\ sends' = OwnMap
    /\ UNCHANGED <<fetches, coming, drafts, ghosts, crashed>>

(* The text goes along by value, its rows and the map do not. *)
Send(s) ==
    /\ Step(3) /\ ~compose.sending /\ coming[Closed] < MaxComing
    /\ Cardinality(compose.sel) = compose.need
    /\ sends[s] = Idle /\ \A r \in 1 .. s - 1 : sends[r] # Idle
    /\ sends' = [sends EXCEPT ![s] = [pc |-> "key", body |-> compose.body, sel |-> compose.sel,
            pressed |-> compose.sel, map |-> TRUE, text |-> TRUE, moved |-> FALSE]]
    /\ compose' = [compose EXCEPT !.sending = TRUE, !.strayed = FALSE]
    /\ UNCHANGED <<fetches, coming, drafts, ghosts, crashed>>
-----------------------------------------------------------------------------
(* The goroutine. *)

Goto(s, letter) == sends' = [sends EXCEPT ![s] = letter]
Failure == [pc |-> "failed"]

(* sendLetter: with the recipient's key at hand, text and stamps are read; an *)
(* empty text is an error.                                                   *)
ReadLetter(s) ==
    /\ ~crashed /\ sends[s].pc = "key"
    /\ LET l == sends[s] IN
       \/ Goto(s, Failure)
       \/ /\ l.body # 0
          /\ Goto(s, [pc |-> "wire", body |-> l.body, asChosen |-> l.moved \/ l.sel = l.pressed])
    /\ UNCHANGED <<screen, drafts, ghosts, crashed>>

(* The relay stores the letter or refuses it; an answer may be lost. *)
Carry(s) ==
    /\ ~crashed /\ sends[s].pc = "wire"
    /\ \/ /\ live' = live \ {sends[s].body}
          /\ Goto(s, [pc |-> "sent", body |-> sends[s].body]) \/ Goto(s, Failure)
       \/ UNCHANGED live /\ Goto(s, Failure)
    /\ UNCHANGED <<screen, drafts, written, crashed>>

(* letterSentMsg: whichever letter it answers, the stamp step takes it for   *)
(* its own, deletes its draft and is about to give way to the tracking       *)
(* screen; the text on it, if another one, is overtaken.                     *)
Sent(s) ==
    /\ ~crashed /\ sends[s].pc = "sent"
    /\ sends' = [sends EXCEPT ![s] = Idle]
    /\ IF Step(3)
       THEN DeleteDraft(compose.to) /\ live' = live \ {compose.body} /\ Comes(Closed)
       ELSE UNCHANGED <<drafts, live, coming>>
    /\ UNCHANGED <<compose, fetches, written, crashed>>

(* Faulty: an error is shown and the screen goes on sending. *)
ErrorOnly == UNCHANGED compose

(* errMsg, of whichever command: the stamp step is ready to send again. *)
Error ==
    IF Step(3) THEN compose' = [compose EXCEPT !.sending = FALSE, !.strayed = FALSE]
    ELSE UNCHANGED compose

Failed(s) ==
    /\ ~crashed /\ sends[s].pc = "failed"
    /\ sends' = [sends EXCEPT ![s] = Idle]
    /\ Error
    /\ UNCHANGED <<fetches, coming, drafts, ghosts, crashed>>

FetchFailed ==
    /\ ~crashed /\ fetches > 0
    /\ fetches' = fetches - 1
    /\ Error
    /\ UNCHANGED <<coming, drafts, sends, ghosts, crashed>>
-----------------------------------------------------------------------------
Sending(s) == ReadLetter(s) \/ Carry(s) \/ Sent(s) \/ Failed(s)

Keys ==
    \/ LeaveRecipients \/ Write \/ Erase \/ LeaveBody \/ ToShipping \/ BackToBody
    \/ LeaveStamps
    \/ \E t \in Threads : Address(t)
    \/ \E d \in Destinations : Elsewhere(d)
    \/ \E n \in Tiers : ChooseTier(n)
    \/ \E x \in Stamps : Toggle(x)
    \/ \E s \in Slots : Send(s)

Next ==
    \/ Keys
    \/ \E s \in Slots : Sending(s)
    \/ \E d \in Destinations : Arrive(d)
    \/ \E list \in SUBSET Stamps : Fetched(list)
    \/ FetchFailed

(* A request is answered or given up after its timeout; a message arrives.  *)
Spec ==
    /\ Init /\ [][Next]_vars
    /\ \A s \in Slots : WF_vars(Sending(s))
    /\ \A d \in Destinations : WF_vars(Arrive(d))
-----------------------------------------------------------------------------
Letters ==
    [pc : {"key"}, body : Texts, sel : SUBSET Stamps, pressed : SUBSET Stamps,
     map : BOOLEAN, text : BOOLEAN, moved : BOOLEAN]
    \cup [pc : {"wire"}, body : Bodies, asChosen : BOOLEAN]
    \cup [pc : {"sent"}, body : Bodies] \cup {Failure, Idle}

(* The types of the screen; it never selects more stamps than the tier costs.*)
TypeOK ==
    /\ compose # Closed =>
        /\ compose \in Screens /\ (compose.to = Closed <=> compose.step = 0)
        /\ compose.sel \subseteq compose.stamps
        /\ Cardinality(compose.sel) <= compose.need
    /\ drafts \in [Threads -> Texts]
    /\ sends \in [Slots -> Letters]
    /\ fetches \in 0 .. MaxFetches /\ written \in Texts /\ crashed \in BOOLEAN
    /\ coming \in [Destinations -> Nat]
    /\ live \subseteq Bodies

(* While the program runs, a text is lost in three ways only (saveDraft,      *)
(* loadDraftIfExists, letterSentMsg, switchScreenMsg): its draft cannot be    *)
(* written or read, whose errors are dropped; it was written when a message   *)
(* that replaces the screen was on its way; the answer for another letter     *)
(* closes the screen it is on.  Otherwise what its writer has not rewritten   *)
(* or thrown away is on the screen or in a draft, until it is posted.         *)
NoTextLost ==
    ~crashed => live \subseteq {drafts[t] : t \in Threads}
                                 \cup {IF compose = Closed THEN 0 ELSE compose.body}

(* A letter carries the stamps that were selected when it was sent            *)
(* (updateStamp, sendLetter), whatever screen or step follows, unless its     *)
(* writer went on selecting in the same step.                                 *)
PaidAsChosen ==
    \A s \in Slots : sends[s].pc = "wire" => sends[s].asChosen

(* A stamp step that says it is sending, and is not left, comes to an end:    *)
(* the letter is tracked or can be sent again.                                *)
EverySendEnds ==
    (Step(3) /\ compose.sending /\ ~compose.strayed) ~>
        (crashed \/ ~Step(3) \/ ~compose.sending \/ compose.strayed)
=============================================================================
