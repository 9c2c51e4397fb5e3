--------------------------------- MODULE Inbox ---------------------------------
(***************************************************************************)
(* The list of delivered letters and its pages (client/inbox.go, tui.go;   *)
(* server/ws.go handleGetInbox, handleDeleteLetter; db.go).  A page is     *)
(* asked for by the date of the last letter of the one before; all letters *)
(* of one delivery pass share their date.  Each load is a command of its   *)
(* own: the answers come in any order, to whatever list is shown then.     *)
(* The list is put aside, not loaded again, while a letter of it is read   *)
(* or replied to.  A key that changes the screen only sends a message for  *)
(* it; until that arrives the old screen takes keys and answers.  The list *)
(* of sent letters (tracking.go, SentModel) is the same code with the      *)
(* dates of sending.                                                       *)
(***************************************************************************)
EXTENDS Integers, Sequences, FiniteSets

CONSTANTS
    Letters,        \* the letters sent to the user
    PageSize,       \* letters of a page (100 in the code)
    Ahead,          \* letters before the list's end where more are loaded (50)
    MaxPasses,      \* bound: delivery passes
    MaxLoads,       \* bound: loads on their way
    MaxShown,       \* bound: length of a list that is made longer
    MaxComing,      \* bound: messages on their way that show a screen
    Nothing         \* no list, no letter

(* A list as the screen has it; upto, cuts, mixed and again belong to the      *)
(* properties: the last pass the list can know of, the dates it was continued  *)
(* from, whether a page was appended that leaves a gap or that overlaps.       *)
Lists ==
    [items : Seq(Letters), cursor : Int, hasMore : BOOLEAN, confirm : Letters \cup {Nothing},
     moved : BOOLEAN, upto : 0 .. MaxPasses, cuts : SUBSET (1 .. MaxPasses),
     mixed : BOOLEAN, again : BOOLEAN]

ASSUME InboxAssumption ==
    /\ IsFiniteSet(Letters) /\ PageSize \in Nat \ {0} /\ Ahead \in 1 .. PageSize
    /\ MaxPasses \in Nat /\ MaxLoads \in Nat /\ MaxShown \in Nat /\ MaxComing \in Nat
    /\ Nothing \notin Letters /\ Nothing \notin Lists

VARIABLES
    at,         \* the pass that delivered a letter, 0 while it travels
    deleted,    \* letters with recipient_deleted
    screen,     \* "inbox", "read", "reply", or "other" for the rest
    coming,     \* by screen: messages on their way that show it
    inbox,      \* the list shown
    cached,     \* the list put aside
    loads,      \* commands on their way, by slot
    mistaken,   \* letters deleted that were not the ones asked about
    emptied,    \* a list was emptied above its cursor
    crashed     \* a letter was taken from the list at -1

relay == <<at, deleted>>
ghosts == <<mistaken, emptied>>
screens == <<screen, coming>>
vars == <<relay, screens, inbox, cached, loads, ghosts, crashed>>

Slots == 1 .. MaxLoads
Places == {"inbox", "read", "reply", "other"}
Idle == [pc |-> "idle"]

(* NewInboxModel. *)
Empty == [items |-> <<>>, cursor |-> 0, hasMore |-> FALSE, confirm |-> Nothing, moved |-> FALSE,
          upto |-> 0, cuts |-> {}, mixed |-> FALSE, again |-> FALSE]

Init ==
    /\ at = [l \in Letters |-> 0] /\ deleted = {}
    /\ screen = "other" /\ coming = [p \in Places |-> 0] /\ inbox = Nothing /\ cached = Nothing
    /\ loads = [s \in Slots |-> Idle]
    /\ mistaken = {} /\ emptied = FALSE /\ crashed = FALSE
-----------------------------------------------------------------------------
(* The relay. *)

Now == CHOOSE p \in 0 .. MaxPasses :
    (\A l \in Letters : at[l] <= p) /\ (p = 0 \/ \E l \in Letters : at[l] = p)

(* A pass delivers all letters that are due, with one date. *)
DeliverMessages(due) ==
    /\ ~crashed /\ Now < MaxPasses /\ due # {}
    /\ at' = [l \in Letters |-> IF l \in due THEN Now + 1 ELSE at[l]]
    /\ UNCHANGED <<deleted, screens, inbox, cached, loads, ghosts, crashed>>

Delivered(before) == {l \in Letters \ deleted : at[l] > 0 /\ (before = 0 \/ at[l] < before)}
Shorter(n, set) == IF Cardinality(set) < n THEN Cardinality(set) ELSE n

(* GetInboxWithSenders: newest first, letters of one pass in any order. *)
GetInboxWithSenders(before, limit) ==
    LET found == Delivered(before)
        n == Shorter(limit, found)
    IN {p \in [1 .. n -> found] :
          /\ \A i, j \in 1 .. n : i < j => p[i] # p[j] /\ at[p[i]] >= at[p[j]]
          /\ \A l \in found : (\A i \in 1 .. n : p[i] # l) => \A i \in 1 .. n : at[p[i]] >= at[l]}

(* Faulty: only a page is looked up, which never shows that there is more. *)
HandleGetInboxUnaware(before) ==
    {[letters |-> p, more |-> FALSE] : p \in GetInboxWithSenders(before, PageSize)}

(* handleGetInbox: one letter beyond the page tells whether there is more. *)
HandleGetInbox(before) ==
    {[letters |-> SubSeq(p, 1, Shorter(PageSize, DOMAIN p)), more |-> Len(p) > PageSize] :
        p \in GetInboxWithSenders(before, PageSize + 1)}
-----------------------------------------------------------------------------
(* Commands.  A deletion loads the first page when it is done. *)

IsFree(s) == loads[s] = Idle /\ \A r \in 1 .. s - 1 : loads[r] # Idle
Page(before, append) == [pc |-> "page", before |-> before, append |-> append]

DeleteLetterForUser(l) == deleted' = deleted \cup {l}

DeleteLetter(s) ==
    /\ ~crashed /\ loads[s].pc = "delete"
    /\ DeleteLetterForUser(loads[s].letter)
    /\ loads' = [loads EXCEPT ![s] = Page(0, FALSE)]
    /\ UNCHANGED <<at, screens, inbox, cached, ghosts, crashed>>

Look(s) ==
    /\ ~crashed /\ loads[s].pc = "page"
    /\ \E page \in HandleGetInbox(loads[s].before) :
         loads' = [loads EXCEPT ![s] =
            [pc |-> "answer", letters |-> page.letters, more |-> page.more, upto |-> Now,
             before |-> loads[s].before, append |-> loads[s].append]]
    /\ UNCHANGED <<relay, screens, inbox, cached, ghosts, crashed>>

(* A request that fails shows an error; what it changed stays changed. *)
Fail(s) ==
    /\ ~crashed /\ loads[s].pc \in {"delete", "page"}
    /\ loads' = [loads EXCEPT ![s] = Idle]
    /\ UNCHANGED <<relay, screens, inbox, cached, ghosts, crashed>>
-----------------------------------------------------------------------------
(* The list. *)

Shown(list) == {list.items[i] : i \in DOMAIN list.items}

Continued(list, a) ==
    [list EXCEPT !.items = @ \o a.letters, !.hasMore = a.more, !.cuts = @ \cup {a.before},
        !.mixed = @ \/ \A l \in Shown(list) : at[l] > a.before,
        !.again = @ \/ \E l \in Shown(list) : at[l] < a.before]

Replaced(list, a) ==
    [list EXCEPT !.items = a.letters, !.hasMore = a.more, !.upto = a.upto,
        !.cuts = {}, !.mixed = FALSE, !.again = FALSE]

(* Faulty: the cursor stays where it is. *)
ClampNever(list) == list

(* A list that is emptied puts its cursor at -1. *)
Clamp(list) ==
    IF list.cursor >= Len(list.items) /\ list.cursor > 0
    THEN [list EXCEPT !.cursor = Len(list.items) - 1] ELSE list

(* View takes the letter at the cursor from a list that is not empty. *)
ViewFails(list) == list.items # <<>> /\ list.cursor < 0

(* inboxLoadedMsg, to the list that is shown. *)
Loaded(s) ==
    /\ ~crashed /\ loads[s].pc = "answer"
    /\ loads' = [loads EXCEPT ![s] = Idle]
    /\ IF screen # "inbox" THEN UNCHANGED <<inbox, emptied, crashed>>
       ELSE LET a == loads[s]
                list == IF a.append THEN Continued(inbox, a) ELSE Replaced(inbox, a)
            IN /\ inbox' = [Clamp(list) EXCEPT !.moved = TRUE]
               /\ emptied' = (emptied \/ (list.items = <<>> /\ inbox.cursor > 0))
               /\ crashed' = ViewFails(Clamp(list))
    /\ UNCHANGED <<relay, screens, cached, mistaken>>

IsOpen == ~crashed /\ screen = "inbox"
Browsing == IsOpen /\ inbox.confirm = Nothing
AtCursor == inbox.items[inbox.cursor + 1]

Up ==
    /\ Browsing /\ inbox.cursor > 0
    /\ inbox' = [inbox EXCEPT !.cursor = @ - 1]
    /\ UNCHANGED <<relay, screens, cached, loads, ghosts, crashed>>

(* maybePrefetch sets loadingMore on a copy: the same page may be asked for   *)
(* by every key press until its answer is there.                             *)
MaybePrefetch(list) ==
    IF list.hasMore /\ list.cursor >= Len(list.items) - Ahead /\ list.items # <<>>
    THEN \E s \in Slots :
           /\ IsFree(s) /\ Len(list.items) < MaxShown
           /\ loads' = [loads EXCEPT ![s] = Page(at[list.items[Len(list.items)]], TRUE)]
    ELSE UNCHANGED loads

Lowered == [inbox EXCEPT !.cursor = IF @ < Len(inbox.items) - 1 THEN @ + 1 ELSE @]

(* Faulty: the list is moved while a question is on. *)
DownAlways ==
    /\ IsOpen
    /\ inbox' = Lowered /\ MaybePrefetch(Lowered)
    /\ UNCHANGED <<relay, screens, cached, ghosts, crashed>>

Down ==
    /\ Browsing
    /\ inbox' = Lowered /\ MaybePrefetch(Lowered)
    /\ UNCHANGED <<relay, screens, cached, ghosts, crashed>>

(* "d": the code keeps the question, not the letter it was about. *)
AskToDelete ==
    /\ Browsing /\ inbox.items # <<>>
    /\ inbox' = [inbox EXCEPT !.confirm = AtCursor, !.moved = FALSE]
    /\ UNCHANGED <<relay, screens, cached, loads, ghosts, crashed>>

(* "y" deletes the letter that is at the cursor now. *)
Confirm ==
    /\ IsOpen /\ inbox.confirm # Nothing /\ inbox.cursor < Len(inbox.items)
    /\ inbox' = [inbox EXCEPT !.confirm = Nothing]
    /\ IF inbox.cursor < 0 THEN crashed' = TRUE /\ UNCHANGED <<loads, mistaken>>
       ELSE /\ \E s \in Slots :
                 /\ IsFree(s)
                 /\ loads' = [loads EXCEPT ![s] = [pc |-> "delete", letter |-> AtCursor]]
            /\ mistaken' = IF AtCursor = inbox.confirm \/ inbox.moved THEN mistaken
                           ELSE mistaken \cup {AtCursor}
            /\ UNCHANGED crashed
    /\ UNCHANGED <<relay, screens, cached, emptied>>

Decline ==
    /\ IsOpen /\ inbox.confirm # Nothing
    /\ inbox' = [inbox EXCEPT !.confirm = Nothing]
    /\ UNCHANGED <<relay, screens, cached, loads, ghosts, crashed>>
-----------------------------------------------------------------------------
(* The screens around it. *)

(* A key's command returns switchScreenMsg, readLetterMsg, composeToMsg,     *)
(* backToInboxMsg or trackLetterMsg.                                         *)
Follows(p) ==
    /\ ~crashed /\ coming["inbox"] + coming["read"] + coming["reply"] + coming["other"] < MaxComing
    /\ coming' = [coming EXCEPT ![p] = @ + 1]
    /\ UNCHANGED <<relay, screen, inbox, cached, loads, ghosts, crashed>>

OpenInbox == screen = "other" /\ Follows("inbox")
LeaveInbox == Browsing /\ Follows("other")
ReadLetter == Browsing /\ inbox.items # <<>> /\ Follows("read")
Reply == Browsing /\ inbox.items # <<>> /\ Follows("reply")
ReplyToRead == screen = "read" /\ Follows("reply")
BackToInbox == screen \in {"read", "reply"} /\ Follows("inbox")
(* A reply that is posted goes on to its tracking and from there home: the   *)
(* list stays aside.                                                         *)
Posted == screen = "reply" /\ Follows("other")

(* Faulty: the list takes the place of a screen that is still taken for open.*)
ShowBehind(list) == UNCHANGED screen /\ inbox' = list /\ cached' = Nothing

Show(list) == screen' = "inbox" /\ inbox' = list /\ cached' = Nothing

(* switchTo and backToInboxMsg: a list that was put aside is shown as it is,  *)
(* else a new one is loaded.                                                 *)
ShowInbox ==
    IF cached # Nothing THEN Show(cached) /\ UNCHANGED loads
    ELSE /\ Show(Empty)
         /\ \E s \in Slots : IsFree(s) /\ loads' = [loads EXCEPT ![s] = Page(0, FALSE)]

(* readLetterMsg and composeToMsg put aside the list that is shown, if any.   *)
PutAside == cached' = IF screen = "inbox" THEN inbox ELSE cached

(* The message takes the place of whatever screen is there. *)
Arrive(p) ==
    /\ ~crashed /\ coming[p] > 0
    /\ coming' = [coming EXCEPT ![p] = @ - 1]
    /\ \/ p = "inbox" /\ ShowInbox
       \/ /\ p # "inbox" /\ screen' = p /\ inbox' = Nothing /\ UNCHANGED loads
          /\ IF p = "other" THEN UNCHANGED cached ELSE PutAside
    /\ UNCHANGED <<relay, ghosts, crashed>>
-----------------------------------------------------------------------------
Keys ==
    \/ Up \/ Down \/ AskToDelete \/ Confirm \/ Decline \/ OpenInbox \/ LeaveInbox
    \/ ReadLetter \/ Reply \/ ReplyToRead \/ BackToInbox \/ Posted

Next ==
    \/ Keys
    \/ \E due \in SUBSET {l \in Letters : at[l] = 0} : DeliverMessages(due)
    \/ \E s \in Slots : DeleteLetter(s) \/ Look(s) \/ Fail(s) \/ Loaded(s)
    \/ \E p \in Places : Arrive(p)

Spec == Init /\ [][Next]_vars
-----------------------------------------------------------------------------
(* A command deletes a letter, asks for a page, or has its answer. *)
Deletions == [pc : {"delete"}, letter : Letters]
Pages == [pc : {"page"}, before : 0 .. MaxPasses, append : BOOLEAN]
Answers ==
    [pc : {"answer"}, letters : Seq(Letters), more : BOOLEAN, upto : 0 .. MaxPasses,
     before : 0 .. MaxPasses, append : BOOLEAN]

(* The types; a list is shown exactly when the screen is the inbox's. *)
TypeOK ==
    /\ at \in [Letters -> 0 .. MaxPasses] /\ deleted \subseteq Letters
    /\ screen \in Places /\ coming \in [Places -> Nat]
    /\ inbox \in Lists \cup {Nothing} /\ (inbox # Nothing <=> screen = "inbox")
    /\ cached \in Lists \cup {Nothing}
    /\ loads \in [Slots -> {Idle} \cup Deletions \cup Pages \cup Answers]
    /\ mistaken \subseteq Letters /\ emptied \in BOOLEAN /\ crashed \in BOOLEAN

(* What the list shows is what the relay has (handleGetInbox, maybePrefetch, *)
(* inboxLoadedMsg).  Unless a page was appended to a list that ends before   *)
(* it, no letter is missing down to the oldest one shown, and none at all    *)
(* when the list says there is no more, but those of the pass at which a     *)
(* page ended.  Unless a page was appended to a list that goes beyond its    *)
(* beginning, every letter is listed once, and newest first.                 *)
ListIsFaithful ==
    screen = "inbox" =>
      /\ ~inbox.mixed =>
           \A l \in Letters \ deleted :
             (/\ at[l] \in 1 .. inbox.upto
              /\ inbox.hasMore => \E k \in Shown(inbox) : at[k] < at[l])
             => l \in Shown(inbox) \/ at[l] \in inbox.cuts
      /\ ~inbox.mixed /\ ~inbox.again =>
           \A i, j \in DOMAIN inbox.items :
             i < j => /\ inbox.items[i] # inbox.items[j]
                      /\ at[inbox.items[i]] >= at[inbox.items[j]]

(* The letter deleted is the one that was asked about, unless an answer came *)
(* while the question was on.                                                *)
DeletesAsAsked == mistaken = {}

(* The cursor of a list that has letters is on one of them, and the program  *)
(* dies of it only after a list was emptied above its cursor.                *)
CursorOnList ==
    /\ crashed => emptied
    /\ screen = "inbox" /\ ~crashed /\ inbox.items # <<>> =>
          inbox.cursor \in 0 .. Len(inbox.items) - 1
=============================================================================
