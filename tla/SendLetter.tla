----------------------------- MODULE SendLetter -----------------------------
(***************************************************************************)
(* The send_letter handler (internal/server/ws.go) as its queries reach    *)
(* the database.  A session is one handler at work; two sessions of one    *)
(* user overlap when a connection is replaced while its last request is    *)
(* still being served.  Every check is a query of its own, so what it saw  *)
(* may have changed when the letter is stored.  The storing transaction is *)
(* opened up: it locks the stamps' rows one by one, in the order of the    *)
(* request, and its writes are seen when it commits.  PostgreSQL runs it   *)
(* READ COMMITTED and aborts one member of a cycle of waiting transactions.*)
(***************************************************************************)
EXTENDS Naturals, Sequences, FiniteSets

CONSTANTS
    Users, Letters, Stamps,
    Sessions,    \* handlers that may run at the same time
    UserOf,      \* the user each session is authenticated as
    Orders,      \* the stamp lists a request may name
    PairLimit,   \* letters a day from one user to another
    TotalLimit,  \* letters a day from one user
    Day,         \* the length of the rate limits' window
    MaxTime,     \* bound on how long the clock runs
    InMail, Free, None

ASSUME SendAssumption ==
    /\ IsFiniteSet(Sessions) /\ IsFiniteSet(Letters)
    /\ UserOf \in [Sessions -> Users]
    /\ Orders \subseteq Seq(Stamps) \ {<<>>}
    /\ PairLimit \in Nat \ {0} /\ TotalLimit \in Nat \ {0}
    /\ Day \in Nat \ {0} /\ MaxTime \in Nat
    /\ InMail \notin Users \cup Letters /\ Free \notin Sessions /\ None \notin Users
    /\ Users \cap Letters = {} /\ Stamps # {}

VARIABLES
    now,
    contacts,  \* pairs <<owner, contact>>
    blocks,    \* pairs <<blocker, blocked>>
    owner,     \* stamps.owner_id, as committed
    letter,    \* messages with their stamp_attachments, as committed
    rowLock,   \* the session whose transaction holds the stamp's row
    session

vars == <<now, contacts, blocks, owner, letter, rowLock, session>>

Checks == {"contact", "received", "blocked", "pair", "total"}
Transaction == {"insert", "attach", "commit"}

(* late tells the letters stored after their recipient blocked the sender. *)
Letter ==
    [status : {"unsent", "in_transit", "delivered"}, sender : Users \cup {None},
     recipient : Users \cup {None}, sentAt : Nat, stamps : SUBSET Stamps, late : BOOLEAN]
Blank ==
    [status |-> "unsent", sender |-> None, recipient |-> None,
     sentAt |-> 0, stamps |-> {}, late |-> FALSE]

(* begun is the transaction's now(), attached the stamps it has attached. *)
Session ==
    [pc : {"idle"} \cup Checks \cup Transaction, to : Users \cup {None},
     order : Orders \cup {<<>>}, attached : SUBSET Stamps, next : Nat, begun : Nat]
Idle ==
    [pc |-> "idle", to |-> None, order |-> <<>>, attached |-> {}, next |-> 0, begun |-> 0]

Travelling == {l \in Letters : letter[l].status = "in_transit"}
Arrived == {l \in Letters : letter[l].status = "delivered"}
Sent == Travelling \cup Arrived

Unsent == Letters \ Sent
Fresh == CHOOSE l \in Unsent : TRUE

(* Handlers read the contacts of the users they serve and the blocks against    *)
(* them; the rows nobody reads are left out.                                   *)
Served == {UserOf[c] : c \in Sessions}

(* A letter of long ago; its stamps have been passed on. *)
Old(v, u) ==
    [status |-> "delivered", sender |-> v, recipient |-> u,
     sentAt |-> 0, stamps |-> {CHOOSE s \in Stamps : TRUE}, late |-> FALSE]
NoLetters == [l \in Letters |-> Blank]

Init ==
    /\ now = Day
    /\ contacts \in SUBSET {p \in Served \X Users : p[1] # p[2]}
    /\ blocks = {}
    /\ owner \in [Stamps -> Users]
    /\ \/ letter = NoLetters
       \/ \E u \in Served, v \in Users :
             u # v /\ letter = [NoLetters EXCEPT ![CHOOSE l \in Letters : TRUE] = Old(v, u)]
    /\ rowLock = [s \in Stamps |-> Free]
    /\ session = [c \in Sessions |-> Idle]
-----------------------------------------------------------------------------
Tick ==
    /\ now < Day + MaxTime
    /\ now' = now + 1
    /\ UNCHANGED <<contacts, blocks, owner, letter, rowLock, session>>

AddContact(u, v) ==
    /\ u # v
    /\ contacts' = contacts \cup {<<u, v>>}
    /\ UNCHANGED <<now, blocks, owner, letter, rowLock, session>>

DeleteContact(u, v) ==
    /\ contacts' = contacts \ {<<u, v>>}
    /\ UNCHANGED <<now, blocks, owner, letter, rowLock, session>>

BlockUser(u, v) ==
    /\ u # v
    /\ blocks' = blocks \cup {<<u, v>>}
    /\ contacts' = contacts \ {<<u, v>>}
    /\ UNCHANGED <<now, owner, letter, rowLock, session>>

(* A transaction of its own; the rows it writes are nobody's to spend.  Which  *)
(* letters are due does not matter here.                                       *)
DeliverMessages(due) ==
    /\ due # {} /\ due \subseteq Travelling
    /\ letter' = [l \in Letters |->
           IF l \in due THEN [letter[l] EXCEPT !.status = "delivered"] ELSE letter[l]]
    /\ owner' = [s \in Stamps |->
           IF \E l \in due : s \in letter[l].stamps
             THEN letter[CHOOSE l \in due : s \in letter[l].stamps].recipient
             ELSE owner[s]]
    /\ UNCHANGED <<now, contacts, blocks, rowLock, session>>
-----------------------------------------------------------------------------
Unlocked(c) == [s \in Stamps |-> IF rowLock[s] = c THEN Free ELSE rowLock[s]]

(* The handler answers; an open transaction is rolled back. *)
GiveUp(c) ==
    /\ session' = [session EXCEPT ![c] = Idle]
    /\ rowLock' = Unlocked(c)
    /\ UNCHANGED <<now, contacts, blocks, owner, letter>>

Advance(c, pc) ==
    /\ session' = [session EXCEPT ![c].pc = pc]
    /\ UNCHANGED <<now, contacts, blocks, owner, letter, rowLock>>

(* One of the handler's checks: on to the next, or refused. *)
Check(c, at, holds, then) ==
    /\ session[c].pc = at
    /\ IF holds THEN Advance(c, then) ELSE GiveUp(c)

(* Bound: letters are left for every handler at work. *)
Request(c, v, order) ==
    /\ session[c].pc = "idle"
    /\ Cardinality({d \in Sessions : session[d].pc # "idle"}) < Cardinality(Unsent)
    /\ session' = [session EXCEPT ![c] =
           [Idle EXCEPT !.pc = "contact", !.to = v, !.order = order]]
    /\ UNCHANGED <<now, contacts, blocks, owner, letter, rowLock>>

IsContact(c) ==
    /\ session[c].pc = "contact"
    /\ Advance(c, IF <<UserOf[c], session[c].to>> \in contacts THEN "blocked" ELSE "received")

HasReceivedFrom(c) ==
    Check(c, "received",
          \E l \in Arrived :
              letter[l].sender = session[c].to /\ letter[l].recipient = UserOf[c],
          "blocked")

(* Mutant: the arguments swapped, it asks whether the sender blocked. *)
IsBlockedByMe(c) == Check(c, "blocked", <<UserOf[c], session[c].to>> \notin blocks, "pair")

IsBlocked(c) == Check(c, "blocked", <<session[c].to, UserOf[c]>> \notin blocks, "pair")

(* sent_at > now() - interval '1 day' *)
Recent(u) == {l \in Sent : letter[l].sender = u /\ letter[l].sentAt + Day > now}
RecentTo(u, v) == {l \in Recent(u) : letter[l].recipient = v}

(* Mutant: the limit itself still passes. *)
UpTo(n, limit) == n <= limit

Below(n, limit) == n < limit

CheckPairLimit(c) ==
    Check(c, "pair", Below(Cardinality(RecentTo(UserOf[c], session[c].to)), PairLimit), "total")

CheckTotalLimit(c) ==
    Check(c, "total", Below(Cardinality(Recent(UserOf[c])), TotalLimit), "insert")

(* BEGIN and the INSERT of the message, which nobody else sees yet. *)
InsertMessage(c) ==
    /\ session[c].pc = "insert"
    /\ session' = [session EXCEPT ![c].pc = "attach", ![c].next = 1, ![c].begun = now]
    /\ UNCHANGED <<now, contacts, blocks, owner, letter, rowLock>>

NextStamp(c) == session[c].order[session[c].next]

(* Mutant: SELECT without FOR UPDATE. *)
NoRowLocks(c) == TRUE

MayLock(c) == rowLock[NextStamp(c)] \in {Free, c}

OwnsNext(c) == owner[NextStamp(c)] = UserOf[c]

(* SELECT ... FOR UPDATE, once the row is free, and the attachment, which the   *)
(* unique constraint refuses to a stamp named twice.                            *)
AttachStamp(c) ==
    /\ session[c].pc = "attach"
    /\ MayLock(c)
    /\ IF OwnsNext(c) /\ NextStamp(c) \notin session[c].attached
         THEN /\ session' = [session EXCEPT
                     ![c].pc = IF session[c].next = Len(session[c].order)
                                 THEN "commit" ELSE "attach",
                     ![c].next = @ + 1,
                     ![c].attached = @ \cup {NextStamp(c)}]
              /\ rowLock' = [rowLock EXCEPT ![NextStamp(c)] = c]
              /\ UNCHANGED <<now, contacts, blocks, owner, letter>>
         ELSE GiveUp(c)

(* Mutant: the row is queued first, as nothing in the code is. *)
QueuedLetter(c) ==
    [status |-> "queued", sender |-> UserOf[c], recipient |-> session[c].to,
     sentAt |-> session[c].begun, stamps |-> session[c].attached, late |-> FALSE]

NewLetter(c) ==
    [status |-> "in_transit", sender |-> UserOf[c], recipient |-> session[c].to,
     sentAt |-> session[c].begun, stamps |-> session[c].attached,
     late |-> <<session[c].to, UserOf[c]>> \in blocks]

(* The stamps lose their owner and the transaction commits; the answer may be   *)
(* lost, which the sender takes for a failure and may ask again.                *)
Commit(c) ==
    /\ session[c].pc = "commit"
    /\ Unsent # {}
    /\ letter' = [letter EXCEPT ![Fresh] = NewLetter(c)]
    /\ owner' = [s \in Stamps |-> IF s \in session[c].attached THEN InMail ELSE owner[s]]
    /\ rowLock' = Unlocked(c)
    /\ session' = [session EXCEPT ![c] = Idle]
    /\ UNCHANGED <<now, contacts, blocks>>

Waits(c, d) ==
    /\ session[c].pc = "attach" /\ c # d
    /\ rowLock[NextStamp(c)] = d

(* Mutant: nobody breaks a deadlock. *)
NoDeadlock(c) == FALSE

(* c is on a cycle of transactions that wait for each other. *)
Deadlocked(c) ==
    \E cycle \in SUBSET Sessions :
        /\ c \in cycle
        /\ \A d \in cycle : \E e, f \in cycle : Waits(d, e) /\ Waits(f, d)

DeadlockVictim(c) == Deadlocked(c) /\ GiveUp(c)

(* The connection or the server goes away and the database rolls back. *)
Disconnect(c) == session[c].pc # "idle" /\ GiveUp(c)

Step(c) ==
    \/ IsContact(c) \/ HasReceivedFrom(c) \/ IsBlocked(c)
    \/ CheckPairLimit(c) \/ CheckTotalLimit(c)
    \/ InsertMessage(c) \/ AttachStamp(c)
    \/ Commit(c)

Next ==
    \/ Tick
    \/ \E u \in Served, v \in Users : AddContact(u, v) \/ DeleteContact(u, v)
    \/ \E u \in Users, v \in Served : BlockUser(u, v)
    \/ \E due \in SUBSET Letters : DeliverMessages(due)
    \/ \E c \in Sessions :
          \/ \E v \in Users \ {UserOf[c]}, order \in Orders : Request(c, v, order)
          \/ IsContact(c)
          \/ HasReceivedFrom(c)
          \/ IsBlocked(c)
          \/ CheckPairLimit(c)
          \/ CheckTotalLimit(c)
          \/ InsertMessage(c)
          \/ AttachStamp(c)
          \/ Commit(c)
          \/ DeadlockVictim(c)
          \/ Disconnect(c)

Spec == Init /\ [][Next]_vars

(* A handler's goroutine runs on, PostgreSQL grants a row lock to those who     *)
(* wait for it in turn and finds every deadlock.  Nobody has to ask, block,     *)
(* disconnect or deliver.                                                      *)
FairSpec ==
    /\ Spec
    /\ \A c \in Sessions :
          WF_vars(Step(c)) /\ SF_vars(AttachStamp(c)) /\ WF_vars(DeadlockVictim(c))
-----------------------------------------------------------------------------
(* Every variable holds a value of its type. *)
TypeOK ==
    /\ now \in Day .. Day + MaxTime
    /\ contacts \subseteq Users \X Users
    /\ blocks \subseteq Users \X Users
    /\ owner \in [Stamps -> Users \cup {InMail}]
    /\ letter \in [Letters -> Letter]
    /\ rowLock \in [Stamps -> Sessions \cup {Free}]
    /\ session \in [Sessions -> Session]

SessionsOf(u) == {c \in Sessions : UserOf[c] = u}
Past(u, steps) == {c \in SessionsOf(u) : session[c].pc \in steps}
To(v) == {c \in Sessions : session[c].to = v}

(* The daily limit for one recipient overshoots by no more than the user's     *)
(* other handlers: each handler that passed the count stores at most one letter *)
(* after it.  (It does overshoot: count and insertion are separate statements.) *)
PairLimitSlack ==
    \A u, v \in Users :
        Cardinality(RecentTo(u, v))
          + Cardinality(Past(u, {"total"} \cup Transaction) \cap To(v))
          < PairLimit + Cardinality(SessionsOf(u))

LateFrom(u, v) ==
    {l \in Sent : letter[l].late /\ letter[l].sender = u /\ letter[l].recipient = v}

(* Once v has blocked u, at most the letters u's handlers were already working  *)
(* on still get through: a handler that looks for the block later stops.        *)
BlockSlack ==
    \A u, v \in Users :
        <<v, u>> \in blocks =>
            Cardinality(LateFrom(u, v))
              + Cardinality(Past(u, {"pair", "total"} \cup Transaction) \cap To(v))
              <= Cardinality(SessionsOf(u))

(* Every request is answered or fails: handlers that lock each other's stamps   *)
(* in opposite orders do not wait for ever.                                     *)
EveryRequestEnds == \A c \in Sessions : session[c].pc # "idle" ~> session[c].pc = "idle"
-----------------------------------------------------------------------------
(* Where a stamp is, as everyone sees it: committed rows only. *)
Place(s) ==
    IF owner[s] = InMail THEN CHOOSE l \in Travelling : s \in letter[l].stamps ELSE owner[s]

(* The stamps are in albums from the start, and the post office is otherwise   *)
(* that of module PostOffice.                                                  *)
Promise == INSTANCE PostOffice WITH
    Accounts <- Users, Nowhere <- None, Unposted <- <<>>,
    place   <- [s \in Stamps |-> Place(s)],
    address <- [l \in Letters |->
                  IF l \in Sent THEN <<letter[l].sender, letter[l].recipient>> ELSE <<>>],
    arrived <- Arrived

(* However the handlers' statements interleave, a stamp leaves its owner's album *)
(* for one letter only, and all of a letter's stamps leave together: a request   *)
(* that is repeated with the same stamps stores no second letter.                *)
StampsKeepThePromise == [][<<owner, letter>>' # <<owner, letter>> => Promise!Next]_vars
=============================================================================
