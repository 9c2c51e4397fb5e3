-------------------------------- MODULE Mail --------------------------------
(***************************************************************************)
(* The relay's database (internal/db): accounts, letters and stamps, with  *)
(* one action per operation that changes them.  Each operation is one SQL  *)
(* statement or one transaction, so each is one atomic step here; module   *)
(* SendLetter opens the one transaction whose statements interleave.       *)
(*                                                                         *)
(* A letter is posted with stamps.  A stamp row has no owner (NULL) while  *)
(* its letter travels and belongs to the recipient once it is delivered;   *)
(* the attachment rows of delivered letters are kept for ever, so a stamp  *)
(* that is posted again is attached to several letters.  Row identifiers   *)
(* are abstract: that of a deleted row may be used again.                  *)
(***************************************************************************)
EXTENDS Naturals, FiniteSets

CONSTANTS
    Users,      \* identifiers of accounts
    System,     \* SystemUserID, the account penpal#0000
    Letters,    \* identifiers of messages
    Stamps,     \* identifiers of stamps
    Kinds,      \* stamp types
    KindOf,     \* the type of each stamp
    InMail,     \* owner_id NULL: the stamp travels on a letter
    Unissued,   \* there is no such stamp row
    Postage,    \* the stamp counts the shipping tiers require
    MaxTime     \* bound on the clock

Accounts == Users \cup {System}

ASSUME MailAssumption ==
    /\ System \notin Users
    /\ {InMail, Unissued} \cap Accounts = {}
    /\ InMail # Unissued
    /\ Letters \cap (Accounts \cup {InMail, Unissued}) = {}
    /\ KindOf \in [Stamps -> Kinds]
    /\ Postage \subseteq Nat
    /\ MaxTime \in Nat

VARIABLES
    now,        \* the database clock, now()
    accounts,   \* the rows of users
    letter,     \* messages with their stamp_attachments
    owner,      \* stamps.owner_id
    earnedVia,  \* stamps.earned_via
    discovered  \* stamp_discoveries

vars == <<now, accounts, letter, owner, earnedVia, discovered>>

Letter ==
    [status    : {"unsent", "in_transit", "delivered", "read"},
     sender    : Accounts,
     recipient : Accounts,
     releaseAt : Nat,
     stamps    : SUBSET Stamps]

(* An identifier no message has yet; its other fields mean nothing. *)
Blank ==
    [status |-> "unsent", sender |-> System, recipient |-> System,
     releaseAt |-> 0, stamps |-> {}]

Sent == {l \in Letters : letter[l].status # "unsent"}
Travelling == {l \in Letters : letter[l].status = "in_transit"}
Arrived == {l \in Letters : letter[l].status \in {"delivered", "read"}}
Issued == {s \in Stamps : owner[s] # Unissued}

(* Mutant: a stamp without an owner passes for the sender's. *)
OwnedByOrNobody(u) == {s \in Stamps : owner[s] \in {u, InMail}}

OwnedBy(u) == {s \in Stamps : owner[s] = u}
Party(u, l) == u \in {letter[l].sender, letter[l].recipient}

Init ==
    /\ now = 0
    /\ accounts = {System}
    /\ letter = [l \in Letters |-> Blank]
    /\ owner = [s \in Stamps |-> Unissued]
    /\ earnedVia = [s \in Stamps |-> "minted"]
    /\ discovered = [u \in Accounts |-> {}]
-----------------------------------------------------------------------------
Tick ==
    /\ now < MaxTime
    /\ now' = now + 1
    /\ UNCHANGED <<accounts, letter, owner, earnedVia, discovered>>

CreateUser(u) ==
    /\ u \in Users \ accounts
    /\ accounts' = accounts \cup {u}
    /\ UNCHANGED <<now, letter, owner, earnedVia, discovered>>

(* The discovery is recorded by a second statement whose failure CreateStamp *)
(* ignores: the stamp may stay without it.  The weekly award does not leave  *)
(* the system account out.                                                   *)
CreateStamp(u, s) ==
    /\ u \in accounts
    /\ owner[s] = Unissued
    /\ owner' = [owner EXCEPT ![s] = u]
    /\ earnedVia' = [earnedVia EXCEPT ![s] = "minted"]
    /\ \E recorded \in SUBSET {KindOf[s]} :
          discovered' = [discovered EXCEPT ![u] = @ \cup recorded]
    /\ UNCHANGED <<now, accounts, letter>>

(* The whole transaction; it rolls back unless the sender owns every stamp. *)
CreateMessage(u, v, l, S, release) ==
    /\ {u, v} \subseteq accounts \ {System} /\ u # v
    /\ letter[l].status = "unsent"
    /\ Cardinality(S) \in Postage
    /\ S \subseteq OwnedBy(u)
    /\ letter' = [letter EXCEPT ![l] =
           [status |-> "in_transit", sender |-> u, recipient |-> v,
            releaseAt |-> release, stamps |-> S]]
    /\ owner' = [s \in Stamps |-> IF s \in S THEN InMail ELSE owner[s]]
    /\ UNCHANGED <<now, accounts, earnedVia, discovered>>

(* Sent once by the registration handler; both foreign keys must hold. *)
CreateWelcomeMessage(u, l) ==
    /\ u \in accounts \ {System} /\ System \in accounts
    /\ letter[l].status = "unsent"
    /\ \A m \in Sent : ~(letter[m].sender = System /\ letter[m].recipient = u)
    /\ letter' = [letter EXCEPT ![l] =
           [status |-> "delivered", sender |-> System, recipient |-> u,
            releaseAt |-> now, stamps |-> {}]]
    /\ UNCHANGED <<now, accounts, owner, earnedVia, discovered>>

(* Mutant: a letter is due at one instant only. *)
DueOnTheDot == {l \in Travelling : letter[l].releaseAt = now}

Due == {l \in Travelling : letter[l].releaseAt <= now}

(* The letter of L that carries s, when one does. *)
CarrierIn(L, s) == CHOOSE l \in L : s \in letter[l].stamps
Carried(L) == {s \in Stamps : \E l \in L : s \in letter[l].stamps}

(* Mutant: the stamps return to the sender. *)
HeirIsSender(s) == letter[CarrierIn(Due, s)].sender

Heir(s) == letter[CarrierIn(Due, s)].recipient

(* Mutant: the sender discovers the types of the stamps. *)
KindsSentBy(L, u) == {KindOf[s] : s \in Carried({l \in L : letter[l].sender = u})}

KindsFor(L, u) == {KindOf[s] : s \in Carried({l \in L : letter[l].recipient = u})}

(* One transaction of the delivery loop: the due letters arrive, their      *)
(* stamps go to the recipients and the recipients discover them.            *)
DeliverMessages ==
    /\ Due # {}
    /\ letter' = [l \in Letters |->
           IF l \in Due THEN [letter[l] EXCEPT !.status = "delivered"] ELSE letter[l]]
    /\ owner' = [s \in Stamps |-> IF s \in Carried(Due) THEN Heir(s) ELSE owner[s]]
    /\ earnedVia' = [s \in Stamps |->
           IF s \in Carried(Due) THEN "transfer" ELSE earnedVia[s]]
    /\ discovered' = [u \in Accounts |-> discovered[u] \cup KindsFor(Due, u)]
    /\ UNCHANGED <<now, accounts>>

(* Mutant: the status is not one of the column's. *)
MarkOpened(l) ==
    /\ letter[l].status = "delivered"
    /\ letter' = [letter EXCEPT ![l].status = "opened"]
    /\ UNCHANGED <<now, accounts, owner, earnedVia, discovered>>

MarkRead(l) ==
    /\ letter[l].status = "delivered"
    /\ letter' = [letter EXCEPT ![l].status = "read"]
    /\ UNCHANGED <<now, accounts, owner, earnedVia, discovered>>

(* Mutant: only letters the account sent save it. *)
GhostsWhoNeverWrote == {u \in accounts : \A l \in Sent : letter[l].sender # u}

(* Accounts, the system's included, that no letter names. *)
Ghosts == {u \in accounts : \A l \in Sent : ~Party(u, l)}

(* Of the ghosts the reaper deletes those idle for long enough; the cascade    *)
(* takes their stamps and discoveries with them.                               *)
ReapGhostAccounts(idle) ==
    /\ idle # {} /\ idle \subseteq Ghosts
    /\ accounts' = accounts \ idle
    /\ owner' = [s \in Stamps |-> IF owner[s] \in idle THEN Unissued ELSE owner[s]]
    /\ discovered' = [u \in Accounts |-> IF u \in idle THEN {} ELSE discovered[u]]
    /\ UNCHANGED <<now, letter, earnedVia>>

Next ==
    \/ Tick
    \/ \E u \in Users : CreateUser(u)
    \/ \E u \in Accounts, s \in Stamps : CreateStamp(u, s)
    \/ \E u, v \in Users, l \in Letters, S \in SUBSET Stamps, release \in now .. MaxTime :
          CreateMessage(u, v, l, S, release)
    \/ \E u \in Users, l \in Letters : CreateWelcomeMessage(u, l)
    \/ DeliverMessages
    \/ \E l \in Letters : MarkRead(l)
    \/ \E idle \in SUBSET Accounts : ReapGhostAccounts(idle)

Spec == Init /\ [][Next]_vars

(* safeLoop restarts the delivery loop after a panic and its ticker never    *)
(* stops; time passes.  Nobody has to register, write or read.               *)
FairSpec == Spec /\ WF_vars(Tick) /\ WF_vars(DeliverMessages)
-----------------------------------------------------------------------------
(* Every variable holds a value of its column's type. *)
TypeOK ==
    /\ now \in Nat
    /\ accounts \subseteq Accounts
    /\ letter \in [Letters -> Letter]
    /\ owner \in [Stamps -> Accounts \cup {InMail, Unissued}]
    /\ earnedVia \in [Stamps -> {"minted", "transfer"}]
    /\ discovered \in [Accounts -> SUBSET Kinds]

(* A stamp has no owner exactly while one travelling letter carries it, and   *)
(* no two travelling letters carry the same stamp: CreateMessage and          *)
(* DeliverMessages neither lose a stamp nor spend one twice.                  *)
StampCustody ==
    /\ \A s \in Stamps :
          owner[s] = InMail <=> \E l \in Travelling : s \in letter[l].stamps
    /\ \A l, m \in Travelling : l # m => letter[l].stamps \cap letter[m].stamps = {}

(* Whatever the reaper deletes, both correspondents of every letter, every     *)
(* owner of a stamp and every stamp a letter ever carried still have their     *)
(* rows: the foreign keys that have no cascade never make a DELETE fail.       *)
NothingDangles ==
    /\ \A l \in Sent : {letter[l].sender, letter[l].recipient} \subseteq accounts
    /\ \A l \in Sent : letter[l].stamps \subseteq Issued
    /\ \A s \in Issued : owner[s] # InMail => owner[s] \in accounts

(* No letter arrives, or is read, before the time its route ends. *)
NeverEarly == \A l \in Arrived : letter[l].releaseAt <= now

(* A stamp that came on a letter is in its owner's collection of discovered    *)
(* types; only a stamp the relay minted may miss there.                        *)
TransfersDiscovered ==
    \A s \in Issued :
        earnedVia[s] = "transfer" /\ owner[s] # InMail
            => KindOf[s] \in discovered[owner[s]]

(* Every letter in the mail reaches its recipient: nothing that can be done to *)
(* it on the way keeps it out of the delivery loop's reach.                    *)
EveryLetterArrives ==
    \A l \in Letters : l \in Travelling ~> l \in Arrived
-----------------------------------------------------------------------------
(* Where a stamp is: in somebody's album, or on the letter that carries it. *)
Place(s) == IF owner[s] = InMail THEN CarrierIn(Travelling, s) ELSE owner[s]

(* The addresses on a letter, none while it is unwritten. *)
AddressOf(l) ==
    IF l \in Sent THEN <<letter[l].sender, letter[l].recipient>> ELSE <<>>

Promise == INSTANCE PostOffice WITH
    Nowhere <- Unissued, Unposted <- <<>>,
    place   <- [s \in Stamps |-> Place(s)],
    address <- [l \in Letters |-> AddressOf(l)],
    arrived <- Arrived

(* The tables keep the post office's promise: seen through Place, a stamp only *)
(* moves from nowhere to an album, from its owner's album to a letter, from a  *)
(* letter to that letter's recipient, or out with an account no letter names.  *)
KeepsThePromise == Promise!Spec
=============================================================================
