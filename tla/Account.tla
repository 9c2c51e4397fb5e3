-------------------------------- MODULE Account --------------------------------
(***************************************************************************)
(* An account and the machines that hold it.  The relay keeps a directory  *)
(* of accounts by public key (server/ws.go, db/db.go, server/welcome.go);  *)
(* each machine keeps a key, an identity and a PIN in three files          *)
(* (crypto/keys.go, client/identity.go, client/pin.go), written by         *)
(* registration, recovery and renaming (client/register.go, settings.go)   *)
(* and read when the program starts (cmd/penpal/main.go).  Requests are    *)
(* issued by goroutines, so they reach the relay, and their answers the    *)
(* screen, in any order.  Machines are killed, connections drop, the relay *)
(* restarts and a write to disk may fail.                                  *)
(***************************************************************************)
EXTENDS Naturals, FiniteSets, Bags

CONSTANTS
    Machines,       \* computers of people who may know each other's phrases
    Keys,           \* key pairs: one phrase, one account at most
    Names, Discs,   \* usernames and discriminators
    Taken,          \* addresses of other people
    None,
    Gifts,          \* stamps given at registration
    MaxAsks,        \* bound: requests and answers a machine has in flight
    MaxAddresses    \* bound: addresses the accounts of Keys ever had

Addresses == Names \X Discs
Accounts == [name : Names, disc : Discs, gifts : Nat, welcomed : BOOLEAN]
Savings == [step : 1 .. 3, key : Keys, addr : Addresses, next : {"pinsetup", "home"}]

ASSUME AccountAssumption ==
    /\ Taken \subseteq Addresses
    /\ Gifts \in Nat /\ MaxAsks \in Nat /\ MaxAddresses \in Nat
    /\ None \notin Keys \cup Machines \cup Accounts \cup Savings

VARIABLES
    users,      \* by key: the relay's account, or None
    jobs,       \* by key: the registration the relay is finishing, or None
    session,    \* by machine: whose connection the relay takes it for
    asks,       \* by machine: the bag of requests not yet carried out
    answers,    \* by machine: the bag of answers not yet shown to the screen
    app,        \* by machine: the screen, the key and the address in memory
    saving,     \* by machine: the account being written to disk, or None
    disk,       \* by machine: the key, identity and pin files
    phrases,    \* keys whose phrase somebody has written down
    held,       \* by key: the addresses its account has had
    torn,       \* machines stopped or failing between two writes, not hasty
    stuck,      \* machines where a save could not remove the PIN that was set
    hasty       \* machines whose user moved on before a recovery was answered

relay == <<users, jobs, held>>
people == <<phrases, torn, stuck, hasty>>
vars == <<relay, session, asks, answers, app, saving, disk, people>>

AddressOf(u) == <<u.name, u.disc>>
InUse(others) == Taken \cup {AddressOf(users[k]) : k \in {k \in others : users[k] # None}}

Off == [pc |-> "off", key |-> None, addr |-> None]

Init ==
    /\ users = [k \in Keys |-> None] /\ jobs = [k \in Keys |-> None]
    /\ session = [m \in Machines |-> None]
    /\ asks = [m \in Machines |-> EmptyBag] /\ answers = [m \in Machines |-> EmptyBag]
    /\ app = [m \in Machines |-> Off]
    /\ saving = [m \in Machines |-> None]
    /\ disk = [m \in Machines |-> [key |-> None, identity |-> None, pin |-> None]]
    /\ phrases = {} /\ torn = {} /\ stuck = {} /\ hasty = {}
    /\ held = [k \in Keys |-> {}]
-----------------------------------------------------------------------------
(* The machine. *)

At(m, pc) == app[m].pc = pc /\ saving[m] = None
Show(m, pc) == app' = [app EXCEPT ![m].pc = pc]
Outstanding(m) == asks[m] (+) answers[m]

Ask(m, kind, key, name) ==
    /\ BagCardinality(Outstanding(m)) < MaxAsks
    /\ asks' = [asks EXCEPT ![m] = @ (+) SetToBag({[kind |-> kind, key |-> key, name |-> name]})]

(* Faulty: the signature is not checked against the account's own key. *)
SignsInAsAnyone(key, addr) == {k \in Keys : users[k] # None /\ AddressOf(users[k]) = addr}

(* handleAuth finds the account by its address, handleAuthResponse checks the *)
(* signature of the challenge against its key.                               *)
SignsInAs(key, addr) == {k \in Keys \cap {key} : users[k] # None /\ AddressOf(users[k]) = addr}

(* main: a key without an identity ends the program at once; a failed        *)
(* sign-in clears what was loaded and leads to the registration screen.      *)
Start(m) ==
    /\ At(m, "off")
    /\ disk[m].key # None => disk[m].identity # None
    /\ \/ \E k \in SignsInAs(disk[m].key, disk[m].identity) :
          /\ app' = [app EXCEPT ![m] =
                [pc |-> IF disk[m].pin = None THEN "home" ELSE "pin",
                 key |-> disk[m].key, addr |-> disk[m].identity]]
          /\ session' = [session EXCEPT ![m] = k]
       \/ app' = [app EXCEPT ![m] = [Off EXCEPT !.pc = "choice"]] /\ UNCHANGED session
    /\ UNCHANGED <<relay, asks, answers, saving, disk, people>>

(* updateUsername: a fresh key; the phrase is shown in the next step. *)
ChooseName(m, name) ==
    /\ At(m, "choice")
    /\ \E k \in Keys \ phrases :
         /\ app' = [app EXCEPT ![m] = [pc |-> "city", key |-> k, addr |-> <<name, None>>]]
         /\ phrases' = phrases \cup {k}
    /\ UNCHANGED <<relay, session, asks, answers, saving, disk, torn, stuck, hasty>>

(* updateCity: enter may be pressed again while an answer is awaited. *)
ChooseCity(m) ==
    /\ At(m, "city")
    /\ Ask(m, "register", app[m].key, app[m].addr[1])
    /\ UNCHANGED <<relay, session, answers, app, saving, disk, people>>

RecoverInstead(m) ==
    /\ At(m, "choice") /\ Show(m, "recover")
    /\ UNCHANGED <<relay, session, asks, answers, saving, disk, people>>

MovesOn(m) ==
    LET machines == {n \in {m} : \E r \in BagToSet(Outstanding(n)) :
                                     r.kind \in {"recover", "recovered"}} IN
    hasty' = hasty \cup machines /\ torn' = torn \ machines /\ UNCHANGED stuck

(* updateRecover: the key is in the application's state from here on. *)
EnterPhrase(m, k) ==
    /\ At(m, "recover") /\ k \in phrases
    /\ app' = [app EXCEPT ![m].key = k]
    /\ Ask(m, "recover", k, None)
    /\ MovesOn(m)
    /\ UNCHANGED <<relay, session, answers, saving, disk, phrases>>

LeaveRecovery(m) ==
    /\ At(m, "recover") /\ Show(m, "choice") /\ MovesOn(m)
    /\ UNCHANGED <<relay, session, asks, answers, saving, disk, phrases>>

(* Settings: updateMenu opens and esc closes the field, which drops the      *)
(* answers that arrive later.                                                *)
OpenRename(m) ==
    /\ At(m, "home") /\ Show(m, "rename")
    /\ UNCHANGED <<relay, session, asks, answers, saving, disk, people>>

Rename(m, name) ==
    /\ At(m, "rename")
    /\ Ask(m, "rename", None, name)
    /\ UNCHANGED <<relay, session, answers, app, saving, disk, people>>

CloseRename(m) ==
    /\ At(m, "rename") /\ Show(m, "home")
    /\ UNCHANGED <<relay, session, asks, answers, saving, disk, people>>

(* PinSetup, after registration or from the settings: set, changed or left. *)
SetPin(m) ==
    /\ At(m, "pinsetup") \/ At(m, "home")
    /\ Show(m, "home")
    /\ disk' = [disk EXCEPT ![m].pin = disk[m].key]
    /\ stuck' = stuck \ {m}
    /\ UNCHANGED <<relay, session, asks, answers, saving, phrases, torn, hasty>>

SkipPin(m) ==
    /\ At(m, "pinsetup") /\ Show(m, "home")
    /\ UNCHANGED <<relay, session, asks, answers, saving, disk, people>>

Unlock(m) ==
    /\ At(m, "pin") /\ Show(m, "home")
    /\ UNCHANGED <<relay, session, asks, answers, saving, disk, people>>
-----------------------------------------------------------------------------
(* The relay: a connection's requests are carried out one at a time. *)

(* Bound: the addresses had by all accounts together. *)
Holds(k, addr) ==
    /\ held' = [held EXCEPT ![k] = @ \cup {addr}]
    /\ Cardinality(UNION {held'[j] : j \in Keys}) <= MaxAddresses

Working(m) == \E k \in Keys : jobs[k] # None /\ jobs[k].to = m

Take(m, r, kind) ==
    ~Working(m) /\ r.kind = kind /\ asks' = [asks EXCEPT ![m] = @ (-) SetToBag({r})]
Answer(m, kind, key, addr) ==
    answers' = [answers EXCEPT ![m] = @ (+) SetToBag({[kind |-> kind, key |-> key, addr |-> addr]})]

(* CreateUser: a conflict on the address draws another discriminator; one on *)
(* the public key looks the same and fails in the end.                       *)
Created(key, name) == { d \in Discs : users[key] = None /\ <<name, d>> \notin InUse(Keys) }

(* Faulty: registering a known key continues with the account it finds. *)
RegisterAgain(m, r) ==
    LET k == r.key  free == Created(k, r.name) IN
    /\ Take(m, r, "register")
    /\ \/ /\ users[k] # None
          /\ jobs' = [jobs EXCEPT ![k] = [to |-> m, left |-> Gifts]]
          /\ UNCHANGED <<users, held>>
       \/ \E d \in free :
            /\ users' = [users EXCEPT ![k] = [name |-> r.name, disc |-> d,
                                               gifts |-> 0, welcomed |-> FALSE]]
            /\ jobs' = [jobs EXCEPT ![k] = [to |-> m, left |-> Gifts]]
            /\ Holds(k, <<r.name, d>>)
    /\ UNCHANGED <<session, answers, app, saving, disk, people>>

Register(m, r) ==
    LET k == r.key
        free == Created(k, r.name) IN
    /\ Take(m, r, "register")
    /\ \/ /\ free = {}
          /\ UNCHANGED <<users, jobs, held>>
       \/ \E d \in free :
            /\ users' = [users EXCEPT ![k] = [name |-> r.name, disc |-> d,
                                               gifts |-> 0, welcomed |-> FALSE]]
            /\ jobs' = [jobs EXCEPT ![k] = [to |-> m, left |-> Gifts]]
            /\ Holds(k, <<r.name, d>>)
    /\ UNCHANGED <<session, answers, app, saving, disk, people>>

(* CreateStamp, stamp by stamp; an error is not looked at. *)
Gift(k, given) ==
    /\ jobs[k] # None /\ jobs[k].left > 0
    /\ jobs' = [jobs EXCEPT ![k].left = @ - 1]
    /\ users' = [users EXCEPT ![k].gifts = IF given THEN @ + 1 ELSE @]
    /\ UNCHANGED <<held, session, asks, answers, app, saving, disk, people>>

(* sendWelcomeLetter, whose error is logged; then the connection is the      *)
(* account's, and the answer goes out if the connection is still there.      *)
Welcome(k, sent) ==
    /\ jobs[k] # None /\ jobs[k].left = 0
    /\ users' = [users EXCEPT ![k].welcomed = @ \/ sent]
    /\ jobs' = [jobs EXCEPT ![k] = None]
    /\ LET m == jobs[k].to IN
       IF m = None THEN UNCHANGED <<session, answers>>
       ELSE /\ session' = [session EXCEPT ![m] = k]
            /\ Answer(m, "registered", k, AddressOf(users[k]))
    /\ UNCHANGED <<held, asks, app, saving, disk, people>>

(* handleRecover *)
Recover(m, r) ==
    LET k == r.key IN
    /\ Take(m, r, "recover")
    /\ IF users[k] = None THEN UNCHANGED <<session, answers>>
       ELSE /\ session' = [session EXCEPT ![m] = k]
            /\ Answer(m, "recovered", k, AddressOf(users[k]))
    /\ UNCHANGED <<relay, app, saving, disk, people>>

(* UpdateUsername: the discriminator is kept if the new address is free, and *)
(* otherwise drawn again; the same name is answered as it stands.            *)
Drawn(k, name) ==
    LET free == {d \in Discs : <<name, d>> \notin InUse(Keys \ {k})} IN
    IF k = None THEN {} ELSE IF users[k] = None THEN {}
    ELSE IF users[k].name = name \/ users[k].disc \in free THEN {users[k].disc} ELSE free

CarryOutRename(m, r) ==
    LET k == session[m]  name == r.name IN
    /\ Take(m, r, "rename")
    /\ IF Drawn(k, name) = {} THEN UNCHANGED <<users, held, answers>>
       ELSE \E d \in Drawn(k, name) :
              /\ users' = [users EXCEPT ![k].name = name, ![k].disc = d]
              /\ Holds(k, <<name, d>>)
              /\ Answer(m, "renamed", k, <<name, d>>)
    /\ UNCHANGED <<jobs, session, app, saving, disk, people>>

(* Machines other than Machines register phrases of their own and rename the *)
(* accounts they hold, at the relay the same two transactions.               *)
Elsewhere(k, name) ==
    /\ jobs[k] = None
    /\ IF users[k] = None
       THEN /\ k \notin phrases /\ phrases' = phrases \cup {k}
            /\ \E d \in Created(k, name) :
                 /\ users' = [users EXCEPT ![k] = [name |-> name, disc |-> d,
                                                    gifts |-> Gifts, welcomed |-> TRUE]]
                 /\ Holds(k, <<name, d>>)
       ELSE /\ \E d \in Drawn(k, name) :
                 /\ users' = [users EXCEPT ![k].name = name, ![k].disc = d]
                 /\ Holds(k, <<name, d>>)
            /\ UNCHANGED phrases
    /\ UNCHANGED <<jobs, session, asks, answers, app, saving, disk, torn, stuck, hasty>>

(* ReapGhostAccounts: an account with no letters, not even a welcome, whose  *)
(* last sign-in is 90 days old, whether or not it is connected.              *)
Reap(k) ==
    /\ users[k] # None /\ ~users[k].welcomed /\ jobs[k] = None
    /\ users' = [users EXCEPT ![k] = None]
    /\ UNCHANGED <<jobs, held, session, asks, answers, app, saving, disk, people>>
-----------------------------------------------------------------------------
(* Answers and the disk. *)

Receive(m, r, kind) ==
    /\ r.kind = kind
    /\ answers' = [answers EXCEPT ![m] = @ (-) SetToBag({r})]

(* Faulty: the identity is saved before the answer's discriminator is known. *)
RegisteredEarly(m, r) ==
    /\ At(m, "city") /\ Receive(m, r, "registered")
    /\ saving' = [saving EXCEPT ![m] =
            [step |-> 1, key |-> app[m].key, addr |-> app[m].addr, next |-> "pinsetup"]]
    /\ UNCHANGED <<relay, session, asks, app, disk, people>>

(* The register goroutine goes on to save the account, whatever the screen.  *)
Registered(m, r) ==
    /\ At(m, "city") /\ Receive(m, r, "registered")
    /\ saving' = [saving EXCEPT ![m] =
            [step |-> 1, key |-> app[m].key, addr |-> r.addr, next |-> "pinsetup"]]
    /\ UNCHANGED <<relay, session, asks, app, disk, people>>

(* recoveredMsg: the key of the last phrase entered, the account of this     *)
(* answer; outside the recovery screen the answer is dropped.                *)
Recovered(m, r) ==
    /\ saving[m] = None /\ Receive(m, r, "recovered")
    /\ saving' = IF app[m].pc = "recover"
                 THEN [saving EXCEPT ![m] = [step |-> 1, key |-> app[m].key,
                            addr |-> r.addr, next |-> "home"]]
                 ELSE saving
    /\ UNCHANGED <<relay, session, asks, app, disk, people>>

(* clearPin, SaveKeyFile, then the application's state and saveIdentity. *)
Files == <<"pin", "key", "identity">>

(* clearPin; an error of os.Remove is not looked at. *)
RemovePin(m) ==
    \/ disk' = [disk EXCEPT ![m].pin = None] /\ stuck' = stuck \ {m}
    \/ disk[m].pin # None /\ stuck' = stuck \cup {m} /\ UNCHANGED disk

(* An error of SaveKeyFile ends the work, one of saveIdentity is not looked  *)
(* at.                                                                       *)
Save(m) ==
    /\ saving[m] # None
    /\ LET s == saving[m]
           file == Files[s.step]
           saved == [saving EXCEPT ![m].step = @ + 1] IN
       \/ /\ file = "pin"
          /\ RemovePin(m)
          /\ saving' = saved /\ UNCHANGED <<app, torn>>
       \/ /\ file = "key"
          /\ \/ disk' = [disk EXCEPT ![m].key = s.key] /\ saving' = saved
             \/ saving' = [saving EXCEPT ![m] = None] /\ UNCHANGED disk
          /\ UNCHANGED <<app, torn, stuck>>
       \/ /\ file = "identity"
          /\ \/ disk' = [disk EXCEPT ![m].identity = s.addr] /\ UNCHANGED torn
             \/ torn' = torn \cup ({m} \ hasty) /\ UNCHANGED disk
          /\ app' = [app EXCEPT ![m] = [pc |-> s.next, key |-> s.key, addr |-> s.addr]]
          /\ saving' = [saving EXCEPT ![m] = None] /\ UNCHANGED stuck
    /\ UNCHANGED <<relay, session, asks, answers, phrases, hasty>>

(* Faulty: the identity keeps the discriminator the machine knew. *)
RenamedOnly(m, r) ==
    /\ saving[m] = None /\ Receive(m, r, "renamed")
    /\ IF app[m].pc # "rename" THEN UNCHANGED <<app, disk>>
       ELSE LET addr == <<r.addr[1], app[m].addr[2]>> IN
            /\ app' = [app EXCEPT ![m] = [@ EXCEPT !.pc = "home", !.addr = addr]]
            /\ disk' \in {disk, [disk EXCEPT ![m].identity = addr]}
    /\ UNCHANGED <<relay, session, asks, saving, people>>

(* usernameUpdatedMsg reaches the settings only while the field is open. *)
Renamed(m, r) ==
    /\ saving[m] = None /\ Receive(m, r, "renamed")
    /\ IF app[m].pc # "rename" THEN UNCHANGED <<app, disk>>
       ELSE LET addr == r.addr IN
            /\ app' = [app EXCEPT ![m] = [@ EXCEPT !.pc = "home", !.addr = addr]]
            /\ disk' \in {disk, [disk EXCEPT ![m].identity = addr]}
    /\ UNCHANGED <<relay, session, asks, saving, people>>
-----------------------------------------------------------------------------
(* What goes wrong. *)

Disconnected(ms) ==
    /\ session' = [m \in Machines |-> IF m \in ms THEN None ELSE session[m]]
    /\ asks' = [m \in Machines |-> IF m \in ms THEN EmptyBag ELSE asks[m]]
    /\ answers' = [m \in Machines |-> IF m \in ms THEN EmptyBag ELSE answers[m]]

Orphaned(m) == [k \in Keys |->
    IF jobs[k] # None /\ jobs[k].to = m THEN [jobs[k] EXCEPT !.to = None] ELSE jobs[k]]

(* A connection is lost: its waiters get an error, the handler runs on. *)
Lose(m) ==
    /\ app[m].pc # "off"
    /\ Disconnected({m}) /\ jobs' = Orphaned(m)
    /\ UNCHANGED <<users, held, app, saving, disk, people>>

(* The next request signs in again with the credentials of the last save. *)
SignIn(m) ==
    /\ At(m, "home") \/ At(m, "rename")
    /\ session[m] = None
    /\ \E k \in SignsInAs(app[m].key, app[m].addr) : session' = [session EXCEPT ![m] = k]
    /\ UNCHANGED <<relay, asks, answers, app, saving, disk, people>>

(* The program is quit or killed, between two writes perhaps. *)
Kill(m) ==
    /\ app[m].pc # "off"
    /\ Disconnected({m}) /\ jobs' = Orphaned(m)
    /\ app' = [app EXCEPT ![m] = Off]
    /\ saving' = [saving EXCEPT ![m] = None]
    /\ torn' = IF saving[m] # None /\ saving[m].step = 3 THEN torn \cup ({m} \ hasty) ELSE torn
    /\ UNCHANGED <<users, held, disk, phrases, stuck, hasty>>

RelayRestarts ==
    /\ \E k \in Keys : jobs[k] # None
    /\ jobs' = [k \in Keys |-> None]
    /\ Disconnected(Machines)
    /\ UNCHANGED <<users, held, app, saving, disk, people>>
-----------------------------------------------------------------------------
Screen(m) ==
    \/ Start(m) \/ ChooseCity(m) \/ RecoverInstead(m) \/ LeaveRecovery(m)
    \/ OpenRename(m) \/ CloseRename(m) \/ SetPin(m) \/ SkipPin(m) \/ Unlock(m)
    \/ \E name \in Names : ChooseName(m, name) \/ Rename(m, name)
    \/ \E k \in Keys : EnterPhrase(m, k)

Relay(m) == \E r \in BagToSet(asks[m]) : Register(m, r) \/ Recover(m, r) \/ CarryOutRename(m, r)

Arrival(m) ==
    \/ \E r \in BagToSet(answers[m]) : Registered(m, r) \/ Recovered(m, r) \/ Renamed(m, r)
    \/ Save(m)

Fault(m) == Lose(m) \/ Kill(m) \/ SignIn(m)

Account(k) ==
    \/ Reap(k)
    \/ \E name \in Names : Elsewhere(k, name)
    \/ \E done \in BOOLEAN : Gift(k, done) \/ Welcome(k, done)

Next ==
    \/ \E m \in Machines : Screen(m) \/ Relay(m) \/ Arrival(m) \/ Fault(m)
    \/ \E k \in Keys : Account(k)
    \/ RelayRestarts

Spec == Init /\ [][Next]_vars
-----------------------------------------------------------------------------
Requests == [kind : {"register", "recover", "rename"}, key : Keys \cup {None}, name : Names \cup {None}]
Replies == [kind : {"registered", "recovered", "renamed"}, key : Keys, addr : Addresses]

(* The types of the directory and of the machines. *)
TypeOK ==
    /\ users \in [Keys -> Accounts \cup {None}]
    /\ \A k \in Keys : jobs[k] = None
           \/ (users[k] # None /\ jobs[k] \in [to : Machines \cup {None}, left : 0 .. Gifts])
    /\ session \in [Machines -> Keys \cup {None}]
    /\ \A m \in Machines :
         /\ BagToSet(asks[m]) \subseteq Requests /\ BagToSet(answers[m]) \subseteq Replies
         /\ app[m].pc \in {"off", "choice", "city", "recover", "pinsetup", "pin", "home", "rename"}
         /\ app[m].key \in Keys \cup {None}
         /\ saving[m] # None => saving[m].key \in phrases
         /\ disk[m] \in [key : phrases \cup {None}, identity : Addresses \cup {None},
                          pin : phrases \cup {None}]
    /\ held \in [Keys -> SUBSET Addresses]
    /\ phrases \subseteq Keys /\ torn \cup stuck \cup hasty \subseteq Machines

(* Registration pays its stamps once (handleRegister): however often enter    *)
(* was pressed, connections dropped and the relay restarted, an account never *)
(* holds more than the eight of one registration, and while the handler is    *)
(* still at work no more than it has reached.                                 *)
GiftsOnce ==
    \A k \in Keys : users[k] # None =>
        /\ users[k].gifts <= Gifts
        /\ jobs[k] # None => users[k].gifts <= Gifts - jobs[k].left

(* The files of a machine belong together (SaveKeyFile, saveIdentity): the    *)
(* identity is an address that the key's account has had, except on a machine *)
(* that failed between the two writes or whose user overlapped recoveries;    *)
(* and the PIN was set for the key that is there, wherever a kill or a failed *)
(* write fell, unless the removal of an earlier PIN (clearPin) itself failed  *)
(* and no PIN was set since: then the old PIN stays beside the new key.       *)
FilesAgree ==
    /\ \A m \in Machines \ (torn \cup hasty) :
          IF disk[m].key = None THEN disk[m].identity = None
          ELSE disk[m].identity \in held[disk[m].key] \/ saving[m] # None
    /\ \A m \in Machines \ stuck : disk[m].pin \in {None, disk[m].key}

(* The relay takes a connection for the account its screens show (session by  *)
(* handleRegister, handleRecover and handleAuthResponse): stale files, reused *)
(* addresses and renames elsewhere open no other account.  A recovery left    *)
(* unanswered may still do so, which is why its machine is excepted.          *)
SessionIsShown ==
    \A m \in Machines \ hasty :
        app[m].pc \in {"pinsetup", "pin", "home", "rename"} =>
            /\ session[m] \in {None, app[m].key}
            /\ app[m].addr \in held[app[m].key]
=============================================================================
