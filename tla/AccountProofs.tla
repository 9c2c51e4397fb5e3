---------------------------- MODULE AccountProofs ----------------------------
(***************************************************************************)
(* Proofs about Account, for any machines, phrases and bounds: its types,  *)
(* that registration pays once, that the files of a machine belong         *)
(* together and that a connection is the account its screens show.         *)
(* The argument for the last two: what is under way between the relay and  *)
(* a machine whose user waited for every recovery - requests, answers, a   *)
(* registration at work - is for the key that machine holds (OthersOwn),   *)
(* because the key changes only where nothing can be under way; and a save *)
(* removes the PIN, or is known to have failed to, writes the key and then *)
(* the identity of that one key.                                           *)
(***************************************************************************)
EXTENDS Account, TLAPS

Shown == {"pinsetup", "pin", "home", "rename"}
Screens == Shown \cup {"off", "choice", "city", "recover"}
Jobs == [to : Machines \cup {None}, left : 0 .. Gifts]
Apps == [pc : Screens, key : Keys \cup {None}, addr : Addresses \cup (Names \X {None}) \cup {None}]
Disks == [key : Keys \cup {None}, identity : Addresses \cup {None}, pin : Keys \cup {None}]

(* The directory and the relay's registrations. *)
RelayTypes ==
    /\ users \in [Keys -> Accounts \cup {None}]
    /\ jobs \in [Keys -> Jobs \cup {None}]
    /\ held \in [Keys -> SUBSET Addresses]
    /\ \A k \in Keys : jobs[k] # None => users[k] # None
    /\ \A k \in Keys : users[k] # None => AddressOf(users[k]) \in held[k]

(* The machines and their files. *)
MachineTypes ==
    /\ session \in [Machines -> Keys \cup {None}]
    /\ app \in [Machines -> Apps]
    /\ saving \in [Machines -> Savings \cup {None}]
    /\ disk \in [Machines -> Disks]
    /\ phrases \subseteq Keys
    /\ torn \subseteq Machines /\ stuck \subseteq Machines /\ hasty \subseteq Machines
    /\ \A m \in Machines : app[m].pc = "city" => app[m].key \in Keys /\ app[m].addr \in Names \X {None}

(* Bags: a copy added, one taken out, none at all. *)
LEMMA PlusSet ==
    ASSUME NEW B, NEW x PROVE BagToSet(B (+) SetToBag({x})) = BagToSet(B) \cup {x}
BY DEF BagToSet, (+), SetToBag

LEMMA MinusSet ==
    ASSUME NEW B, NEW x PROVE BagToSet(B (-) SetToBag({x})) \subseteq BagToSet(B)
BY DEF BagToSet, (-), SetToBag

LEMMA EmptySet == BagToSet(EmptyBag) = {}
BY DEF BagToSet, EmptyBag, SetToBag

(* Ask puts one request under way, for its machine only. *)
LEMMA AskAdds ==
    ASSUME NEW m \in Machines, NEW kind, NEW key, NEW name,
           DOMAIN asks = Machines, Ask(m, kind, key, name)
    PROVE  /\ DOMAIN asks' = Machines
           /\ \A n \in Machines \ {m} : asks'[n] = asks[n]
           /\ BagToSet(asks'[m]) =
                BagToSet(asks[m]) \cup {[kind |-> kind, key |-> key, name |-> name]}
BY PlusSet DEF Ask

(* A connection that takes a request leaves no more of them. *)
LEMMA TakeRemoves ==
    ASSUME NEW m \in Machines, NEW r, NEW kind, DOMAIN asks = Machines, Take(m, r, kind)
    PROVE  /\ DOMAIN asks' = Machines
           /\ \A n \in Machines : BagToSet(asks'[n]) \subseteq BagToSet(asks[n])
BY MinusSet DEF Take

(* Answer puts one answer under way, for its machine only. *)
LEMMA AnswerAdds ==
    ASSUME NEW m \in Machines, NEW kind, NEW key, NEW addr,
           DOMAIN answers = Machines, Answer(m, kind, key, addr)
    PROVE  /\ DOMAIN answers' = Machines
           /\ \A n \in Machines \ {m} : answers'[n] = answers[n]
           /\ BagToSet(answers'[m]) =
                BagToSet(answers[m]) \cup {[kind |-> kind, key |-> key, addr |-> addr]}
BY PlusSet DEF Answer

(* A screen that receives an answer leaves no more of them. *)
LEMMA ReceiveRemoves ==
    ASSUME NEW m \in Machines, NEW r, NEW kind, DOMAIN answers = Machines, Receive(m, r, kind)
    PROVE  /\ DOMAIN answers' = Machines
           /\ \A n \in Machines : BagToSet(answers'[n]) \subseteq BagToSet(answers[n])
BY MinusSet DEF Receive

(* A connection that drops takes everything under way with it. *)
LEMMA DisconnectEmpties ==
    ASSUME NEW ms \in SUBSET Machines, DOMAIN asks = Machines, DOMAIN answers = Machines,
           Disconnected(ms)
    PROVE  /\ DOMAIN asks' = Machines /\ DOMAIN answers' = Machines
           /\ \A n \in Machines : BagToSet(asks'[n]) \subseteq BagToSet(asks[n])
           /\ \A n \in Machines : BagToSet(answers'[n]) \subseteq BagToSet(answers[n])
           /\ \A n \in ms : BagToSet(asks'[n]) = {} /\ BagToSet(answers'[n]) = {}
           /\ \A n \in ms : session'[n] = None
           /\ \A n \in Machines \ ms : session'[n] = session[n]
BY EmptySet DEF Disconnected

(* What is under way between a machine and the relay. *)
AskTypes ==
    /\ DOMAIN asks = Machines
    /\ \A m \in Machines : \A r \in BagToSet(asks[m]) :
        /\ r \in Requests
        /\ r.kind # "rename" => r.key \in Keys
        /\ r.kind # "recover" => r.name \in Names

AnswerTypes ==
    /\ DOMAIN answers = Machines
    /\ \A m \in Machines : \A r \in BagToSet(answers[m]) :
        r \in Replies /\ r.addr \in held[r.key]

(* Holds adds an address of the account to the ghost variable held. *)
LEMMA HeldGrows ==
    ASSUME RelayTypes, NEW k \in Keys, NEW addr \in Addresses, Holds(k, addr)
    PROVE  /\ held' \in [Keys -> SUBSET Addresses] /\ addr \in held'[k]
           /\ \A j \in Keys : held[j] \subseteq held'[j]
BY DEF RelayTypes, Holds

(* A discriminator is drawn for an account that exists. *)
LEMMA DrawnFor ==
    ASSUME RelayTypes, NEW k, k \in Keys \cup {None}, NEW name, NEW d \in Drawn(k, name)
    PROVE  k \in Keys /\ users[k] # None /\ users[k] \in Accounts /\ d \in Discs
<1>1. k \in Keys /\ users[k] # None
    BY DEF Drawn
<1>2. users[k] \in Accounts
    BY <1>1 DEF RelayTypes
<1>3. d \in Discs
    BY <1>1, <1>2 DEF Drawn, Accounts
<1> QED
    BY <1>1, <1>2, <1>3

(* An address held by nobody before is entered with the account. *)
LEMMA EnterAccount ==
    ASSUME RelayTypes, NEW k \in Keys, NEW u \in Accounts,
           users' = [users EXCEPT ![k] = u], Holds(k, AddressOf(u))
    PROVE  /\ users' \in [Keys -> Accounts \cup {None}]
           /\ held' \in [Keys -> SUBSET Addresses]
           /\ \A j \in Keys : held[j] \subseteq held'[j]
           /\ \A j \in Keys : users'[j] # None => AddressOf(users'[j]) \in held'[j]
           /\ \A j \in Keys : users[j] # None => users'[j] # None
           /\ users'[k] # None
<1>1. AddressOf(u) \in Addresses
    BY DEF AddressOf, Addresses, Accounts
<1>2. /\ held' \in [Keys -> SUBSET Addresses] /\ AddressOf(u) \in held'[k]
      /\ \A j \in Keys : held[j] \subseteq held'[j]
    BY <1>1, HeldGrows
<1>3. u # None
    BY AccountAssumption
<1>4. users' \in [Keys -> Accounts \cup {None}] /\ users'[k] = u
      /\ \A j \in Keys \ {k} : users'[j] = users[j]
    BY DEF RelayTypes
<1>5. ASSUME NEW j \in Keys, users'[j] # None PROVE AddressOf(users'[j]) \in held'[j]
    <2>1. CASE j = k
        BY <2>1, <1>2, <1>4
    <2>2. CASE j # k
        <3>1. AddressOf(users[j]) \in held[j] /\ AddressOf(users'[j]) = AddressOf(users[j])
            BY <2>2, <1>4, <1>5 DEF RelayTypes, AddressOf
        <3> QED
            BY <3>1, <1>2
    <2> QED
        BY <2>1, <2>2
<1> QED
    BY <1>2, <1>3, <1>4, <1>5

(* UpdateUsername keeps the directory in order. *)
LEMMA RenameAccount ==
    ASSUME RelayTypes, NEW k, k \in Keys \cup {None}, NEW name \in Names, NEW d \in Drawn(k, name),
           users' = [users EXCEPT ![k].name = name, ![k].disc = d], Holds(k, <<name, d>>),
           jobs' = jobs
    PROVE  RelayTypes' /\ k \in Keys /\ <<name, d>> \in held'[k] /\ <<name, d>> \in Addresses
           /\ \A j \in Keys : held[j] \subseteq held'[j]
<1>1. k \in Keys /\ users[k] # None /\ users[k] \in Accounts /\ d \in Discs
    BY DrawnFor
<1>2. PICK u : u = [users[k] EXCEPT !.name = name, !.disc = d]
    OBVIOUS
<1>3. u \in Accounts /\ AddressOf(u) = <<name, d>>
    BY <1>1, <1>2 DEF Accounts, AddressOf
<1>4. users' = [users EXCEPT ![k] = u]
    BY <1>1, <1>2 DEF RelayTypes
<1>5. <<name, d>> \in Addresses
    BY <1>1 DEF Addresses
<1>6. <<name, d>> \in held'[k]
    BY <1>1, <1>5, HeldGrows
<1>7. Holds(k, AddressOf(u))
    BY <1>3
<1>8. /\ users' \in [Keys -> Accounts \cup {None}]
      /\ held' \in [Keys -> SUBSET Addresses]
      /\ \A j \in Keys : held[j] \subseteq held'[j]
      /\ \A j \in Keys : users'[j] # None => AddressOf(users'[j]) \in held'[j]
      /\ \A j \in Keys : users[j] # None => users'[j] # None
    BY <1>1, <1>3, <1>4, <1>7, EnterAccount
<1>9. RelayTypes'
    BY <1>8 DEF RelayTypes, AddressOf
<1> QED
    BY <1>1, <1>5, <1>6, <1>8, <1>9

(* Every step keeps the directory in order and forgets no address held. *)
LEMMA RelayStep ==
    ASSUME RelayTypes, AskTypes, session \in [Machines -> Keys \cup {None}], Next
    PROVE  RelayTypes' /\ \A j \in Keys : held[j] \subseteq held'[j]
<1>1. ASSUME NEW m \in Machines, Screen(m) \/ Arrival(m) \/ SignIn(m)
      PROVE  RelayTypes' /\ held' = held
    <2>1. UNCHANGED relay
        BY <1>1 DEF Screen, Start, ChooseName, ChooseCity, RecoverInstead, EnterPhrase,
            LeaveRecovery, OpenRename, Rename, CloseRename, SetPin, SkipPin, Unlock,
            Arrival, Registered, Recovered, Save, Renamed, SignIn
    <2> QED
        BY <2>1 DEF relay, RelayTypes, AddressOf
<1>2. ASSUME NEW m \in Machines, NEW r \in BagToSet(asks[m]), Register(m, r)
      PROVE  RelayTypes' /\ \A j \in Keys : held[j] \subseteq held'[j]
    <2>1. r.key \in Keys /\ r.name \in Names
        BY <1>2 DEF AskTypes, Register, Take
    <2>2. CASE UNCHANGED <<users, jobs, held>>
        BY <2>2 DEF RelayTypes, AddressOf
    <2>3. CASE \E d \in Created(r.key, r.name) :
                /\ users' = [users EXCEPT ![r.key] = [name |-> r.name, disc |-> d,
                                                    gifts |-> 0, welcomed |-> FALSE]]
                /\ jobs' = [jobs EXCEPT ![r.key] = [to |-> m, left |-> Gifts]]
                /\ Holds(r.key, <<r.name, d>>)
        <3>1. PICK d \in Created(r.key, r.name) :
                /\ users' = [users EXCEPT ![r.key] = [name |-> r.name, disc |-> d,
                                                    gifts |-> 0, welcomed |-> FALSE]]
                /\ jobs' = [jobs EXCEPT ![r.key] = [to |-> m, left |-> Gifts]]
                /\ Holds(r.key, <<r.name, d>>)
            BY <2>3
        <3>2. PICK u : u = [name |-> r.name, disc |-> d, gifts |-> 0, welcomed |-> FALSE]
            OBVIOUS
        <3>3. u \in Accounts /\ AddressOf(u) = <<r.name, d>>
            BY <2>1, <3>2 DEF Created, Accounts, AddressOf
        <3>4. [to |-> m, left |-> Gifts] \in Jobs
            BY AccountAssumption DEF Jobs
        <3>5. jobs' \in [Keys -> Jobs \cup {None}] /\ \A j \in Keys \ {r.key} : jobs'[j] = jobs[j]
            BY <3>1, <3>4, <2>1 DEF RelayTypes
        <3>6. users' = [users EXCEPT ![r.key] = u] /\ Holds(r.key, AddressOf(u))
            BY <3>1, <3>2, <3>3
        <3> QED
            BY <2>1, <3>3, <3>5, <3>6, EnterAccount DEF RelayTypes
    <2> QED
        BY <1>2, <2>2, <2>3 DEF Register
<1>3. ASSUME NEW m \in Machines, NEW r \in BagToSet(asks[m]), Recover(m, r)
      PROVE  RelayTypes' /\ held' = held
    BY <1>3 DEF Recover, relay, RelayTypes, AddressOf
<1>4. ASSUME NEW m \in Machines, NEW r \in BagToSet(asks[m]), CarryOutRename(m, r)
      PROVE  RelayTypes' /\ \A j \in Keys : held[j] \subseteq held'[j]
    <2>1. r.name \in Names /\ session[m] \in Keys \cup {None}
        BY <1>4 DEF AskTypes, CarryOutRename, Take
    <2>2. CASE UNCHANGED <<users, held>>
        BY <1>4, <2>2 DEF CarryOutRename, RelayTypes, AddressOf
    <2>3. CASE \E d \in Drawn(session[m], r.name) :
                  /\ users' = [users EXCEPT ![session[m]].name = r.name, ![session[m]].disc = d]
                  /\ Holds(session[m], <<r.name, d>>)
        BY <1>4, <2>1, <2>3, RenameAccount DEF CarryOutRename
    <2> QED
        BY <1>4, <2>2, <2>3 DEF CarryOutRename
<1>5. ASSUME NEW m \in Machines, Lose(m) \/ Kill(m)
      PROVE  RelayTypes' /\ held' = held
    <2>1. users' = users /\ held' = held /\ jobs' = Orphaned(m)
        BY <1>5 DEF Lose, Kill
    <2>2. \A j \in Jobs : [j EXCEPT !.to = None] \in Jobs
        BY DEF Jobs
    <2>3. jobs' \in [Keys -> Jobs \cup {None}]
        BY <2>1, <2>2 DEF Orphaned, RelayTypes
    <2>4. \A k \in Keys : jobs'[k] # None => jobs[k] # None
        BY <2>1 DEF Orphaned
    <2> QED
        BY <2>1, <2>3, <2>4 DEF RelayTypes, AddressOf
<1>6. ASSUME NEW k \in Keys, Reap(k)
      PROVE  RelayTypes' /\ held' = held
    BY <1>6 DEF Reap, RelayTypes, AddressOf
<1>7. ASSUME NEW k \in Keys, NEW name \in Names, Elsewhere(k, name)
      PROVE  RelayTypes' /\ \A j \in Keys : held[j] \subseteq held'[j]
    <2>1. CASE users[k] = None
        <3>1. PICK d \in Created(k, name) :
                /\ users' = [users EXCEPT ![k] = [name |-> name, disc |-> d,
                                                    gifts |-> Gifts, welcomed |-> TRUE]]
                /\ Holds(k, <<name, d>>)
            BY <1>7, <2>1 DEF Elsewhere
        <3>2. PICK u : u = [name |-> name, disc |-> d, gifts |-> Gifts, welcomed |-> TRUE]
            OBVIOUS
        <3>3. u \in Accounts /\ AddressOf(u) = <<name, d>>
            BY <3>2, AccountAssumption DEF Created, Accounts, AddressOf
        <3>4. users' = [users EXCEPT ![k] = u] /\ Holds(k, AddressOf(u))
            BY <3>1, <3>2, <3>3
        <3>5. jobs' = jobs
            BY <1>7 DEF Elsewhere
        <3> QED
            BY <3>3, <3>4, <3>5, EnterAccount DEF RelayTypes
    <2>2. CASE users[k] # None
        BY <1>7, <2>2, RenameAccount DEF Elsewhere
    <2> QED
        BY <2>1, <2>2
<1>8. ASSUME NEW k \in Keys, NEW done \in BOOLEAN, Gift(k, done)
      PROVE  RelayTypes' /\ held' = held
    <2>1. users[k] \in Accounts /\ jobs[k] \in Jobs /\ jobs[k].left > 0
        BY <1>8 DEF Gift, RelayTypes
    <2>2. PICK u : u = [users[k] EXCEPT !.gifts = IF done THEN @ + 1 ELSE @]
        OBVIOUS
    <2>3. u \in Accounts /\ AddressOf(u) = AddressOf(users[k])
        BY <2>1, <2>2 DEF Accounts, AddressOf
    <2>4. [jobs[k] EXCEPT !.left = @ - 1] \in Jobs
        BY <2>1, AccountAssumption DEF Jobs
    <2>5. users' = [users EXCEPT ![k] = u] /\ held' = held
        BY <1>8, <2>2 DEF Gift, RelayTypes
    <2>6. jobs' = [jobs EXCEPT ![k] = [jobs[k] EXCEPT !.left = @ - 1]]
        BY <1>8 DEF Gift, RelayTypes
    <2>7. jobs' \in [Keys -> Jobs \cup {None}] /\ \A j \in Keys \ {k} : jobs'[j] = jobs[j]
        BY <2>4, <2>6 DEF RelayTypes
    <2>8. u # None
        BY <2>3, AccountAssumption
    <2>9. users[k] # None
        BY <2>1, AccountAssumption
    <2> QED
        BY <2>3, <2>5, <2>7, <2>8, <2>9 DEF RelayTypes, AddressOf
<1>9. ASSUME NEW k \in Keys, NEW sent \in BOOLEAN, Welcome(k, sent)
      PROVE  RelayTypes' /\ held' = held
    <2>1. users[k] \in Accounts /\ users[k] # None
        BY <1>9 DEF Welcome, RelayTypes
    <2>2. PICK u : u = [users[k] EXCEPT !.welcomed = @ \/ sent]
        OBVIOUS
    <2>3. (users[k].welcomed \/ sent) \in BOOLEAN
        OBVIOUS
    <2>4. u \in Accounts /\ AddressOf(u) = AddressOf(users[k])
        BY <2>1, <2>2, <2>3 DEF Accounts, AddressOf
    <2>5. users' = [users EXCEPT ![k] = u] /\ held' = held /\ jobs' = [jobs EXCEPT ![k] = None]
        BY <1>9, <2>2 DEF Welcome, RelayTypes
    <2> QED
        BY <2>1, <2>4, <2>5, AccountAssumption DEF RelayTypes, AddressOf
<1>10. CASE RelayRestarts
    BY <1>10 DEF RelayRestarts, RelayTypes, AddressOf
<1> QED
    BY <1>1, <1>2, <1>3, <1>4, <1>5, <1>6, <1>7, <1>8, <1>9, <1>10 DEF Next, Relay, Fault, Account

(* Only a running program waits for the relay, and only with a key for what  *)
(* is not a rename.                                                          *)
WaitsWithKey(m) ==
    \/ \E r \in BagToSet(asks[m]) : r.kind # "rename"
    \/ \E r \in BagToSet(answers[m]) : r.kind # "renamed"
    \/ Working(m)

Waiting ==
    \A m \in Machines :
        /\ app[m].pc = "off" =>
              BagToSet(asks[m]) = {} /\ BagToSet(answers[m]) = {} /\ ~Working(m)
        /\ WaitsWithKey(m) => app[m].key \in Keys

(* A machine holds phrases somebody wrote down. *)
Phrases ==
    \A m \in Machines :
        /\ app[m].key \in phrases \cup {None}
        /\ saving[m] # None => saving[m].key \in phrases
        /\ disk[m].key \in phrases \cup {None} /\ disk[m].pin \in phrases \cup {None}

(* The edits that the steps make to a record of app, and of disk. *)
LEMMA AppEdits ==
    /\ \A a \in Apps, p \in Screens : [a EXCEPT !.pc = p] \in Apps
    /\ \A a \in Apps, k \in Keys : [a EXCEPT !.key = k] \in Apps
    /\ \A a \in Apps, x \in Addresses : [a EXCEPT !.pc = "home", !.addr = x] \in Apps
    /\ Off \in Apps
BY DEF Apps, Off, Screens, Shown

LEMMA DiskEdits ==
    /\ \A d \in Disks, k \in Keys \cup {None} : [d EXCEPT !.pin = k] \in Disks
    /\ \A d \in Disks, k \in Keys : [d EXCEPT !.key = k] \in Disks
    /\ \A d \in Disks, a \in Addresses : [d EXCEPT !.identity = a] \in Disks
BY DEF Disks

(* The three writes of a save. *)
ClearsPin(m) ==
    /\ saving[m].step = 1
    /\ RemovePin(m)
    /\ saving' = [saving EXCEPT ![m].step = 2] /\ UNCHANGED <<app, torn>>

WritesKey(m) ==
    /\ saving[m].step = 2
    /\ \/ disk' = [disk EXCEPT ![m].key = saving[m].key] /\ saving' = [saving EXCEPT ![m].step = 3]
       \/ saving' = [saving EXCEPT ![m] = None] /\ UNCHANGED disk
    /\ UNCHANGED <<app, torn, stuck>>

WritesIdentity(m) ==
    /\ saving[m].step = 3
    /\ \/ disk' = [disk EXCEPT ![m].identity = saving[m].addr] /\ UNCHANGED torn
       \/ torn' = torn \cup ({m} \ hasty) /\ UNCHANGED disk
    /\ app' = [app EXCEPT ![m] = [pc |-> saving[m].next, key |-> saving[m].key, addr |-> saving[m].addr]]
    /\ saving' = [saving EXCEPT ![m] = None] /\ UNCHANGED stuck

(* Save is one of the three writes. *)
LEMMA SaveWrites ==
    ASSUME MachineTypes, NEW m \in Machines, Save(m)
    PROVE  /\ saving[m] \in Savings /\ saving[m] # None
           /\ ClearsPin(m) \/ WritesKey(m) \/ WritesIdentity(m)
           /\ UNCHANGED <<relay, session, asks, answers, phrases, hasty>>
<1>1. saving[m] \in Savings /\ saving[m] # None
    BY DEF Save, MachineTypes
<1>2. saving[m].step \in 1 .. 3
    BY <1>1 DEF Savings
<1>3. saving = [n \in Machines |-> saving[n]]
    BY DEF MachineTypes
<1>4. CASE saving[m].step = 1
    <2>1. saving[m].step + 1 = 2
        BY <1>4
    <2>2. [saving EXCEPT ![m].step = @ + 1] = [saving EXCEPT ![m].step = 2]
        BY <2>1, Zenon
    <2>3. ClearsPin(m)
        BY <2>2, <1>4 DEF Save, Files, ClearsPin
    <2> QED
        BY <1>1, <2>3 DEF Save
<1>5. CASE saving[m].step = 2
    <2>1. saving[m].step + 1 = 3
        BY <1>5
    <2>2. [saving EXCEPT ![m].step = @ + 1] = [saving EXCEPT ![m].step = 3]
        BY <2>1, Zenon
    <2>3. WritesKey(m)
        BY <2>2, <1>5 DEF Save, Files, WritesKey
    <2> QED
        BY <1>1, <2>3 DEF Save
<1>6. CASE saving[m].step = 3
    <2>1. WritesIdentity(m)
        BY <1>6 DEF Save, Files, WritesIdentity
    <2> QED
        BY <1>1, <2>1 DEF Save
<1> QED
    BY <1>2, <1>4, <1>5, <1>6

(* clearPin touches the PIN of its own machine, and says when it could not. *)
LEMMA PinRemoved ==
    ASSUME MachineTypes, NEW m \in Machines, RemovePin(m)
    PROVE  /\ disk' \in [Machines -> Disks] /\ stuck' \subseteq Machines
           /\ \A n \in Machines \ {m} : disk'[n] = disk[n] /\ (n \in stuck <=> n \in stuck')
           /\ \A n \in Machines : disk'[n].key = disk[n].key /\ disk'[n].identity = disk[n].identity
           /\ disk'[m].pin \in {None, disk[m].pin} /\ (m \in stuck' \/ disk'[m].pin = None)
<1>1. disk[m] \in Disks /\ [disk[m] EXCEPT !.pin = None] \in Disks
    BY DiskEdits DEF MachineTypes
<1>2. CASE disk' = [disk EXCEPT ![m].pin = None] /\ stuck' = stuck \ {m}
    <2>1. disk' \in [Machines -> Disks] /\ stuck' \subseteq Machines
        BY <1>1, <1>2 DEF MachineTypes
    <2>2. /\ \A n \in Machines \ {m} : disk'[n] = disk[n] /\ (n \in stuck <=> n \in stuck')
          /\ disk'[m].key = disk[m].key /\ disk'[m].identity = disk[m].identity /\ disk'[m].pin = None
        BY <1>1, <1>2 DEF MachineTypes, Disks
    <2> QED
        BY <2>1, <2>2
<1>3. CASE disk' = disk /\ stuck' = stuck \cup {m}
    BY <1>3 DEF MachineTypes
<1> QED
    BY <1>2, <1>3 DEF RemovePin

(* Every step keeps the types of the machines. *)
LEMMA MachineStep ==
    ASSUME RelayTypes, MachineTypes, AskTypes, AnswerTypes, Waiting, Next
    PROVE  MachineTypes'
<1> USE AccountAssumption
<1>1. ASSUME NEW m \in Machines, Start(m)
      PROVE  MachineTypes'
    <2>1. CASE app' = [app EXCEPT ![m] = [Off EXCEPT !.pc = "choice"]] /\ UNCHANGED session
        <3>1. [Off EXCEPT !.pc = "choice"] \in Apps /\ [Off EXCEPT !.pc = "choice"].pc # "city"
            BY AppEdits DEF Screens, Off
        <3> QED
            BY <1>1, <2>1, <3>1 DEF Start, MachineTypes, people
    <2>2. CASE \E k \in SignsInAs(disk[m].key, disk[m].identity) :
                  /\ app' = [app EXCEPT ![m] =
                        [pc |-> IF disk[m].pin = None THEN "home" ELSE "pin",
                         key |-> disk[m].key, addr |-> disk[m].identity]]
                  /\ session' = [session EXCEPT ![m] = k]
        <3>1. PICK k \in SignsInAs(disk[m].key, disk[m].identity) :
                  /\ app' = [app EXCEPT ![m] =
                        [pc |-> IF disk[m].pin = None THEN "home" ELSE "pin",
                         key |-> disk[m].key, addr |-> disk[m].identity]]
                  /\ session' = [session EXCEPT ![m] = k]
            BY <2>2
        <3>2. k \in Keys /\ disk[m].key \in Keys /\ disk[m].identity \in Addresses
            BY <3>1 DEF SignsInAs, RelayTypes, Accounts, AddressOf, Addresses
        <3>3. PICK a : a = [pc |-> IF disk[m].pin = None THEN "home" ELSE "pin",
                            key |-> disk[m].key, addr |-> disk[m].identity]
            OBVIOUS
        <3>4. a \in Apps /\ a.pc # "city"
            BY <3>2, <3>3 DEF Apps, Screens, Shown
        <3> QED
            BY <1>1, <3>1, <3>2, <3>3, <3>4 DEF Start, MachineTypes, people
    <2> QED
        BY <1>1, <2>1, <2>2 DEF Start
<1>2. ASSUME NEW m \in Machines, NEW name \in Names, ChooseName(m, name)
      PROVE  MachineTypes'
    <2>1. PICK k \in Keys \ phrases :
             /\ app' = [app EXCEPT ![m] = [pc |-> "city", key |-> k, addr |-> <<name, None>>]]
             /\ phrases' = phrases \cup {k}
        BY <1>2 DEF ChooseName
    <2>2. [pc |-> "city", key |-> k, addr |-> <<name, None>>] \in Apps
        BY DEF Apps, Screens
    <2> QED
        BY <1>2, <2>1, <2>2 DEF ChooseName, MachineTypes
<1>3. ASSUME NEW m \in Machines, NEW p \in Screens \ {"city"}, Show(m, p),
             UNCHANGED <<session, saving, phrases>>, disk' \in [Machines -> Disks],
             torn' \subseteq Machines, stuck' \subseteq Machines, hasty' \subseteq Machines
      PROVE  MachineTypes'
    <2>1. [app[m] EXCEPT !.pc = p] \in Apps /\ [app[m] EXCEPT !.pc = p].pc # "city"
        BY AppEdits DEF MachineTypes, Apps
    <2> QED
        BY <1>3, <2>1 DEF Show, MachineTypes
<1>4. ASSUME NEW m \in Machines, MovesOn(m)
      PROVE  torn' \subseteq Machines /\ stuck' \subseteq Machines /\ hasty' \subseteq Machines
    BY <1>4 DEF MovesOn, MachineTypes
<1>5. ASSUME NEW m \in Machines,
             \/ RecoverInstead(m) \/ LeaveRecovery(m) \/ OpenRename(m) \/ CloseRename(m)
             \/ SkipPin(m) \/ Unlock(m)
      PROVE  MachineTypes'
    BY <1>3, <1>4, <1>5 DEF RecoverInstead, LeaveRecovery, OpenRename, CloseRename, SkipPin, Unlock,
        MachineTypes, people, Screens, Shown
<1>6. ASSUME NEW m \in Machines, SetPin(m)
      PROVE  MachineTypes'
    <2>1. disk[m] \in Disks /\ disk[m].key \in Keys \cup {None}
        BY DEF MachineTypes, Disks
    <2>2. [disk[m] EXCEPT !.pin = disk[m].key] \in Disks
        BY <2>1, DiskEdits
    <2>3. disk' \in [Machines -> Disks]
        BY <1>6, <2>2 DEF SetPin, MachineTypes
    <2> QED
        BY <1>3, <1>6, <2>3 DEF SetPin, MachineTypes, people, Screens, Shown
<1>7. ASSUME NEW m \in Machines, NEW k \in Keys, EnterPhrase(m, k)
      PROVE  MachineTypes'
    <2>1. PICK a : a = [app[m] EXCEPT !.key = k]
        OBVIOUS
    <2>2. app[m] \in Apps /\ app[m].pc = "recover"
        BY <1>7 DEF EnterPhrase, At, MachineTypes
    <2>3. a \in Apps /\ a.pc = "recover"
        BY <2>1, <2>2 DEF Apps
    <2>4. torn' \subseteq Machines /\ stuck' \subseteq Machines /\ hasty' \subseteq Machines
        BY <1>4, <1>7 DEF EnterPhrase
    <2>5. app' = [app EXCEPT ![m] = a]
        BY <1>7, <2>1 DEF EnterPhrase, MachineTypes
    <2> QED
        BY <1>7, <2>3, <2>4, <2>5 DEF EnterPhrase, MachineTypes
<1>8. ASSUME NEW m \in Machines, ChooseCity(m) \/ \E name \in Names : Rename(m, name)
      PROVE  MachineTypes'
    BY <1>8 DEF ChooseCity, Rename, MachineTypes, people
<1>9. ASSUME NEW m \in Machines, NEW r \in BagToSet(asks[m]),
             Register(m, r) \/ Recover(m, r) \/ CarryOutRename(m, r)
      PROVE  MachineTypes'
    <2>1. session' \in [Machines -> Keys \cup {None}]
        BY <1>9 DEF Register, Recover, CarryOutRename, Take, MachineTypes, AskTypes
    <2> QED
        BY <1>9, <2>1 DEF Register, Recover, CarryOutRename, MachineTypes, people
<1>10. ASSUME NEW m \in Machines, NEW r \in BagToSet(answers[m]), Registered(m, r) \/ Recovered(m, r)
      PROVE  MachineTypes'
    <2>1. r \in Replies /\ app[m].key \in Keys
        BY <1>10 DEF AnswerTypes, Registered, Recovered, Receive, Waiting, WaitsWithKey
    <2>2. \A n \in {"pinsetup", "home"} : [step |-> 1, key |-> app[m].key, addr |-> r.addr, next |-> n] \in Savings
        BY <2>1 DEF Savings, Replies
    <2>3. saving' \in [Machines -> Savings \cup {None}]
        BY <1>10, <2>2 DEF Registered, Recovered, MachineTypes
    <2> QED
        BY <1>10, <2>3 DEF Registered, Recovered, MachineTypes, people
<1>11. ASSUME NEW m \in Machines, NEW r \in BagToSet(answers[m]), Renamed(m, r)
      PROVE  MachineTypes'
    <2>1. r.addr \in Addresses
        BY <1>11 DEF AnswerTypes, Replies
    <2>2. CASE UNCHANGED <<app, disk>>
        BY <1>11, <2>2 DEF Renamed, MachineTypes, people
    <2>3. CASE /\ app' = [app EXCEPT ![m] = [@ EXCEPT !.pc = "home", !.addr = r.addr]]
               /\ disk' \in {disk, [disk EXCEPT ![m].identity = r.addr]}
        <3>1. PICK a : a = [app[m] EXCEPT !.pc = "home", !.addr = r.addr]
            OBVIOUS
        <3>2. a \in Apps /\ a.pc # "city"
            <4>1. app[m] \in Apps
                BY DEF MachineTypes
            <4>2. a \in Apps
                BY <2>1, <3>1, <4>1, AppEdits
            <4> QED
                BY <3>1, <4>1, <4>2 DEF Apps
        <3>3. app' = [app EXCEPT ![m] = a]
            BY <2>3, <3>1 DEF MachineTypes
        <3>4. [disk[m] EXCEPT !.identity = r.addr] \in Disks
            BY <2>1, DiskEdits DEF MachineTypes
        <3>5. disk' \in [Machines -> Disks]
            BY <2>3, <3>4 DEF MachineTypes
        <3> QED
            BY <1>11, <3>2, <3>3, <3>5 DEF Renamed, MachineTypes, people
    <2> QED
        BY <1>11, <2>2, <2>3 DEF Renamed
<1>12. ASSUME NEW m \in Machines, Save(m)
      PROVE  MachineTypes'
    <2> DEFINE s == saving[m]
    <2>1. s \in Savings /\ s # None /\ UNCHANGED <<session, phrases, hasty>>
        BY <1>12, SaveWrites
    <2>2. \A i \in 1 .. 3 : [s EXCEPT !.step = i] \in Savings
        BY <2>1 DEF Savings
    <2>3. CASE ClearsPin(m)
        <3>1. disk' \in [Machines -> Disks] /\ stuck' \subseteq Machines
            BY <2>3, PinRemoved DEF ClearsPin
        <3>2. app' = app /\ torn' = torn /\ saving' \in [Machines -> Savings \cup {None}]
            BY <2>1, <2>2, <2>3 DEF ClearsPin, MachineTypes
        <3> QED
            BY <2>1, <3>1, <3>2 DEF MachineTypes
    <2>4. CASE WritesKey(m)
        <3>1. [disk[m] EXCEPT !.key = s.key] \in Disks
            BY <2>1, DiskEdits DEF MachineTypes, Savings
        <3> QED
            BY <2>1, <2>2, <2>4, <3>1 DEF WritesKey, MachineTypes
    <2>5. CASE WritesIdentity(m)
        <3>1. [disk[m] EXCEPT !.identity = s.addr] \in Disks
            BY <2>1, DiskEdits DEF MachineTypes, Savings
        <3>2. PICK a : a = [pc |-> s.next, key |-> s.key, addr |-> s.addr]
            OBVIOUS
        <3>3. a \in Apps /\ a.pc # "city"
            BY <2>1, <3>2 DEF Savings, Apps, Screens, Shown
        <3> QED
            BY <2>1, <2>5, <3>1, <3>2, <3>3 DEF WritesIdentity, MachineTypes
    <2> QED
        BY <1>12, <2>3, <2>4, <2>5, SaveWrites
<1>13. ASSUME NEW ms \in SUBSET Machines, Disconnected(ms), UNCHANGED <<app, saving, disk, people>>
      PROVE  MachineTypes'
    BY <1>13 DEF Disconnected, MachineTypes, people
<1>14. ASSUME NEW m \in Machines, Lose(m)
      PROVE  MachineTypes'
    <2>1. {m} \in SUBSET Machines
        OBVIOUS
    <2> QED
        BY <1>13, <1>14, <2>1 DEF Lose
<1>15. ASSUME NEW m \in Machines, Kill(m)
      PROVE  MachineTypes'
    <2>1. Off \in Apps /\ Off.pc # "city"
        BY AppEdits DEF Off
    <2>2. session' \in [Machines -> Keys \cup {None}]
        BY <1>15 DEF Kill, Disconnected, MachineTypes
    <2> QED
        BY <1>15, <2>1, <2>2 DEF Kill, MachineTypes
<1>16. ASSUME NEW m \in Machines, SignIn(m)
      PROVE  MachineTypes'
    BY <1>16 DEF SignIn, SignsInAs, MachineTypes, people
<1>17. ASSUME NEW k \in Keys, Account(k)
      PROVE  MachineTypes'
    <2>1. ASSUME Reap(k) \/ \E done \in BOOLEAN : Gift(k, done)
          PROVE  MachineTypes'
        BY <2>1 DEF Reap, Gift, MachineTypes, people
    <2>2. ASSUME NEW name \in Names, Elsewhere(k, name)
          PROVE  MachineTypes'
        BY <2>2 DEF Elsewhere, MachineTypes
    <2>3. ASSUME NEW sent \in BOOLEAN, Welcome(k, sent)
          PROVE  MachineTypes'
        <3>1. session' \in [Machines -> Keys \cup {None}]
            BY <2>3 DEF Welcome, MachineTypes
        <3> QED
            BY <2>3, <3>1 DEF Welcome, MachineTypes, people
    <2> QED
        BY <1>17, <2>1, <2>2, <2>3 DEF Account
<1>18. CASE RelayRestarts
    BY <1>13, <1>18 DEF RelayRestarts
<1> QED
    BY <1>1, <1>2, <1>5, <1>6, <1>7, <1>8, <1>9, <1>10, <1>11, <1>12, <1>14, <1>15, <1>16,
       <1>17, <1>18 DEF Next, Screen, Relay, Arrival, Fault

(* Every step keeps the requests well formed. *)
LEMMA AskStep ==
    ASSUME MachineTypes, AskTypes, AnswerTypes, Next
    PROVE  AskTypes'
<1>1. ASSUME DOMAIN asks' = Machines,
             \A n \in Machines : BagToSet(asks'[n]) \subseteq BagToSet(asks[n])
      PROVE  AskTypes'
    BY <1>1 DEF AskTypes
<1>2. ASSUME UNCHANGED asks
      PROVE  AskTypes'
    BY <1>1, <1>2 DEF AskTypes
<1>3. ASSUME NEW m \in Machines, NEW kind, NEW key, NEW name, Ask(m, kind, key, name),
             LET r == [kind |-> kind, key |-> key, name |-> name] IN
                r \in Requests /\ (kind # "rename" => key \in Keys) /\ (kind # "recover" => name \in Names)
      PROVE  AskTypes'
    <2>1. /\ DOMAIN asks' = Machines
          /\ \A n \in Machines \ {m} : asks'[n] = asks[n]
          /\ BagToSet(asks'[m]) =
                BagToSet(asks[m]) \cup {[kind |-> kind, key |-> key, name |-> name]}
        BY <1>3, AskAdds DEF AskTypes
    <2> QED
        BY <1>3, <2>1 DEF AskTypes
<1>4. ASSUME NEW m \in Machines, ChooseCity(m)
      PROVE  AskTypes'
    <2>1. app[m].key \in Keys /\ app[m].addr[1] \in Names
        BY <1>4 DEF ChooseCity, At, MachineTypes
    <2>2. [kind |-> "register", key |-> app[m].key, name |-> app[m].addr[1]] \in Requests
        BY <2>1 DEF Requests
    <2> QED
        BY <1>3, <1>4, <2>1, <2>2 DEF ChooseCity
<1>5. ASSUME NEW m \in Machines, NEW name \in Names, Rename(m, name)
      PROVE  AskTypes'
    <2>1. [kind |-> "rename", key |-> None, name |-> name] \in Requests
        BY DEF Requests
    <2> QED
        BY <1>3, <1>5, <2>1 DEF Rename
<1>6. ASSUME NEW m \in Machines, NEW k \in Keys, EnterPhrase(m, k)
      PROVE  AskTypes'
    <2>1. [kind |-> "recover", key |-> k, name |-> None] \in Requests
        BY DEF Requests
    <2> QED
        BY <1>3, <1>6, <2>1 DEF EnterPhrase
<1>7. ASSUME NEW m \in Machines,
             \/ Start(m) \/ RecoverInstead(m) \/ LeaveRecovery(m) \/ OpenRename(m)
             \/ CloseRename(m) \/ SetPin(m) \/ SkipPin(m) \/ Unlock(m) \/ Arrival(m) \/ SignIn(m)
             \/ \E name \in Names : ChooseName(m, name)
      PROVE  UNCHANGED asks
    BY <1>7 DEF Start, RecoverInstead, LeaveRecovery, OpenRename, CloseRename, SetPin, SkipPin,
        Unlock, SignIn, ChooseName, Arrival, Registered, Recovered, Renamed, Save
<1>8. ASSUME NEW m \in Machines, NEW r \in BagToSet(asks[m]),
             Register(m, r) \/ Recover(m, r) \/ CarryOutRename(m, r)
      PROVE  AskTypes'
    <2>1. \E kind : Take(m, r, kind)
        BY <1>8 DEF Register, Recover, CarryOutRename
    <2> QED
        BY <1>1, <2>1, TakeRemoves DEF AskTypes
<1>9. ASSUME NEW ms \in SUBSET Machines, Disconnected(ms)
      PROVE  AskTypes'
    BY <1>1, <1>9, DisconnectEmpties DEF AskTypes, AnswerTypes
<1>10. ASSUME NEW m \in Machines, Lose(m) \/ Kill(m)
      PROVE  AskTypes'
    <2>1. {m} \in SUBSET Machines
        OBVIOUS
    <2> QED
        BY <1>9, <1>10, <2>1 DEF Lose, Kill
<1>11. ASSUME NEW k \in Keys, Account(k)
      PROVE  UNCHANGED asks
    BY <1>11 DEF Account, Reap, Elsewhere, Gift, Welcome
<1>12. CASE RelayRestarts
    BY <1>9, <1>12 DEF RelayRestarts
<1> QED
    BY <1>2, <1>4, <1>5, <1>6, <1>7, <1>8, <1>10, <1>11, <1>12 DEF Next, Screen, Relay, Fault

(* Every step keeps the answers well formed, with addresses their accounts  *)
(* had.                                                                     *)
LEMMA AnswerStep ==
    ASSUME RelayTypes, MachineTypes, AskTypes, AnswerTypes, Next
    PROVE  AnswerTypes'
<1>1. RelayTypes' /\ \A j \in Keys : held[j] \subseteq held'[j]
    BY RelayStep DEF MachineTypes
<1>2. ASSUME DOMAIN answers' = Machines,
             \A n \in Machines : BagToSet(answers'[n]) \subseteq BagToSet(answers[n])
      PROVE  AnswerTypes'
    BY <1>1, <1>2 DEF AnswerTypes, Replies
<1>3. ASSUME UNCHANGED answers
      PROVE  AnswerTypes'
    BY <1>2, <1>3 DEF AnswerTypes
<1>4. ASSUME NEW m \in Machines, NEW kind \in {"registered", "recovered", "renamed"},
             NEW key \in Keys, NEW addr \in held'[key], Answer(m, kind, key, addr)
      PROVE  AnswerTypes'
    <2>1. /\ DOMAIN answers' = Machines
          /\ \A n \in Machines \ {m} : answers'[n] = answers[n]
          /\ BagToSet(answers'[m]) =
                BagToSet(answers[m]) \cup {[kind |-> kind, key |-> key, addr |-> addr]}
        BY <1>4, AnswerAdds DEF AnswerTypes
    <2>2. [kind |-> kind, key |-> key, addr |-> addr] \in Replies
        BY <1>1 DEF Replies, RelayTypes
    <2>3. ASSUME NEW n \in Machines, NEW r \in BagToSet(answers[n])
          PROVE  r \in Replies /\ r.addr \in held'[r.key]
        BY <1>1 DEF AnswerTypes, Replies
    <2> QED
        BY <2>1, <2>2, <2>3 DEF AnswerTypes
<1>5. ASSUME NEW m \in Machines,
             Screen(m) \/ Save(m) \/ SignIn(m) \/ \E r \in BagToSet(asks[m]) : Register(m, r)
      PROVE  UNCHANGED answers
    BY <1>5 DEF Screen, Start, ChooseName, ChooseCity, RecoverInstead, EnterPhrase,
        LeaveRecovery, OpenRename, Rename, CloseRename, SetPin, SkipPin, Unlock,
        Save, SignIn, Register
<1>6. ASSUME NEW m \in Machines, NEW r \in BagToSet(asks[m]), Recover(m, r)
      PROVE  AnswerTypes'
    <2>1. r.key \in Keys /\ held' = held
        BY <1>6 DEF Recover, Take, AskTypes, relay
    <2>2. CASE users[r.key] = None
        BY <1>3, <1>6, <2>2 DEF Recover
    <2>3. CASE users[r.key] # None
        <3>1. AddressOf(users[r.key]) \in held'[r.key]
            BY <2>1, <2>3 DEF RelayTypes
        <3>2. Answer(m, "recovered", r.key, AddressOf(users[r.key]))
            BY <1>6, <2>3 DEF Recover
        <3> QED
            BY <1>4, <2>1, <3>1, <3>2
    <2> QED
        BY <2>2, <2>3
<1>7. ASSUME NEW m \in Machines, NEW r \in BagToSet(asks[m]), CarryOutRename(m, r)
      PROVE  AnswerTypes'
    <2>1. session[m] \in Keys \cup {None} /\ r.name \in Names /\ jobs' = jobs
        BY <1>7 DEF MachineTypes, AskTypes, CarryOutRename, Take
    <2>2. CASE Drawn(session[m], r.name) = {}
        BY <1>3, <1>7, <2>2 DEF CarryOutRename
    <2>3. CASE Drawn(session[m], r.name) # {}
        <3>1. PICK d \in Drawn(session[m], r.name) :
                /\ users' = [users EXCEPT ![session[m]].name = r.name, ![session[m]].disc = d]
                /\ Holds(session[m], <<r.name, d>>)
                /\ Answer(m, "renamed", session[m], <<r.name, d>>)
            BY <1>7, <2>3 DEF CarryOutRename
        <3>2. session[m] \in Keys /\ <<r.name, d>> \in held'[session[m]]
            BY <2>1, <3>1, RenameAccount
        <3> QED
            BY <1>4, <3>1, <3>2
    <2> QED
        BY <2>2, <2>3
<1>8. ASSUME NEW m \in Machines, NEW r \in BagToSet(answers[m]),
             Registered(m, r) \/ Recovered(m, r) \/ Renamed(m, r)
      PROVE  AnswerTypes'
    <2>1. \E kind : Receive(m, r, kind)
        BY <1>8 DEF Registered, Recovered, Renamed
    <2> QED
        BY <1>2, <2>1, ReceiveRemoves DEF AnswerTypes
<1>9. ASSUME NEW ms \in SUBSET Machines, Disconnected(ms)
      PROVE  AnswerTypes'
    BY <1>2, <1>9, DisconnectEmpties DEF AskTypes, AnswerTypes
<1>10. ASSUME NEW m \in Machines, Lose(m) \/ Kill(m)
      PROVE  AnswerTypes'
    <2>1. {m} \in SUBSET Machines
        OBVIOUS
    <2> QED
        BY <1>9, <1>10, <2>1 DEF Lose, Kill
<1>11. ASSUME NEW k \in Keys, NEW sent \in BOOLEAN, Welcome(k, sent)
      PROVE  AnswerTypes'
    <2>1. jobs[k] \in Jobs /\ held' = held /\ AddressOf(users[k]) \in held[k]
        BY <1>11 DEF Welcome, RelayTypes
    <2>2. CASE jobs[k].to = None
        BY <1>3, <1>11, <2>2 DEF Welcome
    <2>3. CASE jobs[k].to # None
        <3>1. jobs[k].to \in Machines
            BY <2>1, <2>3 DEF Jobs
        <3>2. Answer(jobs[k].to, "registered", k, AddressOf(users[k]))
            BY <1>11, <2>3 DEF Welcome
        <3> QED
            BY <1>4, <2>1, <3>1, <3>2
    <2> QED
        BY <2>2, <2>3
<1>12. ASSUME NEW k \in Keys,
              \/ Reap(k) \/ \E name \in Names : Elsewhere(k, name)
              \/ \E done \in BOOLEAN : Gift(k, done)
      PROVE  UNCHANGED answers
    BY <1>12 DEF Reap, Elsewhere, Gift
<1>13. CASE RelayRestarts
    BY <1>9, <1>13 DEF RelayRestarts
<1> QED
    BY <1>3, <1>5, <1>6, <1>7, <1>8, <1>9, <1>10, <1>11, <1>12, <1>13
       DEF Next, Relay, Arrival, Fault, Account

(* Nothing new is under way for machine n. *)
NothingNew(n) ==
    /\ BagToSet(asks'[n]) \subseteq BagToSet(asks[n])
    /\ BagToSet(answers'[n]) \subseteq BagToSet(answers[n])
    /\ \A k \in Keys : jobs'[k] # None /\ jobs'[k].to = n => jobs[k] # None /\ jobs[k].to = n

(* A connection lost leaves nothing under way for its machine. *)
LEMMA LostConnection ==
    ASSUME RelayTypes, AskTypes, AnswerTypes, NEW m \in Machines,
           Disconnected({m}), jobs' = Orphaned(m)
    PROVE  /\ \A n \in Machines : NothingNew(n)
           /\ BagToSet(asks'[m]) = {} /\ BagToSet(answers'[m]) = {}
           /\ \A k \in Keys : jobs'[k] # None => jobs'[k].to # m
<1>1. {m} \in SUBSET Machines
    OBVIOUS
<1>2. /\ \A n \in Machines : /\ BagToSet(asks'[n]) \subseteq BagToSet(asks[n])
                             /\ BagToSet(answers'[n]) \subseteq BagToSet(answers[n])
      /\ BagToSet(asks'[m]) = {} /\ BagToSet(answers'[m]) = {}
    BY <1>1, DisconnectEmpties DEF AskTypes, AnswerTypes
<1>3. ASSUME NEW k \in Keys, jobs'[k] # None
      PROVE  jobs'[k].to # m /\ jobs[k] # None
             /\ \A n \in Machines : jobs'[k].to = n => jobs[k].to = n
    <2>1. jobs'[k] = IF jobs[k] # None /\ jobs[k].to = m THEN [jobs[k] EXCEPT !.to = None] ELSE jobs[k]
        BY DEF Orphaned
    <2>2. jobs[k] # None /\ jobs[k] \in Jobs
        BY <1>3, <2>1 DEF RelayTypes
    <2>3. CASE jobs[k].to = m
        <3>1. jobs'[k].to = None
            BY <2>1, <2>2, <2>3 DEF Jobs
        <3> QED
            BY <2>2, <3>1, AccountAssumption
    <2>4. CASE jobs[k].to # m
        BY <2>1, <2>2, <2>4
    <2> QED
        BY <2>3, <2>4
<1> QED
    BY <1>2, <1>3 DEF NothingNew

(* A restart of the relay leaves nothing under way. *)
LEMMA RelayRestarted ==
    ASSUME RelayTypes, AskTypes, AnswerTypes, RelayRestarts
    PROVE  \A n \in Machines :
                /\ NothingNew(n)
                /\ BagToSet(asks'[n]) = {} /\ BagToSet(answers'[n]) = {}
                /\ \A k \in Keys : jobs'[k] = None
BY DisconnectEmpties DEF RelayRestarts, NothingNew, AskTypes, AnswerTypes

(* Whom a step of the relay makes work for. *)
LEMMA RelayMakes ==
    ASSUME RelayTypes, MachineTypes, AskTypes, AnswerTypes,
           NEW m \in Machines, NEW r \in BagToSet(asks[m]),
           Register(m, r) \/ Recover(m, r) \/ CarryOutRename(m, r)
    PROVE  /\ \A n \in Machines \ {m} : NothingNew(n)
           /\ BagToSet(asks'[m]) \subseteq BagToSet(asks[m])
           /\ \/ r.kind = "register" /\ BagToSet(answers'[m]) = BagToSet(answers[m])
              \/ /\ jobs' = jobs
                 /\ \A a \in BagToSet(answers'[m]) \ BagToSet(answers[m]) :
                      \/ r.kind = "recover" /\ a.kind = "recovered" /\ a.key = r.key
                         /\ session'[m] = r.key
                      \/ r.kind = "rename" /\ a.kind = "renamed" /\ a.key = session[m]
           /\ \A k \in Keys : jobs'[k] # None /\ jobs'[k].to = m =>
                \/ r.kind = "register" /\ k = r.key
                \/ jobs[k] # None /\ jobs[k].to = m
<1>1. PICK kind : Take(m, r, kind) /\ r.kind = kind
    BY DEF Register, Recover, CarryOutRename, Take
<1>2. \A n \in Machines : BagToSet(asks'[n]) \subseteq BagToSet(asks[n])
    BY <1>1, TakeRemoves DEF AskTypes
<1>3. CASE Register(m, r)
    <2>1. r.kind = "register" /\ r.key \in Keys /\ answers' = answers
        BY <1>3 DEF Register, Take, AskTypes
    <2>2. jobs' = jobs \/ jobs' = [jobs EXCEPT ![r.key] = [to |-> m, left |-> Gifts]]
        BY <1>3 DEF Register
    <2>3. \A k \in Keys : jobs'[k] = jobs[k] \/ (k = r.key /\ jobs'[k].to = m)
        BY <2>1, <2>2 DEF RelayTypes
    <2> QED
        BY <1>2, <2>1, <2>3 DEF NothingNew
<1>4. CASE Recover(m, r)
    <2>1. r.kind = "recover" /\ r.key \in Keys /\ jobs' = jobs
        BY <1>4 DEF Recover, Take, AskTypes, relay
    <2>2. CASE UNCHANGED <<session, answers>>
        BY <1>2, <2>1, <2>2 DEF NothingNew
    <2>3. CASE /\ session' = [session EXCEPT ![m] = r.key]
               /\ Answer(m, "recovered", r.key, AddressOf(users[r.key]))
        <3>1. /\ \A n \in Machines \ {m} : answers'[n] = answers[n]
              /\ BagToSet(answers'[m]) = BagToSet(answers[m]) \cup
                    {[kind |-> "recovered", key |-> r.key, addr |-> AddressOf(users[r.key])]}
            BY <2>3, AnswerAdds DEF AnswerTypes
        <3>2. session'[m] = r.key
            BY <2>3 DEF MachineTypes
        <3> QED
            BY <1>2, <2>1, <3>1, <3>2 DEF NothingNew
    <2> QED
        BY <1>4, <2>2, <2>3 DEF Recover
<1>5. CASE CarryOutRename(m, r)
    <2>1. r.kind = "rename" /\ jobs' = jobs
        BY <1>5 DEF CarryOutRename, Take
    <2>2. CASE UNCHANGED answers
        BY <1>2, <2>1, <2>2 DEF NothingNew
    <2>3. CASE \E d \in Drawn(session[m], r.name) : Answer(m, "renamed", session[m], <<r.name, d>>)
        <3>1. PICK d \in Drawn(session[m], r.name) : Answer(m, "renamed", session[m], <<r.name, d>>)
            BY <2>3
        <3>2. /\ \A n \in Machines \ {m} : answers'[n] = answers[n]
              /\ BagToSet(answers'[m]) = BagToSet(answers[m]) \cup
                    {[kind |-> "renamed", key |-> session[m], addr |-> <<r.name, d>>]}
            BY <3>1, AnswerAdds DEF AnswerTypes
        <3> QED
            BY <1>2, <2>1, <3>2 DEF NothingNew
    <2> QED
        BY <1>5, <2>2, <2>3 DEF CarryOutRename
<1> QED
    BY <1>3, <1>4, <1>5

(* Whom a finished registration answers and signs in. *)
LEMMA WelcomeMakes ==
    ASSUME RelayTypes, MachineTypes, AnswerTypes, NEW k \in Keys, NEW sent \in BOOLEAN, Welcome(k, sent)
    PROVE  /\ jobs[k] # None
           /\ asks' = asks /\ \A j \in Keys : jobs'[j] # None => jobs'[j] = jobs[j]
           /\ \A n \in Machines : n # jobs[k].to => answers'[n] = answers[n] /\ session'[n] = session[n]
           /\ \A n \in Machines : n = jobs[k].to =>
                /\ session'[n] = k
                /\ \A a \in BagToSet(answers'[n]) \ BagToSet(answers[n]) :
                        a.kind = "registered" /\ a.key = k
<1>1. jobs[k] # None /\ jobs[k] \in Jobs /\ asks' = asks
    BY DEF Welcome, RelayTypes
<1>2. \A j \in Keys : jobs'[j] # None => jobs'[j] = jobs[j]
    BY DEF Welcome, RelayTypes
<1>3. CASE jobs[k].to = None
    BY <1>1, <1>2, <1>3, AccountAssumption DEF Welcome
<1>4. CASE jobs[k].to # None
    <2>1. /\ jobs[k].to \in Machines /\ session' = [session EXCEPT ![jobs[k].to] = k]
          /\ Answer(jobs[k].to, "registered", k, AddressOf(users[k]))
        BY <1>1, <1>4 DEF Welcome, Jobs
    <2>2. /\ \A n \in Machines \ {jobs[k].to} : answers'[n] = answers[n]
          /\ BagToSet(answers'[jobs[k].to]) = BagToSet(answers[jobs[k].to]) \cup
                {[kind |-> "registered", key |-> k, addr |-> AddressOf(users[k])]}
        BY <2>1, AnswerAdds DEF AnswerTypes
    <2> QED
        BY <1>1, <1>2, <2>1, <2>2 DEF MachineTypes
<1> QED
    BY <1>3, <1>4

(* What a step of the user's makes. *)
LEMMA ScreenMakes ==
    ASSUME AskTypes, NEW m \in Machines, Screen(m)
    PROVE  /\ answers' = answers /\ jobs' = jobs /\ saving' = saving /\ saving[m] = None
           /\ \A n \in Machines \ {m} : asks'[n] = asks[n]
           /\ \A a \in BagToSet(asks'[m]) \ BagToSet(asks[m]) :
                \/ a.kind = "register" /\ a.key = app[m].key /\ app[m].pc = "city" /\ app' = app
                \/ a.kind = "recover" /\ a.key \in Keys /\ app[m].pc = "recover"
                   /\ app' = [app EXCEPT ![m].key = a.key] /\ MovesOn(m)
                \/ a.kind = "rename" /\ app[m].pc = "rename" /\ app' = app
<1>1. ASSUME \/ Start(m) \/ RecoverInstead(m) \/ LeaveRecovery(m) \/ OpenRename(m) \/ CloseRename(m)
             \/ SetPin(m) \/ SkipPin(m) \/ Unlock(m) \/ \E name \in Names : ChooseName(m, name)
      PROVE  UNCHANGED <<answers, jobs, saving, asks>> /\ saving[m] = None
    BY <1>1 DEF Start, RecoverInstead, LeaveRecovery, OpenRename, CloseRename, SetPin, SkipPin,
        Unlock, ChooseName, At, relay
<1>2. CASE ChooseCity(m)
    <2>1. /\ Ask(m, "register", app[m].key, app[m].addr[1])
          /\ UNCHANGED <<answers, jobs, saving, app>> /\ saving[m] = None /\ app[m].pc = "city"
        BY <1>2 DEF ChooseCity, At, relay
    <2>2. /\ \A n \in Machines \ {m} : asks'[n] = asks[n]
          /\ BagToSet(asks'[m]) = BagToSet(asks[m]) \cup
                {[kind |-> "register", key |-> app[m].key, name |-> app[m].addr[1]]}
        BY <2>1, AskAdds DEF AskTypes
    <2> QED
        BY <2>1, <2>2
<1>3. ASSUME NEW name \in Names, Rename(m, name)
      PROVE  /\ UNCHANGED <<answers, jobs, saving, app>> /\ saving[m] = None /\ app[m].pc = "rename"
             /\ \A n \in Machines \ {m} : asks'[n] = asks[n]
             /\ BagToSet(asks'[m]) = BagToSet(asks[m]) \cup
                    {[kind |-> "rename", key |-> None, name |-> name]}
    <2>1. /\ Ask(m, "rename", None, name)
          /\ UNCHANGED <<answers, jobs, saving, app>> /\ saving[m] = None /\ app[m].pc = "rename"
        BY <1>3 DEF Rename, At, relay
    <2> QED
        BY <2>1, AskAdds DEF AskTypes
<1>4. ASSUME NEW k \in Keys, EnterPhrase(m, k)
      PROVE  /\ UNCHANGED <<answers, jobs, saving>> /\ saving[m] = None /\ app[m].pc = "recover"
             /\ app' = [app EXCEPT ![m].key = k] /\ MovesOn(m)
             /\ \A n \in Machines \ {m} : asks'[n] = asks[n]
             /\ BagToSet(asks'[m]) = BagToSet(asks[m]) \cup
                    {[kind |-> "recover", key |-> k, name |-> None]}
    <2>1. /\ Ask(m, "recover", k, None)
          /\ UNCHANGED <<answers, jobs, saving>> /\ saving[m] = None /\ app[m].pc = "recover"
          /\ app' = [app EXCEPT ![m].key = k] /\ MovesOn(m)
        BY <1>4 DEF EnterPhrase, At, relay
    <2> QED
        BY <2>1, AskAdds DEF AskTypes
<1>5. CASE \E name \in Names : Rename(m, name)
    BY <1>3, <1>5
<1>6. CASE \E k \in Keys : EnterPhrase(m, k)
    <2>1. PICK k \in Keys : EnterPhrase(m, k)
        BY <1>6
    <2>2. \A a \in BagToSet(asks'[m]) \ BagToSet(asks[m]) : a.kind = "recover" /\ a.key = k
        BY <1>4, <2>1
    <2> QED
        BY <1>4, <2>1, <2>2
<1> QED
    BY <1>1, <1>2, <1>5, <1>6 DEF Screen

(* How a step of the user's changes the screen and the key. *)
LEMMA ScreenShows ==
    ASSUME MachineTypes, NEW m \in Machines, Screen(m)
    PROVE  /\ \A n \in Machines \ {m} : app'[n] = app[n]
           /\ app'[m].pc # "off"
           /\ app[m].pc # "off" => app'[m].key = app[m].key \/ app'[m].key \in Keys
<1>1. CASE Start(m)
    BY <1>1 DEF Start, At, MachineTypes, Off
<1>2. ASSUME NEW name \in Names, ChooseName(m, name)
      PROVE  app'[m].pc = "city" /\ app'[m].key \in Keys /\ \A n \in Machines \ {m} : app'[n] = app[n]
    BY <1>2 DEF ChooseName, MachineTypes
<1>3. ASSUME NEW p \in Screens \ {"off"}, Show(m, p)
      PROVE  app'[m].pc # "off" /\ app'[m].key = app[m].key /\ \A n \in Machines \ {m} : app'[n] = app[n]
    BY <1>3 DEF Show, MachineTypes, Apps
<1>4. CASE \/ RecoverInstead(m) \/ LeaveRecovery(m) \/ OpenRename(m) \/ CloseRename(m)
           \/ SetPin(m) \/ SkipPin(m) \/ Unlock(m)
    BY <1>3, <1>4 DEF RecoverInstead, LeaveRecovery, OpenRename, CloseRename, SetPin, SkipPin,
        Unlock, Screens, Shown
<1>5. CASE ChooseCity(m) \/ \E name \in Names : Rename(m, name)
    BY <1>5 DEF ChooseCity, Rename, At
<1>6. ASSUME NEW k \in Keys, EnterPhrase(m, k)
      PROVE  app'[m].pc = "recover" /\ app'[m].key = k /\ \A n \in Machines \ {m} : app'[n] = app[n]
    <2>1. app[m] \in Apps /\ app[m].pc = "recover" /\ app' = [app EXCEPT ![m].key = k]
        BY <1>6 DEF EnterPhrase, At, MachineTypes
    <2> QED
        BY <2>1 DEF MachineTypes, Apps
<1> QED
    BY <1>1, <1>2, <1>4, <1>5, <1>6 DEF Screen

(* How an arrival and a write change the screen and the key. *)
LEMMA ArrivalShows ==
    ASSUME MachineTypes, AnswerTypes, NEW m \in Machines, Arrival(m)
    PROVE  /\ asks' = asks /\ jobs' = jobs /\ session' = session
           /\ \A n \in Machines : BagToSet(answers'[n]) \subseteq BagToSet(answers[n])
           /\ \A n \in Machines \ {m} : app'[n] = app[n]
           /\ \/ app'[m].pc = app[m].pc /\ app'[m].key = app[m].key
              \/ app[m].pc = "rename" /\ app'[m].pc = "home" /\ app'[m].key = app[m].key
              \/ saving[m] # None /\ app'[m].pc \in {"pinsetup", "home"} /\ app'[m].key = saving[m].key
                 /\ saving[m].key \in Keys
<1>1. ASSUME NEW r, NEW kind, Receive(m, r, kind)
      PROVE  \A n \in Machines : BagToSet(answers'[n]) \subseteq BagToSet(answers[n])
    BY <1>1, ReceiveRemoves DEF AnswerTypes
<1>2. ASSUME NEW r \in BagToSet(answers[m]), Registered(m, r) \/ Recovered(m, r)
      PROVE  UNCHANGED <<asks, jobs, session, app>>
             /\ \A n \in Machines : BagToSet(answers'[n]) \subseteq BagToSet(answers[n])
    BY <1>1, <1>2 DEF Registered, Recovered, relay
<1>3. ASSUME NEW r \in BagToSet(answers[m]), Renamed(m, r)
      PROVE  /\ UNCHANGED <<asks, jobs, session>>
             /\ \A n \in Machines : BagToSet(answers'[n]) \subseteq BagToSet(answers[n])
             /\ \A n \in Machines \ {m} : app'[n] = app[n]
             /\ app'[m].key = app[m].key
             /\ app'[m].pc = app[m].pc \/ (app[m].pc = "rename" /\ app'[m].pc = "home")
    <2>1. /\ UNCHANGED <<asks, jobs, session>>
          /\ \A n \in Machines : BagToSet(answers'[n]) \subseteq BagToSet(answers[n])
        BY <1>1, <1>3 DEF Renamed, relay
    <2>2. CASE UNCHANGED app
        BY <2>1, <2>2
    <2>3. CASE /\ app[m].pc = "rename"
               /\ app' = [app EXCEPT ![m] = [@ EXCEPT !.pc = "home", !.addr = r.addr]]
        <3>1. app[m] \in Apps
            BY DEF MachineTypes
        <3> QED
            BY <2>1, <2>3, <3>1 DEF MachineTypes, Apps
    <2> QED
        BY <1>3, <2>2, <2>3 DEF Renamed
<1>4. CASE Save(m)
    <2>1. /\ saving[m] \in Savings /\ saving[m] # None
          /\ ClearsPin(m) \/ WritesKey(m) \/ WritesIdentity(m)
          /\ UNCHANGED <<relay, session, asks, answers>>
        BY <1>4, SaveWrites
    <2>2. CASE ClearsPin(m) \/ WritesKey(m)
        BY <2>1, <2>2 DEF ClearsPin, WritesKey, relay
    <2>3. CASE WritesIdentity(m)
        BY <2>1, <2>3 DEF WritesIdentity, relay, MachineTypes, Savings
    <2> QED
        BY <2>1, <2>2, <2>3
<1> QED
    BY <1>2, <1>3, <1>4 DEF Arrival

(* The reaper, the other machines and the gifts concern no machine. *)
LEMMA AccountMakes ==
    ASSUME RelayTypes, NEW k \in Keys,
           \/ Reap(k) \/ \E name \in Names : Elsewhere(k, name)
           \/ \E done \in BOOLEAN : Gift(k, done)
    PROVE  /\ UNCHANGED <<session, asks, answers, app, saving, disk, torn, hasty>>
           /\ phrases \subseteq phrases'
           /\ \A j \in Keys : jobs'[j] # None => jobs[j] # None /\ jobs'[j].to = jobs[j].to
<1>1. /\ UNCHANGED <<session, asks, answers, app, saving, disk, torn, hasty>>
      /\ phrases \subseteq phrases'
    BY DEF Reap, Elsewhere, Gift, people
<1>2. CASE Reap(k) \/ \E name \in Names : Elsewhere(k, name)
    BY <1>1, <1>2 DEF Reap, Elsewhere
<1>3. ASSUME NEW done \in BOOLEAN, Gift(k, done)
      PROVE  \A j \in Keys : jobs'[j] # None => jobs[j] # None /\ jobs'[j].to = jobs[j].to
    <2>1. jobs[k] \in Jobs /\ jobs[k] # None /\ jobs' = [jobs EXCEPT ![k].left = @ - 1]
        BY <1>3 DEF Gift, RelayTypes
    <2>2. jobs'[k].to = jobs[k].to
        BY <2>1 DEF RelayTypes, Jobs
    <2> QED
        BY <2>1, <2>2 DEF RelayTypes
<1> QED
    BY <1>1, <1>2, <1>3

(* Every step keeps Waiting. *)
LEMMA WaitingStep ==
    ASSUME RelayTypes, MachineTypes, AskTypes, AnswerTypes, Waiting, Next
    PROVE  Waiting'
<1> DEFINE MayWait(n) ==
        /\ app[n].pc = "off" =>
              BagToSet(asks[n]) = {} /\ BagToSet(answers[n]) = {} /\ ~Working(n)
        /\ WaitsWithKey(n) => app[n].key \in Keys
<1>1. \A n \in Machines : MayWait(n)
    BY DEF Waiting
<1>2. ASSUME NEW n \in Machines, NothingNew(n), app'[n].pc = app[n].pc, app'[n].key = app[n].key
      PROVE  MayWait(n)'
    BY <1>1, <1>2 DEF NothingNew, WaitsWithKey, Working
<1>3. ASSUME NEW n \in Machines, BagToSet(asks'[n]) = {}, BagToSet(answers'[n]) = {},
             \A k \in Keys : jobs'[k] # None => jobs'[k].to # n
      PROVE  MayWait(n)'
    BY <1>3 DEF WaitsWithKey, Working
<1>4. ASSUME NEW m \in Machines, Screen(m)
      PROVE  Waiting'
    <2>1. \A n \in Machines \ {m} : MayWait(n)'
        BY <1>2, <1>4, ScreenMakes, ScreenShows DEF NothingNew
    <2>2. CASE app[m].pc = "off"
        <3>1. BagToSet(asks'[m]) = {} /\ BagToSet(answers'[m]) = {}
            BY <1>1, <1>4, <2>2, ScreenMakes
        <3>2. \A k \in Keys : jobs'[k] # None => jobs'[k].to # m
            BY <1>1, <1>4, <2>2, ScreenMakes DEF Working
        <3> QED
            BY <1>3, <2>1, <3>1, <3>2 DEF Waiting
    <2>3. CASE app[m].pc # "off"
        <3>1. app'[m].pc # "off" /\ (app'[m].key = app[m].key \/ app'[m].key \in Keys)
            BY <1>4, <2>3, ScreenShows
        <3>2. ASSUME NEW a \in BagToSet(asks'[m]), a.kind # "rename"
              PROVE  app'[m].key \in Keys
            <4>1. CASE a \in BagToSet(asks[m])
                BY <1>1, <3>1, <3>2, <4>1 DEF WaitsWithKey
            <4>2. CASE a \notin BagToSet(asks[m]) /\ app[m].pc = "city"
                BY <3>1, <4>2 DEF MachineTypes
            <4>3. CASE a \notin BagToSet(asks[m]) /\ a.key \in Keys /\ app' = [app EXCEPT ![m].key = a.key]
                <5>1. app[m] \in Apps
                    BY DEF MachineTypes
                <5> QED
                    BY <4>3, <5>1 DEF MachineTypes, Apps
            <4> QED
                BY <1>4, <3>2, <4>1, <4>2, <4>3, ScreenMakes
        <3>3. WaitsWithKey(m)' => app'[m].key \in Keys
            BY <1>1, <1>4, <3>1, <3>2, ScreenMakes DEF WaitsWithKey, Working
        <3> QED
            BY <2>1, <3>1, <3>3 DEF Waiting
    <2> QED
        BY <2>2, <2>3
<1>5. ASSUME NEW m \in Machines, NEW r \in BagToSet(asks[m]),
             Register(m, r) \/ Recover(m, r) \/ CarryOutRename(m, r)
      PROVE  Waiting'
    <2>1. app' = app
        BY <1>5 DEF Register, Recover, CarryOutRename
    <2>2. \A n \in Machines \ {m} : MayWait(n)'
        BY <1>2, <1>5, <2>1, RelayMakes
    <2>3. app[m].pc # "off" /\ (r.kind # "rename" => app[m].key \in Keys)
        BY <1>1 DEF WaitsWithKey
    <2>4. ASSUME WaitsWithKey(m)'
          PROVE  app[m].key \in Keys
        <3>1. CASE \E a \in BagToSet(asks'[m]) : a.kind # "rename"
            BY <1>1, <1>5, <3>1, RelayMakes DEF WaitsWithKey
        <3>2. CASE \E a \in BagToSet(answers'[m]) : a.kind # "renamed"
            <4>1. PICK a \in BagToSet(answers'[m]) : a.kind # "renamed"
                BY <3>2
            <4>2. CASE a \in BagToSet(answers[m])
                BY <1>1, <4>1, <4>2 DEF WaitsWithKey
            <4>3. CASE a \notin BagToSet(answers[m])
                <5>1. r.kind # "rename"
                    BY <1>5, <4>1, <4>3, RelayMakes
                <5> QED
                    BY <2>3, <5>1
            <4> QED
                BY <4>2, <4>3
        <3>3. CASE Working(m)'
            <4>1. r.kind = "register" \/ Working(m)
                BY <1>5, <3>3, RelayMakes DEF Working
            <4> QED
                BY <1>1, <2>3, <4>1 DEF WaitsWithKey
        <3> QED
            BY <2>4, <3>1, <3>2, <3>3 DEF WaitsWithKey
    <2> QED
        BY <2>1, <2>2, <2>3, <2>4 DEF Waiting
<1>6. ASSUME NEW m \in Machines, Arrival(m)
      PROVE  Waiting'
    <2>1. \A n \in Machines : NothingNew(n)
        BY <1>6, ArrivalShows DEF NothingNew
    <2>2. \A n \in Machines \ {m} : MayWait(n)'
        BY <1>2, <1>6, <2>1, ArrivalShows
    <2>3. CASE app'[m].pc = app[m].pc /\ app'[m].key = app[m].key
        BY <1>2, <2>1, <2>2, <2>3 DEF Waiting
    <2>4. CASE app'[m].pc \in {"home", "pinsetup"} /\ (app'[m].key = app[m].key \/ app'[m].key \in Keys)
        <3>1. WaitsWithKey(m)' => WaitsWithKey(m)
            BY <2>1 DEF NothingNew, WaitsWithKey, Working
        <3> QED
            BY <1>1, <2>2, <2>4, <3>1 DEF Waiting
    <2> QED
        BY <1>6, <2>3, <2>4, ArrivalShows
<1>7. ASSUME NEW m \in Machines, Lose(m)
      PROVE  Waiting'
    BY <1>2, <1>7, LostConnection DEF Lose, Waiting
<1>8. ASSUME NEW m \in Machines, Kill(m)
      PROVE  Waiting'
    <2>1. \A n \in Machines \ {m} : app'[n] = app[n]
        BY <1>8 DEF Kill, MachineTypes
    <2> QED
        BY <1>2, <1>3, <1>8, <2>1, LostConnection DEF Kill, Waiting
<1>9. ASSUME NEW m \in Machines, SignIn(m)
      PROVE  Waiting'
    BY <1>9 DEF SignIn, relay, Waiting, WaitsWithKey, Working
<1>10. ASSUME NEW k \in Keys, Reap(k) \/ (\E name \in Names : Elsewhere(k, name))
                              \/ \E done \in BOOLEAN : Gift(k, done)
       PROVE  Waiting'
    BY <1>2, <1>10, AccountMakes DEF NothingNew, Waiting
<1>11. ASSUME NEW k \in Keys, NEW sent \in BOOLEAN, Welcome(k, sent)
       PROVE  Waiting'
    <2>1. app' = app
        BY <1>11 DEF Welcome
    <2>2. \A n \in Machines : n # jobs[k].to => MayWait(n)'
        BY <1>2, <1>11, <2>1, WelcomeMakes DEF NothingNew
    <2>3. \A n \in Machines : n = jobs[k].to => Working(n)
        BY <1>11, WelcomeMakes DEF Working
    <2>4. \A n \in Machines : n = jobs[k].to => app[n].pc # "off" /\ app[n].key \in Keys
        BY <1>1, <2>3 DEF WaitsWithKey
    <2> QED
        BY <2>1, <2>2, <2>4 DEF Waiting
<1>12. CASE RelayRestarts
    BY <1>3, <1>12, RelayRestarted DEF Waiting
<1> QED
    BY <1>4, <1>5, <1>6, <1>7, <1>8, <1>9, <1>10, <1>11, <1>12 DEF Next, Relay, Fault, Account

(* Every step keeps Phrases. *)
LEMMA PhrasesStep ==
    ASSUME RelayTypes, MachineTypes, AskTypes, AnswerTypes, Waiting, Phrases, Next
    PROVE  Phrases'
<1>1. ASSUME phrases \subseteq phrases', UNCHANGED <<app, saving, disk>>
      PROVE  Phrases'
    BY <1>1 DEF Phrases
<1>2. ASSUME NEW m \in Machines, Start(m)
      PROVE  Phrases'
    <2>1. app'[m].key \in {None, disk[m].key} /\ \A n \in Machines \ {m} : app'[n] = app[n]
        BY <1>2 DEF Start, MachineTypes, Off
    <2> QED
        BY <1>2, <2>1 DEF Start, people, Phrases
<1>3. ASSUME NEW m \in Machines, NEW name \in Names, ChooseName(m, name)
      PROVE  Phrases'
    BY <1>3 DEF ChooseName, MachineTypes, Phrases
<1>4. ASSUME NEW m \in Machines, NEW p \in Screens, Show(m, p)
      PROVE  \A n \in Machines : app'[n].key = app[n].key
    <2>1. app[m] \in Apps
        BY DEF MachineTypes
    <2> QED
        BY <1>4, <2>1 DEF Show, MachineTypes, Apps
<1>5. ASSUME NEW m \in Machines,
             \/ RecoverInstead(m) \/ LeaveRecovery(m) \/ OpenRename(m) \/ CloseRename(m)
             \/ SkipPin(m) \/ Unlock(m)
      PROVE  Phrases'
    <2>1. UNCHANGED <<saving, disk, phrases>> /\ \E p \in Screens : Show(m, p)
        BY <1>5 DEF RecoverInstead, LeaveRecovery, OpenRename, CloseRename, SkipPin, Unlock,
            people, Screens, Shown
    <2> QED
        BY <1>4, <2>1 DEF Phrases
<1>6. ASSUME NEW m \in Machines, SetPin(m)
      PROVE  Phrases'
    <2>1. \A n \in Machines : app'[n].key = app[n].key
        BY <1>4, <1>6 DEF SetPin, Screens, Shown
    <2>2. disk[m] \in Disks /\ disk' = [disk EXCEPT ![m].pin = disk[m].key]
        BY <1>6 DEF SetPin, MachineTypes
    <2>3. disk'[m].key = disk[m].key /\ disk'[m].pin = disk[m].key
          /\ \A n \in Machines \ {m} : disk'[n] = disk[n]
        BY <2>2 DEF MachineTypes, Disks
    <2> QED
        BY <1>6, <2>1, <2>3 DEF SetPin, people, Phrases
<1>7. ASSUME NEW m \in Machines, NEW k \in Keys, EnterPhrase(m, k)
      PROVE  Phrases'
    <2>1. app[m] \in Apps /\ app' = [app EXCEPT ![m].key = k] /\ k \in phrases
        BY <1>7 DEF EnterPhrase, MachineTypes
    <2>2. app'[m].key = k /\ \A n \in Machines \ {m} : app'[n] = app[n]
        BY <2>1 DEF MachineTypes, Apps
    <2> QED
        BY <1>7, <2>1, <2>2 DEF EnterPhrase, Phrases
<1>8. ASSUME NEW m \in Machines, ChooseCity(m) \/ \E name \in Names : Rename(m, name)
      PROVE  Phrases'
    BY <1>1, <1>8 DEF ChooseCity, Rename, people
<1>9. ASSUME NEW m \in Machines, Relay(m) \/ SignIn(m) \/ Lose(m)
      PROVE  Phrases'
    BY <1>1, <1>9 DEF Relay, Register, Recover, CarryOutRename, SignIn, Lose, people
<1>10. ASSUME NEW m \in Machines, NEW r \in BagToSet(answers[m]), Registered(m, r) \/ Recovered(m, r)
       PROVE  Phrases'
    <2>1. app[m].key \in Keys
        BY <1>10 DEF Registered, Recovered, Receive, Waiting, WaitsWithKey
    <2>2. app[m].key \in phrases
        BY <2>1, AccountAssumption DEF Phrases
    <2>3. \A n \in Machines : saving'[n] # None => saving'[n].key \in phrases
        BY <1>10, <2>2 DEF Registered, Recovered, Phrases, MachineTypes
    <2> QED
        BY <1>10, <2>3 DEF Registered, Recovered, people, Phrases
<1>11. ASSUME NEW m \in Machines, NEW r \in BagToSet(answers[m]), Renamed(m, r)
       PROVE  Phrases'
    <2>1. \A n \in Machines : app'[n].key = app[n].key
        BY <1>11, ArrivalShows DEF Arrival, Renamed
    <2>2. \A n \in Machines : disk'[n].key = disk[n].key /\ disk'[n].pin = disk[n].pin
        <3>1. disk[m] \in Disks
            BY DEF MachineTypes
        <3> QED
            BY <1>11, <3>1 DEF Renamed, MachineTypes, Disks
    <2> QED
        BY <1>11, <2>1, <2>2 DEF Renamed, people, Phrases
<1>12. ASSUME NEW m \in Machines, Save(m)
       PROVE  Phrases'
    <2>1. saving[m] \in Savings /\ saving[m] # None /\ phrases' = phrases
        BY <1>12, SaveWrites
    <2>2. disk[m] \in Disks
        BY DEF MachineTypes
    <2>3. CASE ClearsPin(m)
        <3>1. \A n \in Machines : disk'[n].key = disk[n].key /\ disk'[n].pin \in {None, disk[n].pin}
            BY <2>3, PinRemoved DEF ClearsPin
        <3>2. app' = app /\ \A n \in Machines : saving'[n] = None <=> saving[n] = None
            BY <2>1, <2>3, AccountAssumption DEF ClearsPin, MachineTypes, Savings
        <3>3. \A n \in Machines : saving[n] # None => saving'[n].key = saving[n].key
            BY <2>1, <2>3 DEF ClearsPin, MachineTypes, Savings
        <3> QED
            BY <2>1, <3>1, <3>2, <3>3 DEF Phrases
    <2>4. CASE WritesKey(m)
        <3>1. \A n \in Machines : \/ disk'[n] = disk[n]
                                  \/ disk'[n].key = saving[m].key /\ disk'[n].pin = disk[n].pin
            BY <2>2, <2>4 DEF WritesKey, MachineTypes, Disks
        <3>2. app' = app
            BY <2>4 DEF WritesKey
        <3>3. \A n \in Machines : saving'[n] # None => saving[n] # None /\ saving'[n].key = saving[n].key
            BY <2>1, <2>4 DEF WritesKey, MachineTypes, Savings
        <3>4. saving[m].key \in phrases
            BY <2>1 DEF Phrases
        <3> QED
            BY <2>1, <3>1, <3>2, <3>3, <3>4 DEF Phrases
    <2>5. CASE WritesIdentity(m)
        <3>1. \A n \in Machines : app'[n].key \in phrases \cup {None}
            BY <2>1, <2>5 DEF WritesIdentity, Phrases, MachineTypes
        <3>2. \A n \in Machines : disk'[n].key = disk[n].key /\ disk'[n].pin = disk[n].pin
            BY <2>2, <2>5 DEF WritesIdentity, MachineTypes, Disks
        <3> QED
            BY <2>1, <2>5, <3>1, <3>2 DEF WritesIdentity, Phrases, MachineTypes
    <2> QED
        BY <1>12, <2>3, <2>4, <2>5, SaveWrites
<1>13. ASSUME NEW m \in Machines, Kill(m)
       PROVE  Phrases'
    BY <1>13 DEF Kill, Phrases, MachineTypes, Off
<1>14. ASSUME NEW k \in Keys, Account(k)
       PROVE  Phrases'
    BY <1>1, <1>14 DEF Account, Reap, Elsewhere, Gift, Welcome, people
<1>15. CASE RelayRestarts
    BY <1>1, <1>15 DEF RelayRestarts, people
<1> QED
    BY <1>2, <1>3, <1>5, <1>6, <1>7, <1>8, <1>9, <1>10, <1>11, <1>12, <1>13, <1>14, <1>15
       DEF Next, Screen, Arrival, Fault

(* The files while they are written, and once an account is shown. *)
FilesOf(m) ==
    /\ m \notin stuck => disk[m].pin \in {None, disk[m].key}
    /\ app[m].pc \in Shown => app[m].key \in Keys /\ disk[m].key = app[m].key
    /\ saving[m] # None =>
        /\ app[m].pc \in {"city", "recover"}
        /\ saving[m].step > 1 => m \in stuck \/ disk[m].pin = None
        /\ saving[m].step = 3 => disk[m].key = saving[m].key

FilesHold == \A m \in Machines : FilesOf(m)

(* Every step keeps FilesHold. *)
LEMMA FilesStep ==
    ASSUME RelayTypes, MachineTypes, AskTypes, AnswerTypes, Waiting, FilesHold, Next
    PROVE  FilesHold'
<1>1. ASSUME UNCHANGED <<app, saving, disk, stuck>>
      PROVE  FilesHold'
    BY <1>1 DEF FilesHold, FilesOf
<1>2. ASSUME NEW m \in Machines, Start(m)
      PROVE  FilesHold'
    <2>1. UNCHANGED <<saving, disk, stuck>> /\ saving[m] = None /\ \A n \in Machines \ {m} : app'[n] = app[n]
        BY <1>2 DEF Start, At, MachineTypes, people
    <2>2. app'[m].pc = "choice" \/ (app'[m].key \in Keys /\ app'[m].key = disk[m].key)
        BY <1>2 DEF Start, SignsInAs, MachineTypes, Off
    <2> QED
        BY <2>1, <2>2 DEF FilesHold, FilesOf, Shown
<1>3. ASSUME NEW m \in Machines, NEW name \in Names, ChooseName(m, name)
      PROVE  FilesHold'
    BY <1>3 DEF ChooseName, At, MachineTypes, FilesHold, FilesOf, Shown
<1>4. ASSUME NEW m \in Machines, NEW p \in Screens, Show(m, p), saving[m] = None,
             UNCHANGED <<saving, disk, stuck>>, p \in Shown => app[m].pc \in Shown
      PROVE  FilesHold'
    <2>1. app[m] \in Apps
        BY DEF MachineTypes
    <2>2. app'[m].key = app[m].key /\ app'[m].pc = p /\ \A n \in Machines \ {m} : app'[n] = app[n]
        BY <1>4, <2>1 DEF Show, MachineTypes, Apps
    <2> QED
        BY <1>4, <2>2 DEF FilesHold, FilesOf
<1>5. ASSUME NEW m \in Machines,
             \/ RecoverInstead(m) \/ LeaveRecovery(m) \/ OpenRename(m) \/ CloseRename(m)
             \/ SkipPin(m) \/ Unlock(m)
      PROVE  FilesHold'
    <2>1. UNCHANGED <<saving, disk, stuck>> /\ saving[m] = None
          /\ \E p \in Screens : Show(m, p) /\ (p \in Shown => app[m].pc \in Shown)
        BY <1>5 DEF RecoverInstead, LeaveRecovery, OpenRename, CloseRename, SkipPin, Unlock,
            At, MovesOn, people, Screens, Shown
    <2> QED
        BY <1>4, <2>1
<1>6. ASSUME NEW m \in Machines, SetPin(m)
      PROVE  FilesHold'
    <2>1. /\ app[m] \in Apps /\ disk[m] \in Disks /\ app[m].pc \in Shown
          /\ app' = [app EXCEPT ![m].pc = "home"] /\ disk' = [disk EXCEPT ![m].pin = disk[m].key]
          /\ saving' = saving /\ saving[m] = None
        BY <1>6 DEF SetPin, Show, At, Shown, MachineTypes
    <2>2. app'[m].key = app[m].key /\ \A n \in Machines \ {m} : app'[n] = app[n]
        BY <2>1 DEF MachineTypes, Apps
    <2>3. disk'[m].key = disk[m].key /\ disk'[m].pin = disk[m].key
          /\ \A n \in Machines \ {m} : disk'[n] = disk[n] /\ (n \in stuck <=> n \in stuck')
        BY <1>6, <2>1 DEF SetPin, MachineTypes, Disks
    <2> QED
        BY <2>1, <2>2, <2>3 DEF FilesHold, FilesOf
<1>7. ASSUME NEW m \in Machines, NEW k \in Keys, EnterPhrase(m, k)
      PROVE  FilesHold'
    <2>1. /\ app[m] \in Apps /\ app' = [app EXCEPT ![m].key = k] /\ app[m].pc = "recover"
          /\ UNCHANGED <<saving, disk, stuck>>
        BY <1>7 DEF EnterPhrase, At, MovesOn, MachineTypes
    <2>2. app'[m].pc = "recover" /\ \A n \in Machines \ {m} : app'[n] = app[n]
        BY <2>1 DEF MachineTypes, Apps
    <2> QED
        BY <2>1, <2>2 DEF FilesHold, FilesOf, Shown
<1>8. ASSUME NEW m \in Machines,
             ChooseCity(m) \/ (\E name \in Names : Rename(m, name)) \/ Relay(m) \/ SignIn(m) \/ Lose(m)
      PROVE  FilesHold'
    BY <1>1, <1>8 DEF ChooseCity, Rename, Relay, Register, Recover, CarryOutRename, SignIn, Lose,
        people
<1>9. ASSUME NEW m \in Machines, NEW r \in BagToSet(answers[m]), Registered(m, r) \/ Recovered(m, r)
      PROVE  FilesHold'
    <2>1. UNCHANGED <<app, disk, stuck>>
        BY <1>9 DEF Registered, Recovered, people
    <2>2. saving'[m] = saving[m] \/ (app[m].pc \in {"city", "recover"} /\ saving'[m].step = 1)
        BY <1>9 DEF Registered, Recovered, At, MachineTypes
    <2>3. \A n \in Machines \ {m} : saving'[n] = saving[n]
        BY <1>9 DEF Registered, Recovered, MachineTypes
    <2> QED
        BY <2>1, <2>2, <2>3 DEF FilesHold, FilesOf
<1>10. ASSUME NEW m \in Machines, NEW r \in BagToSet(answers[m]), Renamed(m, r)
       PROVE  FilesHold'
    <2>1. \A n \in Machines : disk'[n].key = disk[n].key /\ disk'[n].pin = disk[n].pin
        <3>1. disk[m] \in Disks
            BY DEF MachineTypes
        <3> QED
            BY <1>10, <3>1 DEF Renamed, MachineTypes, Disks
    <2>2. saving' = saving /\ saving[m] = None /\ stuck' = stuck
        BY <1>10 DEF Renamed, people
    <2>3. /\ \A n \in Machines \ {m} : app'[n] = app[n]
          /\ app'[m].key = app[m].key
          /\ app'[m].pc = app[m].pc \/ app[m].pc = "rename"
        BY <1>10, <2>2, ArrivalShows DEF Arrival
    <2> QED
        BY <2>1, <2>2, <2>3 DEF FilesHold, FilesOf, Shown
<1>11. ASSUME NEW m \in Machines, Save(m)
       PROVE  FilesHold'
    <2>1. saving[m] \in Savings /\ saving[m] # None
        BY <1>11, SaveWrites
    <2>2. disk[m] \in Disks
        BY DEF MachineTypes
    <2>3. app[m].pc \notin Shown
        BY <2>1 DEF FilesHold, FilesOf, Shown
    <2>4. CASE ClearsPin(m)
        <3>1. /\ m \in stuck' \/ disk'[m].pin = None
              /\ \A n \in Machines \ {m} : disk'[n] = disk[n] /\ (n \in stuck <=> n \in stuck')
              /\ disk'[m].key = disk[m].key
            BY <2>4, PinRemoved DEF ClearsPin
        <3>2. /\ \A n \in Machines \ {m} : saving'[n] = saving[n]
              /\ saving'[m].step = 2 /\ app' = app
            BY <2>1, <2>4 DEF ClearsPin, MachineTypes, Savings
        <3>3. FilesOf(m)'
            BY <2>1, <2>3, <3>1, <3>2 DEF FilesHold, FilesOf
        <3>4. ASSUME NEW n \in Machines \ {m} PROVE FilesOf(n)'
            BY <3>1, <3>2 DEF FilesHold, FilesOf
        <3> QED
            BY <3>3, <3>4 DEF FilesHold
    <2>5. CASE WritesKey(m) /\ saving' = [saving EXCEPT ![m] = None] /\ UNCHANGED disk
        BY <2>3, <2>5 DEF WritesKey, MachineTypes, FilesHold, FilesOf
    <2>6. CASE WritesKey(m) /\ disk' = [disk EXCEPT ![m].key = saving[m].key]
                            /\ saving' = [saving EXCEPT ![m].step = 3]
        <3>1. /\ disk'[m].pin = disk[m].pin /\ disk'[m].key = saving[m].key
              /\ \A n \in Machines \ {m} : disk'[n] = disk[n] /\ saving'[n] = saving[n]
              /\ saving'[m].key = saving[m].key /\ app' = app /\ stuck' = stuck
            BY <2>1, <2>2, <2>6 DEF WritesKey, MachineTypes, Disks, Savings
        <3>2. (m \in stuck \/ disk[m].pin = None) /\ app[m].pc \in {"city", "recover"}
            BY <2>1, <2>6 DEF WritesKey, FilesHold, FilesOf
        <3> QED
            BY <2>3, <3>1, <3>2 DEF FilesHold, FilesOf
    <2>7. CASE WritesIdentity(m)
        <3>1. \A n \in Machines : disk'[n].pin = disk[n].pin /\ disk'[n].key = disk[n].key
            BY <2>2, <2>7 DEF WritesIdentity, MachineTypes, Disks
        <3>2. /\ \A n \in Machines \ {m} : app'[n] = app[n] /\ saving'[n] = saving[n]
              /\ app'[m].key = saving[m].key /\ saving'[m] = None /\ saving[m].key \in Keys
              /\ stuck' = stuck
            BY <2>1, <2>7 DEF WritesIdentity, MachineTypes, Savings
        <3>3. disk[m].key = saving[m].key
            BY <2>1, <2>7 DEF WritesIdentity, FilesHold, FilesOf
        <3> QED
            BY <3>1, <3>2, <3>3 DEF FilesHold, FilesOf
    <2> QED
        BY <1>11, <2>4, <2>5, <2>6, <2>7, SaveWrites DEF WritesKey
<1>12. ASSUME NEW m \in Machines, Kill(m)
       PROVE  FilesHold'
    BY <1>12 DEF Kill, MachineTypes, Off, FilesHold, FilesOf, Shown
<1>13. ASSUME NEW k \in Keys, Account(k)
       PROVE  FilesHold'
    BY <1>1, <1>13 DEF Account, Reap, Elsewhere, Gift, Welcome, people
<1>14. CASE RelayRestarts
    BY <1>1, <1>14 DEF RelayRestarts, people
<1> QED
    BY <1>2, <1>3, <1>5, <1>6, <1>7, <1>8, <1>9, <1>10, <1>11, <1>12, <1>13, <1>14
       DEF Next, Screen, Arrival, Fault

(* A rename is asked for at the settings, and stays with them. *)
RenamesAtHome ==
    \A m \in Machines : \A r \in BagToSet(asks[m]) :
        r.kind = "rename" => app[m].pc \in {"home", "rename"}

(* Every step keeps RenamesAtHome. *)
LEMMA RenamesStep ==
    ASSUME RelayTypes, MachineTypes, AskTypes, AnswerTypes, Waiting, FilesHold, RenamesAtHome, Next
    PROVE  RenamesAtHome'
<1>1. ASSUME NEW n \in Machines, BagToSet(asks'[n]) \subseteq BagToSet(asks[n]),
             app[n].pc \in {"home", "rename"} => app'[n].pc \in {"home", "rename"}
      PROVE  \A r \in BagToSet(asks'[n]) : r.kind = "rename" => app'[n].pc \in {"home", "rename"}
    BY <1>1 DEF RenamesAtHome
<1>2. ASSUME NEW m \in Machines, Screen(m)
      PROVE  RenamesAtHome'
    <2>1. app[m].pc \in {"home", "rename"} => app'[m].pc \in {"home", "rename"}
        BY <1>2 DEF Screen, Start, ChooseName, ChooseCity, RecoverInstead, EnterPhrase,
            LeaveRecovery, OpenRename, Rename, CloseRename, SetPin, SkipPin, Unlock, At, Show,
            MachineTypes, Apps
    <2>2. \A n \in Machines \ {m} : app'[n] = app[n] /\ asks'[n] = asks[n]
        BY <1>2, ScreenMakes, ScreenShows
    <2>3. \A r \in BagToSet(asks'[m]) : r.kind = "rename" => app'[m].pc \in {"home", "rename"}
        BY <1>2, <2>1, ScreenMakes DEF RenamesAtHome
    <2> QED
        BY <1>1, <2>2, <2>3 DEF RenamesAtHome
<1>3. ASSUME NEW m \in Machines, NEW r \in BagToSet(asks[m]),
             Register(m, r) \/ Recover(m, r) \/ CarryOutRename(m, r)
      PROVE  RenamesAtHome'
    <2>1. app' = app
        BY <1>3 DEF Register, Recover, CarryOutRename
    <2> QED
        BY <1>1, <1>3, <2>1, RelayMakes DEF RenamesAtHome, NothingNew
<1>4. ASSUME NEW m \in Machines, Arrival(m)
      PROVE  RenamesAtHome'
    <2>1. app[m].pc \in {"home", "rename"} => app'[m].pc \in {"home", "rename"}
        BY <1>4, ArrivalShows DEF FilesHold, FilesOf
    <2> QED
        BY <1>1, <1>4, <2>1, ArrivalShows DEF RenamesAtHome
<1>5. ASSUME NEW m \in Machines, Lose(m)
      PROVE  RenamesAtHome'
    BY <1>5, LostConnection DEF Lose, RenamesAtHome, NothingNew
<1>6. ASSUME NEW m \in Machines, Kill(m)
      PROVE  RenamesAtHome'
    <2>1. \A n \in Machines \ {m} : app'[n] = app[n]
        BY <1>6 DEF Kill, MachineTypes
    <2>2. BagToSet(asks'[m]) = {} /\ \A n \in Machines : BagToSet(asks'[n]) \subseteq BagToSet(asks[n])
        BY <1>6, LostConnection DEF Kill, NothingNew
    <2> QED
        BY <2>1, <2>2 DEF RenamesAtHome
<1>7. ASSUME UNCHANGED <<app, asks>>
      PROVE  RenamesAtHome'
    BY <1>7 DEF RenamesAtHome
<1>8. ASSUME (\E m \in Machines : SignIn(m)) \/ \E k \in Keys : Account(k)
      PROVE  UNCHANGED <<app, asks>>
    BY <1>8 DEF SignIn, Account, Reap, Elsewhere, Gift, Welcome
<1>9. CASE RelayRestarts
    BY <1>9, RelayRestarted DEF RenamesAtHome
<1> QED
    BY <1>2, <1>3, <1>4, <1>5, <1>6, <1>7, <1>8, <1>9 DEF Next, Relay, Fault

(* A machine whose user waited for every recovery: what is under way for it  *)
(* is for the key it holds, and so is its connection.                        *)
AsksOwn(m) ==
    \A r \in BagToSet(asks[m]) : r.kind # "rename" =>
        /\ r.key = app[m].key /\ app[m].pc \notin {"off", "choice"}
        /\ app[m].pc = "recover" => r.kind = "recover"

AnswersOwn(m) ==
    \A r \in BagToSet(answers[m]) :
        /\ r.key = app[m].key /\ app[m].pc \notin {"off", "choice"}
        /\ app[m].pc = "recover" => r.kind = "recovered"
        /\ session[m] \in {None, r.key}

JobsOwn(m) ==
    \A k \in Keys : jobs[k] # None /\ jobs[k].to = m =>
        k = app[m].key /\ app[m].pc \notin {"off", "choice", "recover"}

ShownOwn(m) ==
    app[m].pc \in Shown => session[m] \in {None, app[m].key} /\ app[m].addr \in held[app[m].key]

SavingOwn(m) ==
    saving[m] # None =>
        /\ saving[m].key = app[m].key /\ saving[m].addr \in held[saving[m].key]
        /\ session[m] \in {None, saving[m].key}

Own(m) == AsksOwn(m) /\ AnswersOwn(m) /\ JobsOwn(m) /\ ShownOwn(m) /\ SavingOwn(m)

OthersOwn == \A m \in Machines \ hasty : Own(m)

MachineInv == FilesHold /\ RenamesAtHome /\ OthersOwn

(* Nobody else's machine is concerned. *)
LEMMA OwnFrame ==
    ASSUME RelayTypes, MachineTypes, MachineInv,
           NEW n \in Machines \ hasty, NothingNew(n), app'[n] = app[n],
           saving'[n] = saving[n] \/ saving'[n] = None,
           session'[n] = session[n] \/ session'[n] = None,
           \A j \in Keys : held[j] \subseteq held'[j]
    PROVE  Own(n)'
<1>1. Own(n)
    BY DEF MachineInv, OthersOwn
<1>2. AsksOwn(n)' /\ AnswersOwn(n)' /\ JobsOwn(n)'
    BY <1>1 DEF Own, NothingNew, AsksOwn, AnswersOwn, JobsOwn
<1>3. app[n].pc \in Shown => app[n].key \in Keys
    BY DEF MachineInv, FilesHold, FilesOf
<1>4. saving[n] # None => saving[n].key \in Keys
    BY DEF MachineTypes, Savings
<1>5. ShownOwn(n)' /\ SavingOwn(n)'
    BY <1>1, <1>3, <1>4 DEF Own, ShownOwn, SavingOwn
<1> QED
    BY <1>2, <1>5 DEF Own

(* Nothing is under way for a machine that starts or chooses. *)
LEMMA QuietAtChoice ==
    ASSUME RelayTypes, MachineTypes, AskTypes, AnswerTypes, Waiting, MachineInv,
           NEW m \in Machines \ hasty,
           \/ app[m].pc \in {"off", "choice"}
           \/ /\ app[m].pc = "recover"
              /\ ~ \E r \in BagToSet(Outstanding(m)) : r.kind \in {"recover", "recovered"}
    PROVE  /\ BagToSet(asks[m]) = {} /\ BagToSet(answers[m]) = {}
           /\ \A k \in Keys : jobs[k] # None => jobs[k].to # m
<1>1. Own(m)
    BY DEF MachineInv, OthersOwn
<1>2. \A r \in BagToSet(asks[m]) : r.kind # "rename"
    BY DEF MachineInv, RenamesAtHome
<1>3. BagToSet(Outstanding(m)) = BagToSet(asks[m]) \cup BagToSet(answers[m])
    BY DEF Outstanding, BagToSet, (+)
<1> QED
    BY <1>1, <1>2, <1>3 DEF Own, AsksOwn, AnswersOwn, JobsOwn

(* A step of the user keeps the machine its own: the key changes only while *)
(* nothing is under way for it.                                             *)
LEMMA ScreenOwn ==
    ASSUME RelayTypes, MachineTypes, AskTypes, AnswerTypes, Waiting, MachineInv,
           NEW m \in Machines, m \notin hasty', Screen(m)
    PROVE  Own(m)'
<1>1. /\ answers' = answers /\ jobs' = jobs /\ saving' = saving /\ saving[m] = None /\ held' = held
    BY ScreenMakes, RelayStep DEF Screen, Start, ChooseName, ChooseCity, RecoverInstead, EnterPhrase,
        LeaveRecovery, OpenRename, Rename, CloseRename, SetPin, SkipPin, Unlock, relay
<1>2. m \notin hasty /\ Own(m)
    BY DEF Screen, Start, ChooseName, ChooseCity, RecoverInstead, EnterPhrase,
        LeaveRecovery, OpenRename, Rename, CloseRename, SetPin, SkipPin, Unlock, MovesOn, people,
        MachineInv, OthersOwn
<1>3. SavingOwn(m)'
    BY <1>1 DEF SavingOwn
<1>4. ASSUME asks' = asks, BagToSet(asks[m]) = {}, BagToSet(answers[m]) = {},
             \A k \in Keys : jobs[k] # None => jobs[k].to # m
      PROVE  AsksOwn(m)' /\ AnswersOwn(m)' /\ JobsOwn(m)'
    BY <1>1, <1>4 DEF AsksOwn, AnswersOwn, JobsOwn
<1>5. CASE Start(m)
    <2>1. AsksOwn(m)' /\ AnswersOwn(m)' /\ JobsOwn(m)'
        BY <1>2, <1>4, <1>5, QuietAtChoice DEF Start, At
    <2>2. CASE app' = [app EXCEPT ![m] = [Off EXCEPT !.pc = "choice"]]
        <3>1. app'[m].pc = "choice"
            BY <2>2 DEF MachineTypes, Off
        <3> QED
            BY <1>3, <2>1, <3>1 DEF Own, ShownOwn, Shown
    <2>3. CASE \E k \in SignsInAs(disk[m].key, disk[m].identity) :
                  /\ app' = [app EXCEPT ![m] =
                        [pc |-> IF disk[m].pin = None THEN "home" ELSE "pin",
                         key |-> disk[m].key, addr |-> disk[m].identity]]
                  /\ session' = [session EXCEPT ![m] = k]
        <3>1. PICK k \in SignsInAs(disk[m].key, disk[m].identity) :
                  /\ app' = [app EXCEPT ![m] =
                        [pc |-> IF disk[m].pin = None THEN "home" ELSE "pin",
                         key |-> disk[m].key, addr |-> disk[m].identity]]
                  /\ session' = [session EXCEPT ![m] = k]
            BY <2>3
        <3>2. session'[m] = k /\ app'[m].key = disk[m].key /\ app'[m].addr = disk[m].identity
            BY <3>1 DEF MachineTypes
        <3>3. k = disk[m].key /\ disk[m].identity \in held[k]
            BY <3>1 DEF SignsInAs, RelayTypes
        <3> QED
            BY <1>1, <1>3, <2>1, <3>2, <3>3 DEF Own, ShownOwn
    <2> QED
        BY <1>5, <2>2, <2>3 DEF Start
<1>6. ASSUME NEW name \in Names, ChooseName(m, name)
      PROVE  Own(m)'
    <2>1. AsksOwn(m)' /\ AnswersOwn(m)' /\ JobsOwn(m)'
        BY <1>2, <1>4, <1>6, QuietAtChoice DEF ChooseName, At
    <2>2. app'[m].pc = "city"
        BY <1>6 DEF ChooseName, MachineTypes
    <2> QED
        BY <1>3, <2>1, <2>2 DEF Own, ShownOwn, Shown
<1>7. CASE RecoverInstead(m) \/ LeaveRecovery(m)
    <2>1. app[m].pc = "recover" =>
             ~ \E r \in BagToSet(Outstanding(m)) : r.kind \in {"recover", "recovered"}
        BY <1>7 DEF RecoverInstead, LeaveRecovery, MovesOn, At
    <2>2. asks' = asks /\ app[m].pc \in {"choice", "recover"}
        BY <1>7 DEF RecoverInstead, LeaveRecovery, At
    <2>3. AsksOwn(m)' /\ AnswersOwn(m)' /\ JobsOwn(m)'
        BY <1>2, <1>4, <2>1, <2>2, QuietAtChoice
    <2>4. app'[m].pc \in {"choice", "recover"}
        BY <1>7 DEF RecoverInstead, LeaveRecovery, Show, MachineTypes, Apps
    <2> QED
        BY <1>3, <2>3, <2>4 DEF Own, ShownOwn, Shown
<1>8. ASSUME NEW k \in Keys, EnterPhrase(m, k)
      PROVE  Own(m)'
    <2>1. ~ \E r \in BagToSet(Outstanding(m)) : r.kind \in {"recover", "recovered"}
        BY <1>8 DEF EnterPhrase, MovesOn
    <2>2. app[m].pc = "recover" /\ app[m] \in Apps /\ app' = [app EXCEPT ![m].key = k]
          /\ Ask(m, "recover", k, None)
        BY <1>8 DEF EnterPhrase, At, MachineTypes
    <2>3. /\ BagToSet(asks[m]) = {} /\ BagToSet(answers[m]) = {}
          /\ \A j \in Keys : jobs[j] # None => jobs[j].to # m
        BY <1>2, <2>1, <2>2, QuietAtChoice
    <2>4. app'[m].key = k /\ app'[m].pc = "recover"
        BY <2>2 DEF MachineTypes, Apps
    <2>5. BagToSet(asks'[m]) = BagToSet(asks[m]) \cup {[kind |-> "recover", key |-> k, name |-> None]}
        BY <2>2, AskAdds DEF AskTypes
    <2>6. AsksOwn(m)' /\ AnswersOwn(m)' /\ JobsOwn(m)' /\ ShownOwn(m)'
        BY <1>1, <2>3, <2>4, <2>5 DEF AsksOwn, AnswersOwn, JobsOwn, ShownOwn, Shown
    <2> QED
        BY <1>3, <2>6 DEF Own
<1>9. CASE ChooseCity(m) \/ \E name \in Names : Rename(m, name)
    <2>1. app' = app /\ session' = session /\ app[m].pc \in {"city", "rename"}
        BY <1>9 DEF ChooseCity, Rename, At
    <2>2. \A a \in BagToSet(asks'[m]) \ BagToSet(asks[m]) :
            a.kind = "rename" \/ (a.kind = "register" /\ a.key = app[m].key)
        BY <2>1, ScreenMakes
    <2>3. AsksOwn(m)'
        BY <1>2, <2>1, <2>2 DEF Own, AsksOwn
    <2> QED
        BY <1>1, <1>2, <1>3, <2>1, <2>3 DEF Own, AnswersOwn, JobsOwn, ShownOwn
<1>10. CASE OpenRename(m) \/ CloseRename(m) \/ SetPin(m) \/ SkipPin(m) \/ Unlock(m)
    <2>1. asks' = asks /\ session' = session /\ app[m].pc \in Shown /\ app[m] \in Apps
          /\ (app' = [app EXCEPT ![m].pc = "home"] \/ app' = [app EXCEPT ![m].pc = "rename"])
        BY <1>10 DEF OpenRename, CloseRename, SetPin, SkipPin, Unlock, At, Show, Shown, MachineTypes
    <2>2. app'[m].key = app[m].key /\ app'[m].addr = app[m].addr /\ app'[m].pc \in {"home", "rename"}
        BY <2>1 DEF MachineTypes, Apps
    <2>3. AsksOwn(m)' /\ AnswersOwn(m)' /\ JobsOwn(m)'
        BY <1>1, <1>2, <2>1, <2>2 DEF Own, AsksOwn, AnswersOwn, JobsOwn
    <2>4. ShownOwn(m)'
        BY <1>1, <1>2, <2>1, <2>2 DEF Own, ShownOwn
    <2> QED
        BY <1>3, <2>3, <2>4 DEF Own
<1> QED
    BY <1>5, <1>6, <1>7, <1>8, <1>9, <1>10 DEF Screen

(* The relay answers, and signs in, for the key the machine asked with. *)
LEMMA RelayOwn ==
    ASSUME RelayTypes, MachineTypes, AskTypes, AnswerTypes, Waiting, MachineInv,
           NEW m \in Machines \ hasty, NEW r \in BagToSet(asks[m]),
           Register(m, r) \/ Recover(m, r) \/ CarryOutRename(m, r)
    PROVE  Own(m)'
<1>1. Own(m) /\ app' = app /\ saving' = saving
    BY DEF MachineInv, OthersOwn, Register, Recover, CarryOutRename
<1>2. \A j \in Keys : held[j] \subseteq held'[j]
    BY RelayStep DEF Next, Relay, MachineTypes
<1>3. r.kind = "rename" => app[m].pc \in {"home", "rename"}
    BY DEF MachineInv, RenamesAtHome
<1>4. r.kind # "rename" =>
        /\ r.key = app[m].key /\ app[m].pc \notin {"off", "choice"}
        /\ app[m].pc = "recover" => r.kind = "recover"
    BY <1>1 DEF Own, AsksOwn
<1>5. r.kind = "rename" /\ session[m] # None => session[m] = app[m].key
    BY <1>1, <1>3 DEF Own, ShownOwn, Shown
<1>6. app[m].pc \in Shown => app[m].key \in Keys
    BY DEF MachineInv, FilesHold, FilesOf
<1>7. session'[m] = session[m] \/ (r.kind = "recover" /\ session'[m] = app[m].key)
    BY <1>4 DEF Register, Recover, CarryOutRename, Take, MachineTypes
<1>8. AsksOwn(m)'
    BY <1>1, RelayMakes DEF Own, AsksOwn
<1>9. ASSUME NEW a \in BagToSet(answers'[m])
      PROVE  /\ a.key = app[m].key /\ app[m].pc \notin {"off", "choice"}
             /\ app[m].pc = "recover" => a.kind = "recovered"
             /\ session'[m] \in {None, a.key}
    <2>1. CASE a \in BagToSet(answers[m])
        BY <1>1, <1>7, <2>1 DEF Own, AnswersOwn
    <2>2. CASE a \notin BagToSet(answers[m]) /\ a.kind = "recovered" /\ a.key = r.key /\ r.kind = "recover"
               /\ session'[m] = r.key
        BY <1>4, <2>2
    <2>3. CASE a \notin BagToSet(answers[m]) /\ a.key = session[m] /\ r.kind = "rename"
        <3>1. a.key \in Keys
            BY <1>9, AnswerStep DEF Next, Relay, AnswerTypes, Replies
        <3>2. a.key = app[m].key
            BY <1>5, <2>3, <3>1, AccountAssumption
        <3> QED
            BY <1>3, <1>7, <2>3, <3>2
    <2> QED
        BY <1>9, <2>1, <2>2, <2>3, RelayMakes
<1>10. AnswersOwn(m)'
    BY <1>1, <1>9 DEF AnswersOwn
<1>11. JobsOwn(m)'
    <2>1. ASSUME NEW k \in Keys, jobs'[k] # None, jobs'[k].to = m
          PROVE  k = app[m].key /\ app[m].pc \notin {"off", "choice", "recover"}
        <3>1. CASE r.kind = "register" /\ k = r.key
            BY <1>4, <3>1
        <3>2. CASE jobs[k] # None /\ jobs[k].to = m
            BY <1>1, <3>2 DEF Own, JobsOwn
        <3> QED
            BY <2>1, <3>1, <3>2, RelayMakes
    <2> QED
        BY <1>1, <2>1 DEF JobsOwn
<1>12. ShownOwn(m)'
    BY <1>1, <1>2, <1>6, <1>7 DEF Own, ShownOwn
<1>13. SavingOwn(m)'
    <2>1. saving[m] # None => saving[m].key \in Keys
        BY DEF MachineTypes, Savings
    <2> QED
        BY <1>1, <1>2, <1>7, <2>1 DEF Own, SavingOwn
<1> QED
    BY <1>8, <1>10, <1>11, <1>12, <1>13 DEF Own

(* An answer saved is for the key in memory, and so is what the save shows. *)
LEMMA ArrivalOwn ==
    ASSUME RelayTypes, MachineTypes, AskTypes, AnswerTypes, Waiting, MachineInv,
           NEW m \in Machines \ hasty, Arrival(m)
    PROVE  Own(m)'
<1>1. Own(m) /\ UNCHANGED <<asks, jobs, session>>
      /\ \A n \in Machines : BagToSet(answers'[n]) \subseteq BagToSet(answers[n])
    BY ArrivalShows DEF MachineInv, OthersOwn
<1>2. held' = held
    BY DEF Arrival, Registered, Recovered, Renamed, Save, relay
<1>3. ASSUME app'[m].key = app[m].key, app'[m].pc \notin {"off", "choice", "recover"} \/ app'[m].pc = app[m].pc
      PROVE  AsksOwn(m)' /\ AnswersOwn(m)' /\ JobsOwn(m)'
    BY <1>1, <1>3 DEF Own, AsksOwn, AnswersOwn, JobsOwn
<1>4. ASSUME NEW r \in BagToSet(answers[m]), Registered(m, r) \/ Recovered(m, r)
      PROVE  Own(m)'
    <2>1. app' = app /\ r.key = app[m].key /\ r.addr \in held[r.key] /\ session[m] \in {None, r.key}
        BY <1>1, <1>4 DEF Own, AnswersOwn, AnswerTypes, Registered, Recovered
    <2>2. \/ saving'[m] = saving[m]
          \/ saving'[m].key = app[m].key /\ saving'[m].addr = r.addr
        BY <1>4 DEF Registered, Recovered, MachineTypes
    <2>3. SavingOwn(m)'
        BY <1>1, <1>2, <2>1, <2>2 DEF Own, SavingOwn
    <2>4. ShownOwn(m)'
        BY <1>1, <1>2, <2>1 DEF Own, ShownOwn
    <2> QED
        BY <1>3, <2>1, <2>3, <2>4 DEF Own
<1>5. ASSUME NEW r \in BagToSet(answers[m]), Renamed(m, r)
      PROVE  Own(m)'
    <2>1. r.key = app[m].key /\ r.addr \in held[r.key] /\ saving' = saving /\ saving[m] = None
        BY <1>1, <1>5 DEF Own, AnswersOwn, AnswerTypes, Renamed
    <2>2. SavingOwn(m)'
        BY <2>1 DEF SavingOwn
    <2>3. CASE app' = app
        BY <1>1, <1>2, <1>3, <2>2, <2>3 DEF Own, ShownOwn
    <2>4. CASE app[m].pc = "rename" /\ app' = [app EXCEPT ![m] = [@ EXCEPT !.pc = "home", !.addr = r.addr]]
        <3>1. app[m] \in Apps
            BY DEF MachineTypes
        <3>2. app'[m].key = app[m].key /\ app'[m].pc = "home" /\ app'[m].addr = r.addr
            BY <2>4, <3>1 DEF MachineTypes, Apps
        <3>3. ShownOwn(m)'
            BY <1>1, <1>2, <2>1, <2>4, <3>2 DEF Own, ShownOwn, Shown
        <3> QED
            BY <1>3, <2>2, <3>2, <3>3 DEF Own
    <2> QED
        BY <1>5, <2>3, <2>4 DEF Renamed
<1>6. CASE Save(m)
    <2>1. saving[m] \in Savings /\ saving[m] # None
        BY <1>6, SaveWrites
    <2>2. /\ saving[m].key = app[m].key /\ saving[m].addr \in held[saving[m].key]
          /\ session[m] \in {None, saving[m].key}
        BY <1>1, <2>1 DEF Own, SavingOwn
    <2>3. CASE ClearsPin(m) \/ WritesKey(m)
        <3>1. app' = app /\ (saving'[m] = None
                    \/ (saving'[m].key = saving[m].key /\ saving'[m].addr = saving[m].addr))
            BY <2>1, <2>3 DEF ClearsPin, WritesKey, MachineTypes, Savings
        <3>2. SavingOwn(m)'
            BY <1>1, <1>2, <2>2, <3>1 DEF SavingOwn
        <3> QED
            BY <1>1, <1>2, <1>3, <3>1, <3>2 DEF Own, ShownOwn
    <2>4. CASE WritesIdentity(m)
        <3>1. /\ app'[m].key = saving[m].key /\ app'[m].addr = saving[m].addr
              /\ app'[m].pc \in {"pinsetup", "home"} /\ saving'[m] = None
            BY <2>1, <2>4 DEF WritesIdentity, MachineTypes, Savings
        <3>2. ShownOwn(m)' /\ SavingOwn(m)'
            BY <1>1, <1>2, <2>2, <3>1 DEF ShownOwn, SavingOwn
        <3> QED
            BY <1>3, <2>2, <3>1, <3>2 DEF Own
    <2> QED
        BY <1>6, <2>3, <2>4, SaveWrites
<1> QED
    BY <1>4, <1>5, <1>6 DEF Arrival

(* A finished registration signs its machine in for the key it holds. *)
LEMMA WelcomeOwn ==
    ASSUME RelayTypes, MachineTypes, AnswerTypes, MachineInv,
           NEW k \in Keys, NEW sent \in BOOLEAN, Welcome(k, sent),
           NEW m \in Machines \ hasty, m = jobs[k].to
    PROVE  Own(m)'
<1>1. Own(m) /\ UNCHANGED <<app, saving, held, asks>>
    BY DEF MachineInv, OthersOwn, Welcome
<1>2. jobs[k] # None /\ k = app[m].key /\ app[m].pc \notin {"off", "choice", "recover"}
    BY <1>1, WelcomeMakes DEF Own, JobsOwn
<1>3. session'[m] = k
    BY WelcomeMakes
<1>4. AsksOwn(m)' /\ JobsOwn(m)'
    BY <1>1, WelcomeMakes DEF Own, AsksOwn, JobsOwn
<1>5. ASSUME NEW a \in BagToSet(answers'[m])
      PROVE  a.key = k
    <2>1. CASE a \in BagToSet(answers[m])
        BY <1>1, <1>2, <2>1 DEF Own, AnswersOwn
    <2>2. CASE a \notin BagToSet(answers[m])
        BY <1>5, <2>2, WelcomeMakes
    <2> QED
        BY <2>1, <2>2
<1>6. AnswersOwn(m)'
    BY <1>1, <1>2, <1>3, <1>5 DEF AnswersOwn
<1>7. ShownOwn(m)' /\ SavingOwn(m)'
    BY <1>1, <1>2, <1>3 DEF Own, ShownOwn, SavingOwn
<1> QED
    BY <1>4, <1>6, <1>7 DEF Own

(* Every step keeps OthersOwn. *)
LEMMA OwnStep ==
    ASSUME RelayTypes, MachineTypes, AskTypes, AnswerTypes, Waiting, MachineInv, Next
    PROVE  OthersOwn'
<1>1. \A j \in Keys : held[j] \subseteq held'[j]
    BY RelayStep DEF MachineTypes
<1>2. hasty \subseteq hasty'
    <2>1. ASSUME NEW m \in Machines, Screen(m)
          PROVE  hasty \subseteq hasty'
        BY <2>1 DEF Screen, Start, ChooseName, ChooseCity, RecoverInstead, EnterPhrase, LeaveRecovery,
            OpenRename, Rename, CloseRename, SetPin, SkipPin, Unlock, MovesOn, people
    <2>2. ASSUME NEW m \in Machines, Relay(m) \/ Arrival(m) \/ Fault(m)
          PROVE  hasty \subseteq hasty'
        BY <2>2 DEF Relay, Register, Recover, CarryOutRename, Arrival, Registered, Recovered, Renamed,
            Save, Fault, Lose, Kill, SignIn, people
    <2>3. ASSUME RelayRestarts \/ \E k \in Keys : Account(k)
          PROVE  hasty \subseteq hasty'
        BY <2>3 DEF RelayRestarts, Account, Reap, Elsewhere, Gift, Welcome, people
    <2> QED
        BY <2>1, <2>2, <2>3 DEF Next
<1>3. ASSUME NEW m \in Machines, Screen(m)
      PROVE  OthersOwn'
    <2>1. session' = session \/ \E k : session' = [session EXCEPT ![m] = k]
        BY <1>3 DEF Screen, Start, ChooseName, ChooseCity, RecoverInstead, EnterPhrase,
            LeaveRecovery, OpenRename, Rename, CloseRename, SetPin, SkipPin, Unlock
    <2>2. \A n \in Machines \ {m} : session'[n] = session[n]
        BY <2>1 DEF MachineTypes
    <2>3. \A n \in Machines \ {m} : NothingNew(n) /\ app'[n] = app[n] /\ saving'[n] = saving[n]
        BY <1>3, ScreenMakes, ScreenShows DEF NothingNew
    <2>4. ASSUME NEW n \in Machines \ hasty', n # m
          PROVE  Own(n)'
        BY <1>1, <1>2, <2>2, <2>3, <2>4, OwnFrame
    <2>5. m \notin hasty' => Own(m)'
        BY <1>3, ScreenOwn
    <2> QED
        BY <2>4, <2>5 DEF OthersOwn
<1>4. ASSUME NEW m \in Machines, NEW r \in BagToSet(asks[m]),
             Register(m, r) \/ Recover(m, r) \/ CarryOutRename(m, r)
      PROVE  OthersOwn'
    <2>1. UNCHANGED <<app, saving>> /\ (session' = session \/ \E k : session' = [session EXCEPT ![m] = k])
        BY <1>4 DEF Register, Recover, CarryOutRename
    <2>2. \A n \in Machines \ {m} : session'[n] = session[n]
        BY <2>1 DEF MachineTypes
    <2>3. ASSUME NEW n \in Machines \ hasty', n # m
          PROVE  Own(n)'
        <3>1. NothingNew(n)
            BY <1>4, <2>3, RelayMakes
        <3> QED
            BY <1>1, <1>2, <2>1, <2>2, <2>3, <3>1, OwnFrame
    <2>4. m \notin hasty' => Own(m)'
        BY <1>2, <1>4, RelayOwn
    <2> QED
        BY <2>3, <2>4 DEF OthersOwn
<1>5. ASSUME NEW m \in Machines, Arrival(m)
      PROVE  OthersOwn'
    <2>1. \A n \in Machines \ {m} : saving'[n] = saving[n]
        BY <1>5 DEF Arrival, Registered, Recovered, Renamed, Save, MachineTypes
    <2>2. ASSUME NEW n \in Machines \ hasty', n # m
          PROVE  Own(n)'
        <3>1. NothingNew(n) /\ app'[n] = app[n] /\ session'[n] = session[n]
            BY <1>5, <2>2, ArrivalShows DEF NothingNew
        <3> QED
            BY <1>1, <1>2, <2>1, <2>2, <3>1, OwnFrame
    <2>3. m \notin hasty' => Own(m)'
        BY <1>2, <1>5, ArrivalOwn
    <2> QED
        BY <2>2, <2>3 DEF OthersOwn
<1>6. ASSUME NEW m \in Machines, Lose(m)
      PROVE  OthersOwn'
    <2>1. UNCHANGED <<app, saving>> /\ \A n \in Machines : NothingNew(n)
          /\ (session'[n] = session[n] \/ session'[n] = None)
        BY <1>6, LostConnection DEF Lose, Disconnected
    <2> QED
        BY <1>1, <1>2, <2>1, OwnFrame DEF OthersOwn
<1>7. ASSUME NEW m \in Machines, Kill(m)
      PROVE  OthersOwn'
    <2>1. /\ \A n \in Machines \ {m} : app'[n] = app[n] /\ saving'[n] = saving[n]
          /\ app'[m].pc = "off" /\ saving'[m] = None
        BY <1>7 DEF Kill, MachineTypes, Off
    <2>2. /\ \A n \in Machines : NothingNew(n) /\ (session'[n] = session[n] \/ session'[n] = None)
          /\ BagToSet(asks'[m]) = {} /\ BagToSet(answers'[m]) = {}
          /\ \A k \in Keys : jobs'[k] # None => jobs'[k].to # m
        BY <1>7, LostConnection DEF Kill, Disconnected
    <2>3. Own(m)'
        BY <2>1, <2>2 DEF Own, AsksOwn, AnswersOwn, JobsOwn, ShownOwn, SavingOwn, Shown
    <2> QED
        BY <1>1, <1>2, <2>1, <2>2, <2>3, OwnFrame DEF OthersOwn
<1>8. ASSUME NEW m \in Machines, SignIn(m)
      PROVE  OthersOwn'
    <2>1. /\ UNCHANGED <<app, saving, asks, answers, jobs, held>> /\ saving[m] = None
          /\ app[m].pc \in {"home", "rename"}
          /\ session' = [session EXCEPT ![m] = app[m].key]
        BY <1>8 DEF SignIn, SignsInAs, At, relay
    <2>2. ASSUME NEW n \in Machines \ hasty', n # m
          PROVE  Own(n)'
        <3>1. session'[n] = session[n] /\ NothingNew(n)
            BY <2>1, <2>2 DEF MachineTypes, NothingNew
        <3> QED
            BY <1>1, <1>2, <2>1, <2>2, <3>1, OwnFrame
    <2>3. ASSUME m \notin hasty'
          PROVE  Own(m)'
        <3>1. Own(m) /\ session'[m] = app[m].key
            BY <1>2, <2>1, <2>3 DEF MachineInv, OthersOwn, MachineTypes
        <3> QED
            BY <2>1, <3>1 DEF Own, AsksOwn, AnswersOwn, JobsOwn, ShownOwn, SavingOwn
    <2> QED
        BY <2>2, <2>3 DEF OthersOwn
<1>9. ASSUME NEW k \in Keys, \/ Reap(k) \/ \E name \in Names : Elsewhere(k, name)
                             \/ \E done \in BOOLEAN : Gift(k, done)
      PROVE  OthersOwn'
    <2>1. \A n \in Machines : NothingNew(n)
        BY <1>9, AccountMakes DEF NothingNew
    <2>2. UNCHANGED <<app, saving, session>>
        BY <1>9, AccountMakes
    <2> QED
        BY <1>1, <1>2, <2>1, <2>2, OwnFrame DEF OthersOwn
<1>10. ASSUME NEW k \in Keys, NEW sent \in BOOLEAN, Welcome(k, sent)
       PROVE  OthersOwn'
    <2>1. UNCHANGED <<app, saving>>
        BY <1>10 DEF Welcome
    <2>2. ASSUME NEW n \in Machines \ hasty', n # jobs[k].to
          PROVE  Own(n)'
        <3>1. session'[n] = session[n] /\ NothingNew(n)
            BY <1>10, <2>2, WelcomeMakes DEF NothingNew
        <3> QED
            BY <1>1, <1>2, <2>1, <2>2, <3>1, OwnFrame
    <2>3. ASSUME NEW n \in Machines \ hasty', n = jobs[k].to
          PROVE  Own(n)'
        BY <1>2, <1>10, <2>3, WelcomeOwn
    <2> QED
        BY <2>2, <2>3 DEF OthersOwn
<1>11. CASE RelayRestarts
    <2>1. UNCHANGED <<app, saving>> /\ \A n \in Machines : NothingNew(n) /\ session'[n] = None
        BY <1>11, RelayRestarted DEF RelayRestarts, Disconnected
    <2> QED
        BY <1>1, <1>2, <2>1, OwnFrame DEF OthersOwn
<1> QED
    BY <1>3, <1>4, <1>5, <1>6, <1>7, <1>8, <1>9, <1>10, <1>11 DEF Next, Relay, Fault, Account

(* The identity on disk, where no save was torn. *)
IdentityAgrees(m) ==
    saving[m] = None \/ saving[m].step < 3 =>
        IF disk[m].key = None THEN disk[m].identity = None
        ELSE disk[m].identity \in held[disk[m].key]

Identities == \A m \in Machines \ (torn \cup hasty) : IdentityAgrees(m)

(* Every step keeps Identities. *)
LEMMA IdentityStep ==
    ASSUME RelayTypes, MachineTypes, AskTypes, AnswerTypes, Waiting, MachineInv, Identities, Next
    PROVE  Identities'
<1>1. \A j \in Keys : held[j] \subseteq held'[j]
    BY RelayStep DEF MachineTypes
<1>2. \A n \in Machines : disk[n] \in Disks /\ disk[n].key \in Keys \cup {None}
    BY DEF MachineTypes, Disks
<1>3. ASSUME NEW n \in Machines, disk'[n].key = disk[n].key, disk'[n].identity = disk[n].identity,
             IdentityAgrees(n), saving[n] = None \/ saving[n].step < 3
      PROVE  IdentityAgrees(n)'
    BY <1>1, <1>2, <1>3 DEF IdentityAgrees
<1>4. ASSUME UNCHANGED <<disk, saving>>, torn \cup hasty \subseteq torn' \cup hasty'
      PROVE  Identities'
    <2>1. ASSUME NEW n \in Machines, IdentityAgrees(n)
          PROVE  IdentityAgrees(n)'
        BY <1>1, <1>2, <1>4, <2>1 DEF IdentityAgrees
    <2> QED
        BY <1>4, <2>1 DEF Identities
<1>5. ASSUME NEW m \in Machines, Screen(m)
      PROVE  Identities'
    <2>1. saving' = saving /\ saving[m] = None
        BY <1>5, ScreenMakes
    <2>2. CASE SetPin(m)
        <3>1. disk' = [disk EXCEPT ![m].pin = disk[m].key] /\ UNCHANGED <<torn, hasty>>
            BY <2>2 DEF SetPin, people
        <3>2. \A n \in Machines : disk'[n].key = disk[n].key /\ disk'[n].identity = disk[n].identity
            BY <1>2, <3>1 DEF MachineTypes, Disks
        <3>3. ASSUME NEW n \in Machines, IdentityAgrees(n)
              PROVE  IdentityAgrees(n)'
            BY <1>1, <1>2, <2>1, <3>2, <3>3 DEF IdentityAgrees
        <3> QED
            BY <3>1, <3>3 DEF Identities
    <2>3. CASE ~SetPin(m)
        <3>1. disk' = disk /\ torn \cup hasty \subseteq torn' \cup hasty'
            BY <1>5, <2>3 DEF Screen, Start, ChooseName, ChooseCity, RecoverInstead, EnterPhrase,
                LeaveRecovery, OpenRename, Rename, CloseRename, SkipPin, Unlock, MovesOn, people
        <3> QED
            BY <1>4, <2>1, <3>1
    <2> QED
        BY <2>2, <2>3
<1>6. ASSUME \/ RelayRestarts \/ (\E m \in Machines : Relay(m) \/ SignIn(m) \/ Lose(m))
             \/ \E k \in Keys : Account(k)
      PROVE  Identities'
    <2>1. UNCHANGED <<disk, saving, torn, hasty>>
        BY <1>6 DEF RelayRestarts, Relay, Register, Recover, CarryOutRename, SignIn, Lose, Account,
            Reap, Elsewhere, Gift, Welcome, people
    <2> QED
        BY <1>4, <2>1
<1>7. ASSUME NEW m \in Machines, NEW r \in BagToSet(answers[m]), Registered(m, r) \/ Recovered(m, r)
      PROVE  Identities'
    <2>1. UNCHANGED <<disk, torn, hasty>> /\ saving[m] = None
          /\ \A n \in Machines \ {m} : saving'[n] = saving[n]
        BY <1>7 DEF Registered, Recovered, At, people, MachineTypes
    <2>2. ASSUME NEW n \in Machines, IdentityAgrees(n)
          PROVE  IdentityAgrees(n)'
        BY <1>1, <1>2, <2>1, <2>2 DEF IdentityAgrees
    <2> QED
        BY <2>1, <2>2 DEF Identities
<1>8. ASSUME NEW m \in Machines, NEW r \in BagToSet(answers[m]), Renamed(m, r)
      PROVE  Identities'
    <2>1. UNCHANGED <<saving, torn, hasty>> /\ saving[m] = None
        BY <1>8 DEF Renamed, people
    <2>2. CASE disk' = disk
        BY <1>4, <2>1, <2>2
    <2>3. CASE app[m].pc = "rename" /\ disk' = [disk EXCEPT ![m].identity = r.addr]
        <3>1. disk'[m].key = disk[m].key /\ disk'[m].identity = r.addr
              /\ \A n \in Machines \ {m} : disk'[n] = disk[n]
            BY <1>2, <2>3 DEF MachineTypes, Disks
        <3>2. ASSUME NEW n \in Machines \ {m}, IdentityAgrees(n)
              PROVE  IdentityAgrees(n)'
            BY <1>1, <1>2, <2>1, <3>1, <3>2 DEF IdentityAgrees
        <3>3. ASSUME m \notin hasty
              PROVE  IdentityAgrees(m)'
            <4>1. Own(m)
                BY <3>3 DEF MachineInv, OthersOwn
            <4>2. r.key = app[m].key /\ r.addr \in held[r.key]
                BY <4>1 DEF Own, AnswersOwn, AnswerTypes
            <4>3. disk[m].key = app[m].key /\ app[m].key \in Keys
                BY <2>3 DEF MachineInv, FilesHold, FilesOf, Shown
            <4> QED
                BY <1>1, <3>1, <4>2, <4>3, AccountAssumption DEF IdentityAgrees
        <3> QED
            BY <2>1, <3>2, <3>3 DEF Identities
    <2> QED
        BY <1>8, <2>2, <2>3 DEF Renamed
<1>9. ASSUME NEW m \in Machines, Save(m)
      PROVE  Identities'
    <2>1. saving[m] \in Savings /\ saving[m] # None /\ hasty' = hasty
        BY <1>9, SaveWrites
    <2>2. CASE ClearsPin(m)
        <3>1. /\ \A n \in Machines : disk'[n].key = disk[n].key /\ disk'[n].identity = disk[n].identity
              /\ \A n \in Machines \ {m} : saving'[n] = saving[n]
              /\ saving[m].step < 3 /\ torn' = torn
            BY <2>2, PinRemoved DEF ClearsPin, MachineTypes
        <3>2. ASSUME NEW n \in Machines, IdentityAgrees(n)
              PROVE  IdentityAgrees(n)'
            BY <1>1, <1>2, <3>1, <3>2 DEF IdentityAgrees
        <3> QED
            BY <2>1, <3>1, <3>2 DEF Identities
    <2>3. CASE WritesKey(m) /\ saving' = [saving EXCEPT ![m] = None] /\ UNCHANGED disk
        <3>1. saving[m].step < 3 /\ torn' = torn /\ \A n \in Machines \ {m} : saving'[n] = saving[n]
            BY <2>3 DEF WritesKey, MachineTypes
        <3>2. ASSUME NEW n \in Machines, IdentityAgrees(n)
              PROVE  IdentityAgrees(n)'
            BY <1>1, <1>2, <2>3, <3>1, <3>2 DEF IdentityAgrees
        <3> QED
            BY <2>1, <3>1, <3>2 DEF Identities
    <2>4. CASE WritesKey(m) /\ disk' = [disk EXCEPT ![m].key = saving[m].key]
                            /\ saving' = [saving EXCEPT ![m].step = 3]
        <3>1. /\ torn' = torn /\ saving'[m].step = 3 /\ saving'[m] \in Savings /\ saving'[m] # None
              /\ \A n \in Machines \ {m} : saving'[n] = saving[n] /\ disk'[n] = disk[n]
            <4>1. [saving[m] EXCEPT !.step = 3] \in Savings /\ [saving[m] EXCEPT !.step = 3].step = 3
                BY <2>1 DEF Savings
            <4>2. saving' = [saving EXCEPT ![m] = [saving[m] EXCEPT !.step = 3]]
                BY <2>4 DEF MachineTypes
            <4> QED
                BY <2>4, <4>1, <4>2, AccountAssumption DEF WritesKey, MachineTypes
        <3>2. ASSUME NEW n \in Machines \ {m}, IdentityAgrees(n)
              PROVE  IdentityAgrees(n)'
            BY <1>1, <1>2, <3>1, <3>2 DEF IdentityAgrees
        <3>3. IdentityAgrees(m)'
            BY <3>1 DEF IdentityAgrees
        <3> QED
            BY <2>1, <3>1, <3>2, <3>3 DEF Identities
    <2>5. CASE WritesIdentity(m)
        <3>1. /\ \A n \in Machines \ {m} : saving'[n] = saving[n] /\ disk'[n] = disk[n]
              /\ torn \subseteq torn'
            BY <2>5 DEF WritesIdentity, MachineTypes
        <3>2. ASSUME NEW n \in Machines \ {m}, IdentityAgrees(n)
              PROVE  IdentityAgrees(n)'
            BY <1>1, <1>2, <3>1, <3>2 DEF IdentityAgrees
        <3>3. ASSUME m \notin torn' \cup hasty
              PROVE  IdentityAgrees(m)'
            <4>1. disk' = [disk EXCEPT ![m].identity = saving[m].addr]
                BY <2>5, <3>3 DEF WritesIdentity
            <4>2. disk'[m].key = disk[m].key /\ disk'[m].identity = saving[m].addr
                BY <1>2, <4>1 DEF MachineTypes, Disks
            <4>3. disk[m].key = saving[m].key /\ saving[m].key \in Keys
                BY <2>1, <2>5 DEF WritesIdentity, MachineInv, FilesHold, FilesOf, Savings
            <4>4. saving[m].addr \in held[saving[m].key]
                BY <2>1, <3>3 DEF MachineInv, OthersOwn, Own, SavingOwn
            <4> QED
                BY <1>1, <4>2, <4>3, <4>4, AccountAssumption DEF IdentityAgrees
        <3> QED
            BY <2>1, <3>1, <3>2, <3>3 DEF Identities
    <2> QED
        BY <1>9, <2>2, <2>3, <2>4, <2>5, SaveWrites DEF WritesKey
<1>10. ASSUME NEW m \in Machines, Kill(m)
       PROVE  Identities'
    <2>1. /\ disk' = disk /\ hasty' = hasty /\ \A n \in Machines \ {m} : saving'[n] = saving[n]
          /\ torn' = IF saving[m] # None /\ saving[m].step = 3 THEN torn \cup ({m} \ hasty) ELSE torn
        BY <1>10 DEF Kill, MachineTypes
    <2>2. saving[m] # None => saving[m].step \in 1 .. 3
        BY DEF MachineTypes, Savings
    <2>3. ASSUME NEW n \in Machines \ {m}, IdentityAgrees(n)
          PROVE  IdentityAgrees(n)'
        BY <1>1, <1>2, <2>1, <2>3 DEF IdentityAgrees
    <2>4. ASSUME m \notin torn' \cup hasty
          PROVE  IdentityAgrees(m)'
        <3>1. (saving[m] = None \/ saving[m].step < 3) /\ m \notin torn
            BY <2>1, <2>2, <2>4
        <3>2. IdentityAgrees(m)
            BY <2>4, <3>1 DEF Identities
        <3> QED
            BY <1>3, <2>1, <3>1, <3>2
    <2>5. torn \subseteq torn'
        BY <2>1
    <2> QED
        BY <2>1, <2>3, <2>4, <2>5 DEF Identities
<1> QED
    BY <1>5, <1>6, <1>7, <1>8, <1>9, <1>10 DEF Next, Arrival, Fault

(* Every step keeps GiftsOnce: a stamp is paid for each one no longer owed. *)
LEMMA GiftsStep ==
    ASSUME RelayTypes, MachineTypes, AskTypes, AnswerTypes, GiftsOnce, Next
    PROVE  GiftsOnce'
<1> DEFINE Paid(k) == users[k] # None =>
                /\ users[k].gifts <= Gifts
                /\ jobs[k] # None => users[k].gifts <= Gifts - jobs[k].left
<1>1. \A k \in Keys : Paid(k)
    BY DEF GiftsOnce
<1>2. ASSUME users' = users, \A k \in Keys : jobs'[k] # None => jobs[k] # None /\ jobs'[k].left = jobs[k].left
      PROVE  GiftsOnce'
    BY <1>1, <1>2 DEF GiftsOnce
<1>3. ASSUME NEW m \in Machines, Screen(m) \/ Arrival(m) \/ SignIn(m)
      PROVE  GiftsOnce'
    <2>1. UNCHANGED relay
        BY <1>3 DEF Screen, Start, ChooseName, ChooseCity, RecoverInstead, EnterPhrase,
            LeaveRecovery, OpenRename, Rename, CloseRename, SetPin, SkipPin, Unlock,
            Arrival, Registered, Recovered, Save, Renamed, SignIn
    <2> QED
        BY <1>2, <2>1 DEF relay
<1>4. ASSUME NEW m \in Machines, NEW r \in BagToSet(asks[m]), Register(m, r)
      PROVE  GiftsOnce'
    <2>1. r.key \in Keys
        BY <1>4 DEF AskTypes, Register, Take
    <2>2. CASE UNCHANGED <<users, jobs>>
        BY <1>2, <2>2
    <2>3. CASE \E d : /\ users' = [users EXCEPT ![r.key] = [name |-> r.name, disc |-> d,
                                                          gifts |-> 0, welcomed |-> FALSE]]
                      /\ jobs' = [jobs EXCEPT ![r.key] = [to |-> m, left |-> Gifts]]
        <3>1. /\ users'[r.key].gifts = 0 /\ jobs'[r.key].left = Gifts
              /\ \A j \in Keys \ {r.key} : users'[j] = users[j] /\ jobs'[j] = jobs[j]
            BY <2>1, <2>3 DEF RelayTypes
        <3> QED
            BY <1>1, <3>1, AccountAssumption DEF GiftsOnce
    <2> QED
        BY <1>4, <2>2, <2>3 DEF Register
<1>5. ASSUME NEW m \in Machines, NEW r \in BagToSet(asks[m]), Recover(m, r)
      PROVE  GiftsOnce'
    BY <1>2, <1>5 DEF Recover, relay
<1>6. ASSUME NEW k, k \in Keys \cup {None}, NEW name, NEW d \in Drawn(k, name), jobs' = jobs,
             users' = [users EXCEPT ![k].name = name, ![k].disc = d]
      PROVE  GiftsOnce'
    <2>1. k \in Keys /\ users[k] # None /\ users[k] \in Accounts
        BY <1>6, DrawnFor
    <2>2. users'[k].gifts = users[k].gifts /\ \A j \in Keys \ {k} : users'[j] = users[j]
        BY <1>6, <2>1 DEF RelayTypes, Accounts
    <2> QED
        BY <1>1, <1>6, <2>1, <2>2 DEF GiftsOnce
<1>7. ASSUME NEW m \in Machines, NEW r \in BagToSet(asks[m]), CarryOutRename(m, r)
      PROVE  GiftsOnce'
    <2>1. session[m] \in Keys \cup {None} /\ jobs' = jobs
        BY <1>7 DEF MachineTypes, CarryOutRename
    <2>2. CASE users' = users
        BY <1>2, <2>1, <2>2
    <2>3. CASE \E d \in Drawn(session[m], r.name) :
                  users' = [users EXCEPT ![session[m]].name = r.name, ![session[m]].disc = d]
        BY <1>6, <2>1, <2>3
    <2> QED
        BY <1>7, <2>2, <2>3 DEF CarryOutRename
<1>8. ASSUME NEW m \in Machines, Lose(m) \/ Kill(m)
      PROVE  GiftsOnce'
    <2>1. users' = users /\ jobs' = Orphaned(m)
        BY <1>8 DEF Lose, Kill
    <2>2. ASSUME NEW k \in Keys, jobs'[k] # None
          PROVE  jobs[k] # None /\ jobs'[k].left = jobs[k].left
        <3>1. jobs'[k] = IF jobs[k] # None /\ jobs[k].to = m THEN [jobs[k] EXCEPT !.to = None] ELSE jobs[k]
            BY <2>1 DEF Orphaned
        <3>2. jobs[k] # None /\ jobs[k] \in Jobs
            BY <2>2, <3>1 DEF RelayTypes
        <3> QED
            BY <3>1, <3>2 DEF Jobs
    <2> QED
        BY <1>2, <2>1, <2>2
<1>9. ASSUME NEW k \in Keys, Reap(k)
      PROVE  GiftsOnce'
    BY <1>1, <1>9 DEF Reap, GiftsOnce, RelayTypes
<1>10. ASSUME NEW k \in Keys, NEW name \in Names, Elsewhere(k, name)
       PROVE  GiftsOnce'
    <2>1. jobs' = jobs /\ jobs[k] = None
        BY <1>10 DEF Elsewhere
    <2>2. CASE users[k] = None
        <3>1. PICK d : users' = [users EXCEPT ![k] = [name |-> name, disc |-> d,
                                                    gifts |-> Gifts, welcomed |-> TRUE]]
            BY <1>10, <2>2 DEF Elsewhere
        <3>2. users'[k].gifts = Gifts /\ \A j \in Keys \ {k} : users'[j] = users[j]
            BY <3>1 DEF RelayTypes
        <3> QED
            BY <1>1, <2>1, <3>2, AccountAssumption DEF GiftsOnce
    <2>3. CASE users[k] # None
        <3>1. \E d \in Drawn(k, name) : users' = [users EXCEPT ![k].name = name, ![k].disc = d]
            BY <1>10, <2>3 DEF Elsewhere
        <3> QED
            BY <1>6, <2>1, <3>1
    <2> QED
        BY <2>2, <2>3
<1>11. ASSUME NEW k \in Keys, NEW done \in BOOLEAN, Gift(k, done)
       PROVE  GiftsOnce'
    <2>1. /\ users[k] \in Accounts /\ users[k] # None
          /\ jobs[k] \in Jobs /\ jobs[k] # None /\ jobs[k].left > 0
        BY <1>11 DEF Gift, RelayTypes
    <2>2. users[k].gifts \in Nat /\ jobs[k].left \in 0 .. Gifts
        BY <2>1 DEF Accounts, Jobs
    <2>3. PICK n : n = IF done THEN users[k].gifts + 1 ELSE users[k].gifts
        OBVIOUS
    <2>4. /\ users' = [users EXCEPT ![k].gifts = n] /\ jobs' = [jobs EXCEPT ![k].left = jobs[k].left - 1]
        BY <1>11, <2>3 DEF Gift, RelayTypes
    <2>5. /\ users'[k].gifts = n /\ jobs'[k].left = jobs[k].left - 1
          /\ \A j \in Keys \ {k} : users'[j] = users[j] /\ jobs'[j] = jobs[j]
        BY <2>1, <2>4 DEF RelayTypes, Accounts, Jobs
    <2>6. users[k].gifts <= Gifts - jobs[k].left
        BY <1>1, <2>1
    <2>7. n <= Gifts - (jobs[k].left - 1) /\ n <= Gifts
        BY <2>1, <2>2, <2>3, <2>6, AccountAssumption
    <2> QED
        BY <1>1, <2>5, <2>7 DEF GiftsOnce
<1>12. ASSUME NEW k \in Keys, NEW sent \in BOOLEAN, Welcome(k, sent)
       PROVE  GiftsOnce'
    <2>1. users[k] \in Accounts /\ users[k] # None
        BY <1>12 DEF Welcome, RelayTypes
    <2>2. PICK w : w = (users[k].welcomed \/ sent)
        OBVIOUS
    <2>3. users' = [users EXCEPT ![k].welcomed = w] /\ jobs' = [jobs EXCEPT ![k] = None]
        BY <1>12, <2>2 DEF Welcome, RelayTypes
    <2>4. /\ users'[k].gifts = users[k].gifts /\ jobs'[k] = None
          /\ \A j \in Keys \ {k} : users'[j] = users[j] /\ jobs'[j] = jobs[j]
        BY <2>1, <2>3 DEF RelayTypes, Accounts
    <2> QED
        BY <1>1, <2>1, <2>4 DEF GiftsOnce
<1>13. CASE RelayRestarts
    BY <1>2, <1>13 DEF RelayRestarts
<1> QED
    BY <1>3, <1>4, <1>5, <1>7, <1>8, <1>9, <1>10, <1>11, <1>12, <1>13 DEF Next, Relay, Fault, Account
-----------------------------------------------------------------------------
Inv ==
    /\ RelayTypes /\ MachineTypes /\ AskTypes /\ AnswerTypes /\ Waiting /\ Phrases
    /\ MachineInv /\ Identities /\ GiftsOnce

(* The invariant holds at first, through stutters and through steps. *)
LEMMA InitInv == Init => Inv
<1> SUFFICES ASSUME Init PROVE Inv
    OBVIOUS
<1>1. RelayTypes
    BY DEF Init, RelayTypes
<1>2. MachineTypes
    BY AppEdits DEF Init, MachineTypes, Off, Disks
<1>3. \A m \in Machines : BagToSet(asks[m]) = {} /\ BagToSet(answers[m]) = {}
    BY EmptySet DEF Init
<1>4. AskTypes /\ AnswerTypes
    BY <1>3 DEF Init, AskTypes, AnswerTypes
<1>5. \A m \in Machines : app[m].pc = "off" /\ app[m].key = None /\ saving[m] = None
        /\ disk[m].key = None /\ disk[m].identity = None /\ disk[m].pin = None
    BY DEF Init, Off
<1>6. Waiting /\ Phrases
    BY <1>3, <1>5 DEF Init, Waiting, WaitsWithKey, Working, Phrases
<1>7. MachineInv
    BY <1>3, <1>5 DEF Init, MachineInv, FilesHold, FilesOf, RenamesAtHome, OthersOwn, Own, AsksOwn,
        AnswersOwn, JobsOwn, ShownOwn, SavingOwn, Shown
<1>8. Identities
    BY <1>5 DEF Identities, IdentityAgrees
<1>9. GiftsOnce
    BY DEF Init, GiftsOnce
<1> QED
    BY <1>1, <1>2, <1>4, <1>6, <1>7, <1>8, <1>9 DEF Inv

LEMMA StutterInv == Inv /\ UNCHANGED vars => Inv'
<1> SUFFICES ASSUME Inv, UNCHANGED vars PROVE Inv'
    OBVIOUS
<1> USE DEF vars, relay, people, Inv
<1>1. RelayTypes' /\ MachineTypes' /\ AskTypes' /\ AnswerTypes' /\ Phrases' /\ GiftsOnce'
    BY DEF RelayTypes, AddressOf, MachineTypes, AskTypes, AnswerTypes, Phrases, GiftsOnce
<1>2. Waiting'
    BY DEF Waiting, WaitsWithKey, Working
<1>3. FilesHold' /\ RenamesAtHome' /\ Identities'
    BY DEF MachineInv, FilesHold, FilesOf, RenamesAtHome, Identities, IdentityAgrees
<1>4. OthersOwn'
    BY DEF MachineInv, OthersOwn, Own, AsksOwn, AnswersOwn, JobsOwn, ShownOwn, SavingOwn
<1> QED
    BY <1>1, <1>2, <1>3, <1>4 DEF MachineInv

LEMMA NextInv == Inv /\ [Next]_vars => Inv'
<1> SUFFICES ASSUME Inv, Next PROVE Inv'
    BY StutterInv
<1>1. RelayTypes' /\ MachineTypes' /\ AskTypes' /\ AnswerTypes'
    BY RelayStep, MachineStep, AskStep, AnswerStep DEF Inv, MachineTypes
<1>2. Waiting' /\ Phrases'
    BY WaitingStep, PhrasesStep DEF Inv
<1>3. FilesHold' /\ RenamesAtHome' /\ OthersOwn'
    BY FilesStep, RenamesStep, OwnStep DEF Inv, MachineInv
<1>4. Identities' /\ GiftsOnce'
    BY IdentityStep, GiftsStep DEF Inv
<1> QED
    BY <1>1, <1>2, <1>3, <1>4 DEF Inv, MachineInv

(* The invariant on which everything below rests: requests, answers and      *)
(* registrations in flight, the save in progress and the files together.     *)
THEOREM Invariance == Spec => []Inv
BY InitInv, NextInv, PTL DEF Spec

(* The types of the directory (db.go) and of the machines (register.go,      *)
(* main.go).                                                                 *)
THEOREM TypeCorrect == Spec => []TypeOK
<1>1. Inv => TypeOK
    <2> SUFFICES ASSUME Inv PROVE TypeOK
        OBVIOUS
    <2>1. \A k \in Keys : jobs[k] = None
             \/ (users[k] # None /\ jobs[k] \in [to : Machines \cup {None}, left : 0 .. Gifts])
        BY DEF Inv, RelayTypes, Jobs
    <2>2. \A m \in Machines : BagToSet(asks[m]) \subseteq Requests /\ BagToSet(answers[m]) \subseteq Replies
        BY DEF Inv, AskTypes, AnswerTypes
    <2>3. \A m \in Machines :
            /\ app[m].pc \in {"off", "choice", "city", "recover", "pinsetup", "pin", "home", "rename"}
            /\ app[m].key \in Keys \cup {None}
        BY DEF Inv, MachineTypes, Apps, Screens, Shown
    <2>4. ASSUME NEW m \in Machines
          PROVE  disk[m] \in [key : phrases \cup {None}, identity : Addresses \cup {None},
                              pin : phrases \cup {None}]
        <3>1. disk[m] \in Disks /\ disk[m].key \in phrases \cup {None} /\ disk[m].pin \in phrases \cup {None}
            BY DEF Inv, MachineTypes, Phrases
        <3> QED
            BY <3>1 DEF Disks
    <2>5. \A m \in Machines : saving[m] # None => saving[m].key \in phrases
        BY DEF Inv, Phrases
    <2> QED
        BY <2>1, <2>2, <2>3, <2>4, <2>5 DEF TypeOK, Inv, RelayTypes, MachineTypes
<1> QED
    BY <1>1, Invariance, PTL

(* handleRegister pays its stamps once, however often enter is pressed,      *)
(* whatever connection is lost and whenever the relay restarts.              *)
THEOREM StampsPaidOnce == Spec => []GiftsOnce
<1>1. Inv => GiftsOnce
    BY DEF Inv
<1> QED
    BY <1>1, Invariance, PTL

(* The files written by SaveKeyFile, saveIdentity and clearPin belong        *)
(* together wherever a kill or a failed write fell, the exceptions that      *)
(* FilesAgree names (torn, hasty, stuck) apart.                              *)
THEOREM FilesBelongTogether == Spec => []FilesAgree
<1>1. Inv => FilesAgree
    <2> SUFFICES ASSUME Inv PROVE FilesAgree
        OBVIOUS
    <2>1. \A m \in Machines \ stuck : disk[m].pin \in {None, disk[m].key}
        BY DEF Inv, MachineInv, FilesHold, FilesOf
    <2>2. ASSUME NEW m \in Machines \ (torn \cup hasty)
          PROVE  IF disk[m].key = None THEN disk[m].identity = None
                 ELSE disk[m].identity \in held[disk[m].key] \/ saving[m] # None
        <3>1. IdentityAgrees(m)
            BY DEF Inv, Identities
        <3>2. saving[m] # None => saving[m].step \in 1 .. 3 /\ saving[m].key \in Keys
            BY DEF Inv, MachineTypes, Savings
        <3>3. CASE saving[m] # None /\ saving[m].step = 3
            <4>1. disk[m].key = saving[m].key
                BY <3>3 DEF Inv, MachineInv, FilesHold, FilesOf
            <4> QED
                BY <3>2, <3>3, <4>1, AccountAssumption
        <3>4. CASE saving[m] = None \/ saving[m].step < 3
            BY <3>1, <3>4 DEF IdentityAgrees
        <3> QED
            BY <3>2, <3>3, <3>4
    <2> QED
        BY <2>1, <2>2 DEF FilesAgree
<1> QED
    BY <1>1, Invariance, PTL

(* handleRegister, handleRecover and handleAuthResponse sign a connection in *)
(* for the account the screens show, whatever order answers arrive in, and   *)
(* that account has had the address they show.                               *)
THEOREM ConnectionIsOwn == Spec => []SessionIsShown
<1>1. Inv => SessionIsShown
    BY DEF Inv, MachineInv, OthersOwn, Own, ShownOwn, Shown, SessionIsShown
<1> QED
    BY <1>1, Invariance, PTL
==============================================================================
