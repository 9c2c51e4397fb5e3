# penpal: TLA+ models and proofs

penpal is a terminal letter-writing program with a relay server. Clients keep a
WebSocket to the relay, letters travel for days along a computed route, collectible
stamps are the postage, and a PostgreSQL database holds everything. This directory holds
TLA+ modules that model parts of that system, TLC configurations that check them on small
instances, and TLAPS proofs of theorems about them. Line numbers refer to the files under
`src/`; `PROJECT.json` maps every definition to the lines it models.

1. [Inventory](#1-inventory): the parts of the program, their state, what can go wrong
2. [Modules](#2-modules): how each module corresponds to the code
3. [Runs](#3-runs): what TLC checks, the bounds, the fairness
4. [Proofs](#4-proofs): what TLAPS proves, from what, and how
5. [Findings](#5-findings)
6. [What is not modelled](#6-what-is-not-modelled)

## 1. Inventory

### How the parts interact

    screens (Bubbletea) --Cmd/Msg--> Network (client) --WebSocket--> read loop of a connection
       |  drafts, pins, keys            pending requests                |  handlers
       v  (files)                       reconnection                    v
     disk                                                      Hub <-> sendCh, sendLoop
                                                                ^        |
      deliveryLoop, weeklyStampLoop, reapLoop (goroutines) ------+        v
                          |                                          PostgreSQL
                          +-----------------------------------------------^

A client's screens run their requests as asynchronous commands. `Network` gives each
request an identifier, writes it to the WebSocket and waits for the response with that
identifier. The relay serves one request at a time per connection; requests of different
connections, and the three background loops, run concurrently and meet only in the
database, in the hub (one mutex) and in the per-IP limiter (another). Pushes go through
the hub to a connection's bounded send queue.

### Components

| component | state | operations | hard behaviour | what makes it correct |
|---|---|---|---|---|
| Relay database (`db.go`, migrations) | users, messages, stamps, attachments, discoveries, contacts, blocks | one statement or transaction per operation | transactions interleave; partial failure rolls back; foreign keys with and without cascade; a ghost reaper that deletes rows | a stamp is in one place at a time, is not lost and not spent twice; no row another row needs is deleted; letters arrive, and not early |
| Sending a letter (`handleSendLetter`) | its own reads | contact, correspondence, block and limit checks, then a transaction | every check is stale when the letter is stored; row locks taken in request order; a timed-out send is repeated | limits and blocks overrun by a bounded number only; a repeated request sends nothing twice; nobody waits for ever |
| Weekly stamp (`awardWeeklyStamp`, `weeklyStampLoop`) | none of its own: last award read off the stamps still owned | hourly loop, goroutine at each sign-in | two awarders look before either mints; the stamp can be spent | one award per user and week; none in the first week |
| Delivery loop, `safeLoop` | none | deliver what is due, push | panics and restarts, late ticks, recipients connecting meanwhile | every letter arrives; a connected client learns of it |
| Ghost reaper | `last_active` | delete accounts idle 90 days that no letter names | accounts with stamps others received; the system account is a row like others | deletes nothing anyone needs |
| Registration, recovery and directory | users, discriminators; key, identity and PIN file of each machine | register, recover, rename, start, lock | no transaction spans the account, its stamps and the welcome letter; three files written one by one; answers in any order | the gifts are given once; the files of a machine belong together; a connection is the account its screens show |
| Connections (`handleWebSocket`, `Hub`, `IPRateLimiter`) | hub map, per-connection user, challenge, send queue; per-IP counters | connect, sign in, push, ping, leave | a connection is replaced while it serves a request, vanishes silently, has a full queue; eviction of counters | the hub has the live connection; what is gone is forgotten; counters equal reality |
| Client network (`network.go`) | connection, `connected`, pending requests | dial, authenticate, send, read loop, reconnect | reconnection while responses arrive; requests before re-authentication; old read loop on the new connection | each request gets its own response or an error, once |
| Compose screen and drafts | step, selected stamps, draft files | edit, choose, send, save | answers and errors reach whatever screen is open; the sending goroutine shares the text and a map with the screen | a text is not lost; a letter carries the stamps chosen for it; sending ends |
| Inbox, tracking, paging | pages, cursor, soft-delete flags, a list put aside | fetch, prefetch, open, delete | a date that many letters share; pages asked for twice; deletes between pages; a list that changes under a question | the list shows each letter once; `y` deletes the letter asked about; the cursor is on a letter |
| Routing and calendar | city graph, route with times | path, sampling, schedule | holidays, observed days, Sundays, facility hours, time zones, customs | times never decrease and fall into opening hours; customs for international letters |
| Keys, ciphers | key files | derive, encrypt, pin keys | little beyond the files, which belong to registration | |
| Screens, tools, protocol types | per-screen state | rendering, set-up | little | |

The hazards that tests would hardly reach are listed, each at its line, in
`PROJECT.json` under `hazards`. A hazard without a property says why: where the code simply
has the fault and nobody says otherwise, a property excepts it by name and says what holds
besides; the note then says which part of the hazard it does not cover.

## 2. Modules

| module | models | extends / instantiates |
|---|---|---|
| `PostOffice` | abstract specification: where stamps and letters may go | |
| `Mail` | the tables: one action per operation that changes accounts, letters or stamps | instantiates `PostOffice` |
| `SendLetter` | the send handler query by query, its transaction statement by statement | instantiates `PostOffice` |
| `Weekly` | the weekly stamp: the loop, sign-ins, the two queries | |
| `Hub` | connections, sign-in, hub, send queues, the delivery loop's pushes | |
| `RateLimiter` | the per-IP counters | |
| `Exchange` | abstract specification: what a request of the client is promised | |
| `Network` | the client's connection, pending requests, read loops, reconnection | instantiates `Exchange` |
| `Account` | registration, recovery and renaming: relay, screens, files | |
| `Compose` | the compose screen, drafts, sending goroutines | |
| `Inbox` | the list of letters, its pages, deletion | |
| `PostalCalendar` | holidays, opening hours, delivery windows | |
| `Route` | the schedule of a letter's route | extends `PostalCalendar` |
| `MC_*` | constants of the runs | extend the module they name |
| `MailProofs`, `SendProofs`, `AccountProofs`, `ComposeProofs`, `NetworkProofs`, `InboxProofs` | theorems | extend the module they name (`SendLetter` for `SendProofs`) |
| `ConnectionProofs` | theorems | extends `Hub` and `RateLimiter` |
| `CalendarProofs` | theorems | extends `Weekly` and `Route` |

Each modelled module marks its deliberately wrong variants `Mutant:` or `Faulty:`. They are used by
no action; exchanging one for the definition it stands before must break the property
`PROJECT.json` names, which shows that the property depends on that code.

### PostOffice and Mail

`PostOffice` says what users are promised. A stamp is *nowhere*, in an album, or on a
letter. It is issued into an album; posting takes it from the sender's album to a letter;
arrival takes it to the recipient's album; an account no letter names may vanish with its
album.

`Mail` is the database below that promise. `owner` is `stamps.owner_id` (`InMail` is
NULL, `Unissued` is no row), `letter[l].stamps` the attachment rows, which stay for ever.
So a stamp that is posted a second time is attached to several letters, and where it is
follows only from `owner` together with the letters that travel: `Place` is the refinement
mapping. The actions are `CreateUser`, `CreateStamp` (two statements, the second of which
may fail unnoticed: `discovered` may miss a minted type; the weekly award does not leave
the system account out), `CreateMessage` (whole
transaction, db.go:333), `CreateWelcomeMessage`, `DeliverMessages` (db.go:414: statuses,
owners, `earned_via` and discoveries in one transaction), `MarkRead`, `ReapGhostAccounts`
(any set of ghosts may be idle long enough). Row identifiers are re-used after deletion,
which only adds behaviours. What the operations cost the caller (errors, formats) is left
out, except that a disallowed call changes nothing and so is no step.

### SendLetter

A *session* is one handler at work for an authenticated user. One user can have several:
`Hub.Register` closes the socket of a replaced connection (server.go:254), but the handler
that connection was serving goes on, as its context is cancelled by nothing but its own
read loop and pings. The program counter follows the code: contact, otherwise
correspondence (`IsContact`, `HasReceivedFrom`), block, pair limit, total limit
(`CheckRateLimit` runs two queries), `InsertMessage`, one `AttachStamp` per stamp with
`SELECT ... FOR UPDATE`, `Commit`. Each query sees what is committed at that moment (READ
COMMITTED). `GiveUp` is every refusal and failure: the transaction is rolled back and the
locks are free. PostgreSQL's deadlock detector is `DeadlockVictim`. Contacts, blocks and
deliveries change at any time. Repeating a request after a lost answer is simply another
`Request` with the same stamps. `begun` keeps the transaction's `now()`, which is what
`sent_at` gets. Routes and message bodies are left out: no check depends on them.

### Weekly

`award` records every weekly stamp ever minted; `held` says whether its owner still has
it. The queries see held stamps only, as the code's do. `Look` is
`GetLastWeeklyStampTime` and its comparison, `Mint` is `CreateStamp`, and anything may
happen between them. `ListUsers` and `Visit` are the loop's query with its LIMIT and its
walk over the result; `SignIn` starts the goroutine of `handleAuthResponse`. `Fail` and
`Restart` abandon work.

### Hub

One action per thing that happens to a connection. `link` is the socket ("silent": the
peer is gone and nobody has noticed), `phase` the position of the handler. `Receive` takes
the next request; which one it was is decided when the handler acts, because until then
nothing depends on it. `HandleAuth`, `HandleAuthResponse`, `HandleRegister`,
`HandleRecover` and `HandleGetInbox` are the handlers that matter to the hub and to what a
client knows, `Refuse` is every error. `HubRegister`, `HubUnregister`, `SendToUser` are the
hub's methods, each under its mutex and so one step; `Answer` is `sendResponse` and
`sendError`, which give up after ten seconds when the queue is full, `Enqueue` is
`Client.Send`, which never waits. `DeliverMessages` is the transaction (its inside is in
`Mail`) and `pushes` the part of its batch the loop still has to push. `seen` and
`fetched` record what reached the other end. A handler on a lost connection runs to its
end and may still sign in; that is what makes the hub's rule interesting. Any connection
may sign in as any account, and as several one after another: the relay does not forbid it.
An inbox response shows all letters of the user: paging is in module `Inbox`.

### RateLimiter

The counters of one map under one mutex (`LimitsInit`, `LimitsNext`, `LimitsSpec`, `limits`
name its initial states, steps, specification and variables, so that one module of proofs
can extend it and `Hub`; `RouteSpec` and `route` likewise). `open` is the truth the counters are meant to
follow: connections whose `handleWebSocket` was let in and has not returned. `Cleanup`
evicts what nobody holds and nobody used for a window. `grant` records who was granted
registrations and when.

### Exchange and Network

`Exchange` is what a screen may rely on: a request is carried out at most once, it ends
once, and it ends well only if it was carried out.

`Network` is `network.go`. Callers are the goroutines of commands. A call that needs the
network goes through `ensureConnected` (network.go:84): it takes `reconnMu`, looks again,
waits out five seconds since the last attempt (`cool`), closes the old connection
(`Teardown`), fails every pending request by closing its channel (`FailPending`), dials
and signs in again with two requests of its own. A request is then registered under its
identifier, written and awaited: `Register`, `Write`, `Answered`, `Timeout`. Each dialled
connection has a read loop; it reads `n.conn` anew in each turn, so after a reconnection
two loops may read the same connection. `Read` takes a frame off that connection,
`Deliver` puts it in the channel of its identifier, which panics if that was closed in
between. `Serve` is the relay, which answers the requests of a connection in order and
knows whether it is signed in; `Break` is the network. A read under a cancelled context
closes the socket, as the WebSocket library does. The invariants' ghosts are `carried`,
`outcome` and `lapsed` (a sign-in failed on a connection that stayed open). Registration
and recovery, the first connection's sign-in and every other request go the same way; the
wrappers that encode and decode are left out. Left out too: `MarkRead`, which nobody
waits for (its effect is in `Mail`), and `Close` at exit. A `Write` is one step.

### Account

One action per key press that changes something, per request at the relay and per write
to disk. `users` is the directory, `jobs` a registration of which the relay has so far
created the account, with the stamps left to give; the welcome letter is last.
`asks` and `answers` are bags, since each request has a goroutine of its own. `saving` is
the sequence PIN, key, identity that follows registration and recovery (`clearPin`,
`SaveKeyFile`, `saveIdentity`); an error of the second ends it, an error of the third is
not looked at. `Start` is the program's start: a key without an identity ends it at once,
a failed sign-in leads to registration. `Elsewhere` are other machines with the same
phrase, `Reap` the ghost reaper, `Lose`, `Kill` and `RelayRestarts` the faults. `held`
remembers the addresses an account has had, `torn`, `stuck` and `hasty` are the machines whose
files or session may disagree: a save ended or failed between the key and the identity;
`RemovePin` failed, whose error `clearPin` ignores (pin.go:32) while the save goes on, so
the old PIN stays beside the new key; the user moved on from a recovery not answered yet
(`recoveredMsg` takes the account of the answer and the key of the phrase entered last,
register.go:345).

Simplified: a file is written whole or not at all; one instance of the program on a machine; unlucky draws of a discriminator are a
request that fails. The home city is left out, and so are the ages of `last_active`.

### Compose

`compose` is the screen's model or `Closed`: any other screen, which lets the compose
messages fall. A key that leaves a screen only returns a command; its message
(`switchScreenMsg`, `composeToMsg`, `trackLetterMsg`) is `coming` until it arrives, and
replaces whatever screen is there then (`Arrive`). Until that moment the old screen takes
keys, so `esc` saves the draft (`LeaveBody`) and the text can still be edited, and a key
pressed twice sends two messages. `SaveDraft`, `DeleteDraft` and the loading of a draft may
fail, and a failed write may leave a file cut off, which loads as nothing: compose.go drops
all three errors.

`sends` are the goroutines of `sendLetter`: in `pc = "key"` they have not
read the text and the map of selected stamps yet, which they share with the screen until
it replaces its own (`OwnMap`, `Own`); `ReadLetter` reads both, and may meet a change at
the same moment, which the runtime makes a crash. `Sent` and `Failed` are the messages
that come back, to whatever screen is there: `letterSentMsg` names no letter. `fetches`
are loads of stamps and shipping options, whose errors any stamp step takes for its own.
`live` holds the versions of text that are to be kept; a version leaves it when it is
rewritten, erased or posted, and in the three ways in which the code loses it (see
`NoTextLost` below). `strayed` marks a stamp step that was left while its letter was under
way.

Left out: the contact list, shipping estimates, the word limit, the view of the original.
Killing the program is no action: only `esc` saves, so a
kill loses a text that was not left before (ARCHITECTURE.md:126 calls the drafts
auto-saved). Two things the model allows that a reader should know: any error that
arrives at the stamp step makes it sendable again while its letter is under way, so a
letter can be posted twice if its stamps suffice (the relay refuses a stamp used twice,
module `SendLetter`); and after `esc` at the stamp step a letter under way is posted while
its draft stays.

### Inbox

`at` is the delivery pass of a letter, which is its date: all letters of a pass share
`delivered_at`. `loads` are commands on their way: `Look` takes what the database has at
that moment, `Loaded` shows the answer in whatever list is there. A page goes on strictly
before the date of the last letter (db.go:495). `inbox` is the list on the screen, `cached`
the one put aside while a letter of it is read or answered. As in `Compose`, a key that
changes the screen only sends a message (`coming`), and `Arrive` is what tui.go does with it
at whatever screen is there: the list is put aside if the screen is the inbox's
(`PutAside`), so a letter can be read with no list aside or with an older one, and
`ShowInbox` shows the list put aside or loads a new one. `maybePrefetch` sets
`loadingMore` on a copy of the model, so the flag is never seen and the same page may be
asked for again. Ghost fields say what the properties excuse: `cuts` are dates at which a
page ended, `mixed` and `again` that a page was appended to a list it does not follow.

Left out: the marks of unread letters; errors, which hide the list while its keys go on
working; deletion from another machine. The list of sent
letters (`SentModel`) and the address book have the same code. What the run shows about
the code, besides its properties: letters of one pass that fall on a page's end are
skipped; a page asked for twice lists letters twice; a page that arrives after a
deletion's reload leaves a gap; a list emptied above its cursor sets the cursor to -1, and
letters that arrive then end the program (`emptied`, `crashed`); the list put aside for a
reply stays aside when the reply is posted, and the next opening shows it as it was.

### PostalCalendar and Route

A year is its type, the weekday of January 1 and whether it leaps: all fourteen. Times are
half hours from the year's beginning, in UTC; a city's zone is added. `PostalCalendar` has
the holidays with their observed days and the windows of facilities and carriers; `Route`
takes one step per turn of `scheduleHops`: pick-up, the first facility, a leg, the opening
of a facility, the dwell time spent in facility hours, customs, delivery. A path is the
number of its cities, from which `SelectFacilityHops` picks the facilities. Legs, dwell
times and zones take any of a few values, in place of distances, random draws and time zones.
Daylight saving is left out; so are the graph, its search and the estimates.

Observed while modelling: customs belongs to the hop after the first city and is
skipped when that hop is no facility, so international letters over long paths pass no
customs at all, although dijkstra.go:37 says that customs delays are added
([finding](#5-findings)); `CustomsOnShortPaths`, a definition no run checks, has the exact
lengths; customs days are spent as opening hours (10 x 24 hours, so
a day of customs is more than a day of work); a letter sorted
between 17:00 and 18:00 is in time for the dispatch at 18:00, which dijkstra.go:60 says
goes out the same day, but processing starts at 17:00 at the latest, so it waits for the
next working day; a holiday on a Saturday is observed on Friday and is itself a working day.

## 3. Runs

| run | configuration | states | what it shows |
|---|---|---|---|
| `mail` | 2 users and the system account, 2 letters, 2 stamps of different types, clock 0..2 | 63 k | the tables' invariants, the refinement of `PostOffice`, and that every letter arrives |
| `send_races` | 2 handlers of one user, 3 letters, 2 stamps named alone and together in either order, limits 1, clock of 2 | 255 k | how far the limit for a recipient and a block can be overrun; each stamp leaves its album once; every request ends |
| `weekly` | 2 users, loop and one sign-in goroutine, 3 awards, week 2, clock 0..4 | 62 k | what the award does guarantee |
| `weekly_ledger` | 1 user, the loop alone | violation | two awards in one week ([finding](#5-findings)) |
| `limiter` | 1 address, 3 connections of which 2 fit, 2 registrations a window, window 2, clock 0..7 | 9 k | counters equal reality; registrations bounded |
| `hub` | 1 user, 2 connections, 1 letter, queues of 1 | 308 k | the hub, what a client knows, and that lost connections leave |
| `network` | 2 callers, 2 connections, 5 request identifiers | 85 k | the refinement of `Exchange`, and that every call returns |
| `account` | 1 machine and those elsewhere, 2 phrases, 2 names and 2 discriminators of which half are taken, 2 requests or answers in flight | 1.7 M up to symmetry | what files, screens and relay say of an account |
| `compose` | 2 recipients, 1 stamp, 2 versions of text, 1 letter being sent, 2 loads, 1 message on its way to each screen | 630 k | texts, stamps and the end of sending |
| `inbox` | 3 letters, 3 passes, pages of 1, 2 loads, 1 message on its way | 4.7 M | the list, the question before a deletion, the cursor |
| `route` | all 14 years, letters sent around July 1, November 8, December 23 and 27 at 3:30, 16:30 and 22:30, paths of 1 to 12 cities, every tier | 4.8 M | opening hours, delivery windows |
| `route_customs` | 1 year, paths of 4 and 8 cities | violation | an international letter without customs ([finding](#5-findings)) |

### Properties

*mail.* `StampCustody`: a stamp has no owner exactly while one travelling letter carries
it. `NothingDangles`: the reaper leaves every row that letters and stamps refer to.
`TransfersDiscovered`: who was given a stamp has its type in the collection. `KeepsThePromise`: the refinement. `EveryLetterArrives`:
whatever happens to a letter on the way, such as a mark_read that names it too early,
it stays in the delivery loop's reach. That no letter arrives before its release
(`NeverEarly`) is proved and not run.

*send_races.* The limits are counted before the letter is stored, so they cannot hold
exactly: a handler still at work for a replaced connection and one of its successor both
pass, though db.go:679 says "max 10 per day". `PairLimitSlack` says by how much the limit for one
recipient can be overrun: the fresh letters plus the handlers past the count stay below
the limit plus the user's handlers. `BlockSlack` says the same of letters that get through after a block.
`StampsKeepThePromise` is `PostOffice` step by step, for committed rows, under every
interleaving of the transactions' statements. `EveryRequestEnds`: transactions that lock the same stamps in opposite
orders wait for each other until one is aborted, and both handlers end.

*weekly.* `FreshStampsBounded`: the race can give a user at most one fresh stamp per
awarder at work. Proved and not run: a new account has no weekly stamp in its first week
(`FirstWeekHasNone`), and the award's own query and the loop's query, written separately
in SQL, agree (`OnlyTheNeedyAreServed`).

*limiter.* `ConnsCounted`: counter and open connections are the same number, whatever is
evicted in between. `RegistrationsBounded`: the window starts anew with the first request
after it has run out, so two windows' worth of registrations can fall into one window's
length, but never more, though eviction drops the counter altogether.

*hub.* `LiveIsRegistered`: a connection that is signed in and not lost is the one the hub
has. `GoneIsForgotten`: the hub keeps no connection that has gone for the user it was
signed in as. `NothingMissed`: a connected client that was sent its inbox knows every
delivered letter, unless its push found the queue full: delivery commits before it pushes,
sign-in registers before the client can ask for the inbox. `LostConnectionsLeave`: a
connection whose client is gone, or that was replaced, leaves, even with a handler at work
and a full queue.

*network.* `RequestsAreExchanged`: the refinement of `Exchange`, so an answer of an
abandoned request or of an earlier connection is never taken for another's.
`ConnectedIsSignedIn`: requests go out on a connection that is not signed in only while a
sign-in is under way. `PanicNeedsLapse`: the read loop can send on a closed channel, which
ends the program, but only after a repeated sign-in failed on a connection that stayed
open. `EveryCallReturns`.

*account.* `GiftsOnce`: enter pressed twice, lost connections and restarts of the relay
never give an account more than one registration's stamps (fewer they can). `FilesAgree`:
the identity on disk is an address that the account of the key on disk has had, but on
`torn` and `hasty` machines; and the PIN was set for that key, wherever a kill or a failed
write fell, but where an earlier PIN could not be removed (`stuck`). `SessionIsShown`: the
account the relay takes a connection for is the one on the screen, but on `hasty` machines.

*compose.* `NoTextLost`: a text that is not posted, rewritten or erased is on the screen
or in a draft, unless it was lost in one of three ways the code has: its draft could not be
written or read and the error was dropped (compose.go:535, 550); it was written after `esc`, or
another key that leaves, had sent the message that replaces the screen; or the answer for
another letter closed the screen it was on. That there is no fourth needs the drafts of
several threads, saved, loaded, overwritten and deleted over screens that replace each
other, to keep apart. `PaidAsChosen`: a letter carries the stamps selected when it was sent,
whatever is done on the screen meanwhile, short of going on selecting in the same step.
`EverySendEnds`: a stamp step that is sending and is not left ends.

*inbox.* `ListIsFaithful`: no letter missing down to the last one shown, none twice, newest
first; the three ways in which the code gets it wrong are excused by name, so the property
says that there is no fourth. `DeletesAsAsked`: the letter deleted is the one that was
asked about, unless an answer came between question and `y`, also when the list with the
question on it was put aside and shown again in between. `CursorOnList`.

*route.* `LettersMoveInOpeningHours`: time never runs back, no facility works and no
carrier comes outside hours, on a Sunday or an observed holiday, and no delivery is later
than the first window it can make; the holidays are defined a second time here, by what
the law says ("the third Monday"), not by the code's arithmetic.

### Bounds

Each bound is a constant named in the configuration. They are small but past the point
where the cases happen: a stamp can be posted, delivered and posted back (two users, two
letters); one stamp of two can be refused; both limits can be met by one letter and
overrun by a second (limits 1, two handlers); a week and the time after it fit in the
clock; a window can run out twice; a queue can be full of a response, of a push or of an
inbox. `MaxTime` bounds the clock. With one user in `hub`, clients
that change users are left to the proof, which covers them. In `send_races`, a request is
made only while there is a letter left for every handler at work, so that no handler waits
for the bound. In `network`, five identifiers
are enough for a first sign-in (two), its repetition on a second connection and a request
between them; with two connections an old read loop meets a new connection.
In `account`, every renaming may collide, and a machine can hold each of two accounts in
turn; the keys, and the two addresses left together, are interchangeable, which the run's
`SYMMETRY` says and its model values allow. In `compose`, two recipients and two texts are what it takes to save one over the
other; a letter that was left while it is under way meets the stamp step of the other
recipient; and one message on its way to each screen lets every screen be replaced twice at
once. In `inbox`, pages of one letter put a page's end at every place, and three passes make
the gap between two pages; a message on its way leaves its screen open to every key and
answer. Two messages at once, so that one finds a screen another one made and a letter can
be read with no list aside, are left to the proofs, which cover all four properties; an
instance with 2 passes and two messages on their way (7.3 million states, not kept, for its
length) passed too, as did one with 4 letters and pages of 2.
In `route`, the dates lie before the holidays that can be observed on another day and
reach over the new year; paths of 4, 5, 6, 7 and 8 or more cities are the borders of the
facilities' choice. `route_customs` has a length at which every tier passes customs and
one at which none does. Symmetry is used for awards, registrations, connections, keys and
letters, in runs without liveness. `CHECK_DEADLOCK FALSE` is set since a bounded world ends
when the clock stands, the bounds are used up or the letter has arrived.

### Fairness

| run | assumed | why the code justifies it |
|---|---|---|
| `mail` | weak fairness of `Tick` and `DeliverMessages` | time passes; the loop has a ticker, and `safeLoop` (server.go:135) restarts it after a panic. Nobody has to register, post or read |
| `send_races` | weak fairness of a handler's steps and of `DeadlockVictim`, strong fairness of `AttachStamp` | goroutines run; PostgreSQL queues those who wait for a row lock, so a handler is not passed over for ever, and finds every deadlock. Nobody has to ask, deliver or disconnect |
| `network` | weak fairness of a call's steps, strong fairness of `Lock` | goroutines run, requests have a timeout of 30 s (network.go:193), and Go's mutex hands itself to a waiter that is passed over for long. Nothing is assumed of the relay or the network |
| `compose` | weak fairness of a sending goroutine's steps, of its answer's arrival and of a message that replaces the screen | a request returns (`EveryCallReturns` of `Network`), and the program's loop takes its messages. Nobody has to press a key |
| `hub` | weak fairness of `Notice`, of the handlers, of `Answer` and `Leave` | a ping is sent every 30 s and fails within 10 s (ws.go:187), handlers end, `sendResponse` has a timeout (ws.go:228), a read on a closed socket fails. Clients need not send, and `Write` need not succeed |

## 4. Proofs

All theorems hold for every value of the constants under the named assumptions
(`MailAssumption`, `SendAssumption`, `WeeklyAssumption`, `LimiterAssumption`,
`HubAssumption`, `NetworkAssumption`, `AccountAssumption`, `ComposeAssumption`,
`InboxAssumption`, `RouteAssumption`), which say that sets the code counts are finite,
sentinels are not values, and limits are positive. `RouteAssumption` also says that no letter
is sent in the first two days of the modelled year: a zone is at most a day either way, and no
clock on the route may show a day before the year it is counted from. The code has no such
limit, because its dates go on into the past; in the model the first days of January are
those that follow the year's last.

**MailProofs.** The inductive invariant is `TypeOK /\ StampCustody /\ NothingDangles /\
KeepersAreNamed`. `NothingDangles` alone is not inductive: the reaper deletes an account
and by cascade its stamps, and a stamp may be attached to an old letter. `KeepersAreNamed`
closes the gap: whoever owns a stamp that some letter carried is the recipient of a letter,
hence no ghost. From it follow `StampsAreConserved`, `ReapingIsSafe`, `NoLetterIsEarly`
and `ReceivedStampsAreDiscovered`. `TheTablesKeepThePromise`: `Mail` implements `PostOffice`
under `Place`. Every action maps to one abstract action or to a stutter; the invariant makes the letter
that carries a stamp unique, so that `Place` is well defined.

**SendProofs.** `ThePairLimitGivesWay` and `ABlockHolds`: the bounds on how far a limit and a
block can be overrun, for any number of handlers. A handler passes the count only while
fewer letters than the limit are fresh, and at that moment no more handlers are past it
than there are handlers; at its commit its place goes to its letter (`TradesPlaces`); all
other steps leave fewer. The block's bound needs `LateIsBlocked` (before there is a block no
letter is late), the types need `Underway` (a handler at work has a recipient, stamps, and a
place among them) and `Addressed` (a stored letter has a recipient, who gets its stamps).
`TheHandlersKeepThePromise`: the handlers together implement `PostOffice`, the module `Mail`
implements too, so both descriptions of posting keep one promise. It needs `Custody`: the
rows of the stamps a transaction attached are locked by it and still its user's, so no other
transaction can have attached them (`Holds`); and a stamp without an owner is on exactly one
travelling letter (`Carried`). Hence a commit is one `Post` with all its stamps, a delivery
is one `Arrive` of all its letters, and whatever is rolled back was never seen.

**CalendarProofs, the weekly stamp.** `FreshStampsStayBounded`: each minting awarder counts itself before it
mints and its stamp afterwards; an awarder begins to mint only when the user has no fresh
stamp, so at that moment only the other awarders count. `NoStampInTheFirstWeek` needs
`WaitsAWeek`: an awarder about to mint has found a week-old account. `TheQueriesAgree`.

**CalendarProofs, the route.** The calendar first, for all fourteen kinds of year and every
day: in which month a day falls (`MonthIs`), which days of a month are one weekday
(`AreIs`) and that counting to the kth of them and the arithmetic of `NthWeekday` find the
same day (`KthIs`, `NthIs`), and the same for the last Monday of May and for dates moved off
a weekend (`FixedIs`). Together they are `TheHolidaysAreMeant`: the code's test of a day by
its month finds the holidays as the law states them. `ABusinessDayComes`: no Sundays and
holidays fill six days on end, so the loop of `advanceToBusinessDay` ends and the bounded
search of the model leaves nothing out. `LettersKeepTheHours` (`LettersMoveInOpeningHours`)
follows with one lemma for each function of the calendar (`SnapsToHours`, `TurnsInHours`,
`PicksUpLater`, `DeliversInTime`): it returns a time no earlier than the one it was given,
inside its window. Its invariant is `Timed`: the local clock is never before the year. The
run looks at a dozen moments of a year and a few distances; the theorem is about all of
them. `CustomsAreForShortPaths` states exactly which international letters the code sends through
customs (`CustomsOnShortPaths`), the general form of what `route_customs` shows of one letter:
none over two cities, and none over eight or more (seven for priority, five for express). It needs `OnTheWay`, which fits hop and step together, and
`FirstHopIsAStop`, a case for each number of cities after sampling.

**ConnectionProofs, the limits.** `ConnectionsAreCounted` is inductive with `LimitsTypeOK`.
`RegistrationsStayBounded` needs `WindowsTruthful`: an entry's `regs` is the number of
registrations since its window began, the window before it held no more than the limit,
and an address without an entry has no registration in the last window's length. The last
part is why eviction is harmless: it asks for a window without any use.

**ConnectionProofs, the hub.** `TheLiveAreRegistered` and `TheGoneAreForgotten` are inductive with `TypeOK`
and `Blank` (a connection yet to come has no state). `NoLetterIsMissed` needs two more
invariants. `InboxesRegistered`: while a connection is up, once an inbox of a user was
promised to it (read, queued or sent), the hub has it for that user, so no push passes it
by. `InboxesComplete` then follows the inbox from the database into the response, the
queue and the screen.

**NetworkProofs.** The inductive invariant follows what `reconnMu` and the request
identifiers are for. `Locked`: the holder of the lock, and nobody else, reconnects or signs
in, and until there are credentials there is one call on at most one connection.
`LoopsEnd`: until a sign-in has failed, only the latest connection's read loop runs, and only
while the client is connected; that is `NoPanicWithoutLapse`. `IdsApart` and `OnWireOnce`:
an identifier belongs to one caller and one message. `AnswersAreTrue`: a good answer, on its
way back, in a read loop or in a channel, is to a request the relay carried out; if it is to
the last round of a sign-in, the relay signed the client in on the connection in use, because
that message was written to it while the lock kept every other dial out. From this follow
`ConnectedMeansSignedIn` and `ImplementsExchange`: a request answered by the relay maps to
`Exchange`'s carrying out, a call's return to its outcome, everything else to a stutter.
The theorems are about `Spec`, hence about the fair specification of the run too.

**ComposeProofs.** The inductive invariant adds `InStep` (stamps are selected only in the
stamp step, nothing is written before there is a recipient), `DraftOnScreen`, `TextIsSafe`
and `Pressed` to the properties. `DraftOnScreen` is what `NoTextIsLost` needs: a draft whose text is
still wanted and whose thread is on the screen is the text on that screen, so that saving
over the draft loses nothing. `TextIsSafe` carries it over the time between `esc` and the
message: while a message that replaces the screen is on its way, a text on the screen that is
to be kept is in a draft, so that the message, whichever it is and whenever it arrives, takes
nothing away. `Pressed` is what `LettersPayAsChosen` needs: a goroutine that
has not read its letter yet still sees the stamps it was started with, unless the writer
selected others in the same step; the map it shares with the screen is replaced, never
changed, when the step is left.

**AccountProofs.** `StampsPaidOnce` is inductive with the types of the directory.
`FilesBelongTogether` and `ConnectionIsOwn` rest on `OthersOwn`: for a machine whose user
waited for every recovery, the requests, answers and registrations under way are for the
key that machine holds. The key changes only on screens where nothing can be under way
(`QuietAtChoice`): the choice and the recovery screen, which nothing but a recovery asks
from. Hence what an answer signs in, and what it makes the machine save, is that key.
`FilesHold` follows a save through its three writes (no PIN once the old one is cleared,
unless the machine is known as `stuck`, the
saved key on disk before its identity), and `Identities` says the identity is the key's
except between the last two, which is where a kill tears it. `Waiting` and `Phrases` are
needed for the types: a program that is off waits for nothing, and waits with a key only
somebody wrote down.

**InboxProofs.** Every property of the run, for any letters, page sizes and numbers of loads
under way. But for the types they are not inductive alone. `TheListIsFaithful` needs to know that what is on its way
is true: `PagesTrue` says of every page asked for that it names a date that has been, and of
every answer that it has all letters delivered by the pass at which it was looked up, newest
first, with none missing down to its oldest one; letters delivered later are later than the
answer knows (`NowGoesOn`), letters deleted later only leave less to be missed. Appending
such an answer to a list that ends where it begins keeps the list faithful, and so does
replacing the list by it; `ListsTrue` says so of the list on the screen and of the one put
aside, which comes back as it was. `DeletionsAreAsked` needs `Asked`: until an answer moves
the list, the question is about the letter at the cursor, on the list shown and on the one
put aside, which may be put aside with its question on. `TheCursorIsOnTheList` needs `Cursors`, which also says what
an empty list's cursor is and that it is at -1 only after a list was emptied above it.
`PassesCounted` makes the model's `Now` the last pass. The whole invariant was checked as an
invariant of the run before it was proved.

Only model-checked: liveness (`EveryLetterArrives`, `EveryRequestEnds`,
`LostConnectionsLeave`, `EveryCallReturns`, `EverySendEnds`), which is out of the prover's
reach. Every invariant, action property and refinement that a passing run checks is also a
theorem.

## 5. Findings

* **Two weekly stamps in a week** (ws.go:573, db.go:829). "awards 1 random common/state
  stamp if 7+ days since last weekly award". The last award is read off the stamps the user
  still owns; posting a stamp clears its owner, and the next hourly pass finds nobody's last
  award but the account's creation. Run `weekly_ledger`.
* **International letters without customs** (dijkstra.go:292, 300). "When international is
  true, customs delays are added to the transit time" (dijkstra.go:37-38), as `TransitDays`
  adds them to the estimate the sender is shown (dijkstra.go:28-30). `scheduleHops` adds them at
  hop 1 alone, and only if that city is a sorting facility. A path of two cities has no stop
  there, and of a path of eight cities or more (seven for priority, five for express) hop 1 is
  not chosen: these letters are scheduled as domestic ones are. Run `route_customs`; theorem
  `CustomsAreForShortPaths` has the exact lengths.

Disagreements that no run of its own shows are named with their modules above: the daily
limit (`SendLetter`), drafts that are not auto-saved (`Compose`), and the 18:00
dispatch (`Route`).

## 6. What is not modelled

Not to be modelled: rendering, styles, wording; the ciphers and key derivation (library
calls without state of their own); the data generators under `cmd/`; the command-line
set-up; the graph of cities, whose search is a plain Dijkstra over distances in floating
point, and the shipping estimates. Of the relay: routes are abstracted to a release time in
`Mail`; HTTP and the WebSocket library are known by what the code makes of them. The
screens for tracking, stamps and contacts load once and change nothing but what `Inbox`
and `Account` have. What each module leaves out is said in its section.

`Network` and `Hub` meet at the socket. Their composition is left out: what each assumes of
the other (answers in order, a sign-in per connection) is a few lines in both, and the
product of their states is large.
