--------------------------------- MODULE Hub ---------------------------------
(***************************************************************************)
(* Connections to the relay: the loop of handleWebSocket and its handlers  *)
(* for signing in and reading the inbox (internal/server/ws.go), the hub   *)
(* of signed-in connections and the delivery loop's pushes                 *)
(* (internal/server/server.go).  Each connection serves one request at a   *)
(* time; a connection that was replaced or lost goes on with the one it    *)
(* has, and leaves when it next reads.                                     *)
(***************************************************************************)
EXTENDS Naturals, Sequences

CONSTANTS
    Conns, Users, Letters,
    To,        \* the recipient of each letter
    QueueSize, \* capacity of a connection's sendCh
    Nobody     \* no user, and no connection

ASSUME HubAssumption ==
    /\ To \in [Letters -> Users]
    /\ QueueSize \in Nat \ {0}
    /\ Nobody \notin Conns \cup Users

VARIABLES
    link,      \* the socket: "none", "up", "silent" (peer gone, unnoticed), "broken"
    phase,     \* where the handler is
    user,      \* Client.userID
    pending,   \* Client.pendingUser
    reply,     \* the response being queued
    queue,     \* Client.sendCh
    hub,       \* Hub.clients
    accounts,  \* rows of users
    delivered, \* letters delivered, in the database
    pushes,    \* delivered letters the delivery loop has yet to push
    dropped,   \* history: letters whose push found a full queue
    seen,      \* letters the client of a connection was told of
    fetched    \* the user whose inbox it was sent, if any

session == <<link, phase, user, pending, reply>>
mailbox == <<delivered, pushes, dropped>>
screen == <<seen, fetched>>
vars == <<session, queue, hub, accounts, mailbox, screen>>

Phases == {"waiting", "reading", "handling", "replying", "gone"}
Messages == [of : Users \cup {Nobody}, letters : SUBSET Letters]

Ack == [of |-> Nobody, letters |-> {}]
Push(l) == [of |-> Nobody, letters |-> {l}]
Inbox(u) == [of |-> u, letters |-> {l \in delivered : To[l] = u}]

Init ==
    /\ link = [c \in Conns |-> "none"]
    /\ phase = [c \in Conns |-> "waiting"]
    /\ user = [c \in Conns |-> Nobody]
    /\ pending = [c \in Conns |-> Nobody]
    /\ reply = [c \in Conns |-> Ack]
    /\ queue = [c \in Conns |-> <<>>]
    /\ hub = [u \in Users |-> Nobody]
    /\ accounts = {}
    /\ delivered = {} /\ pushes = {} /\ dropped = {}
    /\ seen = [c \in Conns |-> {}]
    /\ fetched = [c \in Conns |-> Nobody]
-----------------------------------------------------------------------------
(* The socket. *)

Connect(c) ==
    /\ phase[c] = "waiting"
    /\ phase' = [phase EXCEPT ![c] = "reading"]
    /\ link' = [link EXCEPT ![c] = "up"]
    /\ UNCHANGED <<user, pending, reply, queue, hub, accounts, mailbox, screen>>

(* The client vanishes without a close frame. *)
Vanish(c) ==
    /\ link[c] = "up"
    /\ link' = [link EXCEPT ![c] = "silent"]
    /\ UNCHANGED <<phase, user, pending, reply, queue, hub, accounts, mailbox, screen>>

(* A ping or a write fails: keepAlive cancels the connection's context. *)
Notice(c) ==
    /\ link[c] = "silent"
    /\ link' = [link EXCEPT ![c] = "broken"]
    /\ UNCHANGED <<phase, user, pending, reply, queue, hub, accounts, mailbox, screen>>

(* The read loop takes a request, also one sent before the client vanished.     *)
(* Which request it was shows when its handler takes effect.                   *)
Receive(c) ==
    /\ phase[c] = "reading" /\ link[c] \in {"up", "silent"}
    /\ phase' = [phase EXCEPT ![c] = "handling"]
    /\ UNCHANGED <<link, user, pending, reply, queue, hub, accounts, mailbox, screen>>

(* sendLoop writes a message; what is written to a vanished client is lost. *)
Write(c) ==
    /\ queue[c] # <<>> /\ link[c] \in {"up", "silent"} /\ phase[c] # "gone"
    /\ queue' = [queue EXCEPT ![c] = Tail(@)]
    /\ LET m == Head(queue[c]) IN
         IF link[c] = "up"
           THEN /\ seen' = [seen EXCEPT ![c] = @ \cup m.letters]
                /\ fetched' = [fetched EXCEPT ![c] = IF m.of = Nobody THEN @ ELSE m.of]
           ELSE UNCHANGED screen
    /\ UNCHANGED <<session, hub, accounts, mailbox>>
-----------------------------------------------------------------------------
(* Mutant: the replaced connection is left alone. *)
HubReplace(c, u) ==
    /\ hub' = [hub EXCEPT ![u] = c]
    /\ user' = [user EXCEPT ![c] = u]
    /\ UNCHANGED link

(* Hub.Register: the user's former connection is closed. *)
HubRegister(c, u) ==
    /\ hub' = [hub EXCEPT ![u] = c]
    /\ link' = IF hub[u] \notin {Nobody, c} THEN [link EXCEPT ![hub[u]] = "broken"] ELSE link
    /\ user' = [user EXCEPT ![c] = u]

Handled(c) ==
    /\ phase[c] = "handling"
    /\ phase' = [phase EXCEPT ![c] = "replying"]

(* An error is the response: the handler refuses the request or fails before it *)
(* changes anything, or requireAuth finds no user.                             *)
Refuse(c) ==
    /\ Handled(c)
    /\ UNCHANGED <<link, user, pending, reply, queue, hub, accounts, mailbox, screen>>

HandleAuth(c) ==
    /\ Handled(c)
    /\ \E u \in accounts : pending' = [pending EXCEPT ![c] = u]
    /\ UNCHANGED <<link, user, reply, queue, hub, accounts, mailbox, screen>>

HandleAuthResponse(c) ==
    /\ Handled(c) /\ pending[c] # Nobody
    /\ pending' = [pending EXCEPT ![c] = Nobody]
    /\ \/ HubRegister(c, pending[c])
       \/ UNCHANGED <<hub, link, user>>  \* the signature does not verify
    /\ UNCHANGED <<reply, queue, accounts, mailbox, screen>>

(* Mutant: goes on although CreateUser failed. *)
RegisterAnyway(c) ==
    /\ Handled(c)
    /\ \E u \in Users \ accounts : HubRegister(c, u)
    /\ UNCHANGED <<pending, reply, queue, accounts, mailbox, screen>>

(* The account stays if the connection has been lost meanwhile. *)
HandleRegister(c) ==
    /\ Handled(c)
    /\ \E u \in Users \ accounts :
          /\ accounts' = accounts \cup {u}
          /\ HubRegister(c, u)
    /\ UNCHANGED <<pending, reply, queue, mailbox, screen>>

HandleRecover(c) ==
    /\ Handled(c)
    /\ \E u \in accounts : HubRegister(c, u)
    /\ UNCHANGED <<pending, reply, queue, accounts, mailbox, screen>>

HandleGetInbox(c) ==
    /\ Handled(c) /\ user[c] # Nobody
    /\ reply' = [reply EXCEPT ![c] = Inbox(user[c])]
    /\ UNCHANGED <<link, user, pending, queue, hub, accounts, mailbox, screen>>

(* Mutant: waits for room without a timeout. *)
AnswerOrWait(c) ==
    /\ phase[c] = "replying" /\ Len(queue[c]) < QueueSize
    /\ queue' = [queue EXCEPT ![c] = Append(@, reply[c])]
    /\ phase' = [phase EXCEPT ![c] = "reading"]
    /\ reply' = [reply EXCEPT ![c] = Ack]
    /\ UNCHANGED <<link, user, pending, hub, accounts, mailbox, screen>>

(* sendResponse and sendError wait for room in the queue, but not for ever. *)
Answer(c) ==
    /\ phase[c] = "replying"
    /\ IF Len(queue[c]) < QueueSize
         THEN queue' = [queue EXCEPT ![c] = Append(@, reply[c])]
         ELSE UNCHANGED queue
    /\ phase' = [phase EXCEPT ![c] = "reading"]
    /\ reply' = [reply EXCEPT ![c] = Ack]
    /\ UNCHANGED <<link, user, pending, hub, accounts, mailbox, screen>>

(* Mutant: forgets to look who is in the hub. *)
HubRemove(c) ==
    hub' = IF user[c] = Nobody THEN hub ELSE [hub EXCEPT ![user[c]] = Nobody]

(* Mutant: a lost connection is not taken out. *)
HubKeep(c) == UNCHANGED hub

HubUnregister(c) ==
    hub' = IF user[c] # Nobody /\ hub[user[c]] = c
             THEN [hub EXCEPT ![user[c]] = Nobody] ELSE hub

(* The read fails and the deferred calls run.  Client goes, and so does what    *)
(* the other end was shown over this connection.                               *)
Leave(c) ==
    /\ phase[c] = "reading" /\ link[c] = "broken"
    /\ phase' = [phase EXCEPT ![c] = "gone"]
    /\ HubUnregister(c)
    /\ pending' = [pending EXCEPT ![c] = Nobody]
    /\ queue' = [queue EXCEPT ![c] = <<>>]
    /\ seen' = [seen EXCEPT ![c] = {}]
    /\ fetched' = [fetched EXCEPT ![c] = Nobody]
    /\ UNCHANGED <<link, user, reply, accounts, mailbox>>
-----------------------------------------------------------------------------
(* deliveryLoop: a transaction, then a push for each letter of its batch. *)
DeliverMessages ==
    /\ pushes = {}
    /\ \E batch \in SUBSET {l \in Letters \ delivered : To[l] \in accounts} :
          /\ batch # {}
          /\ delivered' = delivered \cup batch
          /\ pushes' = batch
    /\ UNCHANGED <<session, queue, hub, accounts, dropped, screen>>

(* Client.Send never waits. *)
Enqueue(c, l) ==
    IF Len(queue[c]) < QueueSize
      THEN /\ queue' = [queue EXCEPT ![c] = Append(@, Push(l))]
           /\ UNCHANGED dropped
      ELSE /\ dropped' = dropped \cup {l}
           /\ UNCHANGED queue

SendToUser(l) ==
    /\ l \in pushes
    /\ pushes' = pushes \ {l}
    /\ LET c == hub[To[l]] IN
         IF c = Nobody THEN UNCHANGED <<queue, dropped>> ELSE Enqueue(c, l)
    /\ UNCHANGED <<session, hub, accounts, delivered, screen>>
-----------------------------------------------------------------------------
Handle(c) ==
    \/ Refuse(c) \/ HandleAuth(c) \/ HandleAuthResponse(c) \/ HandleRegister(c)
    \/ HandleRecover(c) \/ HandleGetInbox(c)

Next ==
    \/ \E c \in Conns :
          \/ Connect(c) \/ Vanish(c) \/ Notice(c) \/ Receive(c) \/ Write(c)
          \/ Handle(c) \/ Answer(c) \/ Leave(c)
    \/ DeliverMessages
    \/ \E l \in Letters : SendToUser(l)

(* Pings fail, handlers and their timeouts end, and a failed read returns. *)
Fairness == \A c \in Conns :
    WF_vars(Notice(c)) /\ WF_vars(Handle(c)) /\ WF_vars(Answer(c)) /\ WF_vars(Leave(c))

Spec == Init /\ [][Next]_vars /\ Fairness
-----------------------------------------------------------------------------
(* Every variable holds a value of its type, no queue exceeds its capacity, and *)
(* only accounts are signed in.                                                *)
TypeOK ==
    /\ link \in [Conns -> {"none", "up", "silent", "broken"}]
    /\ phase \in [Conns -> Phases]
    /\ user \in [Conns -> accounts \cup {Nobody}]
    /\ pending \in [Conns -> accounts \cup {Nobody}]
    /\ reply \in [Conns -> Messages]
    /\ queue \in [Conns -> Seq(Messages)]
    /\ hub \in [Users -> Conns \cup {Nobody}]
    /\ accounts \subseteq Users
    /\ delivered \subseteq Letters /\ pushes \subseteq delivered /\ dropped \subseteq delivered
    /\ seen \in [Conns -> SUBSET Letters]
    /\ fetched \in [Conns -> Users \cup {Nobody}]
    /\ \A c \in Conns : Len(queue[c]) <= QueueSize

Serving(c) == link[c] \in {"up", "silent"}

(* A connection that is signed in and not lost is the one the hub has for its   *)
(* user: no successor lives beside it, no predecessor's leaving removes it.     *)
LiveIsRegistered ==
    \A c \in Conns : Serving(c) /\ user[c] # Nobody => hub[user[c]] = c

(* A connection that has gone is not the hub's for the user it was signed in as. *)
GoneIsForgotten ==
    \A u \in Users : hub[u] # Nobody /\ phase[hub[u]] = "gone" => user[hub[u]] # u

Queued(c) == {queue[c][i] : i \in 1..Len(queue[c])}

(* Where a letter is on its way to the client of a connection, or was lost.     *)
Known(c, l) ==
    \/ l \in seen[c] \cup pushes \cup dropped
    \/ \E m \in Queued(c) : l \in m.letters

(* A client that is connected and was sent its inbox knows every letter that    *)
(* was delivered to it, before or since: it has seen it, it is on the way, or   *)
(* its push found the queue full.                                              *)
NothingMissed ==
    \A c \in Conns, l \in delivered :
        link[c] = "up" /\ user[c] = To[l] /\ fetched[c] = To[l] => Known(c, l)

(* A connection whose client is gone or which was replaced leaves in the end,   *)
(* whatever it was doing.                                                      *)
LostConnectionsLeave ==
    \A c \in Conns : link[c] \in {"silent", "broken"} ~> phase[c] = "gone"
=============================================================================
