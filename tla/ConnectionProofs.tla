---------------------------- MODULE ConnectionProofs ----------------------------
(***************************************************************************)
(* Theorems about connections: the hub, for any number of connections and  *)
(* users, and clients that sign in as one user after another; and the      *)
(* per-IP limits, for any number of addresses and registrations.           *)
(***************************************************************************)
EXTENDS Hub, RateLimiter, FiniteSetTheorems, TLAPS

(* An inbox of user u was sent to the client of c or is about to be. *)
Promised(c, u) ==
    \/ fetched[c] = u \/ reply[c].of = u
    \/ \E m \in Queued(c) : m.of = u

(* A client that has the inbox of a user is still the hub's for that user. *)
InboxesRegistered ==
    \A c \in Conns, u \in Users : link[c] = "up" /\ Promised(c, u) => hub[u] = c

(* It knows all letters delivered to that user, except those the response still *)
(* to be queued has for it.                                                    *)
InboxesComplete ==
    \A c \in Conns, l \in delivered : link[c] = "up" =>
        /\ fetched[c] = To[l] \/ (\E m \in Queued(c) : m.of = To[l]) => Known(c, l)
        /\ reply[c].of = To[l] => Known(c, l) \/ l \in reply[c].letters

(* A connection yet to come is blank, and nobody is registered on it. *)
Blank ==
    /\ \A c \in Conns :
          /\ phase[c] = "waiting" <=> link[c] = "none"
          /\ link[c] = "none" =>
                user[c] = Nobody /\ fetched[c] = Nobody /\ reply[c] = Ack /\ queue[c] = <<>>
    /\ \A u \in Users : hub[u] # Nobody => link[hub[u]] # "none"

(* The inductive invariants: of the hub, and of the inboxes given that of the hub. *)
HubInv == TypeOK /\ Blank /\ LiveIsRegistered /\ GoneIsForgotten
InboxInv == InboxesRegistered /\ InboxesComplete

(* What the hub's registration does to sockets and identities. *)
LEMMA RegisterTypes ==
    ASSUME TypeOK, NEW c \in Conns, NEW u \in Users, HubRegister(c, u)
    PROVE  /\ hub' \in [Users -> Conns \cup {Nobody}] /\ hub' = [hub EXCEPT ![u] = c]
           /\ link' \in [Conns -> {"none", "up", "silent", "broken"}]
           /\ \A d \in Conns : link'[d] # link[d] => link'[d] = "broken" /\ hub[u] = d /\ d # c
           /\ \A d \in Conns : hub[u] = d /\ d # c => link'[d] = "broken"
           /\ user' = [user EXCEPT ![c] = u]
BY HubAssumption DEF HubRegister, TypeOK

(* Queues hold messages within their capacity. *)
LEMMA AppendFits ==
    ASSUME TypeOK, NEW c \in Conns, NEW m \in Messages, Len(queue[c]) < QueueSize,
           NEW q, q = [queue EXCEPT ![c] = Append(@, m)]
    PROVE  q \in [Conns -> Seq(Messages)] /\ \A d \in Conns : Len(q[d]) <= QueueSize
<1>1. queue \in [Conns -> Seq(Messages)] /\ \A d \in Conns : Len(queue[d]) <= QueueSize
  BY DEF TypeOK
<1>2. Append(queue[c], m) \in Seq(Messages) /\ Len(Append(queue[c], m)) = Len(queue[c]) + 1
  BY <1>1
<1>3. Len(queue[c]) \in Nat /\ QueueSize \in Nat
  BY <1>1, HubAssumption
<1> QED BY <1>1, <1>2, <1>3

(* Each step keeps the types. *)
LEMMA NextTypeOK == TypeOK /\ [Next]_vars => TypeOK'
<1> SUFFICES ASSUME TypeOK, [Next]_vars PROVE TypeOK'
  OBVIOUS
<1>1. ASSUME NEW c \in Conns, Connect(c) PROVE TypeOK'
  BY <1>1 DEF Connect, TypeOK, Phases, mailbox, screen
<1>2. ASSUME NEW c \in Conns, Vanish(c) PROVE TypeOK'
  BY <1>2 DEF Vanish, TypeOK, mailbox, screen
<1>3. ASSUME NEW c \in Conns, Notice(c) PROVE TypeOK'
  BY <1>3 DEF Notice, TypeOK, mailbox, screen
<1>4. ASSUME NEW c \in Conns, Receive(c) PROVE TypeOK'
  BY <1>4 DEF Receive, TypeOK, Phases, mailbox, screen
<1>5. ASSUME NEW c \in Conns, Write(c) PROVE TypeOK'
  <2>1. /\ queue[c] \in Seq(Messages) /\ queue[c] # <<>>
        /\ Tail(queue[c]) \in Seq(Messages) /\ Head(queue[c]) \in Messages
        /\ Len(Tail(queue[c])) <= QueueSize
    <3>1. queue[c] \in Seq(Messages) /\ queue[c] # <<>> /\ Len(queue[c]) <= QueueSize
      BY <1>5 DEF Write, TypeOK
    <3> QED BY <3>1, HubAssumption
  <2>2. /\ Head(queue[c]).letters \subseteq Letters
        /\ Head(queue[c]).of \in Users \cup {Nobody}
    BY <2>1 DEF Messages
  <2>3. /\ seen' \in [Conns -> SUBSET Letters] /\ fetched' \in [Conns -> Users \cup {Nobody}]
    <3>1. CASE link[c] = "up"
      <4>1. PICK m : m = Head(queue[c])
        OBVIOUS
      <4>2. /\ seen' = [seen EXCEPT ![c] = @ \cup m.letters]
            /\ fetched' = [fetched EXCEPT ![c] = IF m.of = Nobody THEN @ ELSE m.of]
        BY <1>5, <3>1, <4>1 DEF Write
      <4> QED BY <2>2, <4>1, <4>2 DEF TypeOK
    <3>2. CASE link[c] # "up"
      BY <1>5, <3>2 DEF Write, TypeOK, screen
    <3> QED BY <3>1, <3>2
  <2>4. queue' \in [Conns -> Seq(Messages)] /\ \A d \in Conns : Len(queue'[d]) <= QueueSize
    BY <1>5, <2>1 DEF Write, TypeOK
  <2>5. UNCHANGED <<link, phase, user, pending, reply, hub, accounts, delivered, pushes, dropped>>
    BY <1>5 DEF Write, session, mailbox
  <2> QED BY <2>3, <2>4, <2>5 DEF TypeOK
<1>6. ASSUME NEW c \in Conns, Handle(c) PROVE TypeOK'
  <2>0. "replying" \in Phases
    BY DEF Phases
  <2>1. CASE Refuse(c)
    BY <2>0, <2>1 DEF Refuse, Handled, TypeOK, mailbox, screen
  <2>2. CASE HandleAuth(c)
    BY <2>0, <2>2 DEF HandleAuth, Handled, TypeOK, mailbox, screen
  <2>3. CASE HandleAuthResponse(c)
    <3>1. pending[c] \in accounts /\ pending[c] \in Users
      BY <2>3 DEF HandleAuthResponse, TypeOK
    <3>2. CASE HubRegister(c, pending[c])
      <4>1. /\ hub' \in [Users -> Conns \cup {Nobody}]
            /\ link' \in [Conns -> {"none", "up", "silent", "broken"}]
            /\ user' = [user EXCEPT ![c] = pending[c]]
        BY <3>1, <3>2, RegisterTypes
      <4> QED BY <2>0, <2>3, <3>1, <4>1 DEF HandleAuthResponse, Handled, TypeOK, mailbox, screen
    <3>3. CASE UNCHANGED <<hub, link, user>>
      BY <2>0, <2>3, <3>3 DEF HandleAuthResponse, Handled, TypeOK, mailbox, screen
    <3> QED BY <2>3, <3>2, <3>3 DEF HandleAuthResponse
  <2>4. CASE HandleRegister(c)
    <3>1. PICK u \in Users : accounts' = accounts \cup {u} /\ HubRegister(c, u)
      BY <2>4 DEF HandleRegister
    <3>2. /\ hub' \in [Users -> Conns \cup {Nobody}]
          /\ link' \in [Conns -> {"none", "up", "silent", "broken"}]
          /\ user' = [user EXCEPT ![c] = u]
      BY <3>1, RegisterTypes
    <3> QED BY <2>0, <2>4, <3>1, <3>2 DEF HandleRegister, Handled, TypeOK, mailbox, screen
  <2>5. CASE HandleRecover(c)
    <3>1. PICK u \in accounts : HubRegister(c, u)
      BY <2>5 DEF HandleRecover
    <3>2. /\ hub' \in [Users -> Conns \cup {Nobody}]
          /\ link' \in [Conns -> {"none", "up", "silent", "broken"}]
          /\ user' = [user EXCEPT ![c] = u]
      BY <3>1, RegisterTypes DEF TypeOK
    <3> QED BY <2>0, <2>5, <3>1, <3>2 DEF HandleRecover, Handled, TypeOK, mailbox, screen
  <2>6. CASE HandleGetInbox(c)
    <3>1. Inbox(user[c]) \in Messages
      BY DEF TypeOK, Inbox, Messages
    <3> QED BY <2>0, <2>6, <3>1 DEF HandleGetInbox, Handled, TypeOK, mailbox, screen
  <2> QED BY <1>6, <2>1, <2>2, <2>3, <2>4, <2>5, <2>6 DEF Handle
<1>7. ASSUME NEW c \in Conns, Answer(c) PROVE TypeOK'
  <2>1. reply' \in [Conns -> Messages]
    BY <1>7 DEF Answer, TypeOK, Ack, Messages
  <2>2. queue' \in [Conns -> Seq(Messages)] /\ \A d \in Conns : Len(queue'[d]) <= QueueSize
    <3>1. reply[c] \in Messages
      BY DEF TypeOK
    <3> QED BY <1>7, <3>1, AppendFits DEF Answer, TypeOK
  <2> QED BY <1>7, <2>1, <2>2 DEF Answer, TypeOK, Phases, mailbox, screen
<1>8. ASSUME NEW c \in Conns, Leave(c) PROVE TypeOK'
  <2>1. hub' \in [Users -> Conns \cup {Nobody}]
    BY <1>8 DEF Leave, HubUnregister, TypeOK
  <2>2. queue' \in [Conns -> Seq(Messages)] /\ \A d \in Conns : Len(queue'[d]) <= QueueSize
    <3>1. <<>> \in Seq(Messages) /\ Len(<<>>) = 0 /\ 0 <= QueueSize
      BY HubAssumption
    <3> QED BY <1>8, <3>1 DEF Leave, TypeOK
  <2> QED BY <1>8, <2>1, <2>2 DEF Leave, TypeOK, Phases, mailbox
<1>9. CASE DeliverMessages
  BY <1>9 DEF DeliverMessages, TypeOK, session, screen
<1>10. ASSUME NEW l \in Letters, SendToUser(l) PROVE TypeOK'
  <2>1. pushes' \subseteq delivered /\ l \in delivered /\ hub[To[l]] \in Conns \cup {Nobody}
    BY <1>10, HubAssumption DEF SendToUser, TypeOK
  <2>2. /\ queue' \in [Conns -> Seq(Messages)] /\ \A d \in Conns : Len(queue'[d]) <= QueueSize
        /\ dropped' \subseteq delivered
    <3>1. CASE hub[To[l]] = Nobody
      BY <1>10, <3>1 DEF SendToUser, TypeOK
    <3>2. CASE hub[To[l]] \in Conns /\ hub[To[l]] # Nobody
      <4>1. Push(l) \in Messages
        BY DEF Push, Messages
      <4>2. Enqueue(hub[To[l]], l)
        BY <1>10, <3>2 DEF SendToUser
      <4>3. CASE Len(queue[hub[To[l]]]) < QueueSize
        <5>1. /\ queue' = [queue EXCEPT ![hub[To[l]]] = Append(@, Push(l))]
              /\ dropped' = dropped
          BY <4>2, <4>3 DEF Enqueue
        <5> QED BY <3>2, <4>1, <4>3, <5>1, AppendFits DEF TypeOK
      <4>4. CASE ~(Len(queue[hub[To[l]]]) < QueueSize)
        BY <2>1, <4>2, <4>4 DEF Enqueue, TypeOK
      <4> QED BY <4>3, <4>4
    <3> QED BY <2>1, <3>1, <3>2
  <2> QED BY <1>10, <2>1, <2>2 DEF SendToUser, TypeOK, session, screen
<1>11. CASE UNCHANGED vars
  BY <1>11 DEF vars, session, mailbox, screen, TypeOK
<1> QED BY <1>1, <1>2, <1>3, <1>4, <1>5, <1>6, <1>7, <1>8, <1>9, <1>10, <1>11 DEF Next

(* A registration keeps the hub's invariant. *)
LEMMA RegisterKeepsHub ==
    ASSUME HubInv, NEW c \in Conns, NEW u \in Users, HubRegister(c, u), phase[c] = "handling",
           phase' = [phase EXCEPT ![c] = "replying"], UNCHANGED <<fetched, reply, queue>>
    PROVE  Blank' /\ LiveIsRegistered' /\ GoneIsForgotten'
<1>1. /\ hub' = [hub EXCEPT ![u] = c] /\ user' = [user EXCEPT ![c] = u]
      /\ \A d \in Conns : link'[d] # link[d] => link'[d] = "broken" /\ hub[u] = d /\ d # c
      /\ \A d \in Conns : hub[u] = d /\ d # c => link'[d] = "broken"
  BY RegisterTypes DEF HubInv
<1>2. /\ hub \in [Users -> Conns \cup {Nobody}] /\ phase \in [Conns -> Phases]
      /\ user \in [Conns -> Users \cup {Nobody}] /\ Nobody \notin Conns \cup Users
  BY HubAssumption DEF HubInv, TypeOK
<1>3. Blank'
  <2>1. \A d \in Conns : link'[d] = "none" <=> link[d] = "none"
    BY <1>1, <1>2 DEF HubInv, Blank
  <2>2. link[c] # "none"
    BY DEF HubInv, Blank
  <2> QED BY <1>1, <1>2, <2>1, <2>2 DEF HubInv, Blank
<1>4. LiveIsRegistered'
  <2> SUFFICES ASSUME NEW d \in Conns, Serving(d)', user'[d] # Nobody
               PROVE  hub'[user'[d]] = d
    BY DEF LiveIsRegistered
  <2>1. CASE d = c
    BY <1>1, <1>2, <2>1
  <2>2. CASE d # c
    <3>1. link'[d] = link[d] /\ user'[d] = user[d] /\ hub[u] # d
      BY <1>1, <1>2, <2>2 DEF Serving
    <3>2. hub[user[d]] = d
      BY <3>1 DEF HubInv, LiveIsRegistered, Serving
    <3> QED BY <1>1, <1>2, <3>1, <3>2
  <2> QED BY <2>1, <2>2
<1>5. GoneIsForgotten'
  <2> SUFFICES ASSUME NEW v \in Users, hub'[v] # Nobody, phase'[hub'[v]] = "gone"
               PROVE  user'[hub'[v]] # v
    BY DEF GoneIsForgotten
  <2>1. hub'[v] # c
    BY <1>2
  <2>2. hub'[v] = hub[v] /\ phase[hub[v]] = "gone" /\ hub[v] \in Conns
    BY <1>1, <1>2, <2>1
  <2> QED BY <1>1, <1>2, <2>1, <2>2 DEF HubInv, GoneIsForgotten
<1> QED BY <1>3, <1>4, <1>5

(* Each step keeps the hub's invariant. *)
LEMMA NextHubInv == HubInv /\ [Next]_vars => HubInv'
<1> SUFFICES ASSUME HubInv, [Next]_vars PROVE Blank' /\ LiveIsRegistered' /\ GoneIsForgotten'
  BY NextTypeOK DEF HubInv
<1> DEFINE Kept == Blank' /\ LiveIsRegistered' /\ GoneIsForgotten'
<1>0. /\ hub \in [Users -> Conns \cup {Nobody}] /\ phase \in [Conns -> Phases]
      /\ user \in [Conns -> Users \cup {Nobody}] /\ Nobody \notin Conns \cup Users
      /\ link \in [Conns -> {"none", "up", "silent", "broken"}]
      /\ reply \in [Conns -> Messages] /\ queue \in [Conns -> Seq(Messages)]
      /\ fetched \in [Conns -> Users \cup {Nobody}]
      /\ Blank /\ LiveIsRegistered /\ GoneIsForgotten
  BY HubAssumption DEF HubInv, TypeOK
<1>1. ASSUME NEW c \in Conns, Connect(c) PROVE Kept
  BY <1>0, <1>1 DEF Connect, Blank, LiveIsRegistered, GoneIsForgotten, Serving, screen
<1>2. ASSUME NEW c \in Conns, Vanish(c) PROVE Kept
  BY <1>0, <1>2 DEF Vanish, Blank, LiveIsRegistered, GoneIsForgotten, Serving, screen
<1>3. ASSUME NEW c \in Conns, Notice(c) PROVE Kept
  BY <1>0, <1>3 DEF Notice, Blank, LiveIsRegistered, GoneIsForgotten, Serving, screen
<1>4. ASSUME NEW c \in Conns, Receive(c) PROVE Kept
  BY <1>0, <1>4 DEF Receive, Blank, LiveIsRegistered, GoneIsForgotten, Serving, screen
<1>5. ASSUME NEW c \in Conns, Write(c) PROVE Kept
  <2>1. /\ UNCHANGED <<link, phase, user, reply, hub>> /\ link[c] # "none"
        /\ \A d \in Conns : d # c => queue'[d] = queue[d] /\ fetched'[d] = fetched[d]
    BY <1>0, <1>5 DEF Write, session, screen
  <2> QED BY <1>0, <2>1 DEF Blank, LiveIsRegistered, GoneIsForgotten, Serving
<1>6. ASSUME NEW c \in Conns, Handle(c) PROVE Kept
  <2>1. /\ phase[c] = "handling" /\ phase' = [phase EXCEPT ![c] = "replying"]
        /\ UNCHANGED <<queue, fetched>> /\ link[c] # "none"
    BY <1>0, <1>6 DEF Handle, Refuse, HandleAuth, HandleAuthResponse, HandleRegister,
                      HandleRecover, HandleGetInbox, Handled, screen, Blank
  <2>2. ASSUME UNCHANGED <<link, user, hub>>, \A d \in Conns : d # c => reply'[d] = reply[d]
        PROVE  Kept
    BY <1>0, <2>1, <2>2 DEF Blank, LiveIsRegistered, GoneIsForgotten, Serving
  <2>3. ASSUME NEW u \in Users, HubRegister(c, u), UNCHANGED reply PROVE Kept
    BY <2>1, <2>3, RegisterKeepsHub
  <2>4. CASE Refuse(c) \/ HandleAuth(c)
    BY <2>2, <2>4 DEF Refuse, HandleAuth
  <2>5. CASE HandleAuthResponse(c)
    <3>1. pending[c] \in Users /\ UNCHANGED reply
      BY <2>5 DEF HandleAuthResponse, HubInv, TypeOK
    <3> QED BY <2>2, <2>3, <2>5, <3>1 DEF HandleAuthResponse
  <2>6. CASE HandleRegister(c) \/ HandleRecover(c)
    BY <2>3, <2>6 DEF HandleRegister, HandleRecover, HubInv, TypeOK
  <2>7. CASE HandleGetInbox(c)
    BY <1>0, <2>2, <2>7 DEF HandleGetInbox
  <2> QED BY <1>6, <2>4, <2>5, <2>6, <2>7 DEF Handle
<1>7. ASSUME NEW c \in Conns, Answer(c) PROVE Kept
  <2>1. link[c] # "none" /\ UNCHANGED <<link, user, hub, fetched>>
    BY <1>0, <1>7 DEF Answer, Blank, screen
  <2>2. \A d \in Conns : d # c => queue'[d] = queue[d] /\ reply'[d] = reply[d]
    BY <1>0, <1>7 DEF Answer
  <2>3. phase' = [phase EXCEPT ![c] = "reading"]
    BY <1>7 DEF Answer
  <2> QED BY <1>0, <2>1, <2>2, <2>3 DEF Blank, LiveIsRegistered, GoneIsForgotten, Serving
<1>8. ASSUME NEW c \in Conns, Leave(c) PROVE Kept
  <2>1. /\ link[c] = "broken" /\ UNCHANGED <<link, user, reply>>
        /\ phase' = [phase EXCEPT ![c] = "gone"]
        /\ \A d \in Conns : d # c => queue'[d] = queue[d] /\ fetched'[d] = fetched[d]
    BY <1>0, <1>8 DEF Leave
  <2>2. \A u \in Users : \/ hub'[u] = hub[u] /\ ~(hub[u] = c /\ user[c] = u)
                         \/ hub'[u] = Nobody /\ hub[u] = c
    BY <1>0, <1>8 DEF Leave, HubUnregister
  <2>3. Blank'
    BY <1>0, <2>1, <2>2 DEF Blank
  <2>4. LiveIsRegistered'
    BY <1>0, <2>1, <2>2 DEF LiveIsRegistered, Serving
  <2>5. GoneIsForgotten'
    BY <1>0, <2>1, <2>2 DEF GoneIsForgotten
  <2> QED BY <2>3, <2>4, <2>5
<1>9. CASE DeliverMessages
  BY <1>0, <1>9 DEF DeliverMessages, Blank, LiveIsRegistered, GoneIsForgotten, Serving, session, screen
<1>10. ASSUME NEW l \in Letters, SendToUser(l) PROVE Kept
  <2>1. UNCHANGED <<link, phase, user, reply, hub, fetched>>
    BY <1>10 DEF SendToUser, session, screen
  <2>2. \A d \in Conns : d # hub[To[l]] => queue'[d] = queue[d]
    BY <1>0, <1>10 DEF SendToUser, Enqueue
  <2>3. hub[To[l]] # Nobody => link[hub[To[l]]] # "none"
    BY <1>0, HubAssumption DEF Blank
  <2> QED BY <1>0, <2>1, <2>2, <2>3 DEF Blank, LiveIsRegistered, GoneIsForgotten, Serving
<1>11. CASE UNCHANGED vars
  BY <1>0, <1>11 DEF vars, session, screen, Blank, LiveIsRegistered, GoneIsForgotten, Serving
<1> QED BY <1>1, <1>2, <1>3, <1>4, <1>5, <1>6, <1>7, <1>8, <1>9, <1>10, <1>11 DEF Next

(* What the three ways to use a queue do to the set of messages it holds. *)
LEMMA QueuedAfter ==
    ASSUME TypeOK, TypeOK', NEW c \in Conns
    PROVE  /\ queue'[c] = queue[c] => Queued(c)' = Queued(c)
           /\ \A m \in Messages : queue'[c] = Append(queue[c], m) => Queued(c)' = Queued(c) \cup {m}
           /\ queue[c] # <<>> /\ queue'[c] = Tail(queue[c]) =>
                 Queued(c) = Queued(c)' \cup {Head(queue[c])}
           /\ queue'[c] = <<>> => Queued(c)' = {}
<1>1. queue[c] \in Seq(Messages) /\ queue'[c] \in Seq(Messages)
  BY DEF TypeOK
<1>2. queue'[c] = queue[c] => Queued(c)' = Queued(c)
  BY DEF Queued
<1>3. ASSUME NEW m \in Messages, queue'[c] = Append(queue[c], m)
      PROVE  Queued(c)' = Queued(c) \cup {m}
  <2>1. /\ Len(queue'[c]) = Len(queue[c]) + 1 /\ Len(queue[c]) \in Nat
        /\ \A i \in 1..Len(queue[c]) : queue'[c][i] = queue[c][i]
        /\ queue'[c][Len(queue[c]) + 1] = m
    BY <1>1, <1>3
  <2>2. 1..Len(queue'[c]) = (1..Len(queue[c])) \cup {Len(queue[c]) + 1}
    BY <2>1
  <2>3. Queued(c)' \subseteq Queued(c) \cup {m}
    <3> SUFFICES ASSUME NEW i \in 1..Len(queue'[c])
                 PROVE  queue'[c][i] \in Queued(c) \cup {m}
      BY DEF Queued
    <3> QED BY <2>1, <2>2 DEF Queued
  <2>4. Queued(c) \cup {m} \subseteq Queued(c)'
    <3>1. ASSUME NEW i \in 1..Len(queue[c]) PROVE queue[c][i] \in Queued(c)'
      <4>1. queue[c][i] = queue'[c][i] /\ i \in 1..Len(queue'[c])
        BY <2>1, <2>2
      <4> QED BY <4>1 DEF Queued
    <3>2. m \in Queued(c)'
      <4>1. Len(queue[c]) + 1 \in 1..Len(queue'[c])
        BY <2>2
      <4> QED BY <2>1, <4>1 DEF Queued
    <3> QED BY <3>1, <3>2 DEF Queued
  <2> QED BY <2>3, <2>4
<1>4. ASSUME queue[c] # <<>>, queue'[c] = Tail(queue[c])
      PROVE  Queued(c) = Queued(c)' \cup {Head(queue[c])}
  <2>1. /\ Len(queue'[c]) = Len(queue[c]) - 1 /\ Len(queue[c]) \in Nat \ {0}
        /\ \A i \in 1..Len(queue'[c]) : queue'[c][i] = queue[c][i + 1]
        /\ queue[c][1] = Head(queue[c])
    <3>1. PICK q \in Seq(Messages) : q = queue[c]
      BY <1>1
    <3>2. q # <<>> /\ queue'[c] = Tail(q)
      BY <1>4, <3>1
    <3>3. Len(q) \in Nat /\ Len(q) # 0 /\ Len(Tail(q)) = Len(q) - 1
      BY <3>1, <3>2
    <3>4. \A i \in 1..Len(Tail(q)) : Tail(q)[i] = q[i + 1]
      BY <3>2, <3>3
    <3>5. q[1] = Head(q)
      BY <3>2
    <3> QED BY <3>1, <3>2, <3>3, <3>4, <3>5
  <2>2. \A i \in 1..Len(queue[c]) : i = 1 \/ \E j \in 1..Len(queue'[c]) : j + 1 = i
    <3> SUFFICES ASSUME NEW i \in 1..Len(queue[c]), i # 1
                 PROVE  \E j \in 1..Len(queue'[c]) : j + 1 = i
      OBVIOUS
    <3>1. i - 1 \in 1..Len(queue'[c]) /\ (i - 1) + 1 = i
      BY <2>1
    <3> QED BY <3>1
  <2>3. \A i \in 1..Len(queue'[c]) : i + 1 \in 1..Len(queue[c])
    BY <2>1
  <2>4. Queued(c) \subseteq Queued(c)' \cup {Head(queue[c])}
    <3> SUFFICES ASSUME NEW i \in 1..Len(queue[c])
                 PROVE  queue[c][i] \in Queued(c)' \cup {Head(queue[c])}
      BY DEF Queued
    <3>1. CASE i = 1
      BY <2>1, <3>1
    <3>2. CASE i # 1
      <4>1. PICK j \in 1..Len(queue'[c]) : j + 1 = i
        BY <2>2, <3>2
      <4>2. queue'[c][j] = queue[c][i]
        BY <2>1, <4>1
      <4> QED BY <4>1, <4>2 DEF Queued
    <3> QED BY <3>1, <3>2
  <2>5. Queued(c)' \subseteq Queued(c)
    BY <2>1, <2>3 DEF Queued
  <2>6. Head(queue[c]) \in Queued(c)
    BY <2>1 DEF Queued
  <2> QED BY <2>4, <2>5, <2>6
<1>5. queue'[c] = <<>> => Queued(c)' = {}
  BY DEF Queued
<1> QED BY <1>2, <1>3, <1>4, <1>5

(* Nothing of a connection's queue and screen changes. *)
Unmoved(c) == UNCHANGED <<queue[c], reply[c], fetched[c], seen[c]>>

(* The steps as one connection sees them, as long as it stays up. *)
LEMMA StepOf ==
    ASSUME HubInv, [Next]_vars, NEW c \in Conns, link'[c] = "up"
    PROVE  \/ link[c] = "none" /\ Unmoved(c) /\ UNCHANGED mailbox
           \/ /\ link[c] = "up"
              /\ \/ Write(c) \/ HandleGetInbox(c) \/ Answer(c)
                 \/ Unmoved(c) /\ UNCHANGED mailbox
                 \/ Unmoved(c) /\ DeliverMessages
                 \/ \E l \in Letters : SendToUser(l)
<1> DEFINE Seen ==
       \/ link[c] = "none" /\ Unmoved(c) /\ UNCHANGED mailbox
       \/ /\ link[c] = "up"
          /\ \/ Write(c) \/ HandleGetInbox(c) \/ Answer(c)
             \/ Unmoved(c) /\ UNCHANGED mailbox
             \/ Unmoved(c) /\ DeliverMessages
             \/ \E l \in Letters : SendToUser(l)
<1>0. TypeOK /\ Blank
  BY DEF HubInv
<1>1. ASSUME NEW d \in Conns, Connect(d) PROVE Seen
  BY <1>0, <1>1 DEF Connect, Unmoved, Blank, TypeOK, screen
<1>2. ASSUME NEW d \in Conns, Vanish(d) \/ Notice(d) PROVE Seen
  BY <1>0, <1>2 DEF Vanish, Notice, Unmoved, TypeOK, screen
<1>3. ASSUME NEW d \in Conns, Receive(d) PROVE Seen
  BY <1>3 DEF Receive, Unmoved, screen
<1>4. ASSUME NEW d \in Conns, Write(d) PROVE Seen
  <2>1. d # c => Unmoved(c) /\ UNCHANGED mailbox
    BY <1>0, <1>4 DEF Write, Unmoved, TypeOK, session, screen
  <2>2. link'[c] = link[c]
    BY <1>4 DEF Write, session
  <2> QED BY <1>4, <2>1, <2>2
<1>5. ASSUME NEW d \in Conns, Handle(d) PROVE Seen
  <2>1. link'[c] = link[c]
    <3>1. ASSUME NEW u \in Users, HubRegister(d, u) PROVE link'[c] = link[c]
      BY <1>0, <3>1, RegisterTypes
    <3>2. pending[d] # Nobody => pending[d] \in Users
      BY <1>0 DEF TypeOK
    <3> QED BY <1>0, <1>5, <3>1, <3>2 DEF Handle, Refuse, HandleAuth, HandleAuthResponse,
                     HandleRegister, HandleRecover, HandleGetInbox, TypeOK
  <2>2. UNCHANGED mailbox /\ UNCHANGED queue /\ UNCHANGED screen
    BY <1>5 DEF Handle, Refuse, HandleAuth, HandleAuthResponse, HandleRegister,
                HandleRecover, HandleGetInbox
  <2>3. HandleGetInbox(d) \/ UNCHANGED reply
    BY <1>5 DEF Handle, Refuse, HandleAuth, HandleAuthResponse, HandleRegister, HandleRecover
  <2>4. HandleGetInbox(d) /\ d # c => reply'[c] = reply[c]
    BY <1>0 DEF HandleGetInbox, TypeOK
  <2>5. HandleGetInbox(c) \/ Unmoved(c)
    BY <2>2, <2>3, <2>4 DEF Unmoved, screen
  <2> QED BY <2>1, <2>2, <2>5
<1>6. ASSUME NEW d \in Conns, Answer(d) PROVE Seen
  <2>1. d # c => Unmoved(c) /\ UNCHANGED mailbox
    BY <1>0, <1>6 DEF Answer, Unmoved, TypeOK, screen
  <2>2. link'[c] = link[c]
    BY <1>6 DEF Answer
  <2> QED BY <1>6, <2>1, <2>2
<1>7. ASSUME NEW d \in Conns, Leave(d) PROVE Seen
  BY <1>0, <1>7 DEF Leave, Unmoved, TypeOK, mailbox
<1>8. CASE DeliverMessages
  BY <1>8 DEF DeliverMessages, Unmoved, session, screen
<1>9. CASE \E l \in Letters : SendToUser(l)
  BY <1>9 DEF SendToUser, session
<1>10. CASE UNCHANGED vars
  BY <1>10 DEF vars, session, screen, Unmoved
<1> QED BY <1>1, <1>2, <1>3, <1>4, <1>5, <1>6, <1>7, <1>8, <1>9, <1>10 DEF Next

(* While a connection stays up the hub does not let go of it. *)
LEMMA HubStays ==
    ASSUME HubInv, [Next]_vars, NEW c \in Conns, NEW u \in Users, hub[u] = c, link'[c] = "up"
    PROVE  hub'[u] = c
<1>0. /\ hub \in [Users -> Conns \cup {Nobody}] /\ TypeOK
      /\ link \in [Conns -> {"none", "up", "silent", "broken"}]
  BY DEF HubInv, TypeOK
<1>1. ASSUME NEW d \in Conns, NEW v \in Users, HubRegister(d, v) PROVE hub'[u] = c
  BY <1>0, <1>1, RegisterTypes
<1>2. ASSUME NEW d \in Conns, Handle(d) PROVE hub'[u] = c
  BY <1>0, <1>1, <1>2 DEF Handle, Refuse, HandleAuth, HandleAuthResponse,
                     HandleRegister, HandleRecover, HandleGetInbox, TypeOK
<1>3. ASSUME NEW d \in Conns, Leave(d) PROVE hub'[u] = c
  <2>1. d # c
    BY <1>3 DEF Leave
  <2> QED BY <1>0, <1>3, <2>1 DEF Leave, HubUnregister
<1>4. ASSUME NEW d \in Conns,
             Connect(d) \/ Vanish(d) \/ Notice(d) \/ Receive(d) \/ Write(d) \/ Answer(d)
      PROVE  hub'[u] = c
  BY <1>4 DEF Connect, Vanish, Notice, Receive, Write, Answer
<1>5. CASE DeliverMessages \/ (\E l \in Letters : SendToUser(l)) \/ UNCHANGED vars
  BY <1>5 DEF DeliverMessages, SendToUser, vars
<1> QED BY <1>2, <1>3, <1>4, <1>5 DEF Next

(* An inbox is promised only to a client that is the hub's for its user. *)
LEMMA NextInboxesRegistered == HubInv /\ InboxInv /\ [Next]_vars => InboxesRegistered'
<1> SUFFICES ASSUME HubInv, InboxInv, [Next]_vars, NEW c \in Conns, NEW u \in Users,
                    link'[c] = "up", Promised(c, u)'
             PROVE  hub'[u] = c
  BY DEF InboxesRegistered
<1>0. TypeOK /\ TypeOK' /\ Blank /\ u # Nobody
  BY NextTypeOK, HubAssumption DEF HubInv
<1>1. ASSUME link[c] = "up", Promised(c, u) PROVE hub'[u] = c
  <2>1. hub[u] = c
    BY <1>1 DEF InboxInv, InboxesRegistered
  <2> QED BY <2>1, HubStays
<1>2. CASE link[c] = "none" /\ Unmoved(c)
  <2>1. queue'[c] = <<>> /\ fetched'[c] = Nobody /\ reply'[c] = Ack
    BY <1>0, <1>2 DEF Unmoved, Blank
  <2>2. Queued(c)' = {}
    BY <1>0, <2>1, QueuedAfter
  <2> QED BY <1>0, <2>1, <2>2 DEF Promised, Ack
<1>3. CASE link[c] = "up" /\ Unmoved(c)
  <2>1. Promised(c, u)
    BY <1>0, <1>3, QueuedAfter DEF Promised, Unmoved
  <2> QED BY <1>1, <1>3, <2>1
<1>4. CASE link[c] = "up" /\ Write(c)
  <2>1. Queued(c) = Queued(c)' \cup {Head(queue[c])}
    BY <1>0, <1>4, QueuedAfter DEF Write, TypeOK
  <2>2. fetched'[c] \in {fetched[c], Head(queue[c]).of} /\ reply'[c] = reply[c]
    <3>1. PICK m : m = Head(queue[c])
      OBVIOUS
    <3>2. fetched' = [fetched EXCEPT ![c] = IF m.of = Nobody THEN @ ELSE m.of]
      BY <1>4, <3>1 DEF Write
    <3> QED BY <1>0, <1>4, <3>1, <3>2 DEF Write, TypeOK, session
  <2>3. Promised(c, u)
    BY <2>1, <2>2 DEF Promised
  <2> QED BY <1>1, <1>4, <2>3
<1>5. CASE link[c] = "up" /\ HandleGetInbox(c)
  <2>1. /\ reply'[c] = Inbox(user[c]) /\ user[c] # Nobody /\ user[c] \in Users
        /\ fetched'[c] = fetched[c] /\ queue'[c] = queue[c] /\ hub' = hub
    BY <1>0, <1>5 DEF HandleGetInbox, TypeOK, screen
  <2>2. Promised(c, u) \/ u = user[c]
    <3>1. Queued(c)' = Queued(c)
      BY <1>0, <2>1, QueuedAfter
    <3> QED BY <2>1, <3>1 DEF Promised, Inbox
  <2>3. hub[user[c]] = c
    BY <1>5, <2>1 DEF HubInv, LiveIsRegistered, Serving
  <2> QED BY <1>1, <1>5, <2>1, <2>2, <2>3
<1>6. CASE link[c] = "up" /\ Answer(c)
  <2>1. /\ reply'[c] = Ack /\ fetched'[c] = fetched[c] /\ reply[c] \in Messages
        /\ queue'[c] = Append(queue[c], reply[c]) \/ queue'[c] = queue[c]
    BY <1>0, <1>6 DEF Answer, TypeOK, screen
  <2>2. Queued(c)' \subseteq Queued(c) \cup {reply[c]}
    BY <1>0, <2>1, QueuedAfter
  <2>3. Promised(c, u)
    BY <1>0, <2>1, <2>2 DEF Promised, Ack
  <2> QED BY <1>1, <1>6, <2>3
<1>7. ASSUME link[c] = "up", NEW l \in Letters, SendToUser(l) PROVE hub'[u] = c
  <2>1. /\ reply'[c] = reply[c] /\ fetched'[c] = fetched[c]
        /\ queue'[c] = Append(queue[c], Push(l)) \/ queue'[c] = queue[c]
    BY <1>0, <1>7, HubAssumption DEF SendToUser, Enqueue, TypeOK, session, screen
  <2>2. Push(l) \in Messages /\ Push(l).of = Nobody
    BY DEF Push, Messages
  <2>3. Queued(c)' \subseteq Queued(c) \cup {Push(l)}
    BY <1>0, <2>1, <2>2, QueuedAfter
  <2>4. Promised(c, u)
    BY <1>0, <2>1, <2>2, <2>3 DEF Promised
  <2> QED BY <1>1, <1>7, <2>4
<1> QED BY <1>2, <1>3, <1>4, <1>5, <1>6, <1>7, StepOf

(* A letter known stays known to a connection that is the hub's and stays up. *)
LEMMA KnownStays ==
    ASSUME HubInv, [Next]_vars, NEW c \in Conns, NEW l \in delivered, Known(c, l),
           link[c] = "up", link'[c] = "up", hub[To[l]] = c
    PROVE  Known(c, l)'
<1>0. TypeOK /\ TypeOK' /\ l \in Letters /\ c # Nobody
  BY NextTypeOK, HubAssumption DEF HubInv, TypeOK
<1>1. CASE Unmoved(c) /\ (UNCHANGED mailbox \/ DeliverMessages)
  <2>1. seen'[c] = seen[c] /\ dropped' = dropped /\ pushes \subseteq pushes'
    BY <1>1 DEF Unmoved, mailbox, DeliverMessages
  <2>2. Queued(c)' = Queued(c)
    BY <1>0, <1>1, QueuedAfter DEF Unmoved
  <2> QED BY <2>1, <2>2 DEF Known
<1>2. CASE Write(c)
  <2>1. PICK m : m = Head(queue[c])
    OBVIOUS
  <2>2. Queued(c) = Queued(c)' \cup {m}
    BY <1>0, <1>2, <2>1, QueuedAfter DEF Write, TypeOK
  <2>3. seen' = [seen EXCEPT ![c] = @ \cup m.letters] /\ UNCHANGED mailbox
    BY <1>2, <2>1 DEF Write
  <2>4. seen'[c] = seen[c] \cup m.letters
    BY <1>0, <2>3 DEF TypeOK
  <2> QED BY <2>2, <2>3, <2>4 DEF Known, mailbox
<1>3. CASE HandleGetInbox(c) \/ Answer(c)
  <2>1. /\ seen'[c] = seen[c] /\ UNCHANGED mailbox /\ reply[c] \in Messages
        /\ queue'[c] = Append(queue[c], reply[c]) \/ queue'[c] = queue[c]
    BY <1>0, <1>3 DEF HandleGetInbox, Answer, TypeOK, screen
  <2>2. Queued(c) \subseteq Queued(c)'
    BY <1>0, <2>1, QueuedAfter
  <2> QED BY <2>1, <2>2 DEF Known, mailbox
<1>4. ASSUME NEW k \in Letters, SendToUser(k) PROVE Known(c, l)'
  <2>1. /\ seen'[c] = seen[c] /\ pushes' = pushes \ {k} /\ dropped \subseteq dropped'
        /\ queue'[c] = Append(queue[c], Push(k)) \/ queue'[c] = queue[c]
    BY <1>0, <1>4, HubAssumption DEF SendToUser, Enqueue, TypeOK, session, screen
  <2>2. Push(k) \in Messages /\ Push(k).letters = {k}
    BY DEF Push, Messages
  <2>3. Queued(c) \subseteq Queued(c)'
    BY <1>0, <2>1, <2>2, QueuedAfter
  <2>4. CASE k # l
    BY <2>1, <2>3, <2>4 DEF Known
  <2>5. CASE k = l
    <3>1. Enqueue(c, l)
      BY <1>0, <1>4, <2>5 DEF SendToUser
    <3>2. CASE l \in dropped'
      BY <3>2 DEF Known
    <3>3. CASE queue'[c] = Append(queue[c], Push(l))
      <4>1. Push(l) \in Queued(c)'
        BY <1>0, <2>2, <2>5, <3>3, QueuedAfter
      <4> QED BY <2>2, <2>5, <4>1 DEF Known
    <3> QED BY <1>0, <3>1, <3>2, <3>3 DEF Enqueue, TypeOK
  <2> QED BY <2>4, <2>5
<1> QED BY <1>1, <1>2, <1>3, <1>4, StepOf

(* A letter of a user with a promised inbox is known or in the pending response. *)
LEMMA NextInboxesComplete == HubInv /\ InboxInv /\ [Next]_vars => InboxesComplete'
<1> SUFFICES ASSUME HubInv, InboxInv, [Next]_vars, NEW c \in Conns, NEW l \in delivered',
                    link'[c] = "up"
             PROVE  /\ fetched'[c] = To[l] \/ (\E m \in Queued(c)' : m.of = To[l]) => Known(c, l)'
                    /\ reply'[c].of = To[l] => Known(c, l)' \/ l \in reply'[c].letters
  BY DEF InboxesComplete
<1> DEFINE Shown == fetched'[c] = To[l] \/ (\E m \in Queued(c)' : m.of = To[l]) => Known(c, l)'
           Pending == reply'[c].of = To[l] => Known(c, l)' \/ l \in reply'[c].letters
<1>0. TypeOK /\ TypeOK' /\ Blank /\ l \in Letters /\ To[l] \in Users /\ To[l] # Nobody
  BY NextTypeOK, HubAssumption DEF HubInv, TypeOK
<1>1. CASE link[c] = "none" /\ Unmoved(c)
  <2>1. queue'[c] = <<>> /\ fetched'[c] = Nobody /\ reply'[c] = Ack
    BY <1>0, <1>1 DEF Unmoved, Blank
  <2>2. Queued(c)' = {}
    BY <1>0, <2>1, QueuedAfter
  <2> QED BY <1>0, <2>1, <2>2 DEF Ack
<1>2. ASSUME link[c] = "up", l \in delivered, Promised(c, To[l]), Known(c, l) PROVE Known(c, l)'
  <2>1. hub[To[l]] = c
    BY <1>0, <1>2 DEF InboxInv, InboxesRegistered
  <2> QED BY <1>2, <2>1, KnownStays
<1>3. ASSUME link[c] = "up", l \in delivered,
             fetched[c] = To[l] \/ (\E m \in Queued(c) : m.of = To[l])
      PROVE  Known(c, l)'
  <2>1. Known(c, l) /\ Promised(c, To[l])
    BY <1>3 DEF InboxInv, InboxesComplete, Promised
  <2> QED BY <1>2, <1>3, <2>1
<1>4. ASSUME link[c] = "up", l \in delivered, reply[c].of = To[l]
      PROVE  Known(c, l)' \/ l \in reply[c].letters
  <2>1. Known(c, l) \/ l \in reply[c].letters
    BY <1>4 DEF InboxInv, InboxesComplete
  <2>2. Promised(c, To[l])
    BY <1>4 DEF Promised
  <2> QED BY <1>2, <1>4, <2>1, <2>2
<1>5. CASE link[c] = "up" /\ Unmoved(c) /\ l \in delivered
  <2>1. Queued(c)' = Queued(c) /\ fetched'[c] = fetched[c] /\ reply'[c] = reply[c]
    BY <1>0, <1>5, QueuedAfter DEF Unmoved
  <2> QED BY <1>3, <1>4, <1>5, <2>1
<1>6. CASE DeliverMessages /\ l \notin delivered
  <2>1. l \in pushes'
    BY <1>6 DEF DeliverMessages
  <2> QED BY <2>1 DEF Known
<1>7. CASE link[c] = "up" /\ Write(c)
  <2>0. l \in delivered
    BY <1>7 DEF Write, mailbox
  <2>1. Queued(c) = Queued(c)' \cup {Head(queue[c])}
    BY <1>0, <1>7, QueuedAfter DEF Write, TypeOK
  <2>2. fetched'[c] \in {fetched[c], Head(queue[c]).of} /\ reply'[c] = reply[c]
    <3>1. PICK m : m = Head(queue[c])
      OBVIOUS
    <3>2. fetched' = [fetched EXCEPT ![c] = IF m.of = Nobody THEN @ ELSE m.of]
      BY <1>7, <3>1 DEF Write
    <3> QED BY <1>0, <1>7, <3>1, <3>2 DEF Write, TypeOK, session
  <2>3. Shown
    BY <1>3, <1>7, <2>0, <2>1, <2>2
  <2> QED BY <1>4, <1>7, <2>0, <2>2, <2>3
<1>8. CASE link[c] = "up" /\ HandleGetInbox(c)
  <2>1. /\ reply'[c] = Inbox(user[c]) /\ l \in delivered
        /\ fetched'[c] = fetched[c] /\ queue'[c] = queue[c]
    BY <1>0, <1>8 DEF HandleGetInbox, TypeOK, screen, mailbox
  <2>2. Queued(c)' = Queued(c)
    BY <1>0, <2>1, QueuedAfter
  <2>3. Shown
    BY <1>3, <1>8, <2>1, <2>2
  <2>4. Pending
    BY <2>1 DEF Inbox
  <2> QED BY <2>3, <2>4
<1>9. CASE link[c] = "up" /\ Answer(c)
  <2>1. /\ reply'[c] = Ack /\ fetched'[c] = fetched[c] /\ l \in delivered
        /\ reply[c] \in Messages
        /\ queue'[c] = Append(queue[c], reply[c]) \/ queue'[c] = queue[c]
    BY <1>0, <1>9 DEF Answer, TypeOK, screen, mailbox
  <2>2. Pending
    BY <1>0, <2>1 DEF Ack
  <2>3. CASE Queued(c)' = Queued(c)
    <3>1. Shown
      BY <1>3, <1>9, <2>1, <2>3
    <3> QED BY <2>2, <3>1
  <2>4. CASE Queued(c)' = Queued(c) \cup {reply[c]}
    <3>1. l \in reply[c].letters => Known(c, l)'
      BY <2>4 DEF Known
    <3>2. Shown
      BY <1>3, <1>4, <1>9, <2>1, <2>4, <3>1
    <3> QED BY <2>2, <3>2
  <2> QED BY <1>0, <2>1, <2>3, <2>4, QueuedAfter
<1>10. ASSUME link[c] = "up", NEW k \in Letters, SendToUser(k) PROVE Shown /\ Pending
  <2>1. /\ reply'[c] = reply[c] /\ fetched'[c] = fetched[c] /\ l \in delivered
        /\ queue'[c] = Append(queue[c], Push(k)) \/ queue'[c] = queue[c]
    BY <1>0, <1>10, HubAssumption DEF SendToUser, Enqueue, TypeOK, session, screen
  <2>2. Push(k) \in Messages /\ Push(k).of = Nobody
    BY DEF Push, Messages
  <2>3. Queued(c)' \subseteq Queued(c) \cup {Push(k)}
    BY <1>0, <2>1, <2>2, QueuedAfter
  <2>4. Shown
    BY <1>0, <1>3, <1>10, <2>1, <2>2, <2>3
  <2>5. Pending
    BY <1>4, <1>10, <2>1
  <2> QED BY <2>4, <2>5
<1>11. l \in delivered \/ (DeliverMessages /\ l \notin delivered) \/ ~UNCHANGED mailbox
  BY DEF mailbox
<1> QED BY <1>1, <1>5, <1>6, <1>7, <1>8, <1>9, <1>10, <1>11, StepOf

(* At the start nobody is connected. *)
LEMMA InitInv == Init => HubInv /\ InboxInv
<1> SUFFICES ASSUME Init PROVE HubInv /\ InboxInv
  OBVIOUS
<1>1. TypeOK
  <2>1. Ack \in Messages /\ <<>> \in Seq(Messages) /\ Len(<<>>) = 0 /\ 0 <= QueueSize
    BY HubAssumption DEF Ack, Messages
  <2> QED BY <2>1 DEF Init, TypeOK, Phases
<1>2. Blank /\ LiveIsRegistered /\ GoneIsForgotten
  BY DEF Init, Blank, LiveIsRegistered, GoneIsForgotten, Serving
<1>3. InboxInv
  BY DEF Init, InboxInv, InboxesRegistered, InboxesComplete
<1> QED BY <1>1, <1>2, <1>3 DEF HubInv

(* The invariants hold throughout. *)
THEOREM Invariance == Spec => [](HubInv /\ InboxInv)
<1>1. Init => HubInv /\ InboxInv
  BY InitInv
<1>2. HubInv /\ InboxInv /\ [Next]_vars => (HubInv /\ InboxInv)'
  BY NextHubInv, NextInboxesRegistered, NextInboxesComplete DEF InboxInv
<1> QED BY <1>1, <1>2, PTL DEF Spec

(* TypeOK, for any constants: only accounts are signed in, and no send queue    *)
(* exceeds its capacity.                                                       *)
THEOREM TypeCorrect == Spec => []TypeOK
<1>1. HubInv /\ InboxInv => TypeOK
  BY DEF HubInv
<1> QED BY <1>1, Invariance, PTL

(* However sign-ins, losses and late handlers interleave, a connection that is  *)
(* signed in and not lost is its user's in the hub.                            *)
THEOREM TheLiveAreRegistered == Spec => []LiveIsRegistered
<1>1. HubInv /\ InboxInv => LiveIsRegistered
  BY DEF HubInv
<1> QED BY <1>1, Invariance, PTL

(* The hub keeps no connection that has gone for the user it was signed in as.  *)
THEOREM TheGoneAreForgotten == Spec => []GoneIsForgotten
<1>1. HubInv /\ InboxInv => GoneIsForgotten
  BY DEF HubInv
<1> QED BY <1>1, Invariance, PTL

(* Inbox and pushes together miss no delivered letter but those whose push      *)
(* found the queue full, also for clients that change users.                   *)
THEOREM NoLetterIsMissed == Spec => []NothingMissed
<1>1. HubInv /\ InboxInv => NothingMissed
  BY DEF InboxInv, InboxesComplete, NothingMissed
<1> QED BY <1>1, Invariance, PTL
-----------------------------------------------------------------------------
(* The registrations granted in the window of entry e, and those of the window  *)
(* before it that may still be recent.                                         *)
InWindow(ip, e) == {r \in Granted(ip) : grant[r].at >= e.regWindow}
BeforeWindow(ip, e) ==
    {r \in Granted(ip) : grant[r].at < e.regWindow /\ grant[r].at + Window > e.regWindow}

(* Entry e tells the truth about the registrations of ip. *)
Truthful(ip, e) ==
    /\ e.regWindow <= now /\ e.lastActive <= now
    /\ \A r \in Granted(ip) : grant[r].at <= e.lastActive
    /\ \A r \in InWindow(ip, e) : grant[r].at <= e.regWindow + Window
    /\ Cardinality(InWindow(ip, e)) = e.regs /\ e.regs <= MaxRegs
    /\ Cardinality(BeforeWindow(ip, e)) <= MaxRegs

(* What is missing from the map has nothing left to count. *)
WindowsTruthful ==
    \A ip \in Ips :
        IF counters[ip] = Absent THEN \A r \in Granted(ip) : grant[r].at + Window < now
                                 ELSE Truthful(ip, counters[ip])

(* The inductive invariant. *)
LimitsInv == LimitsTypeOK /\ ConnsCounted /\ WindowsTruthful

(* Sets of registrations and of connections are finite. *)
LEMMA FiniteSets ==
    ASSUME NEW ip, NEW e
    PROVE  /\ IsFiniteSet(OpenFrom(ip)) \/ ~(open \subseteq Sockets)
           /\ IsFiniteSet(Granted(ip))
           /\ IsFiniteSet(InWindow(ip, e)) /\ Cardinality(InWindow(ip, e)) \in Nat
           /\ IsFiniteSet(BeforeWindow(ip, e)) /\ Cardinality(BeforeWindow(ip, e)) \in Nat
<1>1. ASSUME open \subseteq Sockets PROVE IsFiniteSet(OpenFrom(ip))
  <2>1. OpenFrom(ip) \in SUBSET Sockets
    BY <1>1 DEF OpenFrom
  <2> QED BY <2>1, FS_Subset, LimiterAssumption
<1>2. /\ Granted(ip) \in SUBSET Registrations
      /\ InWindow(ip, e) \in SUBSET Registrations
      /\ BeforeWindow(ip, e) \in SUBSET Registrations
  BY DEF Granted, InWindow, BeforeWindow
<1>3. /\ IsFiniteSet(Granted(ip)) /\ IsFiniteSet(InWindow(ip, e))
      /\ IsFiniteSet(BeforeWindow(ip, e))
  BY <1>2, FS_Subset, LimiterAssumption
<1> QED BY <1>1, <1>3, FS_CardinalityType

(* The entry an operation works on is an entry. *)
LEMMA EntryType ==
    ASSUME LimitsTypeOK, NEW ip \in Ips
    PROVE  Entry(ip) \in Counter /\ Current(Entry(ip)) \in Counter
<1>1. Entry(ip) \in Counter
  BY LimiterAssumption DEF LimitsTypeOK, Entry, Counter
<1> QED BY <1>1 DEF Current, Counter, LimitsTypeOK

(* The counter an open connection is released from counts at least that one.    *)
LEMMA ReleaseFindsOne ==
    ASSUME LimitsTypeOK, ConnsCounted, NEW c \in Sockets, c \in open, counters[IpOf[c]] # Absent
    PROVE  counters[IpOf[c]].conns - 1 \in Nat
<1>1. IpOf[c] \in Ips /\ c \in OpenFrom(IpOf[c])
  BY LimiterAssumption DEF OpenFrom
<1>2. IsFiniteSet(OpenFrom(IpOf[c]))
  BY FiniteSets DEF LimitsTypeOK
<1>3. Cardinality(OpenFrom(IpOf[c])) # 0
  BY <1>1, <1>2, FS_EmptySet
<1>4. counters[IpOf[c]].conns # 0
  BY <1>1, <1>3 DEF ConnsCounted, Counted
<1> QED BY <1>1, <1>4 DEF LimitsTypeOK, Counter

(* No operation takes a counter below zero: ReleaseConn finds one to take away.  *)
LEMMA NextLimitsTypeOK == LimitsInv /\ [LimitsNext]_limits => LimitsTypeOK'
<1> SUFFICES ASSUME LimitsTypeOK, ConnsCounted, [LimitsNext]_limits PROVE LimitsTypeOK'
  BY DEF LimitsInv
<1>1. CASE Tick
  BY <1>1 DEF Tick, LimitsTypeOK
<1>2. ASSUME NEW c \in Sockets, AllowConn(c) PROVE LimitsTypeOK'
  <2>1. IpOf[c] \in Ips /\ Entry(IpOf[c]) \in Counter
    BY EntryType, LimiterAssumption
  <2> QED BY <1>2, <2>1 DEF AllowConn, LimitsTypeOK, Counter
<1>3. ASSUME NEW c \in Sockets, ReleaseConn(c) PROVE LimitsTypeOK'
  <2>1. IpOf[c] \in Ips /\ c \in open
    BY <1>3, LimiterAssumption DEF ReleaseConn
  <2>2. CASE counters[IpOf[c]] = Absent
    BY <1>3, <2>2 DEF ReleaseConn, LimitsTypeOK
  <2>3. CASE counters[IpOf[c]] # Absent
    <3>1. counters[IpOf[c]].conns - 1 \in Nat
      BY <2>1, <2>3, ReleaseFindsOne
    <3> QED BY <1>3, <2>1, <2>3, <3>1 DEF ReleaseConn, LimitsTypeOK, Counter
  <2> QED BY <2>2, <2>3
<1>4. ASSUME NEW c \in Sockets, AllowRegistration(c) PROVE LimitsTypeOK'
  <2> DEFINE e == Current(Entry(IpOf[c]))
  <2>1. IpOf[c] \in Ips /\ e \in Counter
    BY EntryType, LimiterAssumption
  <2> HIDE DEF e
  <2>2. CASE e.regs >= MaxRegs
    BY <1>4, <2>1, <2>2 DEF AllowRegistration, LimitsTypeOK, e
  <2>3. CASE ~(e.regs >= MaxRegs)
    <3>1. [e EXCEPT !.regs = @ + 1] \in Counter
      BY <2>1 DEF Counter
    <3>2. /\ counters' = [counters EXCEPT ![IpOf[c]] = [e EXCEPT !.regs = @ + 1]]
          /\ UNCHANGED <<now, open>>
          /\ \E r \in Registrations : grant' = [grant EXCEPT ![r] = [ip |-> IpOf[c], at |-> now]]
      BY <1>4, <2>3 DEF AllowRegistration, e
    <3> QED BY <2>1, <3>1, <3>2 DEF LimitsTypeOK
  <2> QED BY <2>2, <2>3
<1>5. CASE Cleanup
  BY <1>5 DEF Cleanup, LimitsTypeOK
<1>6. CASE UNCHANGED limits
  BY <1>6 DEF limits, LimitsTypeOK
<1> QED BY <1>1, <1>2, <1>3, <1>4, <1>5, <1>6 DEF LimitsNext

(* An address keeps its count when neither its open connections nor what its    *)
(* counter says of them change.                                                *)
LEMMA SameCount ==
    ASSUME ConnsCounted, NEW ip \in Ips, OpenFrom(ip)' = OpenFrom(ip), Counted(ip)' = Counted(ip)
    PROVE  Cardinality(OpenFrom(ip)') = Counted(ip)'
BY DEF ConnsCounted

(* Every operation keeps the counters equal to the open connections. *)
LEMMA NextConnsCounted == LimitsInv /\ [LimitsNext]_limits => ConnsCounted'
<1> SUFFICES ASSUME LimitsTypeOK, ConnsCounted, [LimitsNext]_limits, NEW ip \in Ips
             PROVE  Cardinality(OpenFrom(ip)') = Counted(ip)'
  BY DEF LimitsInv, ConnsCounted
<1>0. /\ Cardinality(OpenFrom(ip)) = Counted(ip) /\ IsFiniteSet(OpenFrom(ip))
      /\ counters[ip] # Absent => counters[ip] \in Counter
  BY FiniteSets DEF ConnsCounted, LimitsTypeOK
<1>1. CASE Tick
  BY <1>1, SameCount DEF Tick, OpenFrom, Counted
<1>2. ASSUME NEW c \in Sockets, AllowConn(c) PROVE Cardinality(OpenFrom(ip)') = Counted(ip)'
  <2> DEFINE e == Entry(IpOf[c])
  <2>1. IpOf[c] \in Ips /\ e \in Counter
    BY EntryType, LimiterAssumption
  <2>2. e.conns = Counted(IpOf[c])
    BY <2>1, LimiterAssumption DEF Entry, Counted, LimitsTypeOK, Counter
  <2> HIDE DEF e
  <2>3. CASE ip # IpOf[c]
    <3>1. OpenFrom(ip)' = OpenFrom(ip) /\ counters'[ip] = counters[ip]
      BY <1>2, <2>3 DEF AllowConn, OpenFrom, LimitsTypeOK
    <3> QED BY <3>1, SameCount DEF Counted
  <2>4. CASE ip = IpOf[c] /\ e.conns >= MaxConns
    <3>1. open' = open /\ counters'[ip] = e
      BY <1>2, <2>1, <2>4 DEF AllowConn, LimitsTypeOK, e
    <3>2. e # Absent
      BY <2>1, LimiterAssumption
    <3> QED BY <3>1, <3>2, <2>2, <2>4, SameCount DEF Counted, OpenFrom
  <2>5. CASE ip = IpOf[c] /\ ~(e.conns >= MaxConns)
    <3>1. /\ open' = open \cup {c} /\ c \notin open
          /\ counters'[ip] = [e EXCEPT !.conns = @ + 1]
      BY <1>2, <2>1, <2>5 DEF AllowConn, LimitsTypeOK, e
    <3>2. OpenFrom(ip)' = OpenFrom(ip) \cup {c} /\ c \notin OpenFrom(ip)
      BY <3>1, <2>5 DEF OpenFrom
    <3>3. Cardinality(OpenFrom(ip)') = Cardinality(OpenFrom(ip)) + 1
      BY <3>2, <1>0, FS_AddElement
    <3>4. [e EXCEPT !.conns = @ + 1] \in Counter
      BY <2>1 DEF Counter
    <3>5. Counted(ip)' = e.conns + 1
      BY <3>1, <3>4, <2>1, LimiterAssumption DEF Counted, Counter
    <3> QED BY <3>3, <3>5, <2>2, <2>5, <1>0
  <2> QED BY <2>3, <2>4, <2>5
<1>3. ASSUME NEW c \in Sockets, ReleaseConn(c) PROVE Cardinality(OpenFrom(ip)') = Counted(ip)'
  <2>1. CASE ip # IpOf[c]
    <3>1. OpenFrom(ip)' = OpenFrom(ip)
      BY <1>3, <2>1 DEF ReleaseConn, OpenFrom
    <3>2. counters'[ip] = counters[ip]
      BY <1>3, <2>1 DEF ReleaseConn, LimitsTypeOK
    <3> QED BY <3>1, <3>2, SameCount DEF Counted
  <2>2. CASE ip = IpOf[c]
    <3>1. OpenFrom(ip)' = OpenFrom(ip) \ {c} /\ c \in OpenFrom(ip)
      BY <1>3, <2>2 DEF ReleaseConn, OpenFrom
    <3>2. Cardinality(OpenFrom(ip)') = Cardinality(OpenFrom(ip)) - 1
      BY <3>1, <1>0, FS_RemoveElement
    <3>3. Cardinality(OpenFrom(ip)) # 0
      BY <3>1, <1>0, FS_EmptySet
    <3>4. counters[ip] # Absent
      BY <3>3, <1>0 DEF Counted
    <3>5. counters'[ip] = [counters[ip] EXCEPT !.conns = @ - 1] /\ counters[ip].conns # 0
      BY <1>3, <2>2, <3>3, <3>4, <1>0 DEF ReleaseConn, LimitsTypeOK, Counted
    <3>6. counters'[ip] \in Counter /\ counters'[ip].conns = counters[ip].conns - 1
      BY <3>4, <3>5, <1>0 DEF Counter
    <3> QED BY <3>2, <3>4, <3>6, <1>0, LimiterAssumption DEF Counted
  <2> QED BY <2>1, <2>2
<1>4. ASSUME NEW c \in Sockets, AllowRegistration(c)
      PROVE  Cardinality(OpenFrom(ip)') = Counted(ip)'
  <2> DEFINE e == Current(Entry(IpOf[c]))
  <2>1. IpOf[c] \in Ips /\ e \in Counter
    BY EntryType, LimiterAssumption
  <2>2. e.conns = Counted(IpOf[c])
    BY <2>1, LimiterAssumption DEF Current, Entry, Counted, LimitsTypeOK, Counter
  <2>3. open' = open /\ (ip # IpOf[c] => counters'[ip] = counters[ip])
    BY <1>4, <2>1 DEF AllowRegistration, LimitsTypeOK
  <2>4. counters'[IpOf[c]] \in Counter /\ counters'[IpOf[c]].conns = e.conns
    <3> HIDE DEF e
    <3>1. counters'[IpOf[c]] \in {e, [e EXCEPT !.regs = @ + 1]}
      BY <1>4, <2>1 DEF AllowRegistration, LimitsTypeOK, e
    <3> QED BY <3>1, <2>1 DEF Counter
  <2> HIDE DEF e
  <2>5. Counted(ip)' = Counted(ip)
    BY <2>2, <2>3, <2>4, LimiterAssumption DEF Counted
  <2>6. OpenFrom(ip)' = OpenFrom(ip)
    BY <2>3 DEF OpenFrom
  <2> QED BY <2>5, <2>6, SameCount
<1>5. CASE Cleanup
  <2>1. OpenFrom(ip)' = OpenFrom(ip)
    BY <1>5 DEF Cleanup, OpenFrom
  <2>2. counters'[ip] = IF Stale(ip) THEN Absent ELSE counters[ip]
    BY <1>5 DEF Cleanup
  <2>3. Stale(ip) => Counted(ip) = 0
    BY <1>0 DEF Stale, Counted, Counter
  <2>4. Counted(ip)' = Counted(ip)
    BY <2>2, <2>3 DEF Counted
  <2> QED BY <2>1, <2>4, SameCount
<1>6. CASE UNCHANGED limits
  BY <1>6, SameCount DEF limits, OpenFrom, Counted
<1> QED BY <1>1, <1>2, <1>3, <1>4, <1>5, <1>6 DEF LimitsNext

(* What an entry says of the registrations stays true when only its count of    *)
(* connections or its last use changes and no registration is granted.         *)
LEMMA TruthKept ==
    ASSUME NEW ip, NEW e \in Counter, NEW f \in Counter, LimitsTypeOK, LimitsTypeOK', Truthful(ip, e),
           f.regs = e.regs, f.regWindow = e.regWindow,
           e.lastActive <= f.lastActive, f.lastActive <= now', now <= now',
           Granted(ip)' = Granted(ip), \A r \in Granted(ip) : grant'[r] = grant[r]
    PROVE  Truthful(ip, f)'
<1>1. /\ now \in Nat /\ now' \in Nat
      /\ e.regWindow \in Nat /\ e.lastActive \in Nat /\ f.lastActive \in Nat
      /\ \A r \in Granted(ip) : grant[r].at \in Nat
  BY DEF LimitsTypeOK, Counter, Granted
<1>2. InWindow(ip, f)' = InWindow(ip, e) /\ BeforeWindow(ip, f)' = BeforeWindow(ip, e)
  BY DEF InWindow, BeforeWindow
<1>3. \A r \in Granted(ip) : grant[r].at <= f.lastActive
  BY <1>1 DEF Truthful
<1>4. \A r \in InWindow(ip, e) : grant'[r] = grant[r] /\ grant[r].at <= e.regWindow + Window
  BY DEF InWindow, Truthful
<1>5. e.regWindow <= now'
  BY <1>1 DEF Truthful
<1> QED BY <1>2, <1>3, <1>4, <1>5 DEF Truthful

(* An entry made anew has nothing to count. *)
LEMMA EntryTruthful ==
    ASSUME LimitsTypeOK, WindowsTruthful, NEW ip \in Ips
    PROVE  Truthful(ip, Entry(ip))
<1>0. /\ now \in Nat /\ Window \in Nat /\ MaxRegs \in Nat
      /\ \A r \in Granted(ip) : grant[r].at \in Nat
  BY LimiterAssumption DEF LimitsTypeOK, Granted
<1>1. CASE counters[ip] = Absent
  <2> DEFINE e == [conns |-> 0, regs |-> 0, regWindow |-> now, lastActive |-> now]
  <2>1. Entry(ip) = e
    BY <1>1 DEF Entry
  <2>2. \A r \in Granted(ip) : grant[r].at + Window < now
    BY <1>1 DEF WindowsTruthful
  <2>3. InWindow(ip, e) = {} /\ BeforeWindow(ip, e) = {}
    BY <1>0, <2>2 DEF InWindow, BeforeWindow
  <2>4. Cardinality(InWindow(ip, e)) = 0 /\ Cardinality(BeforeWindow(ip, e)) = 0
    BY <2>3, FS_EmptySet
  <2>5. \A r \in Granted(ip) : grant[r].at <= now
    BY <1>0, <2>2
  <2>6. e.regWindow = now /\ e.lastActive = now /\ e.regs = 0 /\ now <= now /\ 0 <= MaxRegs
    BY <1>0
  <2> HIDE DEF e
  <2> QED BY <2>1, <2>3, <2>4, <2>5, <2>6 DEF Truthful
<1>2. CASE counters[ip] # Absent
  <2> DEFINE e == counters[ip]
             f == Entry(ip)
  <2>1. e \in Counter /\ f = [e EXCEPT !.lastActive = now] /\ Truthful(ip, e)
    BY <1>2 DEF Entry, WindowsTruthful, LimitsTypeOK
  <2>2. f.regs = e.regs /\ f.regWindow = e.regWindow /\ f.lastActive = now
    BY <2>1 DEF Counter
  <2> HIDE DEF e, f
  <2>3. InWindow(ip, f) = InWindow(ip, e) /\ BeforeWindow(ip, f) = BeforeWindow(ip, e)
    BY <2>2 DEF InWindow, BeforeWindow
  <2>4. \A r \in Granted(ip) : grant[r].at <= now
    BY <1>0, <2>1 DEF Truthful, Counter
  <2>5. Truthful(ip, f)
    BY <1>0, <2>1, <2>2, <2>3, <2>4 DEF Truthful
  <2> QED BY <2>5 DEF f
<1> QED BY <1>1, <1>2

(* The reset keeps an entry true: what it forgets is all in the window before.  *)
LEMMA CurrentTruthful ==
    ASSUME LimitsTypeOK, NEW ip \in Ips, NEW e \in Counter, Truthful(ip, e), e.lastActive = now
    PROVE  /\ Truthful(ip, Current(e))
           /\ now <= Current(e).regWindow + Window /\ Current(e).lastActive = now
<1>0. /\ now \in Nat /\ Window \in Nat \ {0} /\ MaxRegs \in Nat /\ e.regWindow \in Nat
      /\ e.regs \in Nat /\ \A r \in Granted(ip) : grant[r].at \in Nat
  BY LimiterAssumption DEF LimitsTypeOK, Granted, Counter
<1>1. CASE ~(now - e.regWindow > Window)
  BY <1>0, <1>1 DEF Current
<1>2. CASE now - e.regWindow > Window
  <2> DEFINE f == [e EXCEPT !.regs = 0, !.regWindow = now]
  <2>1. Current(e) = f
    BY <1>2 DEF Current
  <2>2. f.regs = 0 /\ f.regWindow = now /\ f.lastActive = now
    BY DEF Counter
  <2> HIDE DEF f
  <2>3. \A r \in Granted(ip) : grant[r].at < now
    <3> SUFFICES ASSUME NEW r \in Granted(ip) PROVE grant[r].at < now
      OBVIOUS
    <3>1. CASE grant[r].at >= e.regWindow
      BY <1>0, <1>2, <3>1 DEF Truthful, InWindow
    <3>2. CASE ~(grant[r].at >= e.regWindow)
      BY <1>0, <1>2, <3>2
    <3> QED BY <3>1, <3>2
  <2>4. InWindow(ip, f) = {}
    BY <1>0, <2>2, <2>3 DEF InWindow
  <2>5. BeforeWindow(ip, f) \subseteq InWindow(ip, e)
    BY <1>0, <1>2, <2>2 DEF BeforeWindow, InWindow
  <2>6. Cardinality(InWindow(ip, f)) = 0
    BY <2>4, FS_EmptySet
  <2>7. Cardinality(BeforeWindow(ip, f)) <= Cardinality(InWindow(ip, e))
    BY <2>5, FiniteSets, FS_Subset
  <2>8. /\ Cardinality(BeforeWindow(ip, f)) \in Nat /\ Cardinality(InWindow(ip, e)) \in Nat
        /\ Cardinality(InWindow(ip, e)) <= MaxRegs
    BY FiniteSets DEF Truthful
  <2>9. Cardinality(BeforeWindow(ip, f)) <= MaxRegs
    BY <1>0, <2>7, <2>8
  <2>10. \A r \in Granted(ip) : grant[r].at <= now
    BY <1>0, <2>3
  <2>11. Truthful(ip, f)
    BY <1>0, <2>2, <2>4, <2>6, <2>9, <2>10 DEF Truthful
  <2> QED BY <1>0, <2>1, <2>2, <2>11
<1> QED BY <1>1, <1>2

(* An address none of whose registrations changed keeps what was true of it.    *)
LEMMA AddressUntouched ==
    ASSUME LimitsTypeOK, LimitsTypeOK', WindowsTruthful, NEW ip \in Ips, now <= now',
           Granted(ip)' = Granted(ip), \A r \in Granted(ip) : grant'[r] = grant[r],
           counters'[ip] = counters[ip]
    PROVE  IF counters'[ip] = Absent
             THEN \A r \in Granted(ip)' : grant'[r].at + Window < now'
             ELSE Truthful(ip, counters[ip])'
<1>0. /\ now \in Nat /\ now' \in Nat /\ Window \in Nat
      /\ \A r \in Granted(ip) : grant[r].at \in Nat
  BY LimiterAssumption DEF LimitsTypeOK, Granted
<1>1. CASE counters[ip] = Absent
  BY <1>0, <1>1 DEF WindowsTruthful
<1>2. CASE counters[ip] # Absent
  <2>1. PICK e \in Counter : e = counters[ip]
    BY <1>2 DEF LimitsTypeOK
  <2>2. Truthful(ip, e) /\ e.lastActive \in Nat
    BY <1>2, <2>1 DEF WindowsTruthful, Counter
  <2>3. e.lastActive <= now' /\ e.lastActive <= e.lastActive
    BY <1>0, <2>2 DEF Truthful
  <2>4. Truthful(ip, e)'
    BY <2>2, <2>3, TruthKept
  <2>5. e = counters'[ip]
    BY <2>1
  <2> QED BY <1>2, <2>4, <2>5
<1> QED BY <1>1, <1>2

(* A granted registration is counted where it belongs, in the current window.   *)
LEMMA GrantCounted ==
    ASSUME LimitsTypeOK, NEW ip \in Ips, NEW r \in Registrations, grant[r] = NoGrant,
           grant' = [grant EXCEPT ![r] = [ip |-> ip, at |-> now]], now' = now,
           NEW e \in Counter, Truthful(ip, e), now <= e.regWindow + Window,
           e.lastActive = now, ~(e.regs >= MaxRegs),
           NEW f \in Counter, f = [e EXCEPT !.regs = @ + 1]
    PROVE  Truthful(ip, f)'
<1>0. /\ now \in Nat /\ Window \in Nat /\ MaxRegs \in Nat /\ e.regWindow \in Nat /\ e.regs \in Nat
      /\ e.regWindow <= now
  BY LimiterAssumption DEF LimitsTypeOK, Counter, Truthful
<1>1. f.regs = e.regs + 1 /\ f.regWindow = e.regWindow /\ f.lastActive = now
  BY DEF Counter
<1>2. r \notin Granted(ip) /\ Granted(ip)' = Granted(ip) \cup {r}
  BY LimiterAssumption DEF Granted, NoGrant, LimitsTypeOK
<1>3. grant'[r].at = now /\ \A q \in Granted(ip) : grant'[q] = grant[q]
  BY <1>2 DEF LimitsTypeOK, Granted
<1>4. InWindow(ip, f)' = InWindow(ip, e) \cup {r} /\ r \notin InWindow(ip, e)
  BY <1>0, <1>1, <1>2, <1>3 DEF InWindow
<1>5. BeforeWindow(ip, f)' = BeforeWindow(ip, e)
  BY <1>0, <1>1, <1>2, <1>3 DEF BeforeWindow
<1>6. Cardinality(InWindow(ip, f)') = Cardinality(InWindow(ip, e)) + 1
  BY <1>4, FiniteSets, FS_AddElement
<1>7. Cardinality(InWindow(ip, f)') = f.regs /\ f.regs <= MaxRegs
  BY <1>0, <1>1, <1>6 DEF Truthful
<1>8. \A q \in Granted(ip)' : grant'[q].at <= f.lastActive
  BY <1>0, <1>1, <1>2, <1>3 DEF Truthful
<1>9. \A q \in InWindow(ip, f)' : grant'[q].at <= f.regWindow + Window
  <2>1. \A q \in InWindow(ip, e) : grant'[q] = grant[q] /\ grant[q].at <= e.regWindow + Window
    BY <1>3 DEF InWindow, Truthful
  <2> QED BY <1>1, <1>3, <1>4, <2>1
<1>10. Cardinality(BeforeWindow(ip, f)') <= MaxRegs
  BY <1>5 DEF Truthful
<1>11. f.regWindow <= now' /\ f.lastActive <= now'
  BY <1>0, <1>1
<1> QED BY <1>7, <1>8, <1>9, <1>10, <1>11 DEF Truthful

(* Every operation leaves the entries of all addresses true. *)
LEMMA NextWindowsTruthful == LimitsInv /\ [LimitsNext]_limits => WindowsTruthful'
<1> SUFFICES ASSUME LimitsTypeOK, ConnsCounted, WindowsTruthful, LimitsTypeOK', [LimitsNext]_limits, NEW ip \in Ips
             PROVE  IF counters'[ip] = Absent
                      THEN \A r \in Granted(ip)' : grant'[r].at + Window < now'
                      ELSE Truthful(ip, counters[ip])'
  BY NextLimitsTypeOK DEF LimitsInv, WindowsTruthful
<1> DEFINE Told == IF counters'[ip] = Absent
                     THEN \A r \in Granted(ip)' : grant'[r].at + Window < now'
                     ELSE Truthful(ip, counters[ip])'
<1>0. /\ now \in Nat /\ now' \in Nat /\ Window \in Nat /\ Absent \notin Counter
      /\ \A r \in Granted(ip) : grant[r].at \in Nat
  BY LimiterAssumption DEF LimitsTypeOK, Granted
<1>1. ASSUME UNCHANGED grant
      PROVE  Granted(ip)' = Granted(ip) /\ \A r \in Granted(ip) : grant'[r] = grant[r]
  BY <1>1 DEF Granted
<1>2. ASSUME UNCHANGED grant, now <= now', counters'[ip] = counters[ip] PROVE Told
  BY <1>1, <1>2, AddressUntouched
<1>3. ASSUME UNCHANGED grant, UNCHANGED now, NEW e \in Counter, Truthful(ip, e),
             NEW n \in Nat, NEW f \in Counter, f = [e EXCEPT !.conns = n], counters'[ip] = f
      PROVE  Told
  <2>1. f.regs = e.regs /\ f.regWindow = e.regWindow /\ f.lastActive = e.lastActive
    BY <1>3 DEF Counter
  <2>2. e.lastActive \in Nat /\ e.lastActive <= now' /\ now <= now'
    BY <1>0, <1>3 DEF Truthful, Counter
  <2>3. e.lastActive <= f.lastActive /\ f.lastActive <= now'
    BY <2>1, <2>2
  <2>4. Truthful(ip, f)'
    BY <1>1, <1>3, <2>1, <2>2, <2>3, TruthKept
  <2> QED BY <1>0, <1>3, <2>4
<1>4. CASE Tick
  BY <1>0, <1>2, <1>4 DEF Tick
<1>5. ASSUME NEW c \in Sockets, AllowConn(c) PROVE Told
  <2>1. CASE ip # IpOf[c]
    BY <1>0, <1>2, <1>5, <2>1 DEF AllowConn, LimitsTypeOK
  <2>2. CASE ip = IpOf[c]
    <3>1. PICK e : e = Entry(ip)
      OBVIOUS
    <3>2. e \in Counter /\ Truthful(ip, e) /\ e.conns \in Nat /\ e.conns + 1 \in Nat
      BY <3>1, EntryType, EntryTruthful DEF Counter
    <3>3. \/ counters'[ip] = e
          \/ counters'[ip] = [e EXCEPT !.conns = @ + 1]
      BY <1>5, <2>2, <3>1 DEF AllowConn, LimitsTypeOK
    <3>4. PICK n \in Nat : counters'[ip] = [e EXCEPT !.conns = n]
      BY <3>2, <3>3 DEF Counter
    <3>5. [e EXCEPT !.conns = n] \in Counter
      BY <3>2 DEF Counter
    <3>6. UNCHANGED grant /\ UNCHANGED now
      BY <1>5 DEF AllowConn
    <3> QED BY <1>3, <3>2, <3>4, <3>5, <3>6
  <2> QED BY <2>1, <2>2
<1>6. ASSUME NEW c \in Sockets, ReleaseConn(c) PROVE Told
  <2>0. UNCHANGED grant /\ UNCHANGED now
    BY <1>6 DEF ReleaseConn
  <2>1. CASE ip # IpOf[c] \/ counters[ip] = Absent
    BY <1>0, <1>2, <1>6, <2>0, <2>1 DEF ReleaseConn, LimitsTypeOK
  <2>2. CASE ip = IpOf[c] /\ counters[ip] # Absent
    <3>1. PICK e \in Counter : e = counters[ip]
      BY <2>2 DEF LimitsTypeOK
    <3>2. Truthful(ip, e)
      BY <2>2, <3>1 DEF WindowsTruthful
    <3>3. counters'[ip] = [e EXCEPT !.conns = @ - 1]
      BY <1>6, <2>2, <3>1 DEF ReleaseConn, LimitsTypeOK
    <3>4. e.conns - 1 \in Nat
      BY <1>6, <2>2, <3>1, ReleaseFindsOne DEF ReleaseConn
    <3>5. PICK n \in Nat : counters'[ip] = [e EXCEPT !.conns = n]
      BY <3>3, <3>4
    <3>6. [e EXCEPT !.conns = n] \in Counter
      BY DEF Counter
    <3> QED BY <1>3, <2>0, <3>2, <3>5, <3>6
  <2> QED BY <2>1, <2>2
<1>7. ASSUME NEW c \in Sockets, AllowRegistration(c) PROVE Told
  <2>0. UNCHANGED <<now, open>> /\ IpOf[c] \in Ips
    BY <1>7, LimiterAssumption DEF AllowRegistration
  <2>1. PICK e : e = Entry(IpOf[c])
    OBVIOUS
  <2>2. PICK f : f = Current(e)
    OBVIOUS
  <2>3. e \in Counter /\ Truthful(IpOf[c], e) /\ e.lastActive = now /\ f \in Counter
    BY <2>0, <2>1, <2>2, EntryType, EntryTruthful DEF Entry, LimitsTypeOK, Counter
  <2>4. Truthful(IpOf[c], f) /\ now <= f.regWindow + Window /\ f.lastActive = now
    BY <2>0, <2>2, <2>3, CurrentTruthful
  <2>5. CASE f.regs >= MaxRegs
    <3>1. UNCHANGED grant /\ counters' = [counters EXCEPT ![IpOf[c]] = f]
      BY <1>7, <2>1, <2>2, <2>5 DEF AllowRegistration
    <3>2. CASE ip # IpOf[c]
      BY <1>0, <1>2, <2>0, <3>1, <3>2 DEF LimitsTypeOK
    <3>3. CASE ip = IpOf[c]
      <4>1. counters'[ip] = f /\ now' = now
        BY <2>0, <3>1, <3>3 DEF LimitsTypeOK
      <4>2. f.lastActive <= f.lastActive /\ f.lastActive <= now' /\ now <= now'
        BY <1>0, <2>4, <4>1
      <4>3. Truthful(ip, f)'
        BY <1>1, <2>3, <2>4, <3>1, <3>3, <4>2, TruthKept
      <4> QED BY <1>0, <2>3, <4>1, <4>3
    <3> QED BY <3>2, <3>3
  <2>6. CASE ~(f.regs >= MaxRegs)
    <3>1. PICK r \in Registrations :
             /\ grant[r] = NoGrant
             /\ grant' = [grant EXCEPT ![r] = [ip |-> IpOf[c], at |-> now]]
             /\ counters' = [counters EXCEPT ![IpOf[c]] = [f EXCEPT !.regs = @ + 1]]
      BY <1>7, <2>1, <2>2, <2>6 DEF AllowRegistration
    <3>2. CASE ip # IpOf[c]
      <4>1. counters'[ip] = counters[ip]
        BY <3>1, <3>2 DEF LimitsTypeOK
      <4>2. Granted(ip)' = Granted(ip) /\ \A q \in Granted(ip) : grant'[q] = grant[q]
        BY <3>1, <3>2, LimiterAssumption DEF Granted, NoGrant, LimitsTypeOK
      <4> QED BY <1>0, <2>0, <4>1, <4>2, AddressUntouched
    <3>3. CASE ip = IpOf[c]
      <4>0. [f EXCEPT !.regs = @ + 1] \in Counter
        BY <2>3 DEF Counter
      <4>1. PICK g \in Counter : g = [f EXCEPT !.regs = @ + 1]
        BY <4>0
      <4>2. counters'[ip] = g
        BY <3>1, <3>3, <4>1 DEF LimitsTypeOK
      <4>3. Truthful(ip, g)'
        <5>1. grant' = [grant EXCEPT ![r] = [ip |-> ip, at |-> now]] /\ now' = now
          BY <2>0, <3>1, <3>3
        <5>2. f \in Counter /\ Truthful(ip, f)
          BY <2>3, <2>4, <3>3
        <5> QED BY <2>4, <2>6, <3>1, <4>1, <5>1, <5>2, GrantCounted
      <4> QED BY <1>0, <4>2, <4>3
    <3> QED BY <3>2, <3>3
  <2> QED BY <2>5, <2>6
<1>8. CASE Cleanup
  <2>1. UNCHANGED <<now, grant>> /\ counters'[ip] = IF Stale(ip) THEN Absent ELSE counters[ip]
    BY <1>8 DEF Cleanup
  <2>2. CASE ~Stale(ip)
    BY <1>0, <1>2, <2>1, <2>2
  <2>3. CASE Stale(ip)
    <3>1. /\ counters[ip] \in Counter /\ Truthful(ip, counters[ip])
          /\ counters[ip].lastActive + Window < now /\ counters'[ip] = Absent
      BY <2>1, <2>3 DEF Stale, WindowsTruthful, LimitsTypeOK
    <3>2. \A r \in Granted(ip) : grant[r].at + Window < now
      BY <1>0, <3>1 DEF Truthful, Counter
    <3> QED BY <1>1, <2>1, <3>1, <3>2
  <2> QED BY <2>2, <2>3
<1>9. CASE UNCHANGED limits
  BY <1>0, <1>2, <1>9 DEF limits
<1> QED BY <1>4, <1>5, <1>6, <1>7, <1>8, <1>9 DEF LimitsNext

(* At the start nothing is open, counted or granted. *)
LEMMA InitLimits == LimitsInit => LimitsInv
<1> SUFFICES ASSUME LimitsInit PROVE LimitsInv
  OBVIOUS
<1>1. LimitsTypeOK
  BY DEF LimitsInit, LimitsTypeOK, NoGrant
<1>2. \A ip \in Ips : OpenFrom(ip) = {} /\ Counted(ip) = 0
  BY DEF LimitsInit, OpenFrom, Counted
<1>3. ConnsCounted
  BY <1>2, FS_EmptySet DEF ConnsCounted
<1>4. \A ip \in Ips : Granted(ip) = {}
  BY LimiterAssumption DEF LimitsInit, Granted, NoGrant
<1>5. WindowsTruthful
  BY <1>4 DEF LimitsInit, WindowsTruthful
<1> QED BY <1>1, <1>3, <1>5 DEF LimitsInv

(* A true entry bounds the recent registrations: they are in its window or in   *)
(* the one before it.                                                          *)
LEMMA RecentBounded == LimitsInv => RegistrationsBounded
<1> SUFFICES ASSUME LimitsInv, NEW ip \in Ips PROVE Cardinality(Lately(ip)) <= 2 * MaxRegs
  BY DEF RegistrationsBounded
<1>0. /\ now \in Nat /\ Window \in Nat /\ MaxRegs \in Nat
      /\ \A r \in Granted(ip) : grant[r].at \in Nat
  BY LimiterAssumption DEF LimitsInv, LimitsTypeOK, Granted
<1>1. CASE counters[ip] = Absent
  <2>1. Lately(ip) = {}
    BY <1>0, <1>1 DEF Lately, LimitsInv, WindowsTruthful
  <2>2. Cardinality(Lately(ip)) = 0
    BY <2>1, FS_EmptySet
  <2> QED BY <1>0, <2>2
<1>2. CASE counters[ip] # Absent
  <2>1. PICK e \in Counter : e = counters[ip]
    BY <1>2 DEF LimitsInv, LimitsTypeOK
  <2>2. Truthful(ip, e) /\ e.regWindow \in Nat /\ e.regWindow <= now
    BY <1>2, <2>1 DEF LimitsInv, WindowsTruthful, Counter, Truthful
  <2> DEFINE inw == InWindow(ip, e)
             bef == BeforeWindow(ip, e)
  <2>3. Lately(ip) \subseteq inw \cup bef /\ inw \cap bef = {}
    BY <1>0, <2>2 DEF Lately, InWindow, BeforeWindow
  <2>4. /\ IsFiniteSet(inw) /\ IsFiniteSet(bef)
        /\ Cardinality(inw) \in Nat /\ Cardinality(bef) \in Nat
    BY FiniteSets
  <2>5. Cardinality(inw) <= MaxRegs /\ Cardinality(bef) <= MaxRegs
    BY <1>0, <2>1, <2>2 DEF Truthful, Counter
  <2> HIDE DEF inw, bef
  <2>6. /\ IsFiniteSet(inw \cup bef)
        /\ Cardinality(inw \cup bef) = Cardinality(inw) + Cardinality(bef) - Cardinality(inw \cap bef)
        /\ Cardinality(inw \cap bef) = 0
    BY <2>3, <2>4, FS_Union, FS_EmptySet
  <2>7. IsFiniteSet(Lately(ip)) /\ Cardinality(Lately(ip)) <= Cardinality(inw \cup bef)
    BY <2>3, <2>6, FS_Subset
  <2>8. Cardinality(Lately(ip)) \in Nat
    BY <2>7, FS_CardinalityType
  <2> QED BY <1>0, <2>4, <2>5, <2>6, <2>7, <2>8
<1> QED BY <1>1, <1>2

(* The invariant holds throughout. *)
THEOREM LimitsInvariance == LimitsSpec => []LimitsInv
<1>1. LimitsInit => LimitsInv
  BY InitLimits
<1>2. LimitsInv /\ [LimitsNext]_limits => LimitsInv'
  BY NextLimitsTypeOK, NextConnsCounted, NextWindowsTruthful DEF LimitsInv
<1> QED BY <1>1, <1>2, PTL DEF LimitsSpec

(* LimitsTypeOK, for any constants: above all, no counter ever falls below zero.      *)
THEOREM LimitsTypeCorrect == LimitsSpec => []LimitsTypeOK
<1>1. LimitsInv => LimitsTypeOK
  BY DEF LimitsInv
<1> QED BY <1>1, LimitsInvariance, PTL

(* An address's counter is the number of its open connections, for any limits   *)
(* and whenever cleanup runs.                                                  *)
THEOREM ConnectionsAreCounted == LimitsSpec => []ConnsCounted
<1>1. LimitsInv => ConnsCounted
  BY DEF LimitsInv
<1> QED BY <1>1, LimitsInvariance, PTL

(* No stretch of a window's length sees more than twice the limit from one      *)
(* address, for any window and limit.                                          *)
THEOREM RegistrationsStayBounded == LimitsSpec => []RegistrationsBounded
<1> QED BY LimitsInvariance, RecentBounded, PTL
=============================================================================
