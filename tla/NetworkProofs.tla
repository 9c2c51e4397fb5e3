----------------------------- MODULE NetworkProofs -----------------------------
(***************************************************************************)
(* Theorems about the client's network layer, for any number of callers,   *)
(* connections and requests, and the relay's answers in any order.         *)
(***************************************************************************)
EXTENDS Network, TLAPS

Jobs == {"request", "enroll", "auth", "auth_response"}
Answers == {"ok", "challenge", "refused"}
Yes(answer) == answer \in {"ok", "challenge"}
Calls == [pc : {"idle", "ensure", "teardown", "drain", "dial", "register", "write", "await"},
          job : Jobs, id : 0 .. seq]
Loops == [pc : {"off", "reading", "holding", "done"}, on : 0 .. conn, id : 0 .. seq, answer : Answers]

(* Where a call is: it tears down and dials, or it sends something, which may be *)
(* a round of signing in; and it waits for the answer to request i.              *)
Reconnecting(c) == call[c].pc \in {"teardown", "drain", "dial"}
Busy(c) == call[c].pc \in {"register", "write", "await"}
SigningIn(c) == Busy(c) /\ call[c].job \in {"auth", "auth_response"}
Asks(c, i) == call[c].pc \in {"write", "await"} /\ call[c].id = i

(* What is on its way has been asked. *)
InFlight ==
    /\ wire \in [Conns -> Seq([id : 1 .. seq, job : Jobs])]
    /\ back \in [Conns -> Seq([id : 1 .. seq, answer : Answers])]

(* reconnMu: its holder reconnects or signs in, while the client is not connected *)
(* until a connection is dialled.  Before there are credentials there is at most *)
(* one connection and one call.                                                   *)
Locked ==
    /\ \A c \in Callers :
          /\ Reconnecting(c) => lock = c /\ ~connected
          /\ creds /\ SigningIn(c) => lock = c
          /\ creds /\ Busy(c) => call[c].job # "enroll"
          /\ ~Busy(c) => call[c].job = "request"
          /\ ~creds => Busy(c) \/ call[c].pc = "idle"
          /\ conn = 0 => call[c].pc = "idle"
    /\ lock # Nobody => creds /\ (Reconnecting(lock) \/ SigningIn(lock))
    /\ ~creds => /\ conn <= 1
                 /\ \A c, d \in Callers : call[c].pc # "idle" /\ call[d].pc # "idle" => c = d
    /\ conn = 0 => ~creds /\ ~connected

(* Until a sign-in has failed only the latest connection's read loop runs, while *)
(* the client is connected, and what it holds is for an open channel.            *)
Reads(g) == loop[g].pc \in {"reading", "holding"}
LoopsEnd ==
    /\ \A g \in Conns :
          /\ g > conn => loop[g].pc = "off"
          /\ Reads(g) => loop[g].on # 0
          /\ loop[g].pc = "holding" => loop[g].id # 0
          /\ ~lapsed /\ Reads(g) => connected /\ g = conn
          /\ ~lapsed /\ loop[g].pc = "holding" => chan[loop[g].id] # "closed"
    /\ \A i \in pending : chan[i] # "closed"

(* An identifier is used once: by one caller, in one message. *)
IdsApart ==
    /\ \A i \in Ids : i > seq => carried[i] = 0 /\ outcome[i] = "open"
    /\ \A c \in Callers, i \in Ids : Asks(c, i) => outcome[i] = "open"
    /\ \A c \in Callers : call[c].pc \in {"write", "await"} => call[c].id # 0
    /\ \A c \in Callers : call[c].pc = "write" => carried[call[c].id] = 0
    /\ \A c, d \in Callers, i \in Ids : Asks(c, i) /\ Asks(d, i) => c = d
OnWireOnce ==
    /\ \A g \in Conns : \A k \in 1 .. Len(wire[g]) :
          /\ carried[wire[g][k].id] = 0
          /\ \A c \in Callers : Asks(c, wire[g][k].id) =>
                call[c].pc = "await" /\ wire[g][k].job = call[c].job
          /\ \A c \in Callers : Asks(c, wire[g][k].id) /\ call[c].job # "request" => g = conn
    /\ \A g, h \in Conns : \A j \in 1 .. Len(wire[g]), k \in 1 .. Len(wire[h]) :
          wire[g][j].id = wire[h][k].id => g = h /\ j = k

(* A good answer is one to a request that was carried out, and if it is to the   *)
(* last round of a sign-in or to a new account, the relay has signed the client  *)
(* in on the connection in use.                                                  *)
Granted(i) ==
    /\ carried[i] = 1
    /\ \A c \in Callers : Asks(c, i) /\ call[c].job \in {"auth_response", "enroll"} =>
          session[conn] = "signed_in"
AnswersAreTrue ==
    /\ \A g \in Conns : \A k \in 1 .. Len(back[g]) :
          Yes(back[g][k].answer) => Granted(back[g][k].id)
    /\ \A g \in Conns : loop[g].pc = "holding" /\ Yes(loop[g].answer) => Granted(loop[g].id)
    /\ \A i \in Ids : Yes(chan[i]) => Granted(i)

IInv ==
    /\ TypeOK /\ InFlight /\ Locked /\ LoopsEnd /\ PanicNeedsLapse
    /\ IdsApart /\ OnWireOnce /\ AnswersAreTrue /\ ConnectedIsSignedIn
-----------------------------------------------------------------------------
(* What the steps do to the calls, the read loops and the queues. *)

(* The caller c is now at p, with job j and identifier i. *)
Puts(c, p, j, i) == call' = [call EXCEPT ![c] = [pc |-> p, job |-> j, id |-> i]]

LEMMA PutsMakes ==
    ASSUME call \in [Callers -> Calls], NEW c \in Callers, NEW p, NEW j, NEW i, Puts(c, p, j, i)
    PROVE  /\ call'[c].pc = p /\ call'[c].job = j /\ call'[c].id = i
           /\ \A d \in Callers : d # c => call'[d] = call[d]
BY DEF Puts

LEMMA PutsTyped ==
    ASSUME call \in [Callers -> Calls], NEW c \in Callers,
           NEW p \in {"idle", "ensure", "teardown", "drain", "dial", "register", "write", "await"},
           NEW j \in Jobs, NEW i \in 0 .. seq, Puts(c, p, j, i)
    PROVE  call' \in [Callers -> Calls]
<1>1. [pc |-> p, job |-> j, id |-> i] \in Calls
  BY DEF Calls
<1> QED BY <1>1 DEF Puts

(* Where the steps put a call. *)
LEMMA CallSteps ==
    ASSUME call \in [Callers -> Calls], NEW c \in Callers
    PROVE  /\ \A p : Goto(c, p) => Puts(c, p, call[c].job, call[c].id)
           /\ \A j : Do(c, j) => Puts(c, "register", j, call[c].id)
           /\ Return(c) => Puts(c, "idle", "request", 0)
<1>1. ASSUME NEW p, Goto(c, p) PROVE Puts(c, p, call[c].job, call[c].id)
  <2>1. call' = [call EXCEPT ![c] = [call[c] EXCEPT !.pc = p]]
    BY <1>1 DEF Goto
  <2>2. [call[c] EXCEPT !.pc = p] = [pc |-> p, job |-> call[c].job, id |-> call[c].id]
    BY DEF Calls
  <2> QED BY <2>1, <2>2 DEF Puts
<1>2. \A j : Do(c, j) => Puts(c, "register", j, call[c].id)
  BY DEF Do, Puts
<1>3. Return(c) => Puts(c, "idle", "request", 0)
  BY DEF Return, Puts
<1> QED BY <1>1, <1>2, <1>3

(* The read loop g is now at p: what it reads or holds. *)
Turns(g, p, on, i, a) == loop' = [loop EXCEPT ![g] = [pc |-> p, on |-> on, id |-> i, answer |-> a]]

LEMMA TurnsMakes ==
    ASSUME loop \in [Conns -> Loops], NEW g \in Conns, NEW p, NEW on, NEW i, NEW a, Turns(g, p, on, i, a)
    PROVE  /\ loop'[g].pc = p /\ loop'[g].on = on /\ loop'[g].id = i /\ loop'[g].answer = a
           /\ \A h \in Conns : h # g => loop'[h] = loop[h]
BY DEF Turns

LEMMA TurnsTyped ==
    ASSUME loop \in [Conns -> Loops], NEW g \in Conns, NEW p \in {"off", "reading", "holding", "done"},
           NEW on \in 0 .. conn, NEW i \in 0 .. seq, NEW a \in Answers, Turns(g, p, on, i, a)
    PROVE  loop' \in [Conns -> Loops]
<1>1. [pc |-> p, on |-> on, id |-> i, answer |-> a] \in Loops
  BY DEF Loops
<1> QED BY <1>1 DEF Turns

(* The first of a queue is taken, or something is added to its end. *)
LEMMA TakeFirst ==
    ASSUME NEW S, NEW q \in Seq(S), q # <<>>
    PROVE  /\ Len(q) \in Nat /\ 1 \in 1 .. Len(q) /\ Head(q) = q[1] /\ q[1] \in S
           /\ Tail(q) \in Seq(S) /\ Len(Tail(q)) = Len(q) - 1
           /\ \A k \in 1 .. Len(Tail(q)) : k + 1 \in 1 .. Len(q) /\ Tail(q)[k] = q[k + 1]
OBVIOUS

LEMMA QueueTyped ==
    ASSUME NEW S, NEW q \in Seq(S)
    PROVE  (q # <<>> => Head(q) \in S /\ Tail(q) \in Seq(S)) /\ \A e \in S : Append(q, e) \in Seq(S)
OBVIOUS

LEMMA ElementTyped ==
    ASSUME NEW S, NEW q \in Seq(S), NEW k \in 1 .. Len(q)
    PROVE  q[k] \in S
OBVIOUS

LEMMA AddLast ==
    ASSUME NEW S, NEW q \in Seq(S), NEW e \in S
    PROVE  /\ Len(q) \in Nat /\ Append(q, e) \in Seq(S) /\ Len(Append(q, e)) = Len(q) + 1
           /\ \A k \in 1 .. Len(Append(q, e)) :
                 Append(q, e)[k] = IF k \in 1 .. Len(q) THEN q[k] ELSE e
           /\ \A k \in 1 .. Len(Append(q, e)) : k \in 1 .. Len(q) \/ k = Len(q) + 1
OBVIOUS
-----------------------------------------------------------------------------
(* What each kind of step makes of the state. *)

(* The types of single variables, as the proofs use them. *)
LEMMA Types ==
    ASSUME TypeOK
    PROVE  /\ conn \in 0 .. MaxConns /\ seq \in 0 .. MaxRequests /\ MaxConns \in Nat /\ MaxRequests \in Nat
           /\ connected \in BOOLEAN /\ creds \in BOOLEAN /\ lapsed \in BOOLEAN /\ crashed \in BOOLEAN
           /\ call \in [Callers -> Calls] /\ loop \in [Conns -> Loops]
           /\ chan \in [Ids -> {"empty", "closed"} \cup Answers] /\ carried \in [Ids -> Nat]
           /\ session \in [Conns -> {"anonymous", "challenged", "signed_in"}]
           /\ outcome \in [Ids -> {"open", "ok", "error"}] /\ pending \subseteq 1 .. seq
           /\ link \in [Conns -> {"unused", "up", "down", "closed"}]
           /\ 1 .. seq \subseteq Ids /\ Nobody \notin Callers /\ lock \in Callers \cup {Nobody}
<1>1. /\ connected \in BOOLEAN /\ creds \in BOOLEAN /\ lapsed \in BOOLEAN /\ crashed \in BOOLEAN
  BY DEF TypeOK
<1>2. call \in [Callers -> Calls] /\ loop \in [Conns -> Loops]
  BY DEF TypeOK, Calls, Loops, Jobs, Answers
<1>3. chan \in [Ids -> {"empty", "closed"} \cup Answers]
  <2>1. {"empty", "closed", "ok", "challenge", "refused"} = {"empty", "closed"} \cup Answers
    BY DEF Answers
  <2> QED BY <2>1 DEF TypeOK
<1>4. 1 .. seq \subseteq Ids
  BY NetworkAssumption DEF TypeOK, Ids
<1>5. MaxConns \in Nat /\ MaxRequests \in Nat /\ Nobody \notin Callers
  BY NetworkAssumption
<1> QED BY <1>1, <1>2, <1>3, <1>4, <1>5 DEF TypeOK

(* A dialled connection is the latest; its loop reads it. *)
LEMMA DialledMakes ==
    ASSUME TypeOK, Dialled
    PROVE  /\ conn' = conn + 1 /\ conn' \in Conns /\ conn' \in 0 .. MaxConns /\ connected' = TRUE
           /\ link' \in [Conns -> {"unused", "up", "down", "closed"}]
           /\ Turns(conn', "reading", conn', 0, "ok")
<1>1. conn' = conn + 1 /\ conn' \in Conns /\ conn' \in 0 .. MaxConns /\ connected' = TRUE
  BY Types DEF Dialled, Conns
<1>2. Turns(conn', "reading", conn', 0, "ok")
  BY <1>1 DEF Dialled, Turns
<1>3. link' \in [Conns -> {"unused", "up", "down", "closed"}]
  BY <1>1, Types DEF Dialled
<1> QED BY <1>1, <1>2, <1>3

(* sendDirect returns: the four ways a call goes on with or without an answer. *)
Ends(c, yes) ==
    \/ /\ call[c].job \in {"request", "enroll"} /\ Puts(c, "idle", "request", 0)
       /\ creds' = (creds \/ (call[c].job = "enroll" /\ yes))
       /\ UNCHANGED <<connected, lock, lapsed>>
    \/ /\ call[c].job = "auth" /\ yes /\ Puts(c, "register", "auth_response", call[c].id)
       /\ UNCHANGED <<creds, connected, lock, lapsed>>
    \/ /\ call[c].job = "auth_response" /\ yes
       /\ creds' = TRUE /\ UNCHANGED <<connected, lapsed>>
       /\ IF lock = c THEN lock' = Nobody /\ Puts(c, "register", "request", call[c].id)
          ELSE lock' = lock /\ Puts(c, "idle", "request", 0)
    \/ /\ call[c].job \in {"auth", "auth_response"} /\ ~yes /\ Puts(c, "idle", "request", 0)
       /\ creds' = creds
       /\ IF lock = c THEN connected' = FALSE /\ lock' = Nobody /\ lapsed' = TRUE
          ELSE UNCHANGED <<connected, lock, lapsed>>

LEMMA FinishMakes ==
    ASSUME TypeOK, NEW c \in Callers, NEW result, Finish(c, result)
    PROVE  /\ pending' = pending \ {call[c].id}
           /\ outcome' = [outcome EXCEPT ![call[c].id] = IF Yes(result) THEN "ok" ELSE "error"]
           /\ chan' = IF chan[call[c].id] = "closed" THEN chan ELSE [chan EXCEPT ![call[c].id] = "empty"]
           /\ UNCHANGED <<conn, cool, cancelled, seq, loop, crashed>>
           /\ Ends(c, Yes(result))
<1>1. call \in [Callers -> Calls] /\ lapsed \in BOOLEAN
  BY Types
<1>2. /\ pending' = pending \ {call[c].id}
      /\ outcome' = [outcome EXCEPT ![call[c].id] = IF Yes(result) THEN "ok" ELSE "error"]
      /\ chan' = IF chan[call[c].id] = "closed" THEN chan ELSE [chan EXCEPT ![call[c].id] = "empty"]
      /\ UNCHANGED <<conn, cool, cancelled, seq, loop, crashed>>
  BY DEF Finish, Yes
<1>3. \/ /\ call[c].job \in {"request", "enroll"}
         /\ creds' = (creds \/ (call[c].job = "enroll" /\ Yes(result)))
         /\ Return(c)
         /\ UNCHANGED <<connected, lock, lapsed>>
      \/ /\ call[c].job = "auth" /\ Yes(result)
         /\ Do(c, "auth_response")
         /\ UNCHANGED <<connected, creds, lock, lapsed>>
      \/ call[c].job = "auth_response" /\ Yes(result) /\ SignedIn(c)
      \/ call[c].job \in {"auth", "auth_response"} /\ ~Yes(result) /\ SignInFailed(c)
  BY DEF Finish, Yes
<1>4. ASSUME call[c].job = "auth_response", Yes(result), SignedIn(c) PROVE Ends(c, Yes(result))
  BY <1>1, <1>4, CallSteps DEF SignedIn, Ends
<1>5. ASSUME call[c].job \in {"auth", "auth_response"}, ~Yes(result), SignInFailed(c) PROVE Ends(c, Yes(result))
  <2>1. Puts(c, "idle", "request", 0) /\ creds' = creds
    BY <1>1, <1>5, CallSteps DEF SignInFailed
  <2>2. IF lock = c THEN connected' = FALSE /\ lock' = Nobody /\ lapsed' = TRUE
        ELSE UNCHANGED <<connected, lock, lapsed>>
    BY <1>1, <1>5 DEF SignInFailed
  <2> QED BY <1>5, <2>1, <2>2 DEF Ends
<1>6. Ends(c, Yes(result))
  BY <1>1, <1>3, <1>4, <1>5, CallSteps DEF Ends
<1> QED BY <1>2, <1>6

(* The same, whichever way the call ends: it was waiting and is not any more. *)
LEMMA EndsMakes ==
    ASSUME TypeOK, NEW c \in Callers, NEW yes \in BOOLEAN, Ends(c, yes)
    PROVE  /\ call' \in [Callers -> Calls] /\ \A d \in Callers : d # c => call'[d] = call[d]
           /\ call'[c].pc \in {"idle", "register"}
           /\ creds' \in BOOLEAN /\ connected' \in BOOLEAN /\ lapsed' \in BOOLEAN
           /\ lock' \in Callers \cup {Nobody} /\ (lapsed => lapsed')
<1>1. call \in [Callers -> Calls] /\ 0 \in 0 .. seq /\ call[c].id \in 0 .. seq
  BY Types DEF Calls
<1>2. /\ creds' \in BOOLEAN /\ connected' \in BOOLEAN /\ lapsed' \in BOOLEAN
      /\ lock' \in Callers \cup {Nobody} /\ (lapsed => lapsed')
  BY Types DEF Ends
<1>3. PICK p \in {"idle", "register"}, j \in Jobs, i \in 0 .. seq : Puts(c, p, j, i)
  BY <1>1 DEF Ends, Jobs
<1> QED BY <1>1, <1>2, <1>3, PutsMakes, PutsTyped

(* The read loop takes a message: it holds it for its request, or reads on. *)
LEMMA ReadMakes ==
    ASSUME TypeOK, InFlight, NEW g \in Conns, Read(g), loop[g].on # 0
    PROVE  LET on == loop[g].on
               m == Head(back[on]) IN
           /\ on \in Conns /\ back[on] # <<>> /\ back' = [back EXCEPT ![on] = Tail(@)]
           /\ IF m.id \in pending THEN Turns(g, "holding", on, m.id, m.answer)
              ELSE Turns(g, "reading", conn, loop[g].id, loop[g].answer)
<1>1. loop[g].on \in Conns /\ loop[g] \in Loops
  BY Types DEF Loops, Conns
<1>2. PICK on, m : on = loop[g].on /\ m = Head(back[on])
  OBVIOUS
<1>3. back[on] # <<>> /\ back' = [back EXCEPT ![on] = Tail(@)] /\ loop[g].pc = "reading"
  BY <1>2 DEF Read
<1>4. CASE m.id \in pending
  BY <1>1, <1>2, <1>3, <1>4 DEF Read, Turns
<1>5. CASE m.id \notin pending
  <2>1. loop' = [loop EXCEPT ![g] = [loop[g] EXCEPT !.on = conn]]
    BY <1>2, <1>5 DEF Read
  <2>2. [loop[g] EXCEPT !.on = conn] = [pc |-> "reading", on |-> conn, id |-> loop[g].id, answer |-> loop[g].answer]
    BY <1>1, <1>3 DEF Loops
  <2> QED BY <1>1, <1>2, <1>3, <1>5, <2>1, <2>2 DEF Turns
<1> QED BY <1>4, <1>5

(* The held answer goes into a channel, or to nobody, and the loop reads on. *)
LEMMA DeliverMakes ==
    ASSUME TypeOK, NEW g \in Conns, Deliver(g)
    PROVE  /\ Turns(g, "reading", conn, 0, loop[g].answer)
           /\ \/ chan[loop[g].id] # "closed" /\ crashed' = crashed
                 /\ chan' \in {chan, [chan EXCEPT ![loop[g].id] = loop[g].answer]}
              \/ chan[loop[g].id] = "closed" /\ crashed' = TRUE /\ chan' = chan
<1>1. Turns(g, "reading", conn, 0, loop[g].answer)
  BY DEF Deliver, Turns
<1> QED BY <1>1 DEF Deliver

LEMMA ReadFailsMakes ==
    ASSUME TypeOK, NEW g \in Conns, ReadFails(g)
    PROVE  /\ connected' = FALSE /\ loop[g].pc = "reading"
           /\ Turns(g, "done", loop[g].on, loop[g].id, loop[g].answer)
           /\ back' = back \/ back' = [back EXCEPT ![loop[g].on] = <<>>]
           /\ link' = link \/ link' = [link EXCEPT ![loop[g].on] = "closed"]
<1>1. loop' = [loop EXCEPT ![g] = [loop[g] EXCEPT !.pc = "done"]]
  BY DEF ReadFails
<1>2. [loop[g] EXCEPT !.pc = "done"] = [pc |-> "done", on |-> loop[g].on, id |-> loop[g].id, answer |-> loop[g].answer]
  BY Types DEF Loops
<1>3. Turns(g, "done", loop[g].on, loop[g].id, loop[g].answer)
  BY <1>1, <1>2 DEF Turns
<1> QED BY <1>3 DEF ReadFails, Close
-----------------------------------------------------------------------------
(* Types. *)

(* Each step keeps the types. *)
LEMMA NextTypes ==
    ASSUME TypeOK, InFlight, Locked, LoopsEnd, IdsApart, [Next]_vars
    PROVE  TypeOK' /\ InFlight'
<1>0. /\ conn \in 0 .. MaxConns /\ seq \in 0 .. MaxRequests /\ MaxConns \in Nat /\ MaxRequests \in Nat
      /\ call \in [Callers -> Calls] /\ loop \in [Conns -> Loops]
      /\ 1 .. seq \subseteq Ids /\ lock \in Callers \cup {Nobody} /\ pending \subseteq 1 .. seq
      /\ chan \in [Ids -> {"empty", "closed"} \cup Answers] /\ carried \in [Ids -> Nat]
      /\ session \in [Conns -> {"anonymous", "challenged", "signed_in"}]
      /\ outcome \in [Ids -> {"open", "ok", "error"}]
      /\ link \in [Conns -> {"unused", "up", "down", "closed"}]
  BY Types
<1>b. connected \in BOOLEAN /\ creds \in BOOLEAN /\ lapsed \in BOOLEAN /\ crashed \in BOOLEAN /\ cool \in BOOLEAN
      /\ cancelled \subseteq Conns
  BY DEF TypeOK
<1>d. /\ wire \in [Conns -> Seq([id : 1 .. seq, job : Jobs])]
      /\ back \in [Conns -> Seq([id : 1 .. seq, answer : Answers])]
  BY DEF InFlight
<1>e. <<>> \in Seq([id : 1 .. seq, answer : Answers])
  OBVIOUS
<1>i. \A c \in Callers : call[c].pc = "write" => call[c].id # 0
  BY DEF IdsApart
<1> DEFINE Flags == {connected', creds', cool', crashed', lapsed'} \subseteq BOOLEAN
           Rest == /\ conn' \in 0 .. MaxConns /\ lock' \in Callers \cup {Nobody} /\ cancelled' \subseteq Conns
                   /\ seq' \in 0 .. MaxRequests /\ pending' \subseteq 1 .. seq'
                   /\ chan' \in [Ids -> {"empty", "closed"} \cup Answers]
                   /\ call' \in [Callers -> Calls'] /\ loop' \in [Conns -> Loops']
                   /\ link' \in [Conns -> {"unused", "up", "down", "closed"}]
                   /\ session' \in [Conns -> {"anonymous", "challenged", "signed_in"}]
                   /\ carried' \in [Ids -> Nat] /\ outcome' \in [Ids -> {"open", "ok", "error"}]
           Queues == /\ wire' \in [Conns -> Seq([id : 1 .. seq', job : Jobs])]
                     /\ back' \in [Conns -> Seq([id : 1 .. seq', answer : Answers])]
<1>q. Flags /\ Rest /\ Queues => TypeOK' /\ InFlight'
  <2>1. {"empty", "closed", "ok", "challenge", "refused"} = {"empty", "closed"} \cup Answers
    BY DEF Answers
  <2>2. SUFFICES ASSUME Flags, Rest, Queues PROVE TypeOK' /\ InFlight'
    OBVIOUS
  <2>3. InFlight'
    BY <2>2 DEF InFlight
  <2>4. chan' \in [Ids -> {"empty", "closed", "ok", "challenge", "refused"}]
    BY <2>1, <2>2
  <2>5. /\ call' \in [Callers -> [pc : {"idle", "ensure", "teardown", "drain", "dial",
                                   "register", "write", "await"},
                             job : {"request", "enroll", "auth", "auth_response"}, id : 0 .. seq']]
        /\ loop' \in [Conns -> [pc : {"off", "reading", "holding", "done"}, on : 0 .. conn',
                           id : 0 .. seq', answer : {"ok", "challenge", "refused"}]]
    BY <2>2 DEF Calls, Loops, Jobs, Answers
  <2> QED BY <2>2, <2>3, <2>4, <2>5 DEF TypeOK
<1>r. seq' = seq /\ conn' = conn => Calls' = Calls /\ Loops' = Loops
  BY DEF Calls, Loops
<1>s. seq' = seq => Calls' = Calls
  BY DEF Calls
<1> HIDE DEF Flags, Rest, Queues
<1>1. ASSUME NEW c \in Callers, Connect(c) PROVE Flags /\ Rest /\ Queues
  <2>1. PICK p \in {"register", "idle"}, j \in Jobs : call' = call \/ Puts(c, p, j, call[c].id)
    BY <1>0, <1>1, CallSteps DEF Connect, Jobs
  <2>2. Turns(conn', "reading", conn', 0, "ok") /\ conn' \in Conns /\ conn' = conn + 1 /\ connected' = TRUE
        /\ link' \in [Conns -> {"unused", "up", "down", "closed"}] /\ conn' \in 0 .. MaxConns
    BY <1>1, DialledMakes DEF Connect
  <2>3. /\ UNCHANGED <<creds, lock, cool, cancelled, requests, crashed>>
        /\ UNCHANGED <<wire, back, session, carried, outcome, lapsed>>
    BY <1>1 DEF Connect
  <2>4. call' \in [Callers -> Calls]
    BY <1>0, <2>1, PutsTyped DEF Calls
  <2>5. loop' \in [Conns -> Loops']
    <3>1. 0 .. conn \subseteq 0 .. conn'
      BY <1>0, <2>2
    <3>2. loop' = [loop EXCEPT ![conn'] = [pc |-> "reading", on |-> conn', id |-> 0, answer |-> "ok"]] /\ seq' = seq
      BY <2>2, <2>3 DEF Turns, requests
    <3>3. \A x \in Loops : x \in Loops'
      BY <3>1, <3>2 DEF Loops
    <3>4. [pc |-> "reading", on |-> conn', id |-> 0, answer |-> "ok"] \in Loops'
      BY <1>0, <2>2, <3>2 DEF Loops, Answers
    <3> QED BY <1>0, <3>2, <3>3, <3>4
  <2>6. Flags
    BY <1>b, <2>2, <2>3 DEF Flags
  <2>7. Rest
    BY <1>0, <1>b, <1>s, <2>2, <2>3, <2>4, <2>5 DEF Rest, requests
  <2> QED BY <1>d, <2>3, <2>6, <2>7 DEF Queues, requests
<1>2. ASSUME NEW c \in Callers, Send(c) PROVE Flags /\ Rest /\ Queues
  <2>1. PICK p \in {"register", "ensure"}, j \in Jobs : Puts(c, p, j, call[c].id)
    BY <1>0, <1>2, CallSteps DEF Send, Calls, Jobs
  <2>2. call' \in [Callers -> Calls]
    BY <1>0, <2>1, PutsTyped DEF Calls
  <2>3. UNCHANGED <<state, requests, loop, crashed, relay, outcome, lapsed>>
    BY <1>2 DEF Send
  <2>4. Flags
    BY <1>b, <2>3 DEF Flags, state
  <2>5. Rest
    BY <1>0, <1>b, <1>r, <2>2, <2>3 DEF Rest, state, requests, relay
  <2> QED BY <1>d, <2>3, <2>4, <2>5 DEF Queues, relay, requests
<1>3. ASSUME NEW c \in Callers, Lock(c) PROVE Flags /\ Rest /\ Queues
  <2>1. PICK p \in {"register", "teardown", "idle"}, j \in Jobs, i \in 0 .. seq : Puts(c, p, j, i)
    BY <1>0, <1>3, CallSteps DEF Lock, Calls, Jobs
  <2>2. call' \in [Callers -> Calls]
    BY <1>0, <2>1, PutsTyped
  <2>3. UNCHANGED <<conn, connected, creds, cancelled, requests, loop, crashed, relay, outcome, lapsed>>
        /\ cool' \in BOOLEAN /\ lock' \in Callers \cup {Nobody}
    BY <1>0, <1>b, <1>3 DEF Lock
  <2>4. Flags
    BY <1>b, <2>3 DEF Flags
  <2>5. Rest
    BY <1>0, <1>b, <1>r, <2>2, <2>3 DEF Rest, requests, relay
  <2> QED BY <1>d, <2>3, <2>4, <2>5 DEF Queues, relay, requests
<1>4. ASSUME NEW c \in Callers, Teardown(c) PROVE Flags /\ Rest /\ Queues
  <2>1. Puts(c, "drain", call[c].job, call[c].id) /\ conn # 0
    BY <1>0, <1>4, CallSteps DEF Teardown, Locked
  <2>2. call' \in [Callers -> Calls]
    BY <1>0, <2>1, PutsTyped DEF Calls
  <2>3. UNCHANGED <<conn, connected, creds, lock, cool, requests, loop, crashed>>
        /\ UNCHANGED <<wire, session, carried, outcome, lapsed>>
        /\ cancelled' = cancelled \cup {conn} /\ link' = [link EXCEPT ![conn] = "closed"]
        /\ back' = [back EXCEPT ![conn] = <<>>]
    BY <1>4 DEF Teardown, Close
  <2>4. Flags
    BY <1>b, <2>3 DEF Flags
  <2>5. conn \in Conns
    BY <1>0, <2>1 DEF Conns
  <2>6. cancelled' \subseteq Conns /\ link' \in [Conns -> {"unused", "up", "down", "closed"}]
    BY <1>0, <1>b, <2>3, <2>5
  <2>7. Rest
    BY <1>0, <1>b, <1>r, <2>2, <2>3, <2>6 DEF Rest, requests
  <2>8. Queues
    BY <1>d, <1>e, <2>3 DEF Queues, requests
  <2> QED BY <2>4, <2>7, <2>8
<1>5. ASSUME NEW c \in Callers, FailPending(c) PROVE Flags /\ Rest /\ Queues
  <2>1. Puts(c, "dial", call[c].job, call[c].id)
    BY <1>0, <1>5, CallSteps DEF FailPending
  <2>2. call' \in [Callers -> Calls]
    BY <1>0, <2>1, PutsTyped DEF Calls
  <2>3. UNCHANGED <<state, seq, loop, crashed, relay, outcome, lapsed>> /\ pending' = {}
        /\ chan' = [i \in Ids |-> IF i \in pending THEN "closed" ELSE chan[i]]
    BY <1>5 DEF FailPending
  <2>4. Flags
    BY <1>b, <2>3 DEF Flags, state
  <2>5. chan' \in [Ids -> {"empty", "closed"} \cup Answers]
    BY <1>0, <2>3
  <2>6. Rest
    BY <1>0, <1>b, <1>r, <2>2, <2>3, <2>5 DEF Rest, state, relay
  <2> QED BY <1>d, <2>3, <2>4, <2>6 DEF Queues, relay
<1>6. ASSUME NEW c \in Callers, Dial(c) PROVE Flags /\ Rest /\ Queues
  <2>1. PICK p \in {"register", "idle"}, j \in Jobs, i \in 0 .. seq : Puts(c, p, j, i)
    BY <1>0, <1>6, CallSteps DEF Dial, Calls, Jobs
  <2>2. call' \in [Callers -> Calls]
    BY <1>0, <2>1, PutsTyped
  <2>3. UNCHANGED <<creds, cool, cancelled, requests, crashed>>
        /\ UNCHANGED <<wire, back, session, carried, outcome, lapsed>> /\ lock' \in Callers \cup {Nobody}
    BY <1>0, <1>6 DEF Dial
  <2>4. /\ conn' \in 0 .. MaxConns /\ connected' \in BOOLEAN
        /\ link' \in [Conns -> {"unused", "up", "down", "closed"}] /\ loop' \in [Conns -> Loops']
    <3>1. CASE UNCHANGED <<conn, connected, link, loop>>
      BY <1>0, <1>b, <1>r, <2>3, <3>1 DEF requests
    <3>2. CASE Dialled
      <4>1. Turns(conn', "reading", conn', 0, "ok") /\ conn' \in Conns /\ conn' = conn + 1 /\ connected' = TRUE
            /\ link' \in [Conns -> {"unused", "up", "down", "closed"}] /\ conn' \in 0 .. MaxConns
        BY <3>2, DialledMakes
      <4>2. 0 .. conn \subseteq 0 .. conn'
        BY <1>0, <4>1
      <4>3. loop' = [loop EXCEPT ![conn'] = [pc |-> "reading", on |-> conn', id |-> 0, answer |-> "ok"]] /\ seq' = seq
        BY <4>1, <2>3 DEF Turns, requests
      <4>4. \A x \in Loops : x \in Loops'
        BY <4>2, <4>3 DEF Loops
      <4>5. [pc |-> "reading", on |-> conn', id |-> 0, answer |-> "ok"] \in Loops'
        BY <1>0, <4>1, <4>3 DEF Loops, Answers
      <4> QED BY <1>0, <4>1, <4>3, <4>4, <4>5
    <3> QED BY <1>6, <3>1, <3>2 DEF Dial
  <2>5. Flags
    BY <1>b, <2>3, <2>4 DEF Flags
  <2>6. Rest
    BY <1>0, <1>b, <1>s, <2>2, <2>3, <2>4 DEF Rest, requests
  <2> QED BY <1>d, <2>3, <2>5, <2>6 DEF Queues, requests
<1>7. CASE CoolDown \/ UNCHANGED vars
  <2>1. UNCHANGED <<conn, connected, creds, lock, cancelled>> /\ UNCHANGED <<requests, call, loop, crashed, relay, outcome, lapsed>>
        /\ cool' \in BOOLEAN
    BY <1>7, <1>b DEF CoolDown, vars, state
  <2>2. Flags
    BY <1>b, <2>1 DEF Flags
  <2>3. Rest
    BY <1>0, <1>b, <1>r, <2>1 DEF Rest, requests, relay
  <2>4. Queues
    BY <1>d, <2>1 DEF Queues, relay, requests
  <2> QED BY <1>q, <2>2, <2>3, <2>4
<1>8. ASSUME NEW c \in Callers, Register(c) PROVE Flags /\ Rest /\ Queues
  <2>1. UNCHANGED <<state, loop, crashed, relay, outcome, lapsed>> /\ pending' = pending \cup {seq + 1}
        /\ chan' = [chan EXCEPT ![seq + 1] = "empty"] /\ seq' = seq + 1 /\ seq' \in 0 .. MaxRequests
    BY <1>0, <1>8 DEF Register, NextId
  <2>2. 1 .. seq \subseteq 1 .. seq' /\ 0 .. seq \subseteq 0 .. seq' /\ seq' \in 1 .. seq' /\ seq' \in 0 .. seq'
    BY <1>0, <2>1
  <2>3. call' \in [Callers -> Calls']
    <3>1. call' = [call EXCEPT ![c] = [pc |-> "write", job |-> call[c].job, id |-> seq']]
      BY <1>8, <2>1 DEF Register, NextId
    <3>2. \A x \in Calls : x \in Calls'
      BY <2>2 DEF Calls
    <3>3. [pc |-> "write", job |-> call[c].job, id |-> seq'] \in Calls'
      BY <1>0, <2>2 DEF Calls
    <3> QED BY <1>0, <3>1, <3>2, <3>3
  <2>4. loop' \in [Conns -> Loops']
    <3>1. \A x \in Loops : x \in Loops'
      BY <2>1, <2>2 DEF Loops, state
    <3> QED BY <1>0, <2>1, <3>1
  <2>5. pending' \subseteq 1 .. seq' /\ chan' \in [Ids -> {"empty", "closed"} \cup Answers]
    BY <1>0, <2>1, <2>2
  <2>6. Flags
    BY <1>b, <2>1 DEF Flags, state
  <2>7. Rest
    BY <1>0, <1>b, <2>1, <2>3, <2>4, <2>5 DEF Rest, state, relay
  <2>8. Queues
    <3>1. [id : 1 .. seq, job : Jobs] \subseteq [id : 1 .. seq', job : Jobs]
          /\ [id : 1 .. seq, answer : Answers] \subseteq [id : 1 .. seq', answer : Answers]
      BY <2>2
    <3>2. \A S, T : S \subseteq T => Seq(S) \subseteq Seq(T)
      OBVIOUS
    <3>3. wire' = wire /\ back' = back
      BY <2>1 DEF relay
    <3>4. Seq([id : 1 .. seq, job : Jobs]) \subseteq Seq([id : 1 .. seq', job : Jobs])
          /\ Seq([id : 1 .. seq, answer : Answers]) \subseteq Seq([id : 1 .. seq', answer : Answers])
      BY <3>1, <3>2, Zenon
    <3> QED BY <1>d, <3>3, <3>4 DEF Queues
  <2> QED BY <2>6, <2>7, <2>8
<1>9. ASSUME NEW c \in Callers, NEW result, Finish(c, result), UNCHANGED relay \/ UNCHANGED <<wire, link, back, session, carried>>
      PROVE  Flags /\ Rest /\ Queues
  <2>1. /\ pending' = pending \ {call[c].id}
        /\ outcome' = [outcome EXCEPT ![call[c].id] = IF Yes(result) THEN "ok" ELSE "error"]
        /\ chan' = chan \/ chan' = [chan EXCEPT ![call[c].id] = "empty"]
        /\ UNCHANGED <<conn, cool, cancelled, seq, loop, crashed>>
        /\ Ends(c, Yes(result))
    BY <1>9, FinishMakes
  <2>2. UNCHANGED <<wire, link, back, session, carried>>
    BY <1>9 DEF relay
  <2>3. Yes(result) \in BOOLEAN
    BY DEF Yes
  <2>4. call' \in [Callers -> Calls] /\ creds' \in BOOLEAN /\ connected' \in BOOLEAN /\ lapsed' \in BOOLEAN
        /\ lock' \in Callers \cup {Nobody}
    BY <2>1, <2>3, EndsMakes
  <2>5. Flags
    BY <1>b, <2>1, <2>4 DEF Flags
  <2>6. outcome' \in [Ids -> {"open", "ok", "error"}]
    BY <1>0, <2>1
  <2>7. chan' \in [Ids -> {"empty", "closed"} \cup Answers]
    BY <1>0, <2>1
  <2>8. Rest
    BY <1>0, <1>b, <1>r, <2>1, <2>2, <2>4, <2>6, <2>7 DEF Rest
  <2> QED BY <1>d, <2>1, <2>2, <2>5, <2>8 DEF Queues
<1>10. ASSUME NEW c \in Callers, Answered(c) \/ Timeout(c) PROVE Flags /\ Rest /\ Queues
  BY <1>9, <1>10 DEF Answered, Timeout
<1>11. ASSUME NEW c \in Callers, Write(c) PROVE Flags /\ Rest /\ Queues
  <2>1. CASE Finish(c, "unsent") /\ UNCHANGED wire
    BY <1>9, <1>11, <2>1 DEF Write
  <2>2. CASE /\ Goto(c, "await") /\ UNCHANGED <<state, requests, loop, crashed, outcome, lapsed>>
             /\ wire' = wire \/ wire' = [wire EXCEPT ![conn] = Append(@, [id |-> call[c].id, job |-> call[c].job])]
    <3>1. UNCHANGED <<link, back, session, carried>> /\ call[c].pc = "write"
      BY <1>11 DEF Write
    <3>2. call' \in [Callers -> Calls]
      BY <1>0, <2>2, CallSteps, PutsTyped DEF Calls
    <3>3. Flags
      BY <1>b, <2>2 DEF Flags, state
    <3>4. Rest
      BY <1>0, <1>b, <1>r, <2>2, <3>1, <3>2 DEF Rest, state, requests
    <3>5. wire' \in [Conns -> Seq([id : 1 .. seq, job : Jobs])]
      <4>1. call[c].id \in 1 .. seq /\ call[c].job \in Jobs
        BY <1>0, <1>i, <3>1 DEF Calls
      <4>2. [id |-> call[c].id, job |-> call[c].job] \in [id : 1 .. seq, job : Jobs]
        BY <4>1
      <4>3. \A q \in Seq([id : 1 .. seq, job : Jobs]) :
               Append(q, [id |-> call[c].id, job |-> call[c].job]) \in Seq([id : 1 .. seq, job : Jobs])
        BY <4>2, AddLast
      <4> QED BY <1>d, <2>2, <4>3
    <3> QED BY <1>d, <2>2, <3>1, <3>3, <3>4, <3>5 DEF Queues, requests
  <2> QED BY <1>11, <2>1, <2>2 DEF Write
<1>12. ASSUME NEW g \in Conns, Read(g) PROVE Flags /\ Rest /\ Queues
  <2>1. loop[g].on # 0
    BY <1>12 DEF Read, LoopsEnd, Reads
  <2>2. PICK on, m : on = loop[g].on /\ m = Head(back[on])
    OBVIOUS
  <2>3. /\ on \in Conns /\ back[on] # <<>> /\ back' = [back EXCEPT ![on] = Tail(@)]
        /\ IF m.id \in pending THEN Turns(g, "holding", on, m.id, m.answer)
           ELSE Turns(g, "reading", conn, loop[g].id, loop[g].answer)
    BY <1>12, <2>1, <2>2, ReadMakes
  <2>4. UNCHANGED <<state, requests, call, crashed, link, wire, session, carried, outcome, lapsed>>
    BY <1>12 DEF Read
  <2>5. m \in [id : 1 .. seq, answer : Answers] /\ Tail(back[on]) \in Seq([id : 1 .. seq, answer : Answers])
    <3>1. back[on] \in Seq([id : 1 .. seq, answer : Answers]) /\ back[on] # <<>>
      BY <1>d, <2>3
    <3> QED BY <2>2, <3>1, QueueTyped
  <2>6. loop' \in [Conns -> Loops]
    <3>1. m.id \in 0 .. seq /\ m.answer \in Answers /\ on \in 0 .. conn /\ conn \in 0 .. conn
          /\ loop[g].id \in 0 .. seq /\ loop[g].answer \in Answers
      BY <1>0, <2>2, <2>5 DEF Loops
    <3> QED BY <1>0, <2>3, <3>1, TurnsTyped
  <2>7. Flags
    BY <1>b, <2>4 DEF Flags, state
  <2>8. Rest
    BY <1>0, <1>b, <1>r, <2>4, <2>6 DEF Rest, state, requests
  <2> QED BY <1>d, <2>3, <2>4, <2>5, <2>7, <2>8 DEF Queues, requests
<1>13. ASSUME NEW g \in Conns, Deliver(g) PROVE Flags /\ Rest /\ Queues
  <2>1. /\ Turns(g, "reading", conn, 0, loop[g].answer) /\ crashed' \in BOOLEAN
        /\ chan' = chan \/ chan' = [chan EXCEPT ![loop[g].id] = loop[g].answer]
    BY <1>b, <1>13, DeliverMakes
  <2>2. UNCHANGED <<state, seq, pending, call, relay, outcome, lapsed>>
    BY <1>13 DEF Deliver
  <2>3. loop[g].answer \in Answers /\ conn \in 0 .. conn /\ 0 \in 0 .. seq
    BY <1>0 DEF Loops
  <2>4. loop' \in [Conns -> Loops] /\ chan' \in [Ids -> {"empty", "closed"} \cup Answers]
    BY <1>0, <2>1, <2>3, TurnsTyped
  <2>5. Flags
    BY <1>b, <2>1, <2>2 DEF Flags, state
  <2>6. Rest
    BY <1>0, <1>b, <1>r, <2>2, <2>4 DEF Rest, state, relay
  <2> QED BY <1>d, <2>2, <2>5, <2>6 DEF Queues, relay
<1>14. ASSUME NEW g \in Conns, ReadFails(g) PROVE Flags /\ Rest /\ Queues
  <2>1. /\ connected' = FALSE /\ Turns(g, "done", loop[g].on, loop[g].id, loop[g].answer)
        /\ back' = back \/ back' = [back EXCEPT ![loop[g].on] = <<>>]
        /\ link' = link \/ link' = [link EXCEPT ![loop[g].on] = "closed"]
    BY <1>14, ReadFailsMakes
  <2>2. UNCHANGED <<conn, creds, lock, cool, cancelled, requests, call, crashed>>
        /\ UNCHANGED <<wire, session, carried, outcome, lapsed>>
    BY <1>14 DEF ReadFails
  <2>3. loop' \in [Conns -> Loops]
    BY <1>0, <2>1, TurnsTyped DEF Loops
  <2>4. link' \in [Conns -> {"unused", "up", "down", "closed"}]
    BY <1>0, <2>1
  <2>5. Flags
    BY <1>b, <2>1, <2>2 DEF Flags
  <2>6. Rest
    BY <1>0, <1>b, <1>r, <2>2, <2>3, <2>4 DEF Rest, requests
  <2>7. back' \in [Conns -> Seq([id : 1 .. seq, answer : Answers])]
    BY <1>d, <1>e, <2>1
  <2> QED BY <1>d, <2>2, <2>5, <2>6, <2>7 DEF Queues, requests
<1>15. ASSUME NEW g \in Conns, Serve(g) PROVE Flags /\ Rest /\ Queues
  <2>1. UNCHANGED <<state, requests, call, loop, crashed, link, outcome, lapsed>>
        /\ wire[g] # <<>> /\ wire' = [wire EXCEPT ![g] = Tail(@)]
    BY <1>15 DEF Serve
  <2>2. PICK m : m = Head(wire[g])
    OBVIOUS
  <2>3. m \in [id : 1 .. seq, job : Jobs] /\ Tail(wire[g]) \in Seq([id : 1 .. seq, job : Jobs])
    <3>1. wire[g] \in Seq([id : 1 .. seq, job : Jobs]) /\ wire[g] # <<>>
      BY <1>d, <2>1
    <3> QED BY <2>2, <3>1, QueueTyped
  <2>4. PICK verdict \in Verdicts(g, m) :
            /\ session' = [session EXCEPT ![g] = Served(g, m, verdict)]
            /\ carried' = IF verdict # "refused" THEN [carried EXCEPT ![m.id] = @ + 1] ELSE carried
            /\ back' = IF link[g] = "up" THEN [back EXCEPT ![g] = Append(@, [id |-> m.id, answer |-> verdict])]
                       ELSE back
    BY <1>15, <2>2 DEF Serve
  <2>5. verdict \in Answers
    BY DEF Verdicts, Answers
  <2>6. session' \in [Conns -> {"anonymous", "challenged", "signed_in"}] /\ carried' \in [Ids -> Nat]
    <3>1. Served(g, m, verdict) \in {"anonymous", "challenged", "signed_in"}
      BY <1>0 DEF Served
    <3> QED BY <1>0, <2>3, <2>4, <3>1
  <2>7. [id |-> m.id, answer |-> verdict] \in [id : 1 .. seq, answer : Answers]
    BY <2>3, <2>5
  <2>8. Append(back[g], [id |-> m.id, answer |-> verdict]) \in Seq([id : 1 .. seq, answer : Answers])
    <3>1. back[g] \in Seq([id : 1 .. seq, answer : Answers])
      BY <1>d
    <3> QED BY <2>7, <3>1, QueueTyped
  <2>9. Flags
    BY <1>b, <2>1 DEF Flags, state
  <2>10. Rest
    BY <1>0, <1>b, <1>r, <2>1, <2>6 DEF Rest, state, requests
  <2> QED BY <1>d, <2>1, <2>3, <2>4, <2>8, <2>9, <2>10 DEF Queues, requests
<1>16. ASSUME NEW g \in Conns, Break(g) PROVE Flags /\ Rest /\ Queues
  <2>1. link' = [link EXCEPT ![g] = "down"] /\ UNCHANGED <<state, requests, call, loop, crashed>>
        /\ UNCHANGED <<wire, back, session, carried, outcome, lapsed>>
    BY <1>16 DEF Break
  <2>2. Flags
    BY <1>b, <2>1 DEF Flags, state
  <2>3. Rest
    BY <1>0, <1>b, <1>r, <2>1 DEF Rest, state, requests
  <2> QED BY <1>d, <2>1, <2>2, <2>3 DEF Queues, requests
<1> QED BY <1>q, <1>1, <1>2, <1>3, <1>4, <1>5, <1>6, <1>7, <1>8, <1>10, <1>11, <1>12, <1>13, <1>14, <1>15, <1>16
     DEF Next, Step, ReadLoop
-----------------------------------------------------------------------------
(* reconnMu. *)

(* Each step keeps the discipline of reconnMu. *)
LEMMA NextLocked ==
    ASSUME TypeOK, Locked, [Next]_vars
    PROVE  Locked'
<1>0. /\ conn \in 0 .. MaxConns /\ call \in [Callers -> Calls] /\ lock \in Callers \cup {Nobody}
      /\ Nobody \notin Callers
  BY Types
<1>b. connected \in BOOLEAN /\ creds \in BOOLEAN /\ lapsed \in BOOLEAN
  BY Types
<1>l. /\ \A c \in Callers :
           /\ call[c].pc \in {"teardown", "drain", "dial"} => lock = c /\ ~connected
           /\ creds /\ call[c].pc \in {"register", "write", "await"} /\ call[c].job \in {"auth", "auth_response"}
                 => lock = c
           /\ creds /\ call[c].pc \in {"register", "write", "await"} => call[c].job # "enroll"
           /\ call[c].pc \notin {"register", "write", "await"} => call[c].job = "request"
           /\ ~creds => call[c].pc \in {"register", "write", "await", "idle"}
           /\ conn = 0 => call[c].pc = "idle"
      /\ lock # Nobody =>
            /\ creds
            /\ \/ call[lock].pc \in {"teardown", "drain", "dial"}
               \/ /\ call[lock].pc \in {"register", "write", "await"}
                  /\ call[lock].job \in {"auth", "auth_response"}
      /\ ~creds => /\ conn <= 1
                   /\ \A c, d \in Callers : call[c].pc # "idle" /\ call[d].pc # "idle" => c = d
      /\ conn = 0 => ~creds /\ ~connected
  BY DEF Locked, Reconnecting, Busy, SigningIn
<1> DEFINE L ==
      /\ \A c \in Callers :
           /\ call'[c].pc \in {"teardown", "drain", "dial"} => lock' = c /\ ~connected'
           /\ creds' /\ call'[c].pc \in {"register", "write", "await"} /\ call'[c].job \in {"auth", "auth_response"}
                 => lock' = c
           /\ creds' /\ call'[c].pc \in {"register", "write", "await"} => call'[c].job # "enroll"
           /\ call'[c].pc \notin {"register", "write", "await"} => call'[c].job = "request"
           /\ ~creds' => call'[c].pc \in {"register", "write", "await", "idle"}
           /\ conn' = 0 => call'[c].pc = "idle"
      /\ lock' # Nobody =>
            /\ creds'
            /\ \/ call'[lock'].pc \in {"teardown", "drain", "dial"}
               \/ /\ call'[lock'].pc \in {"register", "write", "await"}
                  /\ call'[lock'].job \in {"auth", "auth_response"}
      /\ ~creds' => /\ conn' <= 1
                   /\ \A c, d \in Callers : call'[c].pc # "idle" /\ call'[d].pc # "idle" => c = d
      /\ conn' = 0 => ~creds' /\ ~connected'
<1>q. L => Locked'
  <2>1. SUFFICES ASSUME L PROVE Locked'
    OBVIOUS
  <2>2. ASSUME NEW c \in Callers
        PROVE  /\ Reconnecting(c)' => (lock' = c /\ ~connected')
               /\ creds' /\ SigningIn(c)' => lock' = c
               /\ creds' /\ Busy(c)' => call'[c].job # "enroll"
               /\ ~Busy(c)' => call'[c].job = "request"
               /\ ~creds' => Busy(c)' \/ call'[c].pc = "idle"
               /\ conn' = 0 => call'[c].pc = "idle"
    BY <2>1 DEF Reconnecting, Busy, SigningIn
  <2>3. lock' # Nobody => creds' /\ (Reconnecting(lock) \/ SigningIn(lock))'
    BY <2>1 DEF Reconnecting, Busy, SigningIn
  <2> QED BY <2>1, <2>2, <2>3 DEF Locked
<1>p. ASSUME NEW c \in Callers, NEW p, NEW j, NEW i, Puts(c, p, j, i)
      PROVE  call'[c].pc = p /\ call'[c].job = j /\ \A d \in Callers : d # c => call'[d] = call[d]
  BY <1>0, <1>p, PutsMakes
<1>1. ASSUME NEW c \in Callers, Connect(c) PROVE L
  <2>1. conn = 0 /\ conn' = 1 /\ connected' = TRUE /\ creds' = creds /\ lock' = lock
    BY <1>0, <1>1, DialledMakes DEF Connect
  <2>2. call' = call \/ Puts(c, "register", "auth", call[c].id)
    BY <1>0, <1>1, CallSteps DEF Connect
  <2>3. CASE call' = call
    BY <1>l, <2>1, <2>3
  <2>4. CASE Puts(c, "register", "auth", call[c].id)
    BY <1>l, <1>p, <2>1, <2>4
  <2> QED BY <2>2, <2>3, <2>4
<1>2. ASSUME NEW c \in Callers, Send(c) PROVE L
  <2>1. UNCHANGED <<conn, connected, creds, lock>> /\ call[c].pc = "idle"
    BY <1>2 DEF Send, state
  <2>2. CASE creds /\ Goto(c, IF connected THEN "register" ELSE "ensure")
    <3>1. Puts(c, IF connected THEN "register" ELSE "ensure", "request", call[c].id)
      BY <1>0, <1>l, <2>1, <2>2, CallSteps
    <3> QED BY <1>0, <1>b, <1>l, <1>p, <2>1, <2>2, <3>1
  <2>3. CASE ~creds /\ connected /\ (\A d \in Callers : call[d].pc = "idle") /\ Do(c, "enroll")
    <3>1. Puts(c, "register", "enroll", call[c].id)
      BY <1>0, <2>3, CallSteps
    <3> QED BY <1>0, <1>b, <1>l, <1>p, <2>1, <2>3, <3>1
  <2> QED BY <1>2, <2>2, <2>3 DEF Send
<1>3. ASSUME NEW c \in Callers, Lock(c) PROVE L
  <2>1. UNCHANGED <<conn, connected, creds>> /\ call[c].pc = "ensure" /\ lock = Nobody /\ call[c].job = "request"
        /\ creds
    BY <1>3, <1>l DEF Lock
  <2>2. \/ connected /\ Puts(c, "register", "request", call[c].id) /\ lock' = lock
        \/ ~connected /\ Puts(c, "idle", "request", 0) /\ lock' = lock
        \/ ~connected /\ Puts(c, "teardown", "request", call[c].id) /\ lock' = c
    BY <1>0, <1>3, <2>1, CallSteps DEF Lock
  <2> QED BY <1>0, <1>b, <1>l, <1>p, <2>1, <2>2
<1>4. ASSUME NEW c \in Callers, Teardown(c) \/ FailPending(c) PROVE L
  <2>1. UNCHANGED <<conn, connected, creds, lock>> /\ call[c].pc \in {"teardown", "drain"}
    BY <1>4 DEF Teardown, FailPending, state
  <2>2. PICK p \in {"drain", "dial"} : Puts(c, p, call[c].job, call[c].id)
    BY <1>0, <1>4, CallSteps DEF Teardown, FailPending
  <2> QED BY <1>0, <1>b, <1>l, <1>p, <2>1, <2>2
<1>5. ASSUME NEW c \in Callers, Dial(c) PROVE L
  <2>1. creds' = creds /\ call[c].pc = "dial" /\ creds /\ lock = c /\ ~connected /\ conn # 0
    BY <1>5, <1>l DEF Dial
  <2>2. CASE Dialled /\ Do(c, "auth") /\ UNCHANGED lock
    <3>1. Puts(c, "register", "auth", call[c].id) /\ conn' = conn + 1 /\ connected' = TRUE /\ lock' = lock
      BY <1>0, <2>2, CallSteps, DialledMakes
    <3>2. conn' # 0
      BY <1>0, <3>1
    <3> QED BY <1>0, <1>b, <1>l, <1>p, <2>1, <3>1, <3>2
  <2>3. CASE lock' = Nobody /\ Return(c) /\ UNCHANGED <<conn, connected>>
    <3>1. Puts(c, "idle", "request", 0)
      BY <1>0, <2>3, CallSteps
    <3> QED BY <1>0, <1>b, <1>l, <1>p, <2>1, <2>3, <3>1
  <2> QED BY <1>5, <2>2, <2>3 DEF Dial
<1>6. ASSUME NEW c \in Callers, Register(c) PROVE L
  <2>1. UNCHANGED <<conn, connected, creds, lock>> /\ call[c].pc = "register"
    BY <1>6 DEF Register, state
  <2>2. Puts(c, "write", call[c].job, NextId)
    BY <1>0, <1>6 DEF Register, Puts
  <2> QED BY <1>0, <1>b, <1>l, <1>p, <2>1, <2>2
<1>7. ASSUME NEW c \in Callers, call[c].pc \in {"write", "await"}, NEW result, Finish(c, result) PROVE L
  <2>1. conn' = conn /\ Ends(c, Yes(result))
    BY <1>7, FinishMakes
  <2>2. CASE /\ call[c].job \in {"request", "enroll"} /\ Puts(c, "idle", "request", 0)
             /\ creds' = (creds \/ (call[c].job = "enroll" /\ Yes(result)))
             /\ UNCHANGED <<connected, lock, lapsed>>
    BY <1>0, <1>b, <1>l, <1>p, <1>7, <2>1, <2>2
  <2>3. CASE /\ call[c].job = "auth" /\ Puts(c, "register", "auth_response", call[c].id)
             /\ UNCHANGED <<creds, connected, lock, lapsed>>
    BY <1>0, <1>b, <1>l, <1>p, <1>7, <2>1, <2>3
  <2>4. CASE /\ call[c].job = "auth_response"
             /\ creds' = TRUE /\ UNCHANGED <<connected, lapsed>>
             /\ IF lock = c THEN lock' = Nobody /\ Puts(c, "register", "request", call[c].id)
                ELSE lock' = lock /\ Puts(c, "idle", "request", 0)
    <3>1. CASE lock = c
      BY <1>0, <1>b, <1>l, <1>p, <1>7, <2>1, <2>4, <3>1
    <3>2. CASE lock # c
      BY <1>0, <1>b, <1>l, <1>p, <1>7, <2>1, <2>4, <3>2
    <3> QED BY <3>1, <3>2
  <2>5. CASE /\ call[c].job \in {"auth", "auth_response"} /\ Puts(c, "idle", "request", 0)
             /\ creds' = creds
             /\ IF lock = c THEN connected' = FALSE /\ lock' = Nobody /\ lapsed' = TRUE
                ELSE UNCHANGED <<connected, lock, lapsed>>
    <3>1. CASE lock = c
      BY <1>0, <1>b, <1>l, <1>p, <1>7, <2>1, <2>5, <3>1
    <3>2. CASE lock # c
      BY <1>0, <1>b, <1>l, <1>p, <1>7, <2>1, <2>5, <3>2
    <3> QED BY <3>1, <3>2
  <2> QED BY <2>1, <2>2, <2>3, <2>4, <2>5 DEF Ends
<1>8. ASSUME NEW c \in Callers, Answered(c) \/ Timeout(c) PROVE L
  BY <1>7, <1>8 DEF Answered, Timeout
<1>9. ASSUME NEW c \in Callers, Write(c) PROVE L
  <2>1. CASE Finish(c, "unsent")
    BY <1>7, <1>9, <2>1 DEF Write
  <2>2. CASE Goto(c, "await") /\ UNCHANGED state
    <3>1. UNCHANGED <<conn, connected, creds, lock>> /\ call[c].pc = "write" /\ Puts(c, "await", call[c].job, call[c].id)
      BY <1>0, <1>9, <2>2, CallSteps DEF Write, state
    <3> QED BY <1>0, <1>b, <1>l, <1>p, <3>1
  <2> QED BY <1>9, <2>1, <2>2 DEF Write
<1>10. CASE \/ CoolDown \/ UNCHANGED vars
            \/ \E g \in Conns : Read(g) \/ Deliver(g) \/ ReadFails(g) \/ Serve(g) \/ Break(g)
  <2>1. UNCHANGED <<conn, creds, lock, call>> /\ (connected' = connected \/ connected' = FALSE)
    BY <1>10 DEF CoolDown, vars, state, Read, Deliver, ReadFails, Serve, Break
  <2>2. L
    BY <1>0, <1>b, <1>l, <2>1
  <2> QED BY <1>q, <2>2
<1> QED BY <1>q, <1>1, <1>2, <1>3, <1>4, <1>5, <1>6, <1>8, <1>9, <1>10 DEF Next, Step, ReadLoop
-----------------------------------------------------------------------------
(* Read loops and panics. *)

(* A request that ends takes its identifier out of pending and empties its channel,*)
(* and a sign-in that fails under reconnMu is a lapse.                           *)
LEMMA FinishKeepsLoops ==
    ASSUME TypeOK, LoopsEnd, NEW c \in Callers, NEW result, Finish(c, result)
    PROVE  LoopsEnd' /\ crashed' = crashed /\ (lapsed => lapsed')
<1>1. /\ pending' = pending \ {call[c].id}
      /\ chan' = chan \/ chan' = [chan EXCEPT ![call[c].id] = "empty"]
      /\ UNCHANGED <<conn, loop, crashed>> /\ Ends(c, Yes(result))
  BY FinishMakes
<1>2. (lapsed => lapsed') /\ (~lapsed' => connected' = connected)
  BY <1>1, Types DEF Ends
<1>3. \A i \in Ids : chan'[i] = "closed" => chan[i] = "closed"
  BY <1>1, Types
<1>4. \A g \in Conns : loop[g].id # 0 => loop[g].id \in Ids
  BY Types, NetworkAssumption DEF Loops, Ids
<1>5. pending \subseteq Ids
  BY Types
<1> QED BY <1>1, <1>2, <1>3, <1>4, <1>5 DEF LoopsEnd, Reads

(* Each step keeps what is known of the read loops. *)
LEMMA NextLoops ==
    ASSUME TypeOK, InFlight, Locked, LoopsEnd, PanicNeedsLapse, [Next]_vars
    PROVE  LoopsEnd' /\ PanicNeedsLapse'
<1>0. /\ conn \in 0 .. MaxConns /\ seq \in 0 .. MaxRequests /\ MaxConns \in Nat /\ MaxRequests \in Nat
      /\ loop \in [Conns -> Loops] /\ pending \subseteq 1 .. seq /\ 1 .. seq \subseteq Ids
      /\ chan \in [Ids -> {"empty", "closed"} \cup Answers] /\ Conns = 1 .. MaxConns
  BY Types DEF Conns
<1>l. /\ \A g \in Conns :
           /\ g > conn => loop[g].pc = "off"
           /\ loop[g].pc \in {"reading", "holding"} => loop[g].on # 0
           /\ loop[g].pc = "holding" => loop[g].id # 0 /\ loop[g].id \in Ids
           /\ ~lapsed /\ loop[g].pc \in {"reading", "holding"} => connected /\ g = conn
           /\ ~lapsed /\ loop[g].pc = "holding" => chan[loop[g].id] # "closed"
      /\ \A i \in pending : chan[i] # "closed"
  <2>1. \A g \in Conns : loop[g].id # 0 => loop[g].id \in Ids
    BY <1>0 DEF Loops, Ids
  <2> QED BY <2>1 DEF LoopsEnd, Reads
<1>u. (lapsed => lapsed') /\ crashed' = crashed => PanicNeedsLapse'
  BY DEF PanicNeedsLapse
<1>1. CASE /\ UNCHANGED <<conn, loop, connected, lapsed, chan, pending, crashed>>
  BY <1>1, <1>u DEF LoopsEnd, Reads
<1>2. CASE \/ CoolDown \/ UNCHANGED vars
           \/ \E c \in Callers : Send(c) \/ Lock(c) \/ Teardown(c)
           \/ \E g \in Conns : Serve(g) \/ Break(g)
  BY <1>1, <1>2 DEF CoolDown, vars, Send, Lock, Teardown, Serve, Break, state, requests, relay
<1>3. ASSUME Dialled, ~connected, UNCHANGED <<lapsed, chan, pending, crashed>> PROVE LoopsEnd' /\ PanicNeedsLapse'
  <2>1. conn' = conn + 1 /\ conn' \in Conns /\ connected' = TRUE /\ Turns(conn', "reading", conn', 0, "ok")
    BY <1>3, DialledMakes
  <2>2. /\ loop'[conn'].pc = "reading" /\ loop'[conn'].on = conn'
        /\ \A h \in Conns : h # conn' => loop'[h] = loop[h]
    BY <1>0, <2>1, TurnsMakes
  <2>3. ASSUME NEW g \in Conns
        PROVE  /\ g > conn' => loop'[g].pc = "off"
               /\ loop'[g].pc \in {"reading", "holding"} => loop'[g].on # 0
               /\ loop'[g].pc = "holding" => loop'[g].id # 0
               /\ ~lapsed' /\ loop'[g].pc \in {"reading", "holding"} => connected' /\ g = conn'
               /\ ~lapsed' /\ loop'[g].pc = "holding" => chan'[loop'[g].id] # "closed"
    <3>1. CASE g = conn'
      BY <1>0, <2>1, <2>2, <3>1
    <3>2. CASE g # conn'
      BY <1>0, <1>l, <1>3, <2>1, <2>2, <3>2
    <3> QED BY <3>1, <3>2
  <2> QED BY <1>3, <1>l, <1>u, <2>3 DEF LoopsEnd, Reads
<1>4. ASSUME NEW c \in Callers, Connect(c) PROVE LoopsEnd' /\ PanicNeedsLapse'
  BY <1>3, <1>4 DEF Connect, Locked, requests
<1>5. ASSUME NEW c \in Callers, Dial(c) PROVE LoopsEnd' /\ PanicNeedsLapse'
  BY <1>1, <1>3, <1>5 DEF Dial, Locked, Reconnecting, requests
<1>6. ASSUME NEW c \in Callers, FailPending(c) PROVE LoopsEnd' /\ PanicNeedsLapse'
  <2>1. UNCHANGED <<conn, loop, connected, lapsed, crashed>> /\ pending' = {} /\ ~connected
    BY <1>6 DEF FailPending, Locked, Reconnecting, state
  <2> QED BY <1>l, <1>u, <2>1 DEF LoopsEnd, Reads
<1>7. ASSUME NEW c \in Callers, Register(c) PROVE LoopsEnd' /\ PanicNeedsLapse'
  <2>1. UNCHANGED <<conn, loop, connected, lapsed, crashed>> /\ pending' = pending \cup {seq + 1}
        /\ chan' = [chan EXCEPT ![seq + 1] = "empty"]
    BY <1>7 DEF Register, NextId, state
  <2>2. \A i \in Ids : chan'[i] = "closed" => chan[i] = "closed"
    BY <1>0, <2>1
  <2>3. ASSUME NEW i \in pending' PROVE chan'[i] # "closed"
    <3>1. CASE i = seq + 1
      <4>1. seq + 1 \in Ids
        BY <1>0, <1>7 DEF Register, Ids
      <4> QED BY <1>0, <2>1, <3>1, <4>1
    <3>2. CASE i \in pending
      BY <1>0, <1>l, <2>2, <3>2
    <3> QED BY <2>1, <3>1, <3>2
  <2>4. LoopsEnd'
    BY <1>l, <2>1, <2>2, <2>3 DEF LoopsEnd, Reads
  <2> QED BY <1>u, <2>1, <2>4
<1>8. ASSUME NEW c \in Callers, Write(c) \/ Answered(c) \/ Timeout(c) PROVE LoopsEnd' /\ PanicNeedsLapse'
  <2>1. CASE \E result : Finish(c, result)
    BY <2>1, <1>u, FinishKeepsLoops
  <2>2. CASE UNCHANGED <<state, requests, loop, crashed, lapsed>>
    BY <1>1, <2>2 DEF state, requests
  <2> QED BY <1>8, <2>1, <2>2 DEF Write, Answered, Timeout
<1>9. ASSUME NEW g \in Conns, Read(g) PROVE LoopsEnd' /\ PanicNeedsLapse'
  <2>1. PICK on, m : on = loop[g].on /\ m = Head(back[on])
    OBVIOUS
  <2>2. UNCHANGED <<conn, connected, lapsed, chan, pending, crashed>> /\ loop[g].pc = "reading" /\ on # 0
    BY <1>9, <1>l, <2>1 DEF Read, state, requests
  <2>3. IF m.id \in pending THEN Turns(g, "holding", on, m.id, m.answer)
        ELSE Turns(g, "reading", conn, loop[g].id, loop[g].answer)
    BY <1>9, <2>1, <2>2, ReadMakes
  <2>4. \A h \in Conns : h # g => loop'[h] = loop[h]
    BY <1>0, <2>3, TurnsMakes
  <2>5. conn # 0 /\ g <= conn
    BY <1>0, <1>l, <2>2
  <2>6. CASE m.id \in pending
    <3>1. loop'[g].pc = "holding" /\ loop'[g].on = on /\ loop'[g].id = m.id
      BY <1>0, <2>3, <2>6, TurnsMakes
    <3>2. m.id # 0 /\ chan[m.id] # "closed"
      <4>1. pending \subseteq 1 .. seq /\ 0 \notin 1 .. seq
        BY <1>0
      <4>2. chan[m.id] # "closed"
        BY <1>l, <2>6
      <4> QED BY <2>6, <4>1, <4>2
    <3>3. LoopsEnd'
      BY <1>0, <1>l, <2>2, <2>4, <2>5, <3>1, <3>2 DEF LoopsEnd, Reads
    <3> QED BY <3>3, <2>2, <1>u
  <2>7. CASE m.id \notin pending
    <3>1. loop'[g].pc = "reading" /\ loop'[g].on = conn
      BY <1>0, <2>3, <2>7, TurnsMakes
    <3>2. LoopsEnd'
      BY <1>0, <1>l, <2>2, <2>4, <2>5, <3>1 DEF LoopsEnd, Reads
    <3> QED BY <3>2, <2>2, <1>u
  <2> QED BY <2>6, <2>7
<1>10. ASSUME NEW g \in Conns, Deliver(g) PROVE LoopsEnd' /\ PanicNeedsLapse'
  <2>1. UNCHANGED <<conn, connected, lapsed, pending>> /\ loop[g].pc = "holding"
    BY <1>10 DEF Deliver, state
  <2>2. /\ Turns(g, "reading", conn, 0, loop[g].answer)
        /\ \/ chan[loop[g].id] # "closed" /\ crashed' = crashed
              /\ chan' \in {chan, [chan EXCEPT ![loop[g].id] = loop[g].answer]}
           \/ chan[loop[g].id] = "closed" /\ crashed' = TRUE /\ chan' = chan
    BY <1>10, DeliverMakes
  <2>3. /\ loop'[g].pc = "reading" /\ loop'[g].on = conn
        /\ \A h \in Conns : h # g => loop'[h] = loop[h]
    BY <1>0, <2>2, TurnsMakes
  <2>4. conn # 0 /\ g <= conn
    BY <1>0, <1>l, <2>1
  <2>5. \A i \in Ids : chan'[i] = "closed" => chan[i] = "closed"
    <3>1. loop[g].answer # "closed"
      BY <1>0 DEF Loops, Answers
    <3> QED BY <1>0, <2>2, <3>1
  <2>6. LoopsEnd'
    BY <1>0, <1>l, <2>1, <2>3, <2>4, <2>5 DEF LoopsEnd, Reads
  <2>7. PanicNeedsLapse'
    BY <1>l, <2>1, <2>2 DEF PanicNeedsLapse
  <2> QED BY <2>6, <2>7
<1>11. ASSUME NEW g \in Conns, ReadFails(g) PROVE LoopsEnd' /\ PanicNeedsLapse'
  <2>1. UNCHANGED <<conn, lapsed, chan, pending, crashed>> /\ loop[g].pc = "reading"
        /\ Turns(g, "done", loop[g].on, loop[g].id, loop[g].answer)
    BY <1>11, ReadFailsMakes DEF ReadFails, requests
  <2>2. loop'[g].pc = "done" /\ \A h \in Conns : h # g => loop'[h] = loop[h]
    BY <1>0, <2>1, TurnsMakes
  <2>3. LoopsEnd'
    <3>1. ASSUME ~lapsed PROVE \A h \in Conns : loop'[h].pc \notin {"reading", "holding"}
      BY <1>l, <2>1, <2>2, <3>1
    <3>2. \A h \in Conns : h > conn => loop'[h].pc = "off"
      BY <1>l, <2>1, <2>2
    <3> QED BY <1>l, <2>1, <2>2, <3>1, <3>2 DEF LoopsEnd, Reads
  <2> QED BY <2>1, <2>3, <1>u
<1> QED BY <1>2, <1>4, <1>5, <1>6, <1>7, <1>8, <1>9, <1>10, <1>11 DEF Next, Step, ReadLoop
-----------------------------------------------------------------------------
(* Identifiers. *)

(* A caller that sends or waits after a step did so before it, for the same   *)
(* request and on the same connection unless it is a plain request; or it has *)
(* just registered.                                                           *)
LEMMA AsksBefore ==
    ASSUME TypeOK, Locked, [Next]_vars, NEW d \in Callers, call'[d].pc \in {"write", "await"}
    PROVE  \/ /\ call[d].pc \in {"write", "await"} /\ call'[d].id = call[d].id /\ call'[d].job = call[d].job
              /\ conn' = conn \/ call[d].job = "request"
              /\ call'[d].pc = call[d].pc \/ call'[d].pc = "await"
           \/ Register(d) /\ call'[d].id = seq + 1 /\ call'[d].pc = "write"
<1>0. call \in [Callers -> Calls]
  BY Types
<1> DEFINE Before == /\ call[d].pc \in {"write", "await"} /\ call'[d].id = call[d].id /\ call'[d].job = call[d].job
                     /\ conn' = conn \/ call[d].job = "request"
                     /\ call'[d].pc = call[d].pc \/ call'[d].pc = "await"
           Now == Register(d) /\ call'[d].id = seq + 1 /\ call'[d].pc = "write"
<1>1. ASSUME call' = call, conn' = conn PROVE Before
  BY <1>1
<1>p. ASSUME NEW c \in Callers, NEW p, NEW j, NEW i, Puts(c, p, j, i), p \notin {"write", "await"},
             conn' = conn \/ (\A e \in Callers : e # c /\ call[e].pc \in {"write", "await"} => call[e].job = "request")
      PROVE  Before
  <2>1. c # d /\ call'[d] = call[d]
    BY <1>0, <1>p, PutsMakes
  <2> QED BY <1>p, <2>1
<1>2. ASSUME NEW c \in Callers, Connect(c) PROVE Before
  <2>1. call' = call \/ Puts(c, "register", "auth", call[c].id)
    BY <1>0, <1>2, CallSteps DEF Connect
  <2>2. \A e \in Callers : call[e].pc = "idle"
    BY <1>2 DEF Connect, Locked
  <2>3. call' # call
    BY <2>2
  <2> QED BY <1>p, <2>1, <2>2, <2>3
<1>3. ASSUME NEW c \in Callers, Send(c) PROVE Before
  <2>1. PICK p, j : p \in {"register", "ensure"} /\ Puts(c, p, j, call[c].id)
    BY <1>0, <1>3, CallSteps DEF Send
  <2>2. conn' = conn
    BY <1>3 DEF Send, state
  <2> QED BY <1>p, <2>1, <2>2
<1>4. ASSUME NEW c \in Callers, Lock(c) \/ Teardown(c) \/ FailPending(c) PROVE Before
  <2>1. PICK p, j, i : p \in {"register", "teardown", "idle", "drain", "dial"} /\ Puts(c, p, j, i)
    BY <1>0, <1>4, CallSteps DEF Lock, Teardown, FailPending
  <2>2. conn' = conn
    BY <1>4 DEF Lock, Teardown, FailPending, state
  <2> QED BY <1>p, <2>1, <2>2
<1>5. ASSUME NEW c \in Callers, Dial(c) PROVE Before
  <2>1. PICK p, j, i : p \in {"register", "idle"} /\ Puts(c, p, j, i)
    BY <1>0, <1>5, CallSteps DEF Dial
  <2>2. lock = c /\ call[c].pc = "dial" /\ creds
    BY <1>5 DEF Dial, Locked, Reconnecting, Busy
  <2>3. ASSUME NEW e \in Callers, e # c, call[e].pc \in {"write", "await"} PROVE call[e].job = "request"
    <3>1. call[e].job \in Jobs
      BY <1>0 DEF Calls
    <3> QED BY <2>2, <2>3, <3>1 DEF Locked, SigningIn, Busy, Jobs
  <2> QED BY <1>p, <2>1, <2>3
<1>6. ASSUME NEW c \in Callers, Register(c) PROVE Before \/ Now
  <2>1. conn' = conn /\ Puts(c, "write", call[c].job, seq + 1)
    BY <1>6 DEF Register, NextId, state, Puts
  <2>2. CASE c = d
    BY <1>0, <1>6, <2>1, <2>2, PutsMakes
  <2>3. CASE c # d
    BY <1>0, <2>1, <2>3, PutsMakes
  <2> QED BY <2>2, <2>3
<1>7. ASSUME NEW c \in Callers, NEW result, Finish(c, result) PROVE Before
  <2>1. conn' = conn /\ Ends(c, Yes(result)) /\ Yes(result) \in BOOLEAN
    BY <1>7, FinishMakes DEF Yes
  <2>2. call'[c].pc \in {"idle", "register"} /\ \A e \in Callers : e # c => call'[e] = call[e]
    BY <2>1, EndsMakes
  <2> QED BY <2>1, <2>2
<1>8. ASSUME NEW c \in Callers, Write(c) PROVE Before
  <2>1. CASE Goto(c, "await") /\ UNCHANGED state
    <3>1. call[c].pc = "write" /\ Puts(c, "await", call[c].job, call[c].id) /\ conn' = conn
      BY <1>0, <1>8, <2>1, CallSteps DEF Write, state
    <3>2. CASE c = d
      BY <1>0, <3>1, <3>2, PutsMakes
    <3>3. CASE c # d
      BY <1>0, <3>1, <3>3, PutsMakes
    <3> QED BY <3>2, <3>3
  <2> QED BY <1>7, <1>8, <2>1 DEF Write
<1>9. ASSUME NEW c \in Callers, Answered(c) \/ Timeout(c) PROVE Before
  BY <1>7, <1>9 DEF Answered, Timeout
<1>10. CASE \/ CoolDown \/ UNCHANGED vars
            \/ \E g \in Conns : Read(g) \/ Deliver(g) \/ ReadFails(g) \/ Serve(g) \/ Break(g)
  BY <1>1, <1>10 DEF CoolDown, vars, state, Read, Deliver, ReadFails, Serve, Break
<1> QED BY <1>2, <1>3, <1>4, <1>5, <1>6, <1>8, <1>9, <1>10 DEF Next, Step, ReadLoop

(* A step that registers and carries out nothing and puts nothing on the wire,  *)
(* and ends only requests nobody waits for any more, keeps identifiers apart.   *)
LEMMA IdsStay ==
    ASSUME TypeOK, InFlight, IdsApart, OnWireOnce, UNCHANGED <<carried, wire, seq>>,
           \A d \in Callers : call'[d].pc \in {"write", "await"} =>
              /\ call'[d].pc = call[d].pc /\ call'[d].id = call[d].id /\ call'[d].job = call[d].job
              /\ conn' = conn \/ call[d].job = "request",
           \A i \in Ids : outcome'[i] = outcome[i]
                          \/ (i <= seq /\ \A d \in Callers : call'[d].pc \in {"write", "await"} => call'[d].id # i)
    PROVE  IdsApart' /\ OnWireOnce'
<1>1. \A c \in Callers : \A i : Asks(c, i)' => Asks(c, i) /\ call'[c].pc = call[c].pc /\ call'[c].job = call[c].job
  BY DEF Asks
<1>2. IdsApart'
  <2>1. \A i \in Ids : i > seq' => carried'[i] = 0 /\ outcome'[i] = "open"
    BY Types DEF IdsApart, Ids
  <2>2. \A c \in Callers, i \in Ids : Asks(c, i)' => outcome'[i] = "open"
    BY <1>1 DEF IdsApart, Asks
  <2>3. \A c \in Callers : /\ call'[c].pc \in {"write", "await"} => call'[c].id # 0
                           /\ call'[c].pc = "write" => carried'[call'[c].id] = 0
    BY DEF IdsApart
  <2>4. \A c, d \in Callers, i \in Ids : Asks(c, i)' /\ Asks(d, i)' => c = d
    BY <1>1 DEF IdsApart
  <2> QED BY <2>1, <2>2, <2>3, <2>4 DEF IdsApart
<1>3. OnWireOnce'
  <2>1. ASSUME NEW g \in Conns, NEW k \in 1 .. Len(wire[g])
        PROVE  /\ carried[wire[g][k].id] = 0
               /\ \A c \in Callers : Asks(c, wire[g][k].id)' =>
                     call'[c].pc = "await" /\ wire[g][k].job = call'[c].job
               /\ \A c \in Callers : Asks(c, wire[g][k].id)' /\ call'[c].job # "request" => g = conn'
    BY <1>1 DEF OnWireOnce
  <2> QED BY <2>1 DEF OnWireOnce, Asks
<1> QED BY <1>2, <1>3

(* Each step keeps identifiers apart and every request on the wire once. *)
LEMMA NextIds ==
    ASSUME TypeOK, InFlight, Locked, IdsApart, OnWireOnce, [Next]_vars
    PROVE  IdsApart' /\ OnWireOnce'
<1>0. /\ call \in [Callers -> Calls] /\ carried \in [Ids -> Nat] /\ seq \in 0 .. MaxRequests /\ 1 .. seq \subseteq Ids
      /\ outcome \in [Ids -> {"open", "ok", "error"}]
      /\ wire \in [Conns -> Seq([id : 1 .. seq, job : Jobs])] /\ conn \in 0 .. MaxConns /\ MaxConns \in Nat
      /\ MaxRequests \in Nat
  BY Types DEF InFlight
<1>w. ASSUME NEW g \in Conns, NEW k \in 1 .. Len(wire[g])
      PROVE  wire[g][k] \in [id : 1 .. seq, job : Jobs] /\ wire[g][k].id \in 1 .. seq
  <2>1. wire[g] \in Seq([id : 1 .. seq, job : Jobs])
    BY <1>0
  <2>2. wire[g][k] \in [id : 1 .. seq, job : Jobs]
    BY <2>1, ElementTyped
  <2> QED BY <2>2
<1>o. ASSUME NEW g \in Conns, NEW k \in 1 .. Len(wire[g]), NEW i, i = wire[g][k].id
      PROVE  /\ carried[i] = 0
             /\ \A d \in Callers : Asks(d, i) => call[d].pc = "await" /\ wire[g][k].job = call[d].job
             /\ \A d \in Callers : Asks(d, i) /\ call[d].job # "request" => g = conn
  BY <1>o DEF OnWireOnce
<1>u. ASSUME NEW g \in Conns, NEW h \in Conns, NEW j \in 1 .. Len(wire[g]), NEW k \in 1 .. Len(wire[h]),
             wire[g][j].id = wire[h][k].id
      PROVE  g = h /\ j = k
  BY <1>u DEF OnWireOnce
<1>v. ASSUME \A g \in Conns : \A k \in 1 .. Len(wire'[g]) : \A i : i = wire'[g][k].id =>
               /\ carried'[i] = 0
               /\ \A d \in Callers : Asks(d, i)' => call'[d].pc = "await" /\ wire'[g][k].job = call'[d].job
               /\ \A d \in Callers : Asks(d, i)' /\ call'[d].job # "request" => g = conn',
             \A g, h \in Conns : \A j \in 1 .. Len(wire'[g]), k \in 1 .. Len(wire'[h]) :
               wire'[g][j].id = wire'[h][k].id => g = h /\ j = k
      PROVE  OnWireOnce'
  BY <1>v DEF OnWireOnce, Asks
<1>2. ASSUME NEW c \in Callers, call[c].pc \in {"write", "await"}, NEW result, Finish(c, result), UNCHANGED <<carried, wire>>
      PROVE  IdsApart' /\ OnWireOnce'
  <2>1. /\ outcome' = [outcome EXCEPT ![call[c].id] = IF Yes(result) THEN "ok" ELSE "error"]
        /\ conn' = conn /\ seq' = seq /\ Ends(c, Yes(result)) /\ Yes(result) \in BOOLEAN
    BY <1>2, FinishMakes DEF Yes
  <2>2. call'[c].pc \in {"idle", "register"} /\ \A e \in Callers : e # c => call'[e] = call[e]
    BY <2>1, EndsMakes
  <2>3. ASSUME NEW i \in Ids
        PROVE  outcome'[i] = outcome[i]
                 \/ (i <= seq /\ \A d \in Callers : call'[d].pc \in {"write", "await"} => call'[d].id # i)
    <3>1. CASE i # call[c].id
      BY <1>0, <2>1, <3>1
    <3>2. CASE i = call[c].id
      <4>1. i <= seq
        BY <1>0, <3>2 DEF Calls
      <4>2. \A d \in Callers : d # c => ~Asks(d, i)
        BY <1>2, <3>2 DEF IdsApart, Asks
      <4> QED BY <2>2, <4>1, <4>2 DEF Asks
    <3> QED BY <3>1, <3>2
  <2>4. \A d \in Callers : call'[d].pc \in {"write", "await"} =>
              /\ call'[d].pc = call[d].pc /\ call'[d].id = call[d].id /\ call'[d].job = call[d].job
              /\ conn' = conn \/ call[d].job = "request"
    BY <2>1, <2>2
  <2> QED BY <1>2, <2>1, <2>3, <2>4, IdsStay
<1>3. ASSUME NEW c \in Callers, Answered(c) \/ Timeout(c) PROVE IdsApart' /\ OnWireOnce'
  BY <1>2, <1>3 DEF Answered, Timeout, relay
<1>4. ASSUME NEW c \in Callers, Register(c) PROVE IdsApart' /\ OnWireOnce'
  <2>1. /\ seq' = seq + 1 /\ UNCHANGED <<conn, carried, wire, outcome>> /\ seq + 1 \in Ids
        /\ Puts(c, "write", call[c].job, seq + 1)
    BY <1>0, <1>4 DEF Register, NextId, state, relay, Puts, Ids
  <2>2. /\ call'[c].pc = "write" /\ call'[c].id = seq + 1 /\ call'[c].job = call[c].job
        /\ \A d \in Callers : d # c => call'[d] = call[d]
    BY <1>0, <2>1, PutsMakes
  <2>3. \A d \in Callers : \A i : d # c => (Asks(d, i)' <=> Asks(d, i))
    BY <2>2 DEF Asks
  <2>4. \A d \in Callers : \A i : Asks(d, i) => i <= seq
    BY <1>0 DEF Calls, Asks
  <2>5. \A i : Asks(c, i)' => i = seq + 1
    BY <2>2 DEF Asks
  <2>6. carried[seq + 1] = 0 /\ outcome[seq + 1] = "open"
    BY <1>0, <2>1 DEF IdsApart
  <2>7. IdsApart'
    <3>1. \A i \in Ids : i > seq' => carried'[i] = 0 /\ outcome'[i] = "open"
      BY <1>0, <2>1 DEF IdsApart, Ids
    <3>2. \A d \in Callers, i \in Ids : Asks(d, i)' => outcome'[i] = "open"
      BY <2>1, <2>3, <2>5, <2>6 DEF IdsApart
    <3>3. \A d \in Callers : /\ call'[d].pc \in {"write", "await"} => call'[d].id # 0
                             /\ call'[d].pc = "write" => carried'[call'[d].id] = 0
      BY <1>0, <2>1, <2>2, <2>6 DEF IdsApart
    <3>4. \A d, e \in Callers, i \in Ids : Asks(d, i)' /\ Asks(e, i)' => d = e
      <4>1. \A d \in Callers : \A i : Asks(d, i) => i # seq + 1
        BY <1>0, <2>4
      <4> QED BY <2>3, <2>5, <4>1 DEF IdsApart
    <3> QED BY <3>1, <3>2, <3>3, <3>4 DEF IdsApart
  <2>8. OnWireOnce'
    <3>1. ASSUME NEW g \in Conns, NEW k \in 1 .. Len(wire[g]), NEW i, i = wire[g][k].id
          PROVE  /\ carried[i] = 0
                 /\ \A d \in Callers : Asks(d, i)' => call'[d].pc = "await" /\ wire[g][k].job = call'[d].job
                 /\ \A d \in Callers : Asks(d, i)' /\ call'[d].job # "request" => g = conn'
      <4>1. i # seq + 1
        BY <1>0, <1>w, <3>1
      <4>2. \A d \in Callers : Asks(d, i)' => Asks(d, i) /\ d # c
        BY <2>3, <2>5, <4>1
      <4> QED BY <1>o, <2>1, <2>2, <3>1, <4>2
    <3> QED BY <1>u, <1>v, <2>1, <3>1
  <2> QED BY <2>7, <2>8
<1>5. ASSUME NEW c \in Callers, Write(c) PROVE IdsApart' /\ OnWireOnce'
  <2>1. CASE Finish(c, "unsent") /\ UNCHANGED wire
    BY <1>2, <1>5, <2>1 DEF Write
  <2>2. CASE Goto(c, "await") /\ UNCHANGED <<state, requests, loop, crashed, outcome, lapsed>>
    <3>1. call[c].pc = "write" /\ UNCHANGED <<conn, seq, carried, outcome>> /\ Puts(c, "await", call[c].job, call[c].id)
      BY <1>0, <1>5, <2>2, CallSteps DEF Write, state, requests
    <3>2. /\ call'[c].pc = "await" /\ call'[c].job = call[c].job /\ call'[c].id = call[c].id
          /\ \A d \in Callers : d # c => call'[d] = call[d]
      BY <1>0, <3>1, PutsMakes
    <3>3. \A d \in Callers : \A i : (Asks(d, i)' <=> Asks(d, i)) /\ call'[d].job = call[d].job
                                /\ (call'[d].pc = call[d].pc \/ d = c)
      BY <3>1, <3>2 DEF Asks
    <3>4. IdsApart'
      BY <3>1, <3>2, <3>3 DEF IdsApart
    <3>5. ASSUME NEW g \in Conns, NEW k \in 1 .. Len(wire[g]), NEW i, i = wire[g][k].id
          PROVE  /\ carried[i] = 0 /\ i # call[c].id
                 /\ \A d \in Callers : Asks(d, i)' => call'[d].pc = "await" /\ wire[g][k].job = call'[d].job
                 /\ \A d \in Callers : Asks(d, i)' /\ call'[d].job # "request" => g = conn'
      <4>1. i # call[c].id
        BY <1>o, <3>1, <3>5 DEF Asks
      <4> QED BY <1>o, <3>1, <3>2, <3>3, <3>5, <4>1
    <3>6. CASE wire' = wire
      BY <1>u, <1>v, <3>1, <3>4, <3>5, <3>6
    <3>7. CASE conn # 0 /\ wire' = [wire EXCEPT ![conn] = Append(@, [id |-> call[c].id, job |-> call[c].job])]
      <4>1. PICK e : e = [id |-> call[c].id, job |-> call[c].job]
        OBVIOUS
      <4>2. conn \in Conns /\ wire[conn] \in Seq([id : 1 .. seq, job : Jobs])
        <5>1. conn \in Conns
          BY <1>0, <3>7 DEF Conns
        <5> QED BY <1>0, <5>1
      <4>3. e \in [id : 1 .. seq, job : Jobs] /\ e.id = call[c].id /\ e.job = call[c].job
        <5>1. call[c].id \in 1 .. seq /\ call[c].job \in Jobs
          BY <1>0, <3>1 DEF Calls, IdsApart
        <5> QED BY <4>1, <5>1
      <4>4. /\ Len(wire[conn]) \in Nat /\ Len(wire'[conn]) = Len(wire[conn]) + 1
            /\ \A k \in 1 .. Len(wire'[conn]) : wire'[conn][k] = IF k \in 1 .. Len(wire[conn]) THEN wire[conn][k] ELSE e
            /\ \A k \in 1 .. Len(wire'[conn]) : k \in 1 .. Len(wire[conn]) \/ k = Len(wire[conn]) + 1
            /\ \A g \in Conns : g # conn => wire'[g] = wire[g]
        <5>1. wire'[conn] = Append(wire[conn], e) /\ \A g \in Conns : g # conn => wire'[g] = wire[g]
          BY <1>0, <3>7, <4>1, <4>2
        <5> QED BY <4>2, <4>3, <5>1, AddLast
      <4>5. ASSUME NEW g \in Conns, NEW k \in 1 .. Len(wire'[g])
            PROVE  \/ k \in 1 .. Len(wire[g]) /\ wire'[g][k] = wire[g][k]
                   \/ g = conn /\ wire'[g][k] = e /\ k = Len(wire[g]) + 1
        BY <4>4, <4>5
      <4>6. carried[e.id] = 0 /\ \A d \in Callers : Asks(d, e.id) => d = c
        <5>1. e.id \in Ids /\ Asks(c, e.id)
          BY <1>0, <3>1, <4>3 DEF Asks
        <5> QED BY <3>1, <4>3, <5>1 DEF IdsApart
      <4>7. ASSUME NEW g \in Conns, NEW k \in 1 .. Len(wire'[g]), NEW i, i = wire'[g][k].id
            PROVE  /\ carried'[i] = 0
                   /\ \A d \in Callers : Asks(d, i)' => call'[d].pc = "await" /\ wire'[g][k].job = call'[d].job
                   /\ \A d \in Callers : Asks(d, i)' /\ call'[d].job # "request" => g = conn'
        <5>1. CASE k \in 1 .. Len(wire[g]) /\ wire'[g][k] = wire[g][k]
          BY <3>1, <3>5, <4>7, <5>1
        <5>2. CASE g = conn /\ wire'[g][k] = e
          BY <3>1, <3>2, <3>3, <4>3, <4>6, <4>7, <5>2
        <5> QED BY <4>5, <5>1, <5>2
      <4>8. ASSUME NEW g \in Conns, NEW k \in 1 .. Len(wire[g]) PROVE wire[g][k].id # e.id
        BY <3>5, <4>3
      <4>9. ASSUME NEW g \in Conns, NEW h \in Conns, NEW j \in 1 .. Len(wire'[g]), NEW k \in 1 .. Len(wire'[h]),
                   wire'[g][j].id = wire'[h][k].id
            PROVE  g = h /\ j = k
        <5>1. CASE j \in 1 .. Len(wire[g]) /\ k \in 1 .. Len(wire[h]) /\ wire'[g][j] = wire[g][j] /\ wire'[h][k] = wire[h][k]
          BY <1>u, <4>9, <5>1
        <5> QED BY <4>5, <4>8, <4>9, <5>1
      <4>10. OnWireOnce'
        BY <1>v, <4>7, <4>9
      <4> QED BY <3>4, <4>10
    <3>8. wire' = wire \/ (conn # 0 /\ wire' = [wire EXCEPT ![conn] = Append(@, [id |-> call[c].id, job |-> call[c].job])])
      <4>1. conn # 0
        BY <3>1 DEF Locked
      <4> QED BY <1>5, <2>2, <3>1, <4>1 DEF Write, Finish
    <3> QED BY <3>4, <3>6, <3>7, <3>8
  <2> QED BY <1>5, <2>1, <2>2 DEF Write
<1>6. ASSUME NEW g \in Conns, Serve(g) PROVE IdsApart' /\ OnWireOnce'
  <2>1. PICK m : m = Head(wire[g])
    OBVIOUS
  <2>2. /\ wire[g] # <<>> /\ wire' = [wire EXCEPT ![g] = Tail(@)] /\ UNCHANGED <<conn, call, seq, outcome>>
        /\ carried' = carried \/ carried' = [carried EXCEPT ![m.id] = @ + 1]
    BY <1>6, <2>1 DEF Serve, state, requests
  <2>3. wire[g] \in Seq([id : 1 .. seq, job : Jobs])
    BY <1>0
  <2>4. /\ Len(wire[g]) \in Nat /\ 1 \in 1 .. Len(wire[g]) /\ m = wire[g][1] /\ m.id \in 1 .. seq
        /\ Len(wire'[g]) = Len(wire[g]) - 1
        /\ \A k \in 1 .. Len(wire'[g]) : k + 1 \in 1 .. Len(wire[g]) /\ wire'[g][k] = wire[g][k + 1]
    <3>1. wire'[g] = Tail(wire[g])
      BY <1>0, <2>2
    <3>2. /\ Len(wire[g]) \in Nat /\ 1 \in 1 .. Len(wire[g]) /\ Head(wire[g]) = wire[g][1]
          /\ Len(Tail(wire[g])) = Len(wire[g]) - 1
          /\ \A k \in 1 .. Len(Tail(wire[g])) :
                k + 1 \in 1 .. Len(wire[g]) /\ Tail(wire[g])[k] = wire[g][k + 1]
      BY <2>2, <2>3, TakeFirst
    <3>3. wire[g][1].id \in 1 .. seq
      BY <1>w, <3>2
    <3> QED BY <2>1, <3>1, <3>2, <3>3
  <2>5. \A h \in Conns : h # g => wire'[h] = wire[h]
    BY <1>0, <2>2
  <2>6. \A i \in Ids : i # m.id => carried'[i] = carried[i]
    BY <1>0, <2>2
  <2>7. \A c \in Callers : \A i : Asks(c, i)' <=> Asks(c, i)
    BY <2>2 DEF Asks
  <2>8. IdsApart'
    <3>1. ASSUME NEW c \in Callers, call[c].pc = "write" PROVE carried'[call[c].id] = 0
      <4>1. call[c].id # m.id
        BY <2>4, <3>1 DEF OnWireOnce, Asks
      <4>2. call[c].id \in Ids
        BY <1>0, <3>1 DEF Calls, IdsApart, Ids
      <4> QED BY <2>6, <3>1, <4>1, <4>2 DEF IdsApart
    <3>2. \A i \in Ids : i > seq => carried'[i] = 0
      BY <1>0, <2>4, <2>6 DEF IdsApart, Ids
    <3> QED BY <2>2, <2>7, <3>1, <3>2 DEF IdsApart
  <2>9. ASSUME NEW h \in Conns, NEW k \in 1 .. Len(wire'[h])
        PROVE  \/ h # g /\ k \in 1 .. Len(wire[h]) /\ wire'[h][k] = wire[h][k]
               \/ h = g /\ k + 1 \in 1 .. Len(wire[h]) /\ wire'[h][k] = wire[h][k + 1] /\ k + 1 # 1
    BY <2>4, <2>5, <2>9
  <2>10. ASSUME NEW h \in Conns, NEW k \in 1 .. Len(wire'[h]), NEW i, i = wire'[h][k].id
         PROVE  /\ carried'[i] = 0
                /\ \A c \in Callers : Asks(c, i)' => call'[c].pc = "await" /\ wire'[h][k].job = call'[c].job
                /\ \A c \in Callers : Asks(c, i)' /\ call'[c].job # "request" => h = conn'
    <3>1. PICK j \in 1 .. Len(wire[h]) : wire'[h][k] = wire[h][j] /\ (h # g \/ j # 1)
      BY <2>9
    <3>2. i # m.id
      BY <1>u, <2>4, <2>10, <3>1
    <3>3. i \in Ids
      BY <1>0, <1>w, <2>10, <3>1
    <3>4. carried'[i] = 0
      BY <1>o, <2>6, <2>10, <3>1, <3>2, <3>3
    <3> QED BY <1>o, <2>2, <2>7, <2>10, <3>1, <3>4
  <2>11. ASSUME NEW h \in Conns, NEW f \in Conns, NEW j \in 1 .. Len(wire'[h]), NEW k \in 1 .. Len(wire'[f]),
                wire'[h][j].id = wire'[f][k].id
         PROVE  h = f /\ j = k
    <3>1. PICK p \in 1 .. Len(wire[h]) : wire'[h][j] = wire[h][p] /\ p = IF h = g THEN j + 1 ELSE j
      BY <2>9
    <3>2. PICK q \in 1 .. Len(wire[f]) : wire'[f][k] = wire[f][q] /\ q = IF f = g THEN k + 1 ELSE k
      BY <2>9
    <3>3. h = f /\ p = q
      BY <1>u, <2>11, <3>1, <3>2
    <3> QED BY <2>4, <3>1, <3>2, <3>3
  <2>12. OnWireOnce'
    BY <1>v, <2>10, <2>11
  <2> QED BY <2>8, <2>12
<1>7. CASE \E c \in Callers : Connect(c) \/ Send(c) \/ Lock(c) \/ Teardown(c) \/ FailPending(c) \/ Dial(c)
  <2>1. UNCHANGED <<carried, wire, seq, outcome>>
    BY <1>7 DEF Connect, Send, Lock, Teardown, FailPending, Dial, requests, relay
  <2>2. \A d \in Callers : call'[d].pc = call[d].pc \/ call'[d].pc \notin {"write", "await"}
    <3>1. PICK c \in Callers : Connect(c) \/ Send(c) \/ Lock(c) \/ Teardown(c) \/ FailPending(c) \/ Dial(c)
      BY <1>7
    <3>2. call' = call \/ \E p, j, i : p \in {"register", "ensure", "teardown", "idle", "drain", "dial"} /\ Puts(c, p, j, i)
      BY <1>0, <3>1, CallSteps DEF Connect, Send, Lock, Teardown, FailPending, Dial
    <3> QED BY <1>0, <3>2, PutsMakes
  <2>3. \A d \in Callers : call'[d].pc \in {"write", "await"} =>
              /\ call'[d].pc = call[d].pc /\ call'[d].id = call[d].id /\ call'[d].job = call[d].job
              /\ conn' = conn \/ call[d].job = "request"
    BY <1>0, <2>1, <2>2, AsksBefore DEF Register
  <2> QED BY <2>1, <2>3, IdsStay
<1>8. CASE \/ CoolDown \/ UNCHANGED vars
           \/ \E g \in Conns : Read(g) \/ Deliver(g) \/ ReadFails(g) \/ Break(g)
  <2>1. UNCHANGED <<carried, wire, seq, outcome, call, conn>>
    BY <1>8 DEF CoolDown, vars, state, Read, Deliver, ReadFails, Break, requests, relay
  <2> QED BY <2>1, IdsStay
<1> QED BY <1>3, <1>4, <1>5, <1>6, <1>7, <1>8 DEF Next, Step, ReadLoop
-----------------------------------------------------------------------------
(* Answers. *)

(* What the relay makes of the first request on the wire. *)
LEMMA ServeMakes ==
    ASSUME TypeOK, InFlight, OnWireOnce, NEW g \in Conns, Serve(g)
    PROVE  \E i \in 1 .. seq, verdict \in Answers :
              /\ carried[i] = 0
              /\ carried' = IF Yes(verdict) THEN [carried EXCEPT ![i] = 1] ELSE carried
              /\ session' \in [Conns -> {"anonymous", "challenged", "signed_in"}]
              /\ \A h \in Conns : session[h] = "signed_in" => session'[h] = "signed_in"
              /\ Yes(verdict) => \A c \in Callers : Asks(c, i) /\ call[c].job \in {"auth_response", "enroll"} =>
                                    session'[conn] = "signed_in"
              /\ back' = back \/ back' = [back EXCEPT ![g] = Append(@, [id |-> i, answer |-> verdict])]
              /\ UNCHANGED <<state, requests, call, loop, crashed, outcome, lapsed>>
<1>1. wire[g] \in Seq([id : 1 .. seq, job : Jobs]) /\ wire[g] # <<>> /\ carried \in [Ids -> Nat] /\ 1 .. seq \subseteq Ids
      /\ session \in [Conns -> {"anonymous", "challenged", "signed_in"}]
  BY Types DEF InFlight, Serve
<1>2. PICK m : m = Head(wire[g])
  OBVIOUS
<1>3. 1 \in 1 .. Len(wire[g]) /\ m = wire[g][1] /\ m \in [id : 1 .. seq, job : Jobs]
  BY <1>1, <1>2, TakeFirst
<1>4. PICK verdict \in Verdicts(g, m) :
         /\ session' = [session EXCEPT ![g] = Served(g, m, verdict)]
         /\ carried' = IF verdict # "refused" THEN [carried EXCEPT ![m.id] = @ + 1] ELSE carried
         /\ back' = IF link[g] = "up" THEN [back EXCEPT ![g] = Append(@, [id |-> m.id, answer |-> verdict])]
                    ELSE back
  BY <1>2 DEF Serve
<1>5. m.id \in 1 .. seq /\ m.id \in Ids /\ m.job \in Jobs
  BY <1>1, <1>3
<1>6. verdict \in Answers /\ (Yes(verdict) <=> verdict # "refused")
      /\ (Yes(verdict) /\ m.job \in {"auth_response", "enroll"} => verdict = "ok")
  BY <1>4, <1>5 DEF Verdicts, Answers, Yes, Jobs
<1>7. carried[m.id] = 0
  BY <1>3 DEF OnWireOnce
<1>8. carried' = IF Yes(verdict) THEN [carried EXCEPT ![m.id] = 1] ELSE carried
  BY <1>1, <1>4, <1>5, <1>6, <1>7
<1>9. Served(g, m, verdict) \in {"anonymous", "challenged", "signed_in"}
      /\ (session[g] = "signed_in" => Served(g, m, verdict) = "signed_in")
      /\ (Yes(verdict) /\ m.job \in {"auth_response", "enroll"} => Served(g, m, verdict) = "signed_in")
  BY <1>1, <1>6 DEF Served
<1>10. /\ session' \in [Conns -> {"anonymous", "challenged", "signed_in"}]
       /\ \A h \in Conns : session[h] = "signed_in" => session'[h] = "signed_in"
       /\ session'[g] = Served(g, m, verdict)
  BY <1>1, <1>4, <1>9
<1>11. ASSUME Yes(verdict), NEW c \in Callers, Asks(c, m.id), call[c].job \in {"auth_response", "enroll"}
       PROVE  session'[conn] = "signed_in"
  <2>1. m.job = call[c].job /\ g = conn
    BY <1>3, <1>11 DEF OnWireOnce
  <2> QED BY <1>9, <1>10, <1>11, <2>1
<1>12. back' = back \/ back' = [back EXCEPT ![g] = Append(@, [id |-> m.id, answer |-> verdict])]
  BY <1>4
<1>13. UNCHANGED <<state, requests, call, loop, crashed, outcome, lapsed>>
  BY DEF Serve
<1> QED BY <1>5, <1>6, <1>7, <1>8, <1>10, <1>11, <1>12, <1>13

(* Only Serve carries requests out and signs a connection in. *)
LEMMA OnlyServe ==
    ASSUME [Next]_vars, \A g \in Conns : ~Serve(g)
    PROVE  carried' = carried /\ session' = session
<1>1. ASSUME NEW c \in Callers, Connect(c) \/ Send(c) \/ Step(c) PROVE carried' = carried /\ session' = session
  BY <1>1 DEF Connect, Send, Step, Lock, Teardown, FailPending, Dial, Register, Write, Answered, Timeout, relay
<1>2. ASSUME NEW g \in Conns, ReadLoop(g) \/ Break(g) PROVE carried' = carried /\ session' = session
  BY <1>2 DEF ReadLoop, Read, Deliver, ReadFails, Break, relay
<1>3. CASE CoolDown \/ UNCHANGED vars
  BY <1>3 DEF CoolDown, vars, relay
<1> QED BY <1>1, <1>2, <1>3 DEF Next

(* What a good answer says stays true: nobody signs in on another connection   *)
(* while a sign-in is under way, and the relay forgets none.                   *)
LEMMA GrantedStays ==
    ASSUME TypeOK, InFlight, Locked, IdsApart, OnWireOnce, [Next]_vars, NEW i \in Ids, Granted(i)
    PROVE  Granted(i)'
<1>1. carried \in [Ids -> Nat] /\ 1 .. seq \subseteq Ids /\ seq \in Nat /\ call \in [Callers -> Calls]
      /\ conn \in 0 .. MaxConns
  BY Types
<1>2. carried'[i] = 1 /\ \A h \in Conns : session[h] = "signed_in" => session'[h] = "signed_in"
  <2>1. CASE \A g \in Conns : ~Serve(g)
    BY <2>1, OnlyServe DEF Granted
  <2>2. ASSUME NEW g \in Conns, Serve(g)
        PROVE  carried'[i] = 1 /\ \A h \in Conns : session[h] = "signed_in" => session'[h] = "signed_in"
    <3>1. PICK k \in 1 .. seq : /\ carried[k] = 0 /\ (carried' = carried \/ carried' = [carried EXCEPT ![k] = 1])
                                /\ \A h \in Conns : session[h] = "signed_in" => session'[h] = "signed_in"
      BY <2>2, ServeMakes
    <3> QED BY <1>1, <3>1 DEF Granted
  <2> QED BY <2>1, <2>2
<1>3. ASSUME NEW c \in Callers, Asks(c, i)', call'[c].job \in {"auth_response", "enroll"}
      PROVE  session'[conn'] = "signed_in"
  <2>1. call'[c].pc \in {"write", "await"} /\ call'[c].id = i
    BY <1>3 DEF Asks
  <2>2. CASE Register(c) /\ call'[c].id = seq + 1
    BY <1>1, <2>1, <2>2 DEF Granted, IdsApart
  <2>3. CASE /\ call[c].pc \in {"write", "await"} /\ call'[c].id = call[c].id /\ call'[c].job = call[c].job
             /\ conn' = conn \/ call[c].job = "request"
    <3>1. Asks(c, i) /\ call[c].job \in {"auth_response", "enroll"} /\ conn' = conn
      BY <1>3, <2>1, <2>3 DEF Asks
    <3>2. conn \in Conns
      <4>1. conn # 0
        BY <2>3 DEF Locked
      <4> QED BY <1>1, <4>1, NetworkAssumption DEF Conns
    <3> QED BY <1>2, <3>1, <3>2 DEF Granted
  <2> QED BY <2>1, <2>2, <2>3, AsksBefore
<1> QED BY <1>2, <1>3 DEF Granted, Asks

(* Each step keeps answers true. *)
LEMMA NextAnswers ==
    ASSUME TypeOK, InFlight, Locked, LoopsEnd, IdsApart, OnWireOnce, AnswersAreTrue, [Next]_vars
    PROVE  AnswersAreTrue'
<1>0. /\ call \in [Callers -> Calls] /\ carried \in [Ids -> Nat] /\ seq \in 0 .. MaxRequests /\ 1 .. seq \subseteq Ids
      /\ loop \in [Conns -> Loops] /\ chan \in [Ids -> {"empty", "closed"} \cup Answers]
      /\ back \in [Conns -> Seq([id : 1 .. seq, answer : Answers])] /\ conn \in 0 .. MaxConns
      /\ MaxConns \in Nat /\ MaxRequests \in Nat
  BY Types DEF InFlight
<1>s. ASSUME NEW i \in Ids, Granted(i) PROVE Granted(i)'
  BY <1>s, GrantedStays
<1>b. ASSUME NEW g \in Conns, NEW k \in 1 .. Len(back[g]), NEW i, i = back[g][k].id, Yes(back[g][k].answer)
      PROVE  Granted(i)'
  <2>1. back[g] \in Seq([id : 1 .. seq, answer : Answers])
    BY <1>0
  <2>2. back[g][k] \in [id : 1 .. seq, answer : Answers]
    BY <2>1, ElementTyped
  <2>3. i \in Ids
    BY <1>0, <1>b, <2>2
  <2>4. Granted(i)
    BY <1>b DEF AnswersAreTrue
  <2> QED BY <1>s, <2>3, <2>4
<1>h. ASSUME NEW g \in Conns, loop[g].pc = "holding", NEW i, i = loop[g].id, Yes(loop[g].answer)
      PROVE  Granted(i)'
  <2>1. i \in Ids
    BY <1>0, <1>h DEF Loops, LoopsEnd, Ids
  <2>2. Granted(i)
    BY <1>h DEF AnswersAreTrue
  <2> QED BY <1>s, <2>1, <2>2
<1>c. ASSUME NEW i \in Ids, Yes(chan[i]) PROVE Granted(i)'
  BY <1>c, <1>s DEF AnswersAreTrue
<1> DEFINE Back == \A g \in Conns : \A k \in 1 .. Len(back'[g]) : \A i, a :
                       back'[g][k].id = i /\ back'[g][k].answer = a /\ Yes(a) => Granted(i)'
           Held == \A g \in Conns : \A i, a :
                       loop'[g].pc = "holding" /\ loop'[g].id = i /\ loop'[g].answer = a /\ Yes(a) => Granted(i)'
           Told == \A i \in Ids : \A a : chan'[i] = a /\ Yes(a) => Granted(i)'
<1>q. ASSUME Back, Held, Told PROVE AnswersAreTrue'
  BY <1>q DEF AnswersAreTrue, Granted, Asks, Yes
<1>1. ASSUME \A g \in Conns : back'[g] = back[g] \/ back'[g] = <<>> PROVE Back
  <2>1. SUFFICES ASSUME NEW g \in Conns, NEW k \in 1 .. Len(back'[g]), NEW i, NEW a,
                        back'[g][k].id = i, back'[g][k].answer = a, Yes(a)
                 PROVE  Granted(i)'
    OBVIOUS
  <2>2. back'[g] = back[g]
    BY <1>1
  <2> QED BY <1>b, <2>1, <2>2
<1>2. ASSUME loop' = loop PROVE Held
  <2>1. SUFFICES ASSUME NEW g \in Conns, NEW i, NEW a,
                        loop'[g].pc = "holding", loop'[g].id = i, loop'[g].answer = a, Yes(a)
                 PROVE  Granted(i)'
    OBVIOUS
  <2> QED BY <1>2, <1>h, <2>1
<1>3. ASSUME NEW g \in Conns, NEW p \in {"reading", "done"}, NEW on, NEW id, NEW answer, Turns(g, p, on, id, answer) PROVE Held
  <2>1. SUFFICES ASSUME NEW h \in Conns, NEW i, NEW a,
                        loop'[h].pc = "holding", loop'[h].id = i, loop'[h].answer = a, Yes(a)
                 PROVE  Granted(i)'
    OBVIOUS
  <2>2. h # g /\ loop'[h] = loop[h]
    BY <1>0, <1>3, <2>1, TurnsMakes
  <2> QED BY <1>h, <2>1, <2>2
<1>4. ASSUME \A i \in Ids : chan'[i] = chan[i] \/ chan'[i] \in {"empty", "closed"} PROVE Told
  <2>1. SUFFICES ASSUME NEW i \in Ids, NEW a, chan'[i] = a, Yes(a) PROVE Granted(i)'
    OBVIOUS
  <2>2. chan'[i] = chan[i]
    BY <1>4, <2>1 DEF Yes
  <2> QED BY <1>c, <2>1, <2>2
<1> HIDE DEF Back, Held, Told
<1>5. CASE UNCHANGED <<back, loop, chan>>
  BY <1>1, <1>2, <1>4, <1>5, <1>q
<1>6. ASSUME NEW c \in Callers, Dialled, back' = back, chan' = chan PROVE AnswersAreTrue'
  <2>1. Turns(conn', "reading", conn', 0, "ok") /\ conn' \in Conns
    BY <1>6, DialledMakes
  <2> QED BY <1>1, <1>3, <1>4, <1>6, <1>q, <2>1
<1>7. ASSUME NEW c \in Callers, Connect(c) \/ Dial(c) PROVE AnswersAreTrue'
  BY <1>5, <1>6, <1>7 DEF Connect, Dial, requests
<1>8. ASSUME NEW c \in Callers, Send(c) \/ Lock(c) PROVE AnswersAreTrue'
  BY <1>5, <1>8 DEF Send, Lock, requests, relay
<1>9. ASSUME NEW c \in Callers, Teardown(c) PROVE AnswersAreTrue'
  <2>1. loop' = loop /\ chan' = chan /\ back' = [back EXCEPT ![conn] = <<>>]
    BY <1>9 DEF Teardown, Close, requests
  <2> QED BY <1>0, <1>1, <1>2, <1>4, <1>q, <2>1
<1>10. ASSUME NEW c \in Callers, FailPending(c) PROVE AnswersAreTrue'
  <2>1. loop' = loop /\ back' = back /\ chan' = [i \in Ids |-> IF i \in pending THEN "closed" ELSE chan[i]]
    BY <1>10 DEF FailPending, relay
  <2> QED BY <1>1, <1>2, <1>4, <1>q, <2>1
<1>11. ASSUME NEW c \in Callers, Register(c) PROVE AnswersAreTrue'
  <2>1. loop' = loop /\ back' = back /\ chan' = [chan EXCEPT ![seq + 1] = "empty"]
    BY <1>11 DEF Register, NextId, relay
  <2> QED BY <1>0, <1>1, <1>2, <1>4, <1>q, <2>1
<1>12. ASSUME NEW c \in Callers, NEW result, Finish(c, result), back' = back PROVE AnswersAreTrue'
  <2>1. loop' = loop /\ (chan' = chan \/ chan' = [chan EXCEPT ![call[c].id] = "empty"])
    BY <1>12, FinishMakes
  <2> QED BY <1>0, <1>1, <1>2, <1>4, <1>12, <1>q, <2>1
<1>13. ASSUME NEW c \in Callers, Write(c) \/ Answered(c) \/ Timeout(c) PROVE AnswersAreTrue'
  BY <1>5, <1>12, <1>13 DEF Write, Answered, Timeout, requests, relay
<1>14. ASSUME NEW g \in Conns, Read(g) PROVE AnswersAreTrue'
  <2>1. PICK on, m : on = loop[g].on /\ m = Head(back[on])
    OBVIOUS
  <2>2. chan' = chan /\ loop[g].on # 0
    BY <1>14 DEF Read, requests, LoopsEnd, Reads
  <2>3. /\ on \in Conns /\ back[on] # <<>> /\ back' = [back EXCEPT ![on] = Tail(@)]
        /\ IF m.id \in pending THEN Turns(g, "holding", on, m.id, m.answer)
           ELSE Turns(g, "reading", conn, loop[g].id, loop[g].answer)
    BY <1>14, <2>1, <2>2, ReadMakes
  <2>4. /\ back'[on] = Tail(back[on]) /\ \A h \in Conns : h # on => back'[h] = back[h]
        /\ back[on] \in Seq([id : 1 .. seq, answer : Answers])
    BY <1>0, <2>3
  <2>5. /\ 1 \in 1 .. Len(back[on]) /\ m = back[on][1]
        /\ \A k \in 1 .. Len(back'[on]) : k + 1 \in 1 .. Len(back[on]) /\ back'[on][k] = back[on][k + 1]
    <3>1. /\ 1 \in 1 .. Len(back[on]) /\ Head(back[on]) = back[on][1]
          /\ \A k \in 1 .. Len(Tail(back[on])) :
                k + 1 \in 1 .. Len(back[on]) /\ Tail(back[on])[k] = back[on][k + 1]
      BY <2>3, <2>4, TakeFirst
    <3> QED BY <2>1, <2>4, <3>1
  <2>6. Back
    <3>1. SUFFICES ASSUME NEW h \in Conns, NEW k \in 1 .. Len(back'[h]), NEW i, NEW a,
                          back'[h][k].id = i, back'[h][k].answer = a, Yes(a)
                   PROVE  Granted(i)'
      BY DEF Back
    <3>2. PICK j \in 1 .. Len(back[h]) : back'[h][k] = back[h][j]
      BY <2>4, <2>5
    <3> QED BY <1>b, <3>1, <3>2
  <2>7. CASE m.id \in pending
    <3>1. Held
      <4>1. SUFFICES ASSUME NEW h \in Conns, NEW i, NEW a,
                            loop'[h].pc = "holding", loop'[h].id = i, loop'[h].answer = a, Yes(a)
                     PROVE  Granted(i)'
        BY DEF Held
      <4>2. CASE h = g
        <5>1. i = m.id /\ a = m.answer
          BY <1>0, <2>3, <2>7, <4>1, <4>2, TurnsMakes
        <5> QED BY <1>b, <2>3, <2>5, <4>1, <5>1
      <4>3. CASE h # g
        <5>1. loop'[h] = loop[h]
          BY <1>0, <2>3, <2>7, <4>3, TurnsMakes
        <5> QED BY <1>h, <4>1, <5>1
      <4> QED BY <4>2, <4>3
    <3> QED BY <1>4, <1>q, <2>2, <2>6, <3>1
  <2>8. CASE m.id \notin pending
    BY <1>3, <1>4, <1>q, <2>2, <2>3, <2>6, <2>8
  <2> QED BY <2>7, <2>8
<1>15. ASSUME NEW g \in Conns, Deliver(g) PROVE AnswersAreTrue'
  <2>1. back' = back /\ loop[g].pc = "holding"
    BY <1>15 DEF Deliver, relay
  <2>2. /\ Turns(g, "reading", conn, 0, loop[g].answer)
        /\ chan' = chan \/ chan' = [chan EXCEPT ![loop[g].id] = loop[g].answer]
    BY <1>15, DeliverMakes
  <2>3. Told
    <3>1. SUFFICES ASSUME NEW i \in Ids, NEW a, chan'[i] = a, Yes(a) PROVE Granted(i)'
      BY DEF Told
    <3>2. CASE chan'[i] = chan[i]
      BY <1>c, <3>1, <3>2
    <3>3. CASE i = loop[g].id /\ chan'[i] = loop[g].answer
      BY <1>h, <2>1, <3>1, <3>3
    <3> QED BY <1>0, <2>2, <3>2, <3>3
  <2> QED BY <1>1, <1>3, <1>q, <2>1, <2>2, <2>3
<1>16. ASSUME NEW g \in Conns, ReadFails(g) PROVE AnswersAreTrue'
  <2>1. /\ Turns(g, "done", loop[g].on, loop[g].id, loop[g].answer)
        /\ back' = back \/ back' = [back EXCEPT ![loop[g].on] = <<>>]
        /\ chan' = chan
    BY <1>16, ReadFailsMakes DEF ReadFails, requests
  <2>2. \A h \in Conns : back'[h] = back[h] \/ back'[h] = <<>>
    BY <1>0, <2>1
  <2> QED BY <1>1, <1>3, <1>4, <1>q, <2>1, <2>2
<1>17. ASSUME NEW g \in Conns, Serve(g) PROVE AnswersAreTrue'
  <2>1. PICK i \in 1 .. seq, verdict \in Answers :
              /\ carried[i] = 0
              /\ carried' = IF Yes(verdict) THEN [carried EXCEPT ![i] = 1] ELSE carried
              /\ Yes(verdict) => \A c \in Callers : Asks(c, i) /\ call[c].job \in {"auth_response", "enroll"} =>
                                    session'[conn] = "signed_in"
              /\ back' = back \/ back' = [back EXCEPT ![g] = Append(@, [id |-> i, answer |-> verdict])]
              /\ UNCHANGED <<state, requests, call, loop, crashed, outcome, lapsed>>
    BY <1>17, ServeMakes
  <2>2. UNCHANGED <<conn, call, loop, chan>>
    BY <2>1 DEF state, requests
  <2>3. Yes(verdict) => Granted(i)'
    <3>1. SUFFICES ASSUME Yes(verdict) PROVE Granted(i)'
      OBVIOUS
    <3>2. carried'[i] = 1
      BY <1>0, <2>1, <3>1
    <3> QED BY <2>1, <2>2, <3>1, <3>2 DEF Granted, Asks
  <2>4. Back
    <3>1. CASE back' = back
      BY <1>1, <3>1
    <3>2. CASE back' = [back EXCEPT ![g] = Append(@, [id |-> i, answer |-> verdict])]
      <4>1. PICK e : e = [id |-> i, answer |-> verdict]
        OBVIOUS
      <4>2. /\ back'[g] = Append(back[g], e) /\ \A h \in Conns : h # g => back'[h] = back[h]
            /\ back[g] \in Seq([id : 1 .. seq, answer : Answers]) /\ e \in [id : 1 .. seq, answer : Answers]
        BY <1>0, <3>2, <4>1
      <4>3. \A k \in 1 .. Len(back'[g]) : back'[g][k] = IF k \in 1 .. Len(back[g]) THEN back[g][k] ELSE e
        BY <4>2, AddLast
      <4>4. SUFFICES ASSUME NEW h \in Conns, NEW k \in 1 .. Len(back'[h]), NEW j, NEW a,
                            back'[h][k].id = j, back'[h][k].answer = a, Yes(a)
                     PROVE  Granted(j)'
        BY DEF Back
      <4>5. CASE k \in 1 .. Len(back[h]) /\ back'[h][k] = back[h][k]
        BY <1>b, <4>4, <4>5
      <4>6. CASE back'[h][k] = e
        <5>1. j = i /\ a = verdict
          BY <4>1, <4>4, <4>6
        <5> QED BY <2>3, <4>4, <5>1
      <4> QED BY <4>2, <4>3, <4>5, <4>6
    <3> QED BY <2>1, <3>1, <3>2
  <2> QED BY <1>2, <1>4, <1>q, <2>2, <2>4
<1>18. CASE CoolDown \/ UNCHANGED vars \/ \E g \in Conns : Break(g)
  BY <1>5, <1>18 DEF CoolDown, vars, Break, requests, relay
<1> QED BY <1>7, <1>8, <1>9, <1>10, <1>11, <1>13, <1>14, <1>15, <1>16, <1>17, <1>18 DEF Next, Step, ReadLoop
-----------------------------------------------------------------------------
(* Signing in. *)

(* Each step leaves the client connected only to a relay that has signed it in. *)
LEMMA NextSignedIn ==
    ASSUME TypeOK, InFlight, Locked, IdsApart, OnWireOnce, AnswersAreTrue, ConnectedIsSignedIn, [Next]_vars
    PROVE  ConnectedIsSignedIn'
<1>0. /\ connected \in BOOLEAN /\ creds \in BOOLEAN /\ lock \in Callers \cup {Nobody} /\ Nobody \notin Callers
      /\ call \in [Callers -> Calls] /\ conn \in 0 .. MaxConns /\ MaxConns \in Nat
      /\ session \in [Conns -> {"anonymous", "challenged", "signed_in"}]
  BY Types
<1>1. ASSUME conn' = conn, session' = session, connected' => connected,
             creds' = creds, lock' = lock \/ ~connected' \/ lock' # Nobody
      PROVE  ConnectedIsSignedIn'
  BY <1>1 DEF ConnectedIsSignedIn
<1>2. ASSUME NEW c \in Callers, Connect(c) PROVE ConnectedIsSignedIn'
  BY <1>2 DEF Connect, Locked, ConnectedIsSignedIn
<1>3. ASSUME NEW c \in Callers, Send(c) \/ Lock(c) \/ Teardown(c) \/ FailPending(c) \/ Register(c)
      PROVE  ConnectedIsSignedIn'
  <2>1. UNCHANGED <<conn, session, connected, creds>> /\ (lock' = lock \/ lock' = c)
    BY <1>3 DEF Send, Lock, Teardown, FailPending, Register, state, relay
  <2> QED BY <1>0, <1>1, <2>1
<1>4. ASSUME NEW c \in Callers, Dial(c) PROVE ConnectedIsSignedIn'
  <2>1. lock = c /\ ~connected
    BY <1>4 DEF Dial, Locked, Reconnecting
  <2> QED BY <1>0, <1>4, <2>1 DEF Dial, ConnectedIsSignedIn
<1>5. ASSUME NEW c \in Callers, call[c].pc \in {"write", "await"}, NEW result, Finish(c, result), session' = session,
             Yes(result) => Granted(call[c].id)
      PROVE  ConnectedIsSignedIn'
  <2>1. conn' = conn /\ Ends(c, Yes(result))
    BY <1>5, FinishMakes
  <2>2. ASSUME Yes(result), call[c].job \in {"auth_response", "enroll"} PROVE session'[conn'] = "signed_in"
    <3>1. Asks(c, call[c].id)
      BY <1>5 DEF Asks
    <3> QED BY <1>5, <2>1, <2>2, <3>1 DEF Granted
  <2>3. CASE creds' = creds /\ connected' = connected /\ lock' = lock
    BY <1>5, <2>1, <2>3 DEF ConnectedIsSignedIn
  <2>4. CASE connected' = FALSE
    BY <2>4 DEF ConnectedIsSignedIn
  <2>5. CASE Yes(result) /\ call[c].job \in {"auth_response", "enroll"}
    BY <2>2, <2>5 DEF ConnectedIsSignedIn
  <2>6. CASE /\ call[c].job \in {"request", "enroll"} /\ creds' = (creds \/ (call[c].job = "enroll" /\ Yes(result)))
             /\ UNCHANGED <<connected, lock>>
    BY <1>0, <2>3, <2>5, <2>6
  <2> QED BY <2>1, <2>3, <2>4, <2>5, <2>6 DEF Ends
<1>6. ASSUME NEW c \in Callers, Answered(c) PROVE ConnectedIsSignedIn'
  <2>1. call[c].pc = "await" /\ Finish(c, chan[call[c].id]) /\ session' = session
    BY <1>6 DEF Answered, relay
  <2>2. call[c].id \in Ids
    BY <1>0, <2>1, Types DEF Calls, IdsApart, Ids
  <2>3. Yes(chan[call[c].id]) => Granted(call[c].id)
    BY <2>2 DEF AnswersAreTrue
  <2> QED BY <1>5, <2>1, <2>3
<1>7. ASSUME NEW c \in Callers, Timeout(c) PROVE ConnectedIsSignedIn'
  BY <1>5, <1>7 DEF Timeout, Yes, relay
<1>8. ASSUME NEW c \in Callers, Write(c) PROVE ConnectedIsSignedIn'
  <2>1. CASE Finish(c, "unsent")
    BY <1>5, <1>8, <2>1 DEF Write, Yes
  <2>2. CASE UNCHANGED state
    BY <1>1, <1>8, <2>2 DEF Write, state
  <2> QED BY <1>8, <2>1, <2>2 DEF Write
<1>9. ASSUME NEW g \in Conns, Serve(g) PROVE ConnectedIsSignedIn'
  <2>1. UNCHANGED <<conn, connected, creds, lock>>
        /\ \A h \in Conns : session[h] = "signed_in" => session'[h] = "signed_in"
    BY <1>9, ServeMakes DEF state
  <2>2. creds => conn \in Conns
    BY <1>0 DEF Locked, Conns
  <2> QED BY <2>1, <2>2 DEF ConnectedIsSignedIn
<1>10. CASE CoolDown \/ UNCHANGED vars \/ \E g \in Conns : Read(g) \/ Deliver(g) \/ ReadFails(g) \/ Break(g)
  <2>1. UNCHANGED <<conn, session, creds, lock>> /\ (connected' = connected \/ connected' = FALSE)
    BY <1>10 DEF CoolDown, vars, state, relay, Read, Deliver, ReadFails, Break
  <2> QED BY <1>1, <2>1
<1> QED BY <1>2, <1>3, <1>4, <1>6, <1>7, <1>8, <1>9, <1>10 DEF Next, Step, ReadLoop
-----------------------------------------------------------------------------
(* The inductive invariant. *)
LEMMA InitInv == Init => IInv
<1> SUFFICES ASSUME Init PROVE IInv
  OBVIOUS
<1>1. /\ conn = 0 /\ connected = FALSE /\ creds = FALSE /\ lock = Nobody /\ cool = TRUE /\ cancelled = {}
      /\ seq = 0 /\ pending = {} /\ chan = [i \in Ids |-> "empty"] /\ crashed = FALSE /\ lapsed = FALSE
      /\ call = [c \in Callers |-> [pc |-> "idle", job |-> "request", id |-> 0]]
      /\ loop = [g \in Conns |-> [pc |-> "off", on |-> 0, id |-> 0, answer |-> "ok"]]
      /\ link = [g \in Conns |-> "unused"] /\ wire = [g \in Conns |-> <<>>] /\ back = [g \in Conns |-> <<>>]
      /\ session = [g \in Conns |-> "anonymous"] /\ carried = [i \in Ids |-> 0] /\ outcome = [i \in Ids |-> "open"]
  BY DEF Init
<1>2. MaxRequests \in Nat /\ MaxConns \in Nat /\ Nobody \notin Callers
  BY NetworkAssumption
<1>3. TypeOK
  <2>1. call \in [Callers -> [pc : {"idle", "ensure", "teardown", "drain", "dial", "register", "write", "await"},
                              job : {"request", "enroll", "auth", "auth_response"}, id : 0 .. seq]]
    BY <1>1
  <2>2. loop \in [Conns -> [pc : {"off", "reading", "holding", "done"}, on : 0 .. conn,
                            id : 0 .. seq, answer : {"ok", "challenge", "refused"}]]
    BY <1>1
  <2>3. /\ conn \in 0 .. MaxConns /\ seq \in 0 .. MaxRequests /\ cancelled \subseteq Conns /\ pending \subseteq 1 .. seq
        /\ {connected, creds, cool, crashed, lapsed} \subseteq BOOLEAN /\ lock \in Callers \cup {Nobody}
    <3>1. {connected, creds, cool, crashed, lapsed} \subseteq BOOLEAN
      BY <1>1
    <3>2. conn \in 0 .. MaxConns /\ seq \in 0 .. MaxRequests
      BY <1>1, <1>2
    <3> QED BY <1>1, <3>1, <3>2
  <2>4. /\ chan \in [Ids -> {"empty", "closed", "ok", "challenge", "refused"}]
        /\ link \in [Conns -> {"unused", "up", "down", "closed"}]
        /\ session \in [Conns -> {"anonymous", "challenged", "signed_in"}]
        /\ carried \in [Ids -> Nat] /\ outcome \in [Ids -> {"open", "ok", "error"}]
    BY <1>1
  <2> QED BY <2>1, <2>2, <2>3, <2>4 DEF TypeOK
<1>4. InFlight
  <2>1. \A S : <<>> \in Seq(S)
    OBVIOUS
  <2>2. /\ wire \in [Conns -> Seq([id : 1 .. seq, job : Jobs])]
        /\ back \in [Conns -> Seq([id : 1 .. seq, answer : Answers])]
    BY <1>1, <2>1
  <2> QED BY <2>2 DEF InFlight
<1>5. Locked
  BY <1>1 DEF Locked, Reconnecting, SigningIn, Busy
<1>6. LoopsEnd /\ PanicNeedsLapse
  BY <1>1 DEF LoopsEnd, Reads, PanicNeedsLapse
<1>7. IdsApart
  BY <1>1 DEF IdsApart, Asks
<1>8. OnWireOnce /\ AnswersAreTrue
  <2>1. \A g \in Conns : wire[g] = <<>> /\ back[g] = <<>> /\ Len(<<>>) = 0
    BY <1>1
  <2>2. \A k \in 1 .. 0 : FALSE
    OBVIOUS
  <2>3. OnWireOnce
    BY <2>1, <2>2 DEF OnWireOnce
  <2>4. AnswersAreTrue
    BY <1>1, <2>1, <2>2 DEF AnswersAreTrue, Yes
  <2> QED BY <2>3, <2>4
<1>9. ConnectedIsSignedIn
  BY <1>1 DEF ConnectedIsSignedIn
<1> QED BY <1>3, <1>4, <1>5, <1>6, <1>7, <1>8, <1>9 DEF IInv

LEMMA NextInv == IInv /\ [Next]_vars => IInv'
<1> SUFFICES ASSUME IInv, [Next]_vars PROVE IInv'
  OBVIOUS
<1>1. /\ TypeOK /\ InFlight /\ Locked /\ LoopsEnd /\ PanicNeedsLapse
      /\ IdsApart /\ OnWireOnce /\ AnswersAreTrue /\ ConnectedIsSignedIn
  BY DEF IInv
<1>2. TypeOK' /\ InFlight'
  BY <1>1, NextTypes
<1>3. Locked'
  BY <1>1, NextLocked
<1>4. LoopsEnd' /\ PanicNeedsLapse'
  BY <1>1, NextLoops
<1>5. IdsApart' /\ OnWireOnce'
  BY <1>1, NextIds
<1>6. AnswersAreTrue'
  BY <1>1, NextAnswers
<1>7. ConnectedIsSignedIn'
  BY <1>1, NextSignedIn
<1> QED BY <1>2, <1>3, <1>4, <1>5, <1>6, <1>7 DEF IInv

LEMMA Invariance == Spec => []IInv
BY InitInv, NextInv, PTL DEF Spec

(* Every variable of the network layer holds a value of its type. *)
THEOREM TypesHold == Spec => []TypeOK
<1>1. IInv => TypeOK
  BY DEF IInv
<1> QED BY <1>1, Invariance, PTL

(* However connections break and answers are late, a client that takes itself  *)
(* for connected and has credentials has signed in on its connection, unless a *)
(* reconnection is under way (ensureConnected).                                *)
THEOREM ConnectedMeansSignedIn == Spec => []ConnectedIsSignedIn
<1>1. IInv => ConnectedIsSignedIn
  BY DEF IInv
<1> QED BY <1>1, Invariance, PTL

(* Whatever the schedule, readLoop sends on a closed channel only after a      *)
(* sign-in has failed and left its connection and read loop behind.            *)
THEOREM NoPanicWithoutLapse == Spec => []PanicNeedsLapse
<1>1. IInv => PanicNeedsLapse
  BY DEF IInv
<1> QED BY <1>1, Invariance, PTL
-----------------------------------------------------------------------------
(* The promise to the screens. *)

(* Each step asks, carries out, ends one request well or badly, or does nothing *)
(* the promise speaks of.                                                        *)
LEMMA NextExchanges ==
    ASSUME IInv, [Next]_vars
    PROVE  [Promise!Next]_(Promise!vars)
<1>0. /\ TypeOK /\ InFlight /\ Locked /\ IdsApart /\ OnWireOnce /\ AnswersAreTrue
      /\ call \in [Callers -> Calls] /\ seq \in 0 .. MaxRequests /\ 1 .. seq \subseteq Ids /\ MaxRequests \in Nat
  BY Types DEF IInv
<1>1. ASSUME UNCHANGED <<seq, carried, outcome>> PROVE UNCHANGED Promise!vars
  BY <1>1 DEF Promise!vars
<1>2. ASSUME NEW c \in Callers, Register(c) PROVE Promise!Next
  <2>1. seq' = seq + 1 /\ UNCHANGED <<carried, outcome>> /\ seq + 1 \in Ids
    BY <1>0, <1>2 DEF Register, relay, Ids
  <2>2. seq + 1 \notin 1 .. seq /\ 1 .. seq' = (1 .. seq) \cup {seq + 1}
    BY <1>0, <2>1
  <2>3. Promise!Ask(seq + 1)
    BY <2>1, <2>2 DEF Promise!Ask
  <2> QED BY <2>1, <2>3 DEF Promise!Next
<1>3. ASSUME NEW c \in Callers, call[c].pc \in {"write", "await"}, NEW result, Finish(c, result), carried' = carried,
             Yes(result) => carried[call[c].id] = 1
      PROVE  Promise!Next
  <2>1. PICK i : i = call[c].id
    OBVIOUS
  <2>2. i \in 1 .. seq /\ i \in Ids
    BY <1>0, <1>3, <2>1 DEF Calls, IdsApart
  <2>3. seq' = seq /\ outcome' = [outcome EXCEPT ![i] = IF Yes(result) THEN "ok" ELSE "error"]
    BY <1>0, <1>3, <2>1, FinishMakes
  <2>4. outcome[i] = "open"
    BY <1>0, <1>3, <2>1, <2>2 DEF IdsApart, Asks
  <2>5. Promise!Succeed(i) \/ Promise!Fail(i)
    BY <1>3, <2>1, <2>2, <2>3, <2>4 DEF Promise!Succeed, Promise!Fail
  <2> QED BY <2>2, <2>5 DEF Promise!Next
<1>4. ASSUME NEW c \in Callers, Answered(c) PROVE Promise!Next
  <2>1. call[c].pc = "await" /\ Finish(c, chan[call[c].id]) /\ carried' = carried
    BY <1>4 DEF Answered, relay
  <2>2. call[c].id \in Ids
    BY <1>0, <2>1 DEF Calls, IdsApart, Ids
  <2>3. Yes(chan[call[c].id]) => carried[call[c].id] = 1
    BY <1>0, <2>2 DEF AnswersAreTrue, Granted
  <2> QED BY <1>3, <2>1, <2>3
<1>5. ASSUME NEW c \in Callers, Timeout(c) PROVE Promise!Next
  BY <1>3, <1>5 DEF Timeout, Yes, relay
<1>6. ASSUME NEW c \in Callers, Write(c) PROVE Promise!Next \/ UNCHANGED Promise!vars
  <2>1. CASE Finish(c, "unsent")
    BY <1>3, <1>6, <2>1 DEF Write, Yes
  <2>2. CASE UNCHANGED <<requests, outcome>>
    BY <1>1, <1>6, <2>2 DEF Write, requests
  <2> QED BY <1>6, <2>1, <2>2 DEF Write
<1>7. ASSUME NEW g \in Conns, Serve(g) PROVE Promise!Next \/ UNCHANGED Promise!vars
  <2>1. PICK i \in 1 .. seq, verdict \in Answers :
           /\ carried[i] = 0
           /\ carried' = IF Yes(verdict) THEN [carried EXCEPT ![i] = 1] ELSE carried
           /\ UNCHANGED <<requests, outcome>>
    BY <1>0, <1>7, ServeMakes
  <2>2. i \in Ids /\ UNCHANGED <<seq, outcome>>
    BY <1>0, <2>1 DEF requests
  <2>3. CASE Yes(verdict)
    <3>1. Promise!CarryOut(i)
      BY <2>1, <2>2, <2>3 DEF Promise!CarryOut
    <3> QED BY <2>2, <3>1 DEF Promise!Next
  <2>4. CASE ~Yes(verdict)
    BY <1>1, <2>1, <2>2, <2>4
  <2> QED BY <2>3, <2>4
<1>8. CASE \/ \E c \in Callers : Connect(c) \/ Send(c) \/ Lock(c) \/ Teardown(c) \/ FailPending(c) \/ Dial(c)
           \/ \E g \in Conns : ReadLoop(g) \/ Break(g)
           \/ CoolDown \/ UNCHANGED vars
  <2>1. UNCHANGED <<seq, carried, outcome>>
    BY <1>8 DEF Connect, Send, Lock, Teardown, FailPending, Dial, ReadLoop, Read, Deliver, ReadFails, Break,
                CoolDown, vars, requests, relay
  <2> QED BY <1>1, <2>1
<1> QED BY <1>2, <1>4, <1>5, <1>6, <1>7, <1>8 DEF Next, Step

(* The network layer keeps what Exchange promises: a request is carried out at  *)
(* most once and ends once, and it ends well only if the relay carried it out.  *)
THEOREM ImplementsExchange == Spec => RequestsAreExchanged
<1>1. Init => Promise!Init
  <2>1. SUFFICES ASSUME Init PROVE Promise!Init
    OBVIOUS
  <2>2. seq = 0 /\ carried = [i \in Ids |-> 0] /\ outcome = [i \in Ids |-> "open"]
    BY <2>1 DEF Init
  <2>3. 1 .. 0 = {}
    OBVIOUS
  <2> QED BY <2>2, <2>3 DEF Promise!Init
<1>2. IInv /\ [Next]_vars => [Promise!Next]_(Promise!vars)
  BY NextExchanges
<1> QED BY <1>1, <1>2, Invariance, PTL DEF Spec, RequestsAreExchanged, Promise!Spec
=============================================================================
