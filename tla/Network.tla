-------------------------------- MODULE Network --------------------------------
(***************************************************************************)
(* The client's network layer (client/network.go).  Screens issue requests *)
(* from goroutines of their own (Callers) over one WebSocket.  Each dialled*)
(* connection starts a read loop; a request that finds the client          *)
(* disconnected reconnects and signs in again under reconnMu.  The read    *)
(* loop of a connection reads n.conn afresh in every iteration, whichever  *)
(* connection that is by then.                                             *)
(***************************************************************************)
EXTENDS Naturals, Sequences, FiniteSets, Functions

CONSTANTS
    Callers,        \* goroutines that issue requests
    Nobody,         \* reconnMu is free
    MaxRequests,    \* bound: request identifiers
    MaxConns        \* bound: connections dialled

ASSUME NetworkAssumption ==
    /\ MaxRequests \in Nat /\ MaxConns \in Nat
    /\ Nobody \notin Callers

Ids == 1 .. MaxRequests
Conns == 1 .. MaxConns

VARIABLES
    conn,       \* n.conn: the connection in use, 0 for none
    connected,  \* n.connected
    creds,      \* n.authCreds is set
    lock,       \* who holds reconnMu
    cool,       \* the last reconnection is more than 5 s ago
    seq,        \* n.reqSeq
    pending,    \* the keys of n.pending
    chan,       \* by identifier: the caller's channel, or what is in it
    call,       \* by caller: where it is
    loop,       \* by connection: its read loop
    cancelled,  \* connections whose context was cancelled
    crashed,    \* the program has panicked
    link,       \* by connection: the socket
    wire,       \* by connection: requests on their way to the relay
    back,       \* by connection: responses on their way to the client
    session,    \* by connection: how far the relay has authenticated it
    carried,    \* by identifier: how often the relay carried it out
    outcome,    \* by identifier: what the caller was told
    lapsed      \* a sign-in after a reconnection has failed

state == <<conn, connected, creds, lock, cool, cancelled>>
requests == <<seq, pending, chan>>
relay == <<link, wire, back, session, carried>>
vars == <<state, requests, call, loop, crashed, relay, outcome, lapsed>>

(* No goroutine moves after a panic. *)
Alive == ~crashed

Init ==
    /\ conn = 0 /\ connected = FALSE /\ creds = FALSE /\ lock = Nobody /\ cool = TRUE
    /\ cancelled = {}
    /\ seq = 0 /\ pending = {} /\ chan = [i \in Ids |-> "empty"]
    /\ call = [c \in Callers |-> [pc |-> "idle", job |-> "request", id |-> 0]]
    /\ loop = [g \in Conns |-> [pc |-> "off", on |-> 0, id |-> 0, answer |-> "ok"]]
    /\ crashed = FALSE
    /\ link = [g \in Conns |-> "unused"]
    /\ wire = [g \in Conns |-> <<>>] /\ back = [g \in Conns |-> <<>>]
    /\ session = [g \in Conns |-> "anonymous"]
    /\ carried = [i \in Ids |-> 0]
    /\ outcome = [i \in Ids |-> "open"]
    /\ lapsed = FALSE
-----------------------------------------------------------------------------
Goto(c, pc) == call' = [call EXCEPT ![c].pc = pc]
Do(c, job) == call' = [call EXCEPT ![c] = [pc |-> "register", job |-> job, id |-> @.id]]
Return(c) == call' = [call EXCEPT ![c] = [pc |-> "idle", job |-> "request", id |-> 0]]

(* dial: a new connection and its read loop, which begins by reading n.conn. *)
Dialled ==
    /\ conn < MaxConns
    /\ conn' = conn + 1
    /\ connected' = TRUE
    /\ link' = [link EXCEPT ![conn + 1] = "up"]
    /\ loop' = [loop EXCEPT ![conn + 1] = [pc |-> "reading", on |-> conn + 1, id |-> 0, answer |-> "ok"]]

(* Connect, as main does before there are screens, and Authenticate if there is  *)
(* an account; otherwise the registration screen follows.                        *)
Connect(c) ==
    /\ Alive /\ conn = 0
    /\ Dialled
    /\ Do(c, "auth") \/ UNCHANGED call
    /\ UNCHANGED <<creds, lock, cool, cancelled, requests, crashed>>
    /\ UNCHANGED <<wire, back, session, carried, outcome, lapsed>>

(* The bound on identifiers leaves enough of them for every call under way and   *)
(* for signing in on every connection yet to be dialled.                         *)
Needs(c) ==
    LET rounds == CASE call[c].job = "auth" -> 2 [] call[c].job = "auth_response" -> 1 [] OTHER -> 0 IN
    CASE call[c].pc = "idle" -> 0
      [] call[c].pc \in {"write", "await"} -> rounds
      [] OTHER -> rounds + 1
Affordable ==
    seq + SumFunction([c \in Callers |-> Needs(c)]) + 2 * (MaxConns - conn) < MaxRequests

(* Send: without a connection the call goes on in ensureConnected, which needs   *)
(* credentials.  Before there are any, screens register or recover an account.   *)
Send(c) ==
    /\ Alive /\ call[c].pc = "idle" /\ Affordable
    /\ \/ creds /\ Goto(c, IF connected THEN "register" ELSE "ensure")
       \/ /\ ~creds /\ connected /\ \A d \in Callers : call[d].pc = "idle"
          /\ Do(c, "enroll")
    /\ UNCHANGED <<state, requests, loop, crashed, relay, outcome, lapsed>>

(* Mutant: the lock is kept when the backoff refuses. *)
LockAndStay(c) ==
    /\ Alive /\ call[c].pc = "ensure" /\ lock = Nobody
    /\ IF connected THEN Goto(c, "register") ELSE IF cool THEN Goto(c, "teardown") ELSE Return(c)
    /\ lock' = IF connected THEN lock ELSE c
    /\ cool' = (connected /\ cool)
    /\ UNCHANGED <<conn, connected, creds, cancelled, requests, loop, crashed, relay, outcome, lapsed>>
(* Mutant: nobody looks again once the lock is there. *)
LockBlindly(c) ==
    /\ Alive /\ call[c].pc = "ensure" /\ lock = Nobody
    /\ IF cool THEN lock' = c /\ Goto(c, "teardown") ELSE Return(c) /\ UNCHANGED lock
    /\ cool' = FALSE
    /\ UNCHANGED <<conn, connected, creds, cancelled, requests, loop, crashed, relay, outcome, lapsed>>

(* ensureConnected, once it has reconnMu: somebody else may have reconnected, *)
(* or tried to less than 5 s ago.                                             *)
Lock(c) ==
    /\ Alive /\ call[c].pc = "ensure" /\ lock = Nobody
    /\ \/ /\ connected
          /\ Goto(c, "register")
          /\ UNCHANGED <<lock, cool>>
       \/ /\ ~connected /\ ~cool
          /\ Return(c)
          /\ UNCHANGED <<lock, cool>>
       \/ /\ ~connected /\ cool
          /\ lock' = c /\ cool' = FALSE
          /\ Goto(c, "teardown")
    /\ UNCHANGED <<conn, connected, creds, cancelled, requests, loop, crashed, relay, outcome, lapsed>>

(* What the client had not read of a connection it closes is gone. *)
Close(g) == /\ link' = [link EXCEPT ![g] = "closed"]
            /\ back' = [back EXCEPT ![g] = <<>>]

(* connCancel and CloseNow. *)
Teardown(c) ==
    /\ Alive /\ call[c].pc = "teardown"
    /\ cancelled' = cancelled \cup {conn}
    /\ Close(conn)
    /\ Goto(c, "drain")
    /\ UNCHANGED <<conn, connected, creds, lock, cool, requests, loop, crashed>>
    /\ UNCHANGED <<wire, session, carried, outcome, lapsed>>

(* Every channel in pending is closed and forgotten. *)
FailPending(c) ==
    /\ Alive /\ call[c].pc = "drain"
    /\ chan' = [i \in Ids |-> IF i \in pending THEN "closed" ELSE chan[i]]
    /\ pending' = {}
    /\ Goto(c, "dial")
    /\ UNCHANGED <<state, seq, loop, crashed, relay, outcome, lapsed>>

Dial(c) ==
    /\ Alive /\ call[c].pc = "dial"
    /\ \/ /\ Dialled
          /\ Do(c, "auth")
          /\ UNCHANGED lock
       \/ /\ lock' = Nobody
          /\ Return(c)
          /\ UNCHANGED <<conn, connected, link, loop>>
    /\ UNCHANGED <<creds, cool, cancelled, requests, crashed>>
    /\ UNCHANGED <<wire, back, session, carried, outcome, lapsed>>

(* Five seconds without a reconnection. *)
CoolDown ==
    /\ Alive /\ ~cool
    /\ cool' = TRUE
    /\ UNCHANGED <<conn, connected, creds, lock, cancelled>>
    /\ UNCHANGED <<requests, call, loop, crashed, relay, outcome, lapsed>>
-----------------------------------------------------------------------------
(* Mutants: the identifier is read before it is counted up; identifiers start   *)
(* again when nothing is pending.                                                *)
IdBefore == seq
IdInUse == Cardinality(pending) + 1
NextId == seq + 1

(* sendDirect: a fresh identifier and a channel in pending. *)
Register(c) ==
    /\ Alive /\ call[c].pc = "register" /\ seq < MaxRequests
    /\ seq' = seq + 1
    /\ pending' = pending \cup {NextId}
    /\ chan' = [chan EXCEPT ![NextId] = "empty"]
    /\ call' = [call EXCEPT ![c] = [pc |-> "write", job |-> @.job, id |-> NextId]]
    /\ UNCHANGED <<state, loop, crashed, relay, outcome, lapsed>>

(* Mutant: connected stays set. *)
SignInForgotten(c) ==
    /\ lock' = IF lock = c THEN Nobody ELSE lock
    /\ lapsed' = (lapsed \/ lock = c)
    /\ Return(c)
    /\ UNCHANGED <<creds, connected>>

(* authenticate failed: under reconnMu the client is disconnected again, but   *)
(* the connection and its read loop stay.                                      *)
SignInFailed(c) ==
    /\ connected' = IF lock = c THEN FALSE ELSE connected
    /\ lock' = IF lock = c THEN Nobody ELSE lock
    /\ lapsed' = (lapsed \/ lock = c)
    /\ Return(c)
    /\ UNCHANGED creds

SignedIn(c) ==
    /\ lock' = IF lock = c THEN Nobody ELSE lock
    /\ creds' = TRUE
    /\ IF lock = c THEN Do(c, "request") ELSE Return(c)
    /\ UNCHANGED <<connected, lapsed>>

(* sendDirect returns `result`: pending forgets the request, and the caller     *)
(* goes on with the next round of authenticate, with its request, or is done.   *)
Finish(c, result) ==
    LET i == call[c].id
        job == call[c].job
        ok == result \in {"ok", "challenge"} IN
    /\ pending' = pending \ {i}
    /\ outcome' = [outcome EXCEPT ![i] = IF ok THEN "ok" ELSE "error"]
    /\ \/ /\ job \in {"request", "enroll"}
          /\ creds' = (creds \/ (job = "enroll" /\ ok))
          /\ Return(c)
          /\ UNCHANGED <<connected, lock, lapsed>>
       \/ /\ job = "auth" /\ ok
          /\ Do(c, "auth_response")
          /\ UNCHANGED <<connected, creds, lock, lapsed>>
       \/ job = "auth_response" /\ ok /\ SignedIn(c)
       \/ job \in {"auth", "auth_response"} /\ ~ok /\ SignInFailed(c)
    /\ chan' = IF chan[i] = "closed" THEN chan ELSE [chan EXCEPT ![i] = "empty"]
    /\ UNCHANGED <<conn, cool, cancelled, seq, loop, crashed>>

(* The request goes out on whatever n.conn is now; a write to a dead socket     *)
(* fails, or succeeds and is lost.                                              *)
Write(c) ==
    /\ Alive /\ call[c].pc = "write"
    /\ \/ /\ link[conn] = "up"
          /\ wire' = [wire EXCEPT ![conn] = Append(@, [id |-> call[c].id, job |-> call[c].job])]
          /\ Goto(c, "await")
          /\ UNCHANGED <<state, requests, loop, crashed, outcome, lapsed>>
       \/ /\ link[conn] = "down"
          /\ Goto(c, "await")
          /\ UNCHANGED <<state, requests, loop, crashed, outcome, lapsed, wire>>
       \/ /\ link[conn] # "up"
          /\ Finish(c, "unsent")
          /\ UNCHANGED wire
    /\ UNCHANGED <<link, back, session, carried>>

Answered(c) ==
    /\ Alive /\ call[c].pc = "await"
    /\ chan[call[c].id] # "empty"
    /\ Finish(c, chan[call[c].id])
    /\ UNCHANGED relay

(* Thirty seconds without an answer. *)
Timeout(c) ==
    /\ Alive /\ call[c].pc = "await"
    /\ chan[call[c].id] = "empty"
    /\ Finish(c, "timeout")
    /\ UNCHANGED relay
-----------------------------------------------------------------------------
(* readLoop takes a message.  One that answers a pending request is about to be *)
(* sent to that request's channel; any other is a push, and there is no onPush. *)
Read(g) ==
    LET on == loop[g].on IN
    /\ Alive /\ loop[g].pc = "reading"
    /\ link[on] \in {"up", "down"} /\ back[on] # <<>>
    /\ back' = [back EXCEPT ![on] = Tail(@)]
    /\ LET m == Head(back[on]) IN
         loop' = [loop EXCEPT ![g] =
                    IF m.id \in pending
                      THEN [pc |-> "holding", on |-> on, id |-> m.id, answer |-> m.answer]
                      ELSE [@ EXCEPT !.on = conn]]
    /\ UNCHANGED <<state, requests, call, crashed, link, wire, session, carried, outcome, lapsed>>

(* ch <- env, on the channel looked up before: a closed channel panics, and one   *)
(* whose caller has gone keeps the message for nobody.                           *)
Deliver(g) ==
    /\ Alive /\ loop[g].pc = "holding"
    /\ LET i == loop[g].id IN
         \/ /\ chan[i] # "closed"
            /\ chan' = IF \E c \in Callers : call[c].id = i
                         THEN [chan EXCEPT ![i] = loop[g].answer] ELSE chan
            /\ UNCHANGED crashed
         \/ /\ chan[i] = "closed"
            /\ crashed' = TRUE
            /\ UNCHANGED chan
    /\ loop' = [loop EXCEPT ![g] = [pc |-> "reading", on |-> conn, id |-> 0, answer |-> @.answer]]
    /\ UNCHANGED <<state, seq, pending, call, relay, outcome, lapsed>>

(* A read fails when the socket is gone, or when the loop's context was          *)
(* cancelled; a read under a cancelled context closes the socket it reads.       *)
ReadFails(g) ==
    LET on == loop[g].on IN
    /\ Alive /\ loop[g].pc = "reading"
    /\ link[on] \in {"down", "closed"} \/ g \in cancelled
    /\ connected' = FALSE
    /\ IF g \in cancelled THEN Close(on) ELSE UNCHANGED <<link, back>>
    /\ loop' = [loop EXCEPT ![g].pc = "done"]
    /\ UNCHANGED <<conn, creds, lock, cool, cancelled, requests, call, crashed>>
    /\ UNCHANGED <<wire, session, carried, outcome, lapsed>>
-----------------------------------------------------------------------------
(* The relay answers the requests of a connection one after the other; it may   *)
(* refuse any of them, and refuses strangers all but sign-ins and accounts.     *)
Verdicts(g, m) ==
    CASE m.job = "auth" -> {"challenge", "refused"}
      [] m.job = "auth_response" /\ session[g] = "challenged" -> {"ok", "refused"}
      [] m.job = "enroll" -> {"ok", "refused"}
      [] m.job = "request" /\ session[g] = "signed_in" -> {"ok", "refused"}
      [] OTHER -> {"refused"}

Served(g, m, verdict) ==
    IF verdict = "challenge" /\ session[g] = "anonymous" THEN "challenged"
    ELSE IF m.job \in {"auth_response", "enroll"} /\ verdict = "ok" THEN "signed_in"
    ELSE session[g]

(* What the relay has read it carries out even if the client is gone by then. *)
Serve(g) ==
    /\ wire[g] # <<>>
    /\ wire' = [wire EXCEPT ![g] = Tail(@)]
    /\ LET m == Head(wire[g]) IN
         \E verdict \in Verdicts(g, m) :
            /\ session' = [session EXCEPT ![g] = Served(g, m, verdict)]
            /\ carried' = IF verdict # "refused"
                            THEN [carried EXCEPT ![m.id] = @ + 1] ELSE carried
            /\ back' = IF link[g] = "up"
                         THEN [back EXCEPT ![g] = Append(@, [id |-> m.id, answer |-> verdict])]
                         ELSE back
    /\ UNCHANGED <<state, requests, call, loop, crashed, link, outcome, lapsed>>

(* The connection breaks; what was under way need not reach the relay any more.  *)
Break(g) ==
    /\ link[g] = "up"
    /\ link' = [link EXCEPT ![g] = "down"]
    /\ UNCHANGED <<state, requests, call, loop, crashed>>
    /\ UNCHANGED <<wire, back, session, carried, outcome, lapsed>>
-----------------------------------------------------------------------------
Step(c) ==
    \/ Lock(c) \/ Teardown(c) \/ FailPending(c) \/ Dial(c)
    \/ Register(c) \/ Write(c) \/ Answered(c) \/ Timeout(c)

ReadLoop(g) == Read(g) \/ Deliver(g) \/ ReadFails(g)

Next ==
    \/ \E c \in Callers : Connect(c) \/ Send(c) \/ Step(c)
    \/ \E g \in Conns : ReadLoop(g) \/ Serve(g) \/ Break(g)
    \/ CoolDown

Spec == Init /\ [][Next]_vars

(* Goroutines run, and reconnMu is not passed over for ever. *)
FairSpec == Spec /\ \A c \in Callers : WF_vars(Step(c)) /\ SF_vars(Lock(c))
-----------------------------------------------------------------------------
(* Every variable holds a value of its type. *)
TypeOK ==
    /\ conn \in 0 .. MaxConns
    /\ {connected, creds, cool, crashed, lapsed} \subseteq BOOLEAN
    /\ lock \in Callers \cup {Nobody}
    /\ cancelled \subseteq Conns
    /\ seq \in 0 .. MaxRequests
    /\ pending \subseteq 1 .. seq
    /\ chan \in [Ids -> {"empty", "closed", "ok", "challenge", "refused"}]
    /\ call \in [Callers -> [pc : {"idle", "ensure", "teardown", "drain", "dial",
                                   "register", "write", "await"},
                             job : {"request", "enroll", "auth", "auth_response"}, id : 0 .. seq]]
    /\ loop \in [Conns -> [pc : {"off", "reading", "holding", "done"}, on : 0 .. conn,
                           id : 0 .. seq, answer : {"ok", "challenge", "refused"}]]
    /\ link \in [Conns -> {"unused", "up", "down", "closed"}]
    /\ session \in [Conns -> {"anonymous", "challenged", "signed_in"}]
    /\ carried \in [Ids -> Nat]
    /\ outcome \in [Ids -> {"open", "ok", "error"}]

(* Once signed in, and while nobody is reconnecting, a connection the client    *)
(* takes for connected is one the relay has authenticated: requests go out      *)
(* unauthenticated only while a sign-in is under way (ensureConnected).         *)
ConnectedIsSignedIn ==
    creds /\ connected /\ lock = Nobody => session[conn] = "signed_in"

(* The read loop panics on a closed channel only after a sign-in has failed on  *)
(* a connection that was left open with its read loop: otherwise each read loop *)
(* has ended before the channels of its requests are closed.                    *)
PanicNeedsLapse == crashed => lapsed

(* The requests as the screens see them. *)
Promise == INSTANCE Exchange WITH
    Requests <- Ids,
    asked <- 1 .. seq,
    carried <- carried,
    outcome <- outcome

(* A request is carried out at most once, whatever reconnections and late       *)
(* answers there are, and a caller is never told of success by another's answer.*)
RequestsAreExchanged == Promise!Spec

(* Every call returns: no answer, lost connection or lock keeps it for ever. *)
EveryCallReturns == \A c \in Callers : call[c].pc # "idle" ~> (call[c].pc = "idle" \/ crashed)
=============================================================================
