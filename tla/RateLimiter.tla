----------------------------- MODULE RateLimiter -----------------------------
(***************************************************************************)
(* The relay's per-IP limits (internal/server/ratelimit.go): connections   *)
(* open at a time, and registrations in a window that starts anew with the *)
(* first registration after it has run out.  Counters nobody used for a    *)
(* window and no connection holds are evicted.  Every operation runs under *)
(* one mutex and is one step.                                              *)
(***************************************************************************)
EXTENDS Integers, FiniteSets

CONSTANTS
    Ips,
    Sockets,        \* connections to the relay
    IpOf,           \* where each comes from
    Registrations,  \* identifiers of granted registrations
    MaxConns,       \* maxConnsPerIP
    MaxRegs,        \* maxRegsPerIP
    Window,         \* regWindowDuration
    MaxTime,        \* bound on the clock
    Absent          \* no entry in the map of counters

Counter == [conns : Nat, regs : Nat, regWindow : Nat, lastActive : Nat]

ASSUME LimiterAssumption ==
    /\ IsFiniteSet(Sockets) /\ IsFiniteSet(Registrations)
    /\ IpOf \in [Sockets -> Ips]
    /\ MaxConns \in Nat \ {0} /\ MaxRegs \in Nat \ {0}
    /\ Window \in Nat \ {0} /\ MaxTime \in Nat
    /\ Absent \notin Counter \cup Ips

VARIABLES
    now,
    counters,  \* IPRateLimiter.counters
    open,      \* connections whose handler has been let in and has not returned
    grant      \* history: who was granted each registration, and when

limits == <<now, counters, open, grant>>

NoGrant == [ip |-> Absent, at |-> 0]

LimitsInit ==
    /\ now = 0
    /\ counters = [ip \in Ips |-> Absent]
    /\ open = {}
    /\ grant = [r \in Registrations |-> NoGrant]
-----------------------------------------------------------------------------
Tick ==
    /\ now < MaxTime
    /\ now' = now + 1
    /\ UNCHANGED <<counters, open, grant>>

(* get: the entry, made anew if need be, is in use from now on. *)
Entry(ip) ==
    IF counters[ip] = Absent
      THEN [conns |-> 0, regs |-> 0, regWindow |-> now, lastActive |-> now]
      ELSE [counters[ip] EXCEPT !.lastActive = now]

AllowConn(c) ==
    LET e == Entry(IpOf[c]) IN
    /\ c \notin open
    /\ IF e.conns >= MaxConns
         THEN /\ counters' = [counters EXCEPT ![IpOf[c]] = e]
              /\ UNCHANGED open
         ELSE /\ counters' = [counters EXCEPT ![IpOf[c]] = [e EXCEPT !.conns = @ + 1]]
              /\ open' = open \cup {c}
    /\ UNCHANGED <<now, grant>>

(* Deferred by handleWebSocket, so it runs however the handler ends. *)
ReleaseConn(c) ==
    /\ c \in open
    /\ open' = open \ {c}
    /\ counters' = IF counters[IpOf[c]] = Absent THEN counters
                   ELSE [counters EXCEPT ![IpOf[c]].conns = @ - 1]
    /\ UNCHANGED <<now, grant>>

(* The window is reset once it has expired. *)
Current(e) ==
    IF now - e.regWindow > Window THEN [e EXCEPT !.regs = 0, !.regWindow = now] ELSE e

(* handleRegister asks; a registration that fails later has been counted too. *)
AllowRegistration(c) ==
    LET ip == IpOf[c]  e == Current(Entry(ip)) IN
    /\ c \in open
    /\ IF e.regs >= MaxRegs
         THEN /\ counters' = [counters EXCEPT ![ip] = e]
              /\ UNCHANGED grant
         ELSE /\ counters' = [counters EXCEPT ![ip] = [e EXCEPT !.regs = @ + 1]]
              /\ \E r \in Registrations :
                    /\ grant[r] = NoGrant
                    /\ grant' = [grant EXCEPT ![r] = [ip |-> ip, at |-> now]]
    /\ UNCHANGED <<now, open>>

(* Mutant: open connections do not keep the entry. *)
LongUnused(ip) ==
    counters[ip] # Absent /\ counters[ip].lastActive + Window < now

(* Mutant: an entry goes as soon as no connection holds it. *)
Unheld(ip) ==
    counters[ip] # Absent /\ counters[ip].conns <= 0

Stale(ip) ==
    counters[ip] # Absent /\ counters[ip].conns <= 0
        /\ counters[ip].lastActive + Window < now

Cleanup ==
    /\ counters' = [ip \in Ips |-> IF Stale(ip) THEN Absent ELSE counters[ip]]
    /\ UNCHANGED <<now, open, grant>>

LimitsNext ==
    \/ Tick
    \/ \E c \in Sockets : AllowConn(c) \/ ReleaseConn(c) \/ AllowRegistration(c)
    \/ Cleanup

LimitsSpec == LimitsInit /\ [][LimitsNext]_limits
-----------------------------------------------------------------------------
(* Every variable holds a value of its type; no counter falls below zero. *)
LimitsTypeOK ==
    /\ now \in Nat
    /\ counters \in [Ips -> Counter \cup {Absent}]
    /\ open \subseteq Sockets
    /\ grant \in [Registrations -> [ip : Ips \cup {Absent}, at : Nat]]

OpenFrom(ip) == {c \in open : IpOf[c] = ip}
Counted(ip) == IF counters[ip] = Absent THEN 0 ELSE counters[ip].conns

(* Whatever is evicted in between, an IP's counter is the number of its open    *)
(* connections: none is forgotten, released twice or kept for ever.             *)
ConnsCounted == \A ip \in Ips : Cardinality(OpenFrom(ip)) = Counted(ip)

Granted(ip) == {r \in Registrations : grant[r].ip = ip}
Lately(ip) == {r \in Granted(ip) : grant[r].at + Window > now}

(* No stretch of one window's length sees more than two windows' worth of       *)
(* registrations from one IP: eviction never starts a third.                    *)
RegistrationsBounded == \A ip \in Ips : Cardinality(Lately(ip)) <= 2 * MaxRegs
=============================================================================
