------------------------------- MODULE Limiter -------------------------------
(***************************************************************************)
(* The request limiter of the HTTP/3 carrier (internal/quicx/limiter.go):  *)
(* a semaphore over all requests and a token bucket per IP address for the *)
(* unauthenticated ones.                                                   *)
(*                                                                         *)
(* Allow takes a semaphore slot without blocking, reads the clock, and     *)
(* then takes the lock of the buckets.  These are three steps here: a      *)
(* goroutine held up before the lock applies a clock value that is older   *)
(* than the one already stored in the bucket.                              *)
(*                                                                         *)
(* Tokens are counted in units of 1/PerIPWindow of a token, so that the    *)
(* refill elapsed / PerIPWindow * PerIPBurst is exact.                     *)
(***************************************************************************)
EXTENDS Integers, FiniteSets, Functions

CONSTANTS
  Requests,       \* request goroutines
  IPs,            \* results of remoteIP
  MaxConcurrent, PerIPBurst, PerIPWindow, MaxTrackedIPs,   \* LimitConfig
  MaxTime         \* bound on the clock

ASSUME LimiterAssumption ==
  /\ {MaxConcurrent, PerIPBurst, PerIPWindow, MaxTrackedIPs} \subseteq Nat \ {0}
  /\ MaxTime \in Nat
  /\ IsFiniteSet(IPs) /\ IsFiniteSet(Requests)

VARIABLES
  clock,      \* what l.now() returns
  sem,        \* number of elements in the channel l.sem
  reqs,       \* per request: where it is in Allow, its address, its clock value
  ips,        \* l.ips
  admitted,   \* history: per tracked IP, requests admitted since its bucket was made
  created     \* history: per tracked IP, the clock value its bucket was made with

vars == <<clock, sem, reqs, ips, admitted, created>>

Token == PerIPWindow                \* one token, in units
Full  == PerIPBurst * Token         \* a full bucket

State == [tokens : Nat, updated : Nat, lastSeen : Nat]

Idle    == [at |-> "idle"]
Allowed == [at |-> "allowed"]    \* holds release, until ServeHTTP returns
Request == {Idle, Allowed} \cup [at : {"acquired"}, ip : IPs]
                           \cup [at : {"clocked"}, ip : IPs, now : Nat]

TypeOK ==
  /\ clock \in Nat
  /\ sem \in 0..MaxConcurrent
  /\ reqs \in [Requests -> Request]
  /\ DOMAIN ips \subseteq IPs /\ ips \in [DOMAIN ips -> State]
  /\ Cardinality(DOMAIN ips) <= MaxTrackedIPs
  /\ admitted \in [DOMAIN ips -> Nat] /\ created \in [DOMAIN ips -> Nat]

Init ==
  /\ clock = 0 /\ sem = 0
  /\ reqs = [r \in Requests |-> Idle]
  /\ ips = <<>> /\ admitted = <<>> /\ created = <<>>

-----------------------------------------------------------------------------
Tick ==
  /\ clock < MaxTime
  /\ clock' = clock + 1
  /\ UNCHANGED <<sem, reqs, ips, admitted, created>>

(* Allow, the semaphore: a full one refuses the request at once; an        *)
(* authenticated request needs nothing else.                               *)
Acquire(r, ip, authenticated) ==
  /\ reqs[r] = Idle
  /\ IF sem < MaxConcurrent
     THEN /\ sem' = sem + 1
          /\ reqs' = [reqs EXCEPT ![r] = IF authenticated THEN Allowed
                                          ELSE [at |-> "acquired", ip |-> ip]]
     ELSE UNCHANGED <<sem, reqs>>
  /\ UNCHANGED <<clock, ips, admitted, created>>

(* Allow: now := l.now(), before the lock.                                 *)
ReadClock(r) ==
  /\ reqs[r].at = "acquired"
  /\ reqs' = [reqs EXCEPT ![r] = [at |-> "clocked", ip |-> reqs[r].ip, now |-> clock]]
  /\ UNCHANGED <<clock, sem, ips, admitted, created>>

-----------------------------------------------------------------------------
\* Mutant of evictOldestIP: nothing is removed.
evictNothing(keys) == {ips}
\* The tables evictOldestIP can leave: the map is ranged over in any order, so
\* any entry seen least recently may go.
evictOldestIP(keys) ==
  {Restrict(ips, keys \ {k}) : k \in {k \in keys : \A j \in keys : ips[k].lastSeen <= ips[j].lastSeen}}

\* The tables the locked section can work on, with an entry for ip.
Tracking(ip, now) ==
  IF ip \in DOMAIN ips THEN {ips}
  ELSE LET fresh == [tokens |-> Full, updated |-> now, lastSeen |-> now]
           kept  == IF Cardinality(DOMAIN ips) >= MaxTrackedIPs
                    THEN evictOldestIP(DOMAIN ips) ELSE {ips}
       IN {[j \in DOMAIN t \cup {ip} |-> IF j = ip THEN fresh ELSE t[j]] : t \in kept}

\* Mutants of refill: a clock value older than the bucket is applied too; a
\* value that is not newer fills the bucket.
refillUnguarded(s, now) ==
  LET sum == s.tokens + (now - s.updated) * PerIPBurst IN
  [tokens |-> IF sum > Full THEN Full ELSE sum, updated |-> now, lastSeen |-> now]
refillTwice(s, now) ==
  LET sum == s.tokens + (now - s.updated) * PerIPBurst IN
  IF now > s.updated
  THEN [tokens |-> IF sum > Full THEN Full ELSE sum, updated |-> now, lastSeen |-> now]
  ELSE [s EXCEPT !.lastSeen = now, !.tokens = Full]
\* The bucket after the refill; only a clock value past updated refills it.
refill(s, now) ==
  LET sum == s.tokens + (now - s.updated) * PerIPBurst IN
  IF now > s.updated
  THEN [tokens |-> IF sum > Full THEN Full ELSE sum, updated |-> now, lastSeen |-> now]
  ELSE [s EXCEPT !.lastSeen = now]

\* Whether the bucket has a token for the request.
admits(s) == s.tokens >= Token

\* Mutant of releaseSemaphore: the slot is not given back.
keepSemaphore(n) == n
\* The function Allow returns; ServeHTTP and the refusal path call it.
releaseSemaphore(n) == n - 1

(* Allow, the locked section, and the release of the semaphore when the    *)
(* bucket has no token left.                                               *)
Decide(r) ==
  LET ip == reqs[r].ip  now == reqs[r].now IN
  /\ reqs[r].at = "clocked"
  /\ \E table \in Tracking(ip, now) :
       LET s == refill(table[ip], now)
           ok == admits(s)
           n == [j \in DOMAIN table |-> IF j \in DOMAIN ips THEN admitted[j] ELSE 0]
       IN
       /\ ips' = [table EXCEPT ![ip] = IF ok THEN [s EXCEPT !.tokens = @ - Token] ELSE s]
       /\ reqs' = [reqs EXCEPT ![r] = IF ok THEN Allowed ELSE Idle]
       /\ sem' = IF ok THEN sem ELSE releaseSemaphore(sem)
       /\ admitted' = IF ok THEN [n EXCEPT ![ip] = @ + 1] ELSE n
       /\ created' = [j \in DOMAIN table |-> IF j \in DOMAIN ips THEN created[j] ELSE now]
  /\ UNCHANGED clock

(* The deferred release of ServeHTTP; sync.Once makes it happen once.      *)
Release(r) ==
  /\ reqs[r] = Allowed
  /\ reqs' = [reqs EXCEPT ![r] = Idle]
  /\ sem' = releaseSemaphore(sem)
  /\ UNCHANGED <<clock, ips, admitted, created>>

Next ==
  \/ Tick
  \/ \E r \in Requests, ip \in IPs, authenticated \in BOOLEAN : Acquire(r, ip, authenticated)
  \/ \E r \in Requests : ReadClock(r) \/ Decide(r) \/ Release(r)

Spec == Init /\ [][Next]_vars

-----------------------------------------------------------------------------
\* The requests between a granted slot and its release.
Holders == {r \in Requests : reqs[r] # Idle}

(* The channel is a Slots: one element per request that holds a slot, on   *)
(* every path through Allow, and a slot that was refused was not free      *)
(* (limiter.go:57-98).                                                     *)
Semaphore == INSTANCE Slots WITH
  Users <- Requests, Capacity <- MaxConcurrent, used <- sem, holders <- Holders
ImplementsSlots == Semaphore!Spec

(* The rate a bucket admits: the burst, and one burst per window of the    *)
(* time that passed since it was made, less what is still in it, whatever  *)
(* the order in which clock values reach it (limiter.go:81-95).            *)
RateBound ==
  \A ip \in DOMAIN ips :
    admitted[ip] * Token + ips[ip].tokens
      <= Full + (ips[ip].updated - created[ip]) * PerIPBurst

(* A request held up before the lock never takes a bucket's clock back, so *)
(* no stretch of time refills a bucket twice (limiter.go:81).              *)
NoDoubleRefill ==
  [][\A ip \in DOMAIN ips \cap DOMAIN ips' : ips'[ip].updated >= ips[ip].updated]_vars
=============================================================================
