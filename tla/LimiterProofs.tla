---------------------------- MODULE LimiterProofs ----------------------------
(* Safety of Limiter, for every number of requests, addresses and tracked  *)
(* addresses, every burst and window, and every clock.                     *)
EXTENDS Limiter, FiniteSetTheorems, TLAPS

\* As many slots are in use as requests hold one.
SlotsAccounted == sem = Cardinality(Holders)

(* The inductive invariant.                                                *)
IInv == TypeOK /\ SlotsAccounted /\ RateBound

-----------------------------------------------------------------------------
(* The constants are numbers, and so is what is made of them.              *)
LEMMA Numbers ==
  /\ MaxConcurrent \in Nat /\ PerIPBurst \in Nat /\ PerIPWindow \in Nat /\ MaxTrackedIPs \in Nat
  /\ MaxTrackedIPs > 0 /\ Token \in Nat /\ Full \in Nat
<1>1. /\ MaxConcurrent \in Nat /\ PerIPBurst \in Nat /\ PerIPWindow \in Nat
      /\ MaxTrackedIPs \in Nat /\ MaxTrackedIPs > 0
  BY LimiterAssumption
<1> QED
  BY <1>1 DEF Token, Full

(* A refill never takes the clock of a bucket back, and adds no more than  *)
(* one burst per window of the time it moves that clock forward.           *)
LEMMA RefillBounded ==
  ASSUME NEW s \in State, NEW now \in Nat
  PROVE  /\ refill(s, now) \in State
         /\ refill(s, now).updated >= s.updated
         /\ refill(s, now).tokens
              <= s.tokens + (refill(s, now).updated - s.updated) * PerIPBurst
<1>1. s.tokens \in Nat /\ s.updated \in Nat /\ s.lastSeen \in Nat
  BY DEF State
<1>2. CASE now > s.updated
  <2> DEFINE sum == s.tokens + (now - s.updated) * PerIPBurst
             left == IF sum > Full THEN Full ELSE sum
  <2>1. sum \in Nat
    BY <1>1, <1>2, Numbers
  <2>2. left \in Nat /\ left <= sum
    BY <2>1, Numbers
  <2>3. refill(s, now) = [tokens |-> left, updated |-> now, lastSeen |-> now]
    BY <1>2 DEF refill
  <2>4. left <= s.tokens + (now - s.updated) * PerIPBurst
    BY <2>2
  <2> HIDE DEF left
  <2> QED
    BY <1>1, <1>2, <2>2, <2>3, <2>4 DEF State
<1>3. CASE ~(now > s.updated)
  <2>1. refill(s, now) = [s EXCEPT !.lastSeen = now]
    BY <1>3 DEF refill
  <2>2. refill(s, now) \in State
    BY <2>1 DEF State
  <2>3. refill(s, now).updated = s.updated /\ refill(s, now).tokens = s.tokens
    BY <2>1 DEF State
  <2>4. (s.updated - s.updated) * PerIPBurst = 0
    BY <1>1, Numbers
  <2> QED
    BY <1>1, <2>2, <2>3, <2>4
<1> QED
  BY <1>2, <1>3

(* A table the locked section works on has the address, no more entries    *)
(* than it may, and the entries it keeps as they were.                     *)
LEMMA TrackingKeeps ==
  ASSUME TypeOK, NEW ip \in IPs, NEW now \in Nat, NEW table \in Tracking(ip, now)
  PROVE  /\ ip \in DOMAIN table /\ DOMAIN table \subseteq DOMAIN ips \cup {ip}
         /\ table \in [DOMAIN table -> State]
         /\ Cardinality(DOMAIN table) <= MaxTrackedIPs
         /\ \A j \in DOMAIN table \cap DOMAIN ips : table[j] = ips[j]
         /\ ip \notin DOMAIN ips =>
              table[ip] = [tokens |-> Full, updated |-> now, lastSeen |-> now]
<1> DEFINE fresh == [tokens |-> Full, updated |-> now, lastSeen |-> now]
           keys == DOMAIN ips
<1>0. /\ keys \subseteq IPs /\ ips \in [keys -> State] /\ Cardinality(keys) <= MaxTrackedIPs
      /\ IsFiniteSet(keys) /\ Cardinality(keys) \in Nat
  BY LimiterAssumption, FS_Subset, FS_CardinalityType DEF TypeOK
<1>1. CASE ip \in keys
  BY <1>0, <1>1 DEF Tracking
<1>2. CASE ip \notin keys
  <2>0. fresh \in State
    BY Numbers DEF State
  <2>1. PICK t \in (IF Cardinality(keys) >= MaxTrackedIPs THEN evictOldestIP(keys) ELSE {ips}) :
          table = [j \in DOMAIN t \cup {ip} |-> IF j = ip THEN fresh ELSE t[j]]
    BY <1>2 DEF Tracking
  <2>2. /\ DOMAIN t \subseteq keys /\ \A j \in DOMAIN t : t[j] = ips[j]
        /\ IsFiniteSet(DOMAIN t) /\ Cardinality(DOMAIN t) \in Nat
        /\ Cardinality(DOMAIN t) < MaxTrackedIPs
    <3>1. CASE Cardinality(keys) >= MaxTrackedIPs
      <4>1. PICK k \in keys : t = Restrict(ips, keys \ {k})
        BY <3>1 DEF evictOldestIP
      <4>2. DOMAIN t = keys \ {k} /\ \A j \in DOMAIN t : t[j] = ips[j]
        BY <4>1 DEF Restrict
      <4>3. IsFiniteSet(keys \ {k}) /\ Cardinality(keys \ {k}) = Cardinality(keys) - 1
        BY <1>0, <4>1, FS_RemoveElement
      <4> QED
        BY <1>0, <4>2, <4>3, Numbers, FS_CardinalityType
    <3>2. CASE ~(Cardinality(keys) >= MaxTrackedIPs)
      <4>1. t = ips
        BY <3>2
      <4> QED
        BY <1>0, <3>2, <4>1, Numbers
    <3> QED
      BY <3>1, <3>2
  <2>3. Cardinality(DOMAIN t \cup {ip}) = Cardinality(DOMAIN t) + 1
    BY <1>2, <2>2, FS_AddElement
  <2>4. DOMAIN table = DOMAIN t \cup {ip} /\ table[ip] = fresh
    BY <2>1
  <2>5. \A j \in DOMAIN table \cap keys : table[j] = ips[j]
    BY <1>2, <2>1, <2>2, <2>4
  <2>6. \A j \in DOMAIN table : table[j] \in State
    BY <1>0, <2>0, <2>1, <2>2, <2>4
  <2>7. table \in [DOMAIN table -> State]
    BY <2>1, <2>4, <2>6
  <2>8. Cardinality(DOMAIN table) <= MaxTrackedIPs
    BY <2>2, <2>3, <2>4, Numbers
  <2> QED
    BY <2>2, <2>4, <2>5, <2>7, <2>8
<1> QED
  BY <1>1, <1>2

-----------------------------------------------------------------------------
\* A step of the semaphore.
SlotStep == [Semaphore!Next]_<<sem, Holders>>

Busy(f) == {r \in Requests : f[r] # Idle}

(* A step of one request, which takes a slot, gives it back or keeps it.   *)
LEMMA SlotKeeps ==
  ASSUME IInv, NEW r \in Requests, NEW q \in Request, reqs' = [reqs EXCEPT ![r] = q],
         \/ sem' = sem /\ (q = Idle <=> reqs[r] = Idle)
         \/ sem < MaxConcurrent /\ sem' = sem + 1 /\ q # Idle /\ reqs[r] = Idle
         \/ sem' = sem - 1 /\ q = Idle /\ reqs[r] # Idle
  PROVE  /\ reqs' \in [Requests -> Request] /\ sem' \in 0..MaxConcurrent
         /\ SlotsAccounted' /\ SlotStep
<1>1. reqs \in [Requests -> Request] /\ sem \in 0..MaxConcurrent /\ MaxConcurrent \in Nat
  BY Numbers DEF IInv, TypeOK
<1>2. reqs' \in [Requests -> Request]
  BY <1>1
<1>3. \A f : IsFiniteSet(Busy(f)) /\ Cardinality(Busy(f)) \in Nat
  BY LimiterAssumption, FS_Subset, FS_CardinalityType DEF Busy
<1>4. sem = Cardinality(Busy(reqs)) /\ IsFiniteSet(Busy(reqs))
  BY <1>3 DEF IInv, SlotsAccounted, Holders, Busy
<1>5. sem' = Cardinality(Busy(reqs'))
  <2>1. CASE sem' = sem /\ (q = Idle <=> reqs[r] = Idle)
    <3>1. Busy(reqs') = Busy(reqs)
      BY <1>1, <2>1 DEF Busy
    <3> QED
      BY <1>4, <2>1, <3>1
  <2>2. CASE sem' = sem + 1 /\ q # Idle /\ reqs[r] = Idle
    <3>1. Busy(reqs') = Busy(reqs) \cup {r} /\ r \notin Busy(reqs)
      BY <1>1, <2>2 DEF Busy
    <3>2. Cardinality(Busy(reqs')) = Cardinality(Busy(reqs)) + 1
      BY <1>4, <3>1, FS_AddElement, ZenonT(30)
    <3> QED
      BY <1>4, <2>2, <3>2
  <2>3. CASE sem' = sem - 1 /\ q = Idle /\ reqs[r] # Idle
    <3>1. Busy(reqs') = Busy(reqs) \ {r} /\ r \in Busy(reqs)
      BY <1>1, <2>3 DEF Busy
    <3>2. Cardinality(Busy(reqs')) = Cardinality(Busy(reqs)) - 1
      BY <1>4, <3>1, FS_RemoveElement, ZenonT(30)
    <3> QED
      BY <1>4, <2>3, <3>2
  <2> QED
    BY <2>1, <2>2, <2>3
<1>6. Cardinality(Busy(reqs')) \in Nat
  BY <1>3
<1>7. sem' \in 0..MaxConcurrent
  BY <1>1, <1>5, <1>6
<1>8. SlotStep
  <2>1. CASE sem' = sem /\ (q = Idle <=> reqs[r] = Idle)
    <3>1. Holders' = Holders
      BY <1>1, <2>1 DEF Holders
    <3> QED
      BY <2>1, <3>1 DEF SlotStep
  <2>2. CASE sem < MaxConcurrent /\ sem' = sem + 1 /\ q # Idle /\ reqs[r] = Idle
    <3>1. Holders' = Holders \cup {r} /\ r \notin Holders
      BY <1>1, <2>2 DEF Holders
    <3> QED
      BY <2>2, <3>1 DEF SlotStep, Semaphore!Next, Semaphore!Take
  <2>3. CASE sem' = sem - 1 /\ q = Idle /\ reqs[r] # Idle
    <3>1. Holders' = Holders \ {r} /\ r \in Holders
      BY <1>1, <2>3 DEF Holders
    <3> QED
      BY <2>3, <3>1 DEF SlotStep, Semaphore!Next, Semaphore!Give
  <2> QED
    BY <2>1, <2>2, <2>3
<1> QED
  BY <1>2, <1>5, <1>7, <1>8 DEF SlotsAccounted, Holders, Busy

(* It holds before the first request.                                      *)
LEMMA InitHolds == Init => IInv
<1> SUFFICES ASSUME Init
             PROVE  IInv
  OBVIOUS
<1>1. DOMAIN ips = {} /\ DOMAIN admitted = {} /\ DOMAIN created = {}
  BY DEF Init
<1>2. TypeOK
  <2>1. reqs \in [Requests -> Request]
    BY DEF Init, Request
  <2>2. 0 \in 0..MaxConcurrent /\ Cardinality({}) <= MaxTrackedIPs
    BY Numbers, FS_EmptySet
  <2>3. \A S : <<>> \in [{} -> S]
    OBVIOUS
  <2> QED
    BY <1>1, <2>1, <2>2, <2>3 DEF Init, TypeOK
<1>3. SlotsAccounted
  <2>1. Holders = {}
    BY DEF Init, Holders
  <2> QED
    BY <2>1, FS_EmptySet DEF Init, SlotsAccounted
<1>4. RateBound
  BY <1>1 DEF RateBound
<1> QED
  BY <1>2, <1>3, <1>4 DEF IInv

(* The steps that leave the buckets alone.                                 *)
LEMMA OutsideLockKeeps ==
  ASSUME IInv, UNCHANGED <<ips, admitted, created>>,
         clock' \in Nat, sem' \in 0..MaxConcurrent, reqs' \in [Requests -> Request],
         SlotsAccounted'
  PROVE  IInv'
BY DEF IInv, TypeOK, RateBound

(* A slot is taken, or refused with nothing changed.                       *)
LEMMA AcquireKeeps ==
  ASSUME IInv, NEW r \in Requests, NEW ip \in IPs, NEW authenticated \in BOOLEAN,
         Acquire(r, ip, authenticated)
  PROVE  IInv' /\ SlotStep
<1>1. clock' \in Nat /\ UNCHANGED <<ips, admitted, created>> /\ reqs[r] = Idle
  BY DEF IInv, TypeOK, Acquire
<1>2. CASE sem < MaxConcurrent
  <2> DEFINE q == IF authenticated THEN Allowed ELSE [at |-> "acquired", ip |-> ip]
  <2>1. q \in Request /\ q # Idle
    BY DEF Request, Idle, Allowed
  <2>2. reqs' = [reqs EXCEPT ![r] = q] /\ sem' = sem + 1
    BY <1>2 DEF Acquire
  <2> HIDE DEF q
  <2> QED
    BY <1>1, <1>2, <2>1, <2>2, SlotKeeps, OutsideLockKeeps
<1>3. CASE ~(sem < MaxConcurrent)
  <2>1. UNCHANGED <<sem, reqs>>
    BY <1>3 DEF Acquire
  <2> QED
    BY <1>1, <2>1, OutsideLockKeeps DEF IInv, TypeOK, SlotsAccounted, Holders, SlotStep
<1> QED
  BY <1>2, <1>3

(* The clock is read before the lock.                                      *)
LEMMA ReadClockKeeps ==
  ASSUME IInv, NEW r \in Requests, ReadClock(r)
  PROVE  IInv' /\ SlotStep
<1> DEFINE q == [at |-> "clocked", ip |-> reqs[r].ip, now |-> clock]
<1>1. reqs[r] \in Request /\ reqs[r].at = "acquired" /\ clock \in Nat
  BY DEF IInv, TypeOK, ReadClock
<1>2. reqs[r].ip \in IPs /\ reqs[r] # Idle
  BY <1>1 DEF Request, Idle, Allowed
<1>3. q \in Request /\ q # Idle
  BY <1>1, <1>2 DEF Request, Idle
<1>4. reqs' = [reqs EXCEPT ![r] = q] /\ UNCHANGED <<clock, sem, ips, admitted, created>>
  BY DEF ReadClock
<1> HIDE DEF q
<1> QED
  BY <1>1, <1>2, <1>3, <1>4, SlotKeeps, OutsideLockKeeps

(* ServeHTTP returns.                                                      *)
LEMMA ReleaseKeeps ==
  ASSUME IInv, NEW r \in Requests, Release(r)
  PROVE  IInv' /\ SlotStep
<1>1. Idle \in Request /\ reqs[r] # Idle /\ clock \in Nat
  BY DEF Release, Request, Idle, Allowed, IInv, TypeOK
<1>2. /\ reqs' = [reqs EXCEPT ![r] = Idle] /\ sem' = sem - 1
      /\ UNCHANGED <<clock, ips, admitted, created>>
  BY DEF Release, releaseSemaphore
<1> QED
  BY <1>1, <1>2, SlotKeeps, OutsideLockKeeps

-----------------------------------------------------------------------------
(* The arithmetic of one bucket: a requests were admitted before, and the  *)
(* refill from tokens at updated to left at now is bounded.                *)
LEMMA BucketSum ==
  ASSUME NEW a \in Nat, NEW made \in Nat, NEW tokens \in Nat, NEW updated \in Nat,
         NEW left \in Nat, NEW now \in Nat,
         a * Token + tokens <= Full + (updated - made) * PerIPBurst,
         left <= tokens + (now - updated) * PerIPBurst
  PROVE  /\ a * Token + left <= Full + (now - made) * PerIPBurst
         /\ (a + 1) * Token + (left - Token) <= Full + (now - made) * PerIPBurst
<1>1. (updated - made) * PerIPBurst + (now - updated) * PerIPBurst = (now - made) * PerIPBurst
  BY Numbers
<1>2. (a + 1) * Token = a * Token + Token
  BY Numbers
<1>3. {a * Token, (updated - made) * PerIPBurst, (now - updated) * PerIPBurst} \subseteq Int
  BY Numbers
<1> QED
  BY <1>1, <1>2, <1>3, Numbers

(* The locked section of Allow.                                            *)
LEMMA DecideKeeps ==
  ASSUME IInv, NEW r \in Requests, Decide(r)
  PROVE  /\ IInv' /\ SlotStep
         /\ \A j \in DOMAIN ips \cap DOMAIN ips' : ips'[j].updated >= ips[j].updated
<1> DEFINE ip == reqs[r].ip
           now == reqs[r].now
<1>1. reqs[r] \in Request /\ reqs[r].at = "clocked" /\ TypeOK /\ RateBound
  BY DEF IInv, TypeOK, Decide
<1>2. ip \in IPs /\ now \in Nat /\ reqs[r] # Idle
  BY <1>1 DEF Request, Idle, Allowed
<1>0. PICK table \in Tracking(ip, now) :
      LET s == refill(table[ip], now)
          ok == admits(s)
          n == [j \in DOMAIN table |-> IF j \in DOMAIN ips THEN admitted[j] ELSE 0]
      IN  /\ ips' = [table EXCEPT ![ip] = IF ok THEN [s EXCEPT !.tokens = @ - Token] ELSE s]
          /\ reqs' = [reqs EXCEPT ![r] = IF ok THEN Allowed ELSE Idle]
          /\ sem' = IF ok THEN sem ELSE releaseSemaphore(sem)
          /\ admitted' = IF ok THEN [n EXCEPT ![ip] = @ + 1] ELSE n
          /\ created' = [j \in DOMAIN table |-> IF j \in DOMAIN ips THEN created[j] ELSE now]
  BY DEF Decide
<1> DEFINE b == table[ip]
           s == refill(b, now)
           ok == admits(s)
           after == IF ok THEN [s EXCEPT !.tokens = @ - Token] ELSE s
           a == IF ip \in DOMAIN ips THEN admitted[ip] ELSE 0
           made == IF ip \in DOMAIN ips THEN created[ip] ELSE now
           D == DOMAIN table
<1>3. /\ ip \in D /\ D \subseteq DOMAIN ips \cup {ip} /\ table \in [D -> State]
      /\ Cardinality(D) <= MaxTrackedIPs
      /\ \A j \in D \cap DOMAIN ips : table[j] = ips[j]
      /\ ip \notin DOMAIN ips => b = [tokens |-> Full, updated |-> now, lastSeen |-> now]
  BY <1>1, <1>2, TrackingKeeps
<1>4. b \in State
  BY <1>3
<1>5. /\ s \in State /\ s.updated >= b.updated
      /\ s.tokens <= b.tokens + (s.updated - b.updated) * PerIPBurst
  BY <1>2, <1>4, RefillBounded
<1>6. after \in State /\ after.updated = s.updated
      /\ after.tokens = IF ok THEN s.tokens - Token ELSE s.tokens
  <2>1. s.tokens \in Nat /\ Token \in Nat /\ (ok => s.tokens >= Token)
    BY <1>5, Numbers DEF State, admits
  <2>2. ok => s.tokens - Token \in Nat
    BY <2>1
  <2> HIDE DEF s, ok
  <2> QED
    BY <1>5, <2>2 DEF State
<1>7. a \in Nat /\ made \in Nat /\ \A j \in DOMAIN ips : admitted[j] \in Nat /\ created[j] \in Nat
  BY <1>1, <1>2 DEF TypeOK
<1>8. a * Token + b.tokens <= Full + (b.updated - made) * PerIPBurst
  <2>1. CASE ip \in DOMAIN ips
    BY <1>1, <1>3, <2>1 DEF RateBound
  <2>2. CASE ip \notin DOMAIN ips
    <3>1. b.tokens = Full /\ b.updated = now /\ made = now /\ a = 0
      BY <1>3, <2>2
    <3>2. 0 * Token = 0 /\ (now - now) * PerIPBurst = 0
      BY <1>2, Numbers
    <3> QED
      BY <3>1, <3>2, Numbers
  <2> QED
    BY <2>1, <2>2
<1> HIDE DEF s, b, a, made, after
<1>9. /\ a * Token + s.tokens <= Full + (s.updated - made) * PerIPBurst
      /\ (a + 1) * Token + (s.tokens - Token) <= Full + (s.updated - made) * PerIPBurst
  <2>1. {b.tokens, b.updated, s.tokens, s.updated} \subseteq Nat
    BY <1>4, <1>5 DEF State
  <2> QED
    BY <1>5, <1>7, <1>8, <2>1, BucketSum
<1>10. /\ ips' = [table EXCEPT ![ip] = after]
       /\ created' = [j \in D |-> IF j = ip THEN made ELSE created[j]]
       /\ admitted' = [j \in D |-> IF j = ip THEN (IF ok THEN a + 1 ELSE a) ELSE admitted[j]]
  <2>1. ips' = [table EXCEPT ![ip] = after]
    BY <1>0 DEF after, s, b
  <2>2. created' = [j \in D |-> IF j = ip THEN made ELSE created[j]]
    BY <1>0, <1>3 DEF made
  <2>3. admitted' = [j \in D |-> IF j = ip THEN (IF ok THEN a + 1 ELSE a) ELSE admitted[j]]
    <3> DEFINE n == [j \in D |-> IF j \in DOMAIN ips THEN admitted[j] ELSE 0]
    <3>1. admitted' = IF ok THEN [n EXCEPT ![ip] = @ + 1] ELSE n
      BY <1>0 DEF s, b
    <3>2. n = [j \in D |-> IF j = ip THEN a ELSE admitted[j]]
      BY <1>3 DEF a
    <3> HIDE DEF n, ok
    <3> QED
      BY <1>3, <3>1, <3>2
  <2> QED
    BY <2>1, <2>2, <2>3
<1> HIDE DEF ok
<1>11. /\ DOMAIN ips' = D /\ ips' \in [D -> State] /\ ips'[ip] = after
       /\ \A j \in D : j # ip => j \in DOMAIN ips /\ ips'[j] = ips[j]
  BY <1>3, <1>6, <1>10
<1>12. RateBound'
  <2> SUFFICES ASSUME NEW j \in D
               PROVE  admitted'[j] * Token + ips'[j].tokens
                        <= Full + (ips'[j].updated - created'[j]) * PerIPBurst
    BY <1>11 DEF RateBound
  <2>1. CASE j = ip
    <3>1. /\ ips'[j] = after /\ created'[j] = made
          /\ admitted'[j] = IF ok THEN a + 1 ELSE a
      BY <1>3, <1>10, <1>11, <2>1
    <3> QED
      BY <1>6, <1>9, <3>1
  <2>2. CASE j # ip
    <3>1. /\ j \in DOMAIN ips /\ ips'[j] = ips[j] /\ created'[j] = created[j]
          /\ admitted'[j] = admitted[j]
      BY <1>10, <1>11, <2>2
    <3> QED
      BY <1>1, <3>1 DEF RateBound
  <2> QED
    BY <2>1, <2>2
<1>13. /\ reqs' \in [Requests -> Request] /\ sem' \in 0..MaxConcurrent /\ SlotsAccounted'
       /\ SlotStep
  <2> DEFINE q == IF ok THEN Allowed ELSE Idle
  <2>1. q \in Request /\ (q = Idle <=> ~ok)
    BY DEF Request, Idle, Allowed
  <2>2. reqs' = [reqs EXCEPT ![r] = q] /\ sem' = IF ok THEN sem ELSE sem - 1
    BY <1>0 DEF ok, s, b, releaseSemaphore
  <2> HIDE DEF q
  <2> QED
    BY <1>2, <2>1, <2>2, SlotKeeps
<1>14. TypeOK'
  <2>1. admitted' \in [D -> Nat] /\ created' \in [D -> Nat]
    <3>1. \A j \in D : admitted'[j] \in Nat /\ created'[j] \in Nat
      BY <1>7, <1>10, <1>11
    <3> QED
      BY <1>10, <3>1
  <2>2. D \subseteq IPs /\ clock' \in Nat
    BY <1>1, <1>2, <1>3 DEF TypeOK, Decide
  <2> QED
    BY <1>3, <1>11, <1>13, <2>1, <2>2 DEF TypeOK
<1>15. \A j \in DOMAIN ips \cap DOMAIN ips' : ips'[j].updated >= ips[j].updated
  <2> SUFFICES ASSUME NEW j \in DOMAIN ips, j \in D
               PROVE  ips'[j].updated >= ips[j].updated
    BY <1>11
  <2>1. CASE j = ip
    BY <1>3, <1>5, <1>6, <1>11, <2>1 DEF b
  <2>2. CASE j # ip
    <3>1. ips'[j] = ips[j] /\ ips[j] \in State
      BY <1>1, <1>11, <2>2 DEF TypeOK
    <3>2. ips[j].updated \in Nat
      BY <3>1 DEF State
    <3> QED
      BY <3>1, <3>2
  <2> QED
    BY <2>1, <2>2
<1> QED
  BY <1>12, <1>13, <1>14, <1>15 DEF IInv

(* Every step keeps the invariant, and no step takes the clock of a bucket *)
(* back.                                                                   *)
LEMMA NextKeeps ==
  IInv /\ [Next]_vars =>
    /\ IInv' /\ SlotStep
    /\ \A ip \in DOMAIN ips \cap DOMAIN ips' : ips'[ip].updated >= ips[ip].updated
<1> SUFFICES ASSUME IInv, [Next]_vars
             PROVE  /\ IInv' /\ SlotStep
                    /\ \A ip \in DOMAIN ips \cap DOMAIN ips' : ips'[ip].updated >= ips[ip].updated
  OBVIOUS
<1>1. ips' = ips => \A ip \in DOMAIN ips \cap DOMAIN ips' : ips'[ip].updated >= ips[ip].updated
  BY DEF IInv, TypeOK, State
<1>2. CASE Tick
  <2>1. clock' \in Nat /\ UNCHANGED <<sem, reqs, ips, admitted, created>>
    BY <1>2 DEF Tick, IInv, TypeOK
  <2>2. /\ sem' \in 0..MaxConcurrent /\ reqs' \in [Requests -> Request]
        /\ SlotsAccounted' /\ SlotStep
    BY <2>1 DEF IInv, TypeOK, SlotsAccounted, Holders, SlotStep
  <2> QED
    BY <1>1, <2>1, <2>2, OutsideLockKeeps
<1>3. ASSUME NEW r \in Requests, NEW ip \in IPs, NEW authenticated \in BOOLEAN,
             Acquire(r, ip, authenticated)
      PROVE  IInv' /\ SlotStep /\ ips' = ips
  BY <1>3, AcquireKeeps DEF Acquire
<1>4. ASSUME NEW r \in Requests, ReadClock(r) \/ Release(r)
      PROVE  IInv' /\ SlotStep /\ ips' = ips
  BY <1>4, ReadClockKeeps, ReleaseKeeps DEF ReadClock, Release
<1>5. CASE UNCHANGED vars
  <2>1. IInv' /\ SlotStep /\ ips' = ips
    BY <1>5 DEF vars, IInv, TypeOK, SlotsAccounted, Holders, SlotStep, RateBound
  <2> QED
    BY <1>1, <2>1
<1> QED
  BY <1>1, <1>2, <1>3, <1>4, <1>5, DecideKeeps DEF Next

-----------------------------------------------------------------------------
(* The inductive invariant holds in every behaviour of the limiter         *)
(* (limiter.go:57-98).                                                     *)
THEOREM Invariance == Spec => []IInv
BY InitHolds, NextKeeps, PTL DEF Spec

(* The table of addresses never grows past MaxTrackedIPs, tokens never go  *)
(* below zero and the semaphore stays within its capacity                  *)
(* (limiter.go:57-120).                                                    *)
THEOREM TypeCorrect == Spec => []TypeOK
<1>1. IInv => TypeOK
  BY DEF IInv
<1> QED
  BY <1>1, Invariance, PTL

(* For any number of requests and slots, the channel is a Slots: every     *)
(* path through Allow gives back once what it took (limiter.go:57-98).     *)
THEOREM SlotsImplemented == Spec => ImplementsSlots
<1>1. Init => Semaphore!Init
  BY DEF Init, Holders, Semaphore!Init
<1>2. IInv /\ [Next]_vars => [Semaphore!Next]_<<sem, Holders>>
  BY NextKeeps DEF SlotStep
<1> QED
  BY <1>1, <1>2, Invariance, PTL DEF Spec, ImplementsSlots, Semaphore!Spec

(* For any burst and window, and in whatever order clock values reach the  *)
(* lock, a bucket admits no more than its burst and one burst per window   *)
(* (limiter.go:81-95).                                                     *)
THEOREM RateAlwaysBounded == Spec => []RateBound
<1>1. IInv => RateBound
  BY DEF IInv
<1> QED
  BY <1>1, Invariance, PTL

(* No stretch of time refills a bucket twice (limiter.go:81).              *)
THEOREM NeverRefilledTwice == Spec => NoDoubleRefill
<1>1. IInv /\ [Next]_vars =>
        [\A ip \in DOMAIN ips \cap DOMAIN ips' : ips'[ip].updated >= ips[ip].updated]_vars
  BY NextKeeps
<1> QED
  BY <1>1, Invariance, PTL DEF Spec, NoDoubleRefill
=============================================================================
