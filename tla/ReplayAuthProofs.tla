--------------------------- MODULE ReplayAuthProofs ---------------------------
(* Type correctness of ReplayAuth and its replay guarantee, for every value *)
(* of the constants.                                                       *)
EXTENDS ReplayAuth, SequenceTheorems, TLAPS

(* The clock value of any later call that still passes the skew check with *)
(* token t is a second or more behind.                                     *)
Dead(t) == t.issuedAt + maxSkew + Second <= mono + maxOffset

(* The cache holds the nonce of t, and does so until t is dead.            *)
Remembered(t) ==
  \E i \in 1..Len(order) :
    /\ order[i].key = t.nonce
    /\ t.issuedAt + maxSkew + Second <= order[i].expiresAt + maxOffset

TokensUnique == \A t, u \in tokens : t.nonce = u.nonce => t = u

AcceptedSigned == \A n \in accepted : \E t \in tokens : t.nonce = n

CallsChecked ==
  \A c \in calls :
    /\ c.token \in tokens
    /\ c.mono <= mono
    /\ c.wall <= c.mono + maxOffset
    /\ withinSkew(c.token, c.wall)

AcceptedGuarded ==
  \A t \in tokens :
    t.nonce \in accepted => t.nonce \in evicted \/ Remembered(t) \/ Dead(t)

(* The inductive invariant: why a token that was accepted and not evicted  *)
(* is refused for as long as a fresh clock value would let it pass.        *)
IInv ==
  /\ TypeOK
  /\ offset <= maxOffset
  /\ TokensUnique
  /\ AcceptedSigned
  /\ CallsChecked
  /\ AcceptedGuarded
  /\ CacheBounded
  /\ OnlyAcceptedCached
  /\ NoReplay

-----------------------------------------------------------------------------
(* A suffix of a sequence: what pruneExpired leaves of the list.           *)
LEMMA SuffixFacts ==
  ASSUME NEW S, NEW s \in Seq(S), NEW m \in 1..(Len(s) + 1),
         NEW u, u = SubSeq(s, m, Len(s))
  PROVE  /\ u \in Seq(S)
         /\ Len(u) = Len(s) - m + 1
         /\ \A i \in 1..Len(u) : u[i] = s[m + i - 1]
OBVIOUS

(* What replayCache.Add does to the list: the entries from m on stay, in   *)
(* their order, and the new entry goes to the back.                        *)
LEMMA SuffixAppendFacts ==
  ASSUME NEW S, NEW s \in Seq(S), NEW m \in 1..(Len(s) + 1), NEW e \in S,
         NEW u, u = Append(SubSeq(s, m, Len(s)), e)
  PROVE  /\ u \in Seq(S)
         /\ Len(u) = Len(s) - m + 2
         /\ \A i \in 1..(Len(s) - m + 1) : u[i] = s[m + i - 1]
         /\ u[Len(s) - m + 2] = e
OBVIOUS

(* The places of entries that stay (from m on) and of those evicted (k to  *)
(* m) in a list of l entries.                                              *)
LEMMA SuffixIndices ==
  ASSUME NEW l \in Nat, NEW k \in 1..(l + 1), NEW m \in k..(l + 1)
  PROVE  /\ \A i \in 1..(l - m + 1) : m + i - 1 \in k..l /\ m + i - 1 \in 1..l
         /\ \A i \in 1..(l - m + 2) : i \in 1..(l - m + 1) \/ i = l - m + 2
         /\ \A i \in k..(m - 1) : i \in 1..l
         /\ l - m + 2 \in 1..(l - m + 2)
         /\ \A i \in m..l : /\ i - m + 1 \in 1..(l - m + 1) /\ i - m + 1 \in 1..(l - m + 2)
                            /\ m + (i - m + 1) - 1 = i
OBVIOUS

(* A bound that holds at a time and an offset holds at later, larger ones. *)
LEMMA BoundGrows ==
  ASSUME NEW a \in Int, NEW m \in Int, NEW n \in Int, NEW o \in Int, NEW q \in Int,
         a <= m + o, m <= n, o <= q
  PROVE  a <= n + q
OBVIOUS

(* The fields of a cached entry.                                           *)
LEMMA EntryFacts ==
  ASSUME TypeOK
  PROVE  \A i \in 1..Len(order) : /\ order[i] \in Entry
                                  /\ order[i].key \in Nonces
                                  /\ order[i].expiresAt \in Nat
<1> SUFFICES ASSUME NEW i \in 1..Len(order)
             PROVE  order[i] \in Entry
  BY DEF Entry
<1> QED
  BY DEF TypeOK

(* The initial state: an empty cache and no request.                       *)
LEMMA InitIInv == Init => IInv
<1> SUFFICES ASSUME Init PROVE IInv
  OBVIOUS
<1> USE AuthAssumption DEF Init
<1>1. order \in Seq(Entry) /\ Len(order) = 0
  BY EmptySeq
<1>2. TypeOK
  BY <1>1 DEF TypeOK
<1>3. offset <= maxOffset
  OBVIOUS
<1>4. TokensUnique /\ AcceptedSigned /\ CallsChecked /\ AcceptedGuarded
  BY DEF TokensUnique, AcceptedSigned, CallsChecked, AcceptedGuarded
<1>5. CacheBounded /\ OnlyAcceptedCached /\ NoReplay
  BY <1>1 DEF CacheBounded, OnlyAcceptedCached, NoReplay
<1>6. QED
  BY <1>2, <1>3, <1>4, <1>5 DEF IInv

(* Ticks, clock steps and Sign leave the cache and the requests alone, and *)
(* only make tokens older.                                                 *)
LEMMA EnvironmentIInv ==
  ASSUME IInv,
         \/ Tick
         \/ \E o \in Offsets : StepWallClock(o)
         \/ \E n \in Nonces, k \in AllKeys, name \in Names, now \in ClientTimes :
              Sign(n, k, name, now)
         \/ UNCHANGED vars
  PROVE  IInv'
<1> USE AuthAssumption DEF IInv
<1>0. UNCHANGED <<calls, order, accepted, reaccepted, evicted>>
  BY DEF Tick, StepWallClock, Sign, vars
<1>1. mono \in Nat /\ mono' \in Nat /\ mono <= mono'
  BY DEF Tick, StepWallClock, Sign, vars, TypeOK
<1>2. /\ maxOffset \in Nat /\ maxOffset' \in Nat /\ maxOffset <= maxOffset'
      /\ offset' \in Offsets /\ maxOffset' \in Offsets /\ offset' <= maxOffset'
  BY DEF Tick, StepWallClock, Sign, vars, TypeOK
<1>3. /\ tokens \subseteq tokens' /\ tokens' \subseteq Token
      /\ TokensUnique'
      /\ \A t \in tokens' : t \notin tokens => \A u \in tokens : u.nonce # t.nonce
  <2>1. CASE tokens' = tokens
    BY <2>1 DEF TypeOK, TokensUnique
  <2>2. CASE \E n \in Nonces, k \in AllKeys, name \in Names, now \in ClientTimes :
               Sign(n, k, name, now)
    <3>1. PICK n \in Nonces, k \in AllKeys, name \in Names, now \in ClientTimes :
            Sign(n, k, name, now)
      BY <2>2
    <3> DEFINE t == [nonce |-> n, issuedAt |-> (now \div Second) * Second,
                     key |-> k, name |-> name]
    <3>2. (now \div Second) * Second \in Nat
      OBVIOUS
    <3>3. t \in Token /\ t.nonce = n
      BY <3>2 DEF Token
    <3>4. tokens' = tokens \cup {t} /\ \A u \in tokens : u.nonce # n
      BY <3>1 DEF Sign
    <3> HIDE DEF t
    <3>5. QED
      BY <3>3, <3>4 DEF TypeOK, TokensUnique
  <2>3. QED
    BY <2>1, <2>2 DEF Tick, StepWallClock, vars
<1>4. TypeOK'
  BY <1>0, <1>1, <1>2, <1>3 DEF TypeOK
<1>5. AcceptedSigned'
  BY <1>0, <1>3 DEF AcceptedSigned
<1>6. CallsChecked'
  <2> SUFFICES ASSUME NEW c \in calls
               PROVE  /\ c.token \in tokens'
                      /\ c.mono <= mono'
                      /\ c.wall <= c.mono + maxOffset'
                      /\ withinSkew(c.token, c.wall)
    BY <1>0 DEF CallsChecked, withinSkew
  <2>1. c \in Call /\ c.mono \in Nat /\ c.wall \in Nat
    BY DEF TypeOK, Call
  <2>2. QED
    BY <2>1, <1>1, <1>2, <1>3 DEF CallsChecked
<1>7. AcceptedGuarded'
  <2> SUFFICES ASSUME NEW t \in tokens', t.nonce \in accepted
               PROVE  t.nonce \in evicted \/ Remembered(t)' \/ Dead(t)'
    BY <1>0 DEF AcceptedGuarded, Remembered, Dead
  <2>1. t \in tokens
    BY <1>3 DEF AcceptedSigned
  <2>2. t.issuedAt \in Nat
    BY <1>3 DEF Token
  <2>3. CASE Dead(t)
    <3>1. t.issuedAt + maxSkew + Second \in Int
      BY <2>2
    <3>2. t.issuedAt + maxSkew + Second <= mono' + maxOffset'
      BY <2>3, <3>1, <1>1, <1>2, BoundGrows DEF Dead
    <3>3. QED
      BY <3>2 DEF Dead
  <2>4. CASE Remembered(t)
    <3>1. PICK i \in 1..Len(order) :
            /\ order[i].key = t.nonce
            /\ t.issuedAt + maxSkew + Second <= order[i].expiresAt + maxOffset
      BY <2>4 DEF Remembered
    <3>2. order[i].expiresAt \in Nat
      BY EntryFacts
    <3>3. t.issuedAt + maxSkew + Second <= order[i].expiresAt + maxOffset'
      <4>1. t.issuedAt + maxSkew + Second \in Int
        BY <2>2
      <4>2. QED
        BY ONLY <3>1, <3>2, <4>1, <1>2, BoundGrows
    <3>4. QED
      BY <3>1, <3>3, <1>0 DEF Remembered
  <2>5. QED
    BY <2>1, <2>3, <2>4 DEF AcceptedGuarded
<1>8. CacheBounded' /\ OnlyAcceptedCached' /\ NoReplay'
  BY <1>0 DEF CacheBounded, OnlyAcceptedCached, NoReplay
<1>9. QED
  BY <1>2, <1>3, <1>4, <1>5, <1>6, <1>7, <1>8

(* Validate up to the cache: the new call carries a token it was shown and *)
(* the two clock readings of this instant.                                 *)
LEMMA ValidateIInv ==
  ASSUME IInv, NEW h \in Handlers, NEW t \in tokens, NEW raw \in RawFields, Validate(h, t, raw)
  PROVE  IInv'
<1> USE AuthAssumption DEF IInv
<1> DEFINE c0 == [handler |-> h, token |-> t, wall |-> mono + offset, mono |-> mono]
<1>0. UNCHANGED <<mono, offset, tokens, order, accepted, reaccepted, evicted, maxOffset>>
  BY DEF Validate
<1>1. calls' = calls \/ (calls' = calls \cup {c0} /\ withinSkew(t, mono + offset))
  BY DEF Validate
<1>2. /\ c0 \in Call /\ c0.token = t /\ c0.mono = mono /\ c0.wall = mono + offset
      /\ mono + offset <= mono + maxOffset
  BY DEF Call, TypeOK
<1> HIDE DEF c0
<1>3. TypeOK'
  BY <1>0, <1>1, <1>2 DEF TypeOK
<1>4. CallsChecked'
  BY <1>0, <1>1, <1>2 DEF CallsChecked, withinSkew, TypeOK
<1>5. TokensUnique' /\ AcceptedSigned' /\ AcceptedGuarded' /\ offset' <= maxOffset'
  BY <1>0 DEF TokensUnique, AcceptedSigned, AcceptedGuarded, Remembered, Dead
<1>6. CacheBounded' /\ OnlyAcceptedCached' /\ NoReplay'
  BY <1>0 DEF CacheBounded, OnlyAcceptedCached, NoReplay
<1>7. QED
  BY <1>3, <1>4, <1>5, <1>6

(* An entry that pruneExpired removes no longer protects a live token: the *)
(* pruner's clock is not ahead of the server's.                            *)
LEMMA PrunedIsDead ==
  ASSUME TypeOK, NEW t \in tokens, NEW now \in Nat, now <= mono,
         NEW i \in 1..Len(order), order[i].expiresAt <= now,
         t.issuedAt + maxSkew + Second <= order[i].expiresAt + maxOffset
  PROVE  Dead(t)
<1>1. order[i].expiresAt \in Nat /\ t.issuedAt \in Nat /\ mono \in Nat /\ maxOffset \in Nat
  BY EntryFacts, AuthAssumption DEF TypeOK, Token
<1>2. t.issuedAt + maxSkew + Second \in Int
  BY <1>1, AuthAssumption
<1>3. order[i].expiresAt <= mono
  BY <1>1
<1>4. t.issuedAt + maxSkew + Second <= mono + maxOffset
  BY <1>1, <1>2, <1>3, BoundGrows
<1>5. QED
  BY <1>4 DEF Dead

(* An accepted token stays guarded when the list shrinks to its suffix from *)
(* m: what lies before k had expired, what lies from k to m was evicted.    *)
LEMMA GuardSurvives ==
  ASSUME IInv, NEW c \in calls, NEW k \in 1..(Len(order) + 1), PrunesTo(k, c.mono),
         NEW m \in k..(Len(order) + 1), NEW t \in tokens, t.nonce \in accepted,
         \A i \in k..(m - 1) : order[i].key \in evicted',
         evicted \subseteq evicted',
         \A i \in m..Len(order) : i - m + 1 \in 1..Len(order)' /\ order'[i - m + 1] = order[i],
         UNCHANGED <<mono, maxOffset>>
  PROVE  t.nonce \in evicted' \/ Remembered(t)' \/ Dead(t)'
<1> USE AuthAssumption DEF IInv
<1>1. CASE t.nonce \in evicted
  BY <1>1
<1>2. CASE Dead(t)
  BY <1>2 DEF Dead
<1>3. CASE Remembered(t)
  <2>1. PICK i \in 1..Len(order) :
          /\ order[i].key = t.nonce
          /\ t.issuedAt + maxSkew + Second <= order[i].expiresAt + maxOffset
    BY <1>3 DEF Remembered
  <2>2. Len(order) \in Nat /\ c.mono \in Nat /\ c.mono <= mono
    BY DEF TypeOK, CallsChecked, Call
  <2>3. CASE i < k
    <3>1. order[i].expiresAt <= c.mono
      BY <2>2, <2>3 DEF PrunesTo
    <3>2. Dead(t)
      BY <2>1, <2>2, <3>1, PrunedIsDead
    <3>3. QED
      BY <3>2 DEF Dead
  <2>4. CASE i >= k /\ i < m
    BY <2>1, <2>2, <2>4
  <2>5. CASE i >= m
    <3>1. i - m + 1 \in 1..Len(order)' /\ order'[i - m + 1] = order[i]
      BY <2>2, <2>5
    <3>2. QED
      BY <2>1, <3>1 DEF Remembered
  <2>6. QED
    BY <2>2, <2>3, <2>4, <2>5
<1>4. QED
  BY <1>1, <1>2, <1>3 DEF AcceptedGuarded

(* replayCache.Add refuses a nonce it holds; the list only loses entries   *)
(* that have expired.                                                      *)
LEMMA RefuseIInv ==
  ASSUME IInv, NEW c \in calls, NEW k \in 1..(Len(order) + 1), PrunesTo(k, c.mono),
         order' = SubSeq(order, k, Len(order)), calls' = calls \ {c},
         UNCHANGED <<accepted, reaccepted, evicted, mono, offset, tokens, maxOffset>>
  PROVE  IInv'
<1> USE AuthAssumption DEF IInv
<1>0. order \in Seq(Entry) /\ Len(order) \in Nat
  BY DEF TypeOK
<1>1. /\ order' \in Seq(Entry)
      /\ Len(order') = Len(order) - k + 1
      /\ \A i \in 1..Len(order') : order'[i] = order[k + i - 1]
  BY <1>0, SuffixFacts
<1>2. \A i \in 1..Len(order') : k + i - 1 \in 1..Len(order)
  BY <1>0, <1>1
<1>3. TypeOK'
  BY <1>1 DEF TypeOK
<1>4. CallsChecked' /\ TokensUnique' /\ AcceptedSigned' /\ offset' <= maxOffset'
  BY DEF CallsChecked, withinSkew, TokensUnique, AcceptedSigned
<1>5. AcceptedGuarded'
  <2> SUFFICES ASSUME NEW t \in tokens, t.nonce \in accepted
               PROVE  t.nonce \in evicted' \/ Remembered(t)' \/ Dead(t)'
    BY DEF AcceptedGuarded, Remembered, Dead
  <2>1. \A i \in k..Len(order) : i - k + 1 \in 1..Len(order)' /\ order'[i - k + 1] = order[i]
    BY <1>0, <1>1
  <2>2. k \in k..(Len(order) + 1) /\ \A i \in k..(k - 1) : order[i].key \in evicted'
    BY <1>0
  <2>3. QED
    BY <2>1, <2>2, GuardSurvives
<1>6. CacheBounded'
  BY <1>0, <1>1, <1>2 DEF CacheBounded
<1>7. OnlyAcceptedCached' /\ NoReplay'
  BY <1>1, <1>2 DEF OnlyAcceptedCached, NoReplay
<1>8. QED
  BY <1>3, <1>4, <1>5, <1>6, <1>7

(* The eviction loop keeps a suffix that leaves room for one more entry.   *)
LEMMA FirstKeptFacts ==
  ASSUME TypeOK, NEW k \in 1..(Len(order) + 1)
  PROVE  FirstKept(k) \in k..(Len(order) + 1) /\ Len(order) - FirstKept(k) + 2 <= capacity
<1>1. Len(order) \in Nat
  BY DEF TypeOK
<1>2. QED
  BY <1>1, AuthAssumption DEF FirstKept

(* The entry that Add appends protects the token of the call until it is   *)
(* dead: the window covers the skew on both sides and one second more.     *)
LEMMA NewEntryFacts ==
  ASSUME TypeOK, CallsChecked, NEW c \in calls,
         NEW e, e = [key |-> c.token.nonce, expiresAt |-> c.mono + window]
  PROVE  /\ e \in Entry /\ e.key = c.token.nonce
         /\ c.token.issuedAt + maxSkew + Second <= e.expiresAt + maxOffset
<1> USE AuthAssumption
<1>1. /\ c.token.nonce \in Nonces /\ c.token.issuedAt \in Nat
      /\ c.mono \in Nat /\ c.wall \in Nat /\ maxOffset \in Nat
      /\ c.wall <= c.mono + maxOffset
      /\ c.token.issuedAt <= c.wall + maxSkew
  BY DEF TypeOK, CallsChecked, withinSkew, Call, Token
<1>2. window \in Nat /\ window = maxSkew + maxSkew + Second
  BY DEF window
<1>3. c.mono + window \in Nat
  BY <1>1, <1>2
<1>4. e \in Entry /\ e.key = c.token.nonce /\ e.expiresAt = c.mono + window
  BY <1>1, <1>3 DEF Entry
<1>5. QED
  BY <1>1, <1>2, <1>4

(* A request that passed the skew check with a dead token is late.         *)
LEMMA DeadIsLate ==
  ASSUME NEW c, c.token.issuedAt \in Nat, c.wall \in Nat, mono \in Nat, maxOffset \in Nat,
         c.token.issuedAt >= c.wall - maxSkew, Dead(c.token)
  PROVE  Late(c)
<1>1. \A a, w, m, n, x \in Int : a >= w - x /\ a + x + Second <= m + n => w + Second <= m + n
  BY AuthAssumption
<1>2. QED
  BY <1>1, AuthAssumption DEF Dead, Late

(* A token that is accepted again was evicted, or the call is late.        *)
LEMMA ReacceptedExcused ==
  ASSUME IInv, NEW c \in calls, NEW k \in 1..(Len(order) + 1), PrunesTo(k, c.mono),
         c.token.nonce \notin KeysFrom(k), c.token.nonce \in accepted
  PROVE  c.token.nonce \in evicted \/ Late(c)
<1> USE AuthAssumption DEF IInv
<1>1. /\ c.token \in tokens /\ c.token.issuedAt \in Nat
      /\ c.mono \in Nat /\ c.wall \in Nat /\ mono \in Nat /\ maxOffset \in Nat
      /\ c.mono <= mono /\ Len(order) \in Nat
      /\ c.token.issuedAt >= c.wall - maxSkew
  <2>1. TypeOK /\ CallsChecked /\ c \in calls
    OBVIOUS
  <2>2. /\ c.token \in tokens /\ c \in Call /\ c.token \in Token
        /\ c.mono <= mono /\ withinSkew(c.token, c.wall)
    BY ONLY <2>1 DEF TypeOK, CallsChecked
  <2>3. mono \in Nat /\ maxOffset \in Nat /\ Len(order) \in Nat
    BY DEF TypeOK
  <2>4. QED
    BY ONLY <2>2, <2>3 DEF withinSkew, Call, Token
<1>2. CASE Remembered(c.token)
  <2>1. PICK i \in 1..Len(order) :
          /\ order[i].key = c.token.nonce
          /\ c.token.issuedAt + maxSkew + Second <= order[i].expiresAt + maxOffset
    BY <1>2 DEF Remembered
  <2>2. i < k
    BY <1>1, <2>1 DEF KeysFrom
  <2>3. order[i].expiresAt <= c.mono
    BY <1>1, <2>2 DEF PrunesTo
  <2>4. Dead(c.token)
    BY <1>1, <2>1, <2>3, PrunedIsDead
  <2>5. QED
    BY <1>1, <2>4, DeadIsLate
<1>3. CASE Dead(c.token)
  BY <1>1, <1>3, DeadIsLate
<1>4. QED
  BY <1>1, <1>2, <1>3 DEF AcceptedGuarded

(* replayCache.Add accepts a nonce it does not hold: the list keeps its    *)
(* suffix from m and gains the entry e at the back.                        *)
LEMMA AcceptIInv ==
  ASSUME IInv, NEW c \in calls, NEW k \in 1..(Len(order) + 1), PrunesTo(k, c.mono),
         c.token.nonce \notin KeysFrom(k),
         NEW m \in k..(Len(order) + 1), Len(order) - m + 2 <= capacity,
         NEW e \in Entry, e.key = c.token.nonce,
         c.token.issuedAt + maxSkew + Second <= e.expiresAt + maxOffset,
         order' \in Seq(Entry),
         Len(order') = Len(order) - m + 2,
         \A i \in 1..(Len(order) - m + 1) : order'[i] = order[m + i - 1],
         order'[Len(order) - m + 2] = e,
         accepted' = accepted \cup {c.token.nonce},
         evicted' = evicted \cup {order[i].key : i \in k..(m - 1)},
         reaccepted' = IF c.token.nonce \in accepted
                       THEN reaccepted \cup {[nonce |-> c.token.nonce, late |-> Late(c)]}
                       ELSE reaccepted,
         calls' = calls \ {c},
         UNCHANGED <<mono, offset, tokens, maxOffset>>
  PROVE  IInv'
<1> USE AuthAssumption DEF IInv
<1>0. Len(order) \in Nat /\ c.token \in tokens /\ c.token.nonce \in Nonces
  <2>1. TypeOK /\ CallsChecked /\ c \in calls
    OBVIOUS
  <2>2. QED
    BY ONLY <2>1 DEF TypeOK, CallsChecked, Token
<1>a. k \in 1..(Len(order) + 1) /\ m \in k..(Len(order) + 1) /\ Len(order') = Len(order) - m + 2
  OBVIOUS
<1>b. \A i \in 1..(Len(order) - m + 1) : order'[i] = order[m + i - 1]
  OBVIOUS
<1>1. \A i \in 1..(Len(order) - m + 1) : m + i - 1 \in k..Len(order) /\ m + i - 1 \in 1..Len(order)
  BY ONLY <1>0, <1>a, SuffixIndices
<1>2. \A i \in 1..Len(order') : i \in 1..(Len(order) - m + 1) \/ i = Len(order) - m + 2
  BY ONLY <1>0, <1>a, SuffixIndices
<1>3. TypeOK'
  <2>1. accepted' \subseteq Nonces /\ calls' \subseteq Call
    BY <1>0 DEF TypeOK
  <2>2. evicted' \subseteq Nonces
    <3>1. \A i \in k..(m - 1) : i \in 1..Len(order)
      BY ONLY <1>0, <1>a, SuffixIndices
    <3>2. QED
      BY <3>1, EntryFacts DEF TypeOK
  <2>3. reaccepted' \subseteq [nonce : Nonces, late : BOOLEAN]
    <3>1. [nonce |-> c.token.nonce, late |-> Late(c)] \in [nonce : Nonces, late : BOOLEAN]
      BY ONLY <1>0 DEF Late
    <3>2. QED
      BY <3>1 DEF TypeOK
  <2>4. QED
    BY <2>1, <2>2, <2>3 DEF TypeOK
<1>4. CallsChecked' /\ TokensUnique' /\ AcceptedSigned' /\ offset' <= maxOffset'
  BY <1>0 DEF CallsChecked, withinSkew, TokensUnique, AcceptedSigned
<1>5. AcceptedGuarded'
  <2> SUFFICES ASSUME NEW t \in tokens, t.nonce \in accepted'
               PROVE  t.nonce \in evicted' \/ Remembered(t)' \/ Dead(t)'
    BY DEF AcceptedGuarded, Remembered, Dead
  <2>1. CASE t.nonce = c.token.nonce
    <3>1. t = c.token
      BY <1>0, <2>1 DEF TokensUnique
    <3>2. Len(order) - m + 2 \in 1..Len(order')
      BY ONLY <1>0, <1>a, SuffixIndices
    <3>3. QED
      BY <3>1, <3>2 DEF Remembered
  <2>2. CASE t.nonce # c.token.nonce
    <3>1. t.nonce \in accepted
      BY <2>2
    <3>2. evicted \subseteq evicted' /\ \A i \in k..(m - 1) : order[i].key \in evicted'
      OBVIOUS
    <3>3. \A i \in m..Len(order) :
            i - m + 1 \in 1..Len(order)' /\ order'[i - m + 1] = order[i]
      <4>1. \A i \in m..Len(order) : /\ i - m + 1 \in 1..(Len(order) - m + 1)
                                      /\ i - m + 1 \in 1..Len(order')
                                      /\ m + (i - m + 1) - 1 = i
        BY ONLY <1>0, <1>a, SuffixIndices
      <4>2. TAKE i \in m..Len(order)
      <4>3. order'[i - m + 1] = order[m + (i - m + 1) - 1]
        BY <4>1, <1>b, Zenon
      <4>4. QED
        BY <4>1, <4>3, Zenon
    <3>4. QED
      BY <3>1, <3>2, <3>3, GuardSurvives
  <2>3. QED
    BY <2>1, <2>2
<1>6. CacheBounded'
  <2>1. \A i \in 1..(Len(order) - m + 1) : order'[i].key # c.token.nonce
    BY <1>1 DEF KeysFrom
  <2>2. \A i, j \in 1..(Len(order) - m + 1) : order'[i].key = order'[j].key => i = j
    <3> SUFFICES ASSUME NEW i \in 1..(Len(order) - m + 1), NEW j \in 1..(Len(order) - m + 1),
                        order'[i].key = order'[j].key
                 PROVE  i = j
      OBVIOUS
    <3>1. order[m + i - 1].key = order[m + j - 1].key
      OBVIOUS
    <3>2. m + i - 1 = m + j - 1
      BY <1>1, <3>1 DEF CacheBounded
    <3>3. i \in Int /\ j \in Int /\ m \in Int
      BY ONLY <1>0, <1>a, i \in 1..(Len(order) - m + 1), j \in 1..(Len(order) - m + 1)
    <3>4. QED
      BY ONLY <3>2, <3>3
  <2>3. \A i, j \in 1..Len(order') : order'[i].key = order'[j].key => i = j
    BY <1>2, <2>1, <2>2
  <2>4. QED
    BY <2>3 DEF CacheBounded
<1>7. OnlyAcceptedCached'
  <2> SUFFICES ASSUME NEW i \in 1..Len(order')
               PROVE  order'[i].key \in accepted'
    BY DEF OnlyAcceptedCached
  <2>1. CASE i \in 1..(Len(order) - m + 1)
    BY <1>1, <2>1 DEF OnlyAcceptedCached
  <2>2. QED
    BY <1>2, <2>1
<1>8. NoReplay'
  <2>1. NoReplay /\ evicted \subseteq evicted'
    OBVIOUS
  <2>2. CASE c.token.nonce \notin accepted
    BY <2>1, <2>2, Zenon DEF NoReplay
  <2>3. CASE c.token.nonce \in accepted
    <3> DEFINE r0 == [nonce |-> c.token.nonce, late |-> Late(c)]
    <3>1. reaccepted' = reaccepted \cup {r0}
      BY <2>3, Zenon
    <3>2. r0.nonce \in evicted \/ r0.late
      BY <2>3, ReacceptedExcused
    <3> HIDE DEF r0
    <3>3. QED
      BY ONLY <2>1, <3>1, <3>2 DEF NoReplay
  <2>4. QED
    BY ONLY <2>2, <2>3
<1>9. QED
  BY <1>3, <1>4, <1>5, <1>6, <1>7, <1>8

(* replayCache.Add as a whole.                                             *)
LEMMA AddIInv ==
  ASSUME IInv, NEW c \in calls, Add(c)
  PROVE  IInv'
<1>1. /\ calls' = calls \ {c}
      /\ UNCHANGED <<mono, offset, tokens, maxOffset>>
  BY DEF Add
<1>2. PICK k \in 1..(Len(order) + 1) :
        /\ PrunesTo(k, c.mono)
        /\ \/ /\ c.token.nonce \in KeysFrom(k)
              /\ order' = SubSeq(order, k, Len(order))
              /\ UNCHANGED <<accepted, reaccepted, evicted>>
           \/ /\ c.token.nonce \notin KeysFrom(k)
              /\ order' = Append(SubSeq(order, FirstKept(k), Len(order)),
                                 [key |-> c.token.nonce, expiresAt |-> c.mono + window])
              /\ accepted' = accepted \cup {c.token.nonce}
              /\ evicted' = evicted \cup {order[i].key : i \in k..(FirstKept(k) - 1)}
              /\ reaccepted' = IF c.token.nonce \in accepted
                               THEN reaccepted \cup {[nonce |-> c.token.nonce, late |-> Late(c)]}
                               ELSE reaccepted
  BY Zenon DEF Add
<1>3. CASE c.token.nonce \in KeysFrom(k)
  BY <1>1, <1>2, <1>3, RefuseIInv
<1>4. CASE c.token.nonce \notin KeysFrom(k)
  <2> DEFINE m == FirstKept(k)
             e == [key |-> c.token.nonce, expiresAt |-> c.mono + window]
  <2>1. m \in k..(Len(order) + 1) /\ Len(order) - m + 2 <= capacity
    BY FirstKeptFacts DEF IInv
  <2>2. /\ e \in Entry /\ e.key = c.token.nonce
        /\ c.token.issuedAt + maxSkew + Second <= e.expiresAt + maxOffset
    BY NewEntryFacts DEF IInv
  <2>3. /\ order' = Append(SubSeq(order, m, Len(order)), e)
        /\ accepted' = accepted \cup {c.token.nonce}
        /\ evicted' = evicted \cup {order[i].key : i \in k..(m - 1)}
        /\ reaccepted' = IF c.token.nonce \in accepted
                         THEN reaccepted \cup {[nonce |-> c.token.nonce, late |-> Late(c)]}
                         ELSE reaccepted
    BY <1>2, <1>4, Zenon
  <2> HIDE DEF m, e
  <2>4. order \in Seq(Entry) /\ m \in 1..(Len(order) + 1)
    BY <2>1 DEF IInv, TypeOK
  <2>5. /\ order' \in Seq(Entry)
        /\ Len(order') = Len(order) - m + 2
        /\ \A i \in 1..(Len(order) - m + 1) : order'[i] = order[m + i - 1]
        /\ order'[Len(order) - m + 2] = e
    <3>1. order' = Append(SubSeq(order, m, Len(order)), e) /\ e \in Entry
      BY <2>2, <2>3, Zenon
    <3>2. QED
      BY ONLY <2>4, <3>1, SuffixAppendFacts
  <2>6. QED
    BY <1>1, <1>2, <1>4, <2>1, <2>2, <2>3, <2>5, AcceptIInv
<1>5. QED
  BY <1>3, <1>4

(* IInv is an invariant of the authenticator.                              *)
THEOREM Invariance == Spec => []IInv
<1>1. Init => IInv
  BY InitIInv
<1>2. IInv /\ [Next]_vars => IInv'
  <2> SUFFICES ASSUME IInv, [Next]_vars PROVE IInv'
    OBVIOUS
  <2>1. ASSUME NEW h \in Handlers, NEW t \in tokens, NEW raw \in RawFields, Validate(h, t, raw)
        PROVE  IInv'
    BY <2>1, ValidateIInv
  <2>2. ASSUME NEW c \in calls, Add(c)
        PROVE  IInv'
    BY <2>2, AddIInv
  <2>3. QED
    BY <2>1, <2>2, EnvironmentIInv DEF Next
<1>3. QED
  BY <1>1, <1>2, PTL DEF Spec

(* Every variable of the authenticator keeps its type.                     *)
THEOREM TypeCorrect == Spec => []TypeOK
<1>1. IInv => TypeOK
  BY DEF IInv
<1>2. QED
  BY <1>1, Invariance, PTL

(* The replay cache holds at most capacity nonces, each of them once, for  *)
(* every capacity and every interleaving of Adds (auth.go:207-221).        *)
THEOREM Bounded == Spec => []CacheBounded
<1>1. IInv => CacheBounded
  BY DEF IInv
<1>2. QED
  BY <1>1, Invariance, PTL

(* No token is accepted twice unless its nonce was evicted from a full     *)
(* cache or the second request worked with a clock value a second or more  *)
(* behind: the window of 2*maxSkew + 1s (auth.go:79) is long enough.       *)
THEOREM ReplayRefused == Spec => []NoReplay
<1>1. IInv => NoReplay
  BY DEF IInv
<1>2. QED
  BY <1>1, Invariance, PTL

(* Only accepted tokens occupy the replay cache (auth.go:143-146).         *)
THEOREM CacheEarned == Spec => []OnlyAcceptedCached
<1>1. IInv => OnlyAcceptedCached
  BY DEF IInv
<1>2. QED
  BY <1>1, Invariance, PTL
=============================================================================
