------------------------------ MODULE ReplayAuth ------------------------------
(***************************************************************************)
(* The request authenticator of the HTTP/3 carrier and its bounded replay  *)
(* cache (internal/quicx/auth.go).                                         *)
(*                                                                         *)
(* Clients sign tokens; a request carries a token any number of times (a   *)
(* retry, a duplicate, a delayed copy).  A request goroutine reads the     *)
(* clock in ServeHTTP and runs the checks of Validate; only then does it   *)
(* take the lock of the cache in replayCache.Add.  The two halves are two  *)
(* actions, so that the clock value an Add works with may be older than    *)
(* that of an Add that ran before it.                                      *)
(*                                                                         *)
(* A Go time.Time read by time.Now carries a wall-clock and a monotonic    *)
(* reading.  The skew check compares with time.Unix(...), which has no     *)
(* monotonic reading, so it compares wall clocks; the cache compares two   *)
(* values derived from time.Now, so it compares monotonic clocks.          *)
(***************************************************************************)
EXTENDS Integers, Sequences, FiniteSets

CONSTANTS
  Handlers,     \* request goroutines
  Nonces,       \* the random nonces clients draw
  Names,        \* normalised (method, authority, server name) triples
  AllKeys,      \* every key some client signs with
  Keys,         \* Authenticator.keys: the keys of the server
  maxSkew,      \* Authenticator.maxSkew, in clock ticks
  Second,       \* clock ticks in one second
  capacity,     \* replayCache.capacity
  ClientTimes,  \* readings of the clients' clocks when they sign
  Offsets,      \* values of (wall clock - monotonic clock) on the server
  MaxTime       \* bound on the monotonic clock

ASSUME AuthAssumption ==
  /\ Keys \subseteq AllKeys
  /\ maxSkew \in Nat \ {0}
  /\ Second \in Nat \ {0}
  /\ capacity \in Nat \ {0}
  /\ ClientTimes \subseteq Nat
  /\ Offsets \subseteq Nat /\ Offsets # {}
  /\ MaxTime \in Nat

VARIABLES
  mono,         \* the monotonic clock of the server
  offset,       \* wall clock minus monotonic clock
  tokens,       \* tokens signed so far
  calls,        \* Validate calls between their checks and replayCache.Add
  order,        \* replayCache.order, front first (items is its index by key)
  accepted,     \* history: nonces Validate returned true for
  reaccepted,   \* history: second acceptances, with how old the clock read was
  evicted,      \* history: nonces removed because the cache was full
  maxOffset     \* history: the largest offset so far

vars == <<mono, offset, tokens, calls, order, accepted, reaccepted, evicted, maxOffset>>

Token == [nonce : Nonces, issuedAt : Nat, key : AllKeys, name : Names]
Call  == [handler : Handlers, token : Token, wall : Nat, mono : Nat]
Entry == [key : Nonces, expiresAt : Nat]

\* What a request presents beside the token: a triple in some spelling; ok is
\* false for a header that does not parse and for fields that
\* normalizeAuthFields refuses (an empty or an overlong one).
RawFields == [name : Names, spelling : {"lower", "upper"}, ok : BOOLEAN]

-----------------------------------------------------------------------------
TypeOK ==
  /\ mono \in Nat
  /\ offset \in Offsets /\ maxOffset \in Offsets
  /\ tokens \subseteq Token
  /\ calls \subseteq Call
  /\ order \in Seq(Entry)
  /\ accepted \subseteq Nonces
  /\ evicted \subseteq Nonces
  /\ reaccepted \subseteq [nonce : Nonces, late : BOOLEAN]

Init ==
  /\ mono = 0
  /\ offset \in Offsets /\ maxOffset = offset
  /\ tokens = {} /\ calls = {} /\ order = <<>>
  /\ accepted = {} /\ reaccepted = {} /\ evicted = {}

-----------------------------------------------------------------------------
(* Time passes, and the wall clock may be stepped (NTP, an administrator). *)
Tick ==
  /\ mono < MaxTime
  /\ mono' = mono + 1
  /\ UNCHANGED <<offset, tokens, calls, order, accepted, reaccepted, evicted, maxOffset>>

StepWallClock(o) ==
  /\ offset' = o
  /\ maxOffset' = IF o > maxOffset THEN o ELSE maxOffset
  /\ UNCHANGED <<mono, tokens, calls, order, accepted, reaccepted, evicted>>

(* Sign: the timestamp is now.Unix(), so fractions of a second are cut off; *)
(* the nonce is random and taken to be fresh.                              *)
Sign(n, k, name, now) ==
  /\ \A t \in tokens : t.nonce # n
  /\ tokens' = tokens \cup
       {[nonce |-> n, issuedAt |-> (now \div Second) * Second, key |-> k, name |-> name]}
  /\ UNCHANGED <<mono, offset, calls, order, accepted, reaccepted, evicted, maxOffset>>

-----------------------------------------------------------------------------
withinSkew(t, wall) == t.issuedAt >= wall - maxSkew /\ t.issuedAt <= wall + maxSkew

normalizeAuthFields(raw) == raw.name

\* What the MAC covers.  The fields are length-prefixed, so that different
\* fields never give the same bytes.
canonicalAuthInput(t, name) == <<t.issuedAt, t.nonce, name>>

\* HMAC-SHA-256, taken to be injective: only its key and its input give it.
hmac(key, input) == <<key, input>>

\* The token's MAC is the one of some server key over the presented fields.
macMatches(t, name) ==
  \E key \in Keys : hmac(key, canonicalAuthInput(t, name))
                      = hmac(t.key, canonicalAuthInput(t, t.name))

\* Mutant of Validate: the nonce is recorded before the MAC is compared.
ValidateRecordsFirst(h, t, raw) ==
  LET wall == mono + offset IN
  /\ \A c \in calls : c.handler # h
  /\ IF withinSkew(t, wall) /\ raw.ok
     THEN order' = Append(order, [key |-> t.nonce, expiresAt |-> mono + 2 * maxSkew + Second])
     ELSE UNCHANGED order
  /\ UNCHANGED <<mono, offset, tokens, calls, accepted, reaccepted, evicted, maxOffset>>

(* ServeHTTP reads the clock and Validate runs every check before the cache. *)
(* A request that fails one is unauthenticated and leaves no trace.        *)
Validate(h, t, raw) ==
  LET wall == mono + offset IN
  /\ \A c \in calls : c.handler # h
  /\ IF withinSkew(t, wall) /\ raw.ok /\ macMatches(t, normalizeAuthFields(raw))
     THEN calls' = calls \cup {[handler |-> h, token |-> t, wall |-> wall, mono |-> mono]}
     ELSE UNCHANGED calls
  /\ UNCHANGED <<mono, offset, tokens, order, accepted, reaccepted, evicted, maxOffset>>

-----------------------------------------------------------------------------
\* Mutants of window: one that expires with the token, one of the wrong sign.
windowWithoutMargin == 2 * maxSkew
windowNegated == -(2 * maxSkew + Second)
window == 2 * maxSkew + Second

\* pruneExpired stops at the first entry that has not expired: entry k.
PrunesTo(k, now) ==
  /\ \A i \in 1..(k - 1) : order[i].expiresAt <= now
  /\ k <= Len(order) => order[k].expiresAt > now

\* Mutant of FirstKept: the loop condition is > instead of >=.
FirstKeptOffByOne(k) ==
  IF Len(order) - k + 1 > capacity THEN Len(order) - capacity + 1 ELSE k
\* The first entry that the eviction loop leaves when k..Len(order) are live.
FirstKept(k) ==
  IF Len(order) - k + 1 >= capacity THEN Len(order) - capacity + 2 ELSE k

KeysFrom(k) == {order[i].key : i \in k..Len(order)}

\* The clock value the call works with is a second or more behind.
Late(c) == c.wall + Second <= mono + maxOffset

(* replayCache.Add, under the lock of the cache, with the clock of the call. *)
Add(c) ==
  LET n == c.token.nonce IN
  /\ calls' = calls \ {c}
  /\ \E k \in 1..(Len(order) + 1) :
       /\ PrunesTo(k, c.mono)
       /\ \/ /\ n \in KeysFrom(k)
             /\ order' = SubSeq(order, k, Len(order))
             /\ UNCHANGED <<accepted, reaccepted, evicted>>
          \/ /\ n \notin KeysFrom(k)
             /\ order' = Append(SubSeq(order, FirstKept(k), Len(order)),
                                [key |-> n, expiresAt |-> c.mono + window])
             /\ accepted' = accepted \cup {n}
             /\ evicted' = evicted \cup {order[i].key : i \in k..(FirstKept(k) - 1)}
             /\ reaccepted' = IF n \in accepted
                              THEN reaccepted \cup {[nonce |-> n, late |-> Late(c)]}
                              ELSE reaccepted
  /\ UNCHANGED <<mono, offset, tokens, maxOffset>>

Next ==
  \/ Tick
  \/ \E o \in Offsets : StepWallClock(o)
  \/ \E n \in Nonces, k \in AllKeys, name \in Names, now \in ClientTimes : Sign(n, k, name, now)
  \/ \E h \in Handlers, t \in tokens, raw \in RawFields : Validate(h, t, raw)
  \/ \E c \in calls : Add(c)

Spec == Init /\ [][Next]_vars

-----------------------------------------------------------------------------
(* The cache never holds more than its capacity (auth.go:215), and never   *)
(* one nonce twice, so that the map and the list stay in step.             *)
CacheBounded ==
  /\ Len(order) <= capacity
  /\ \A i, j \in 1..Len(order) : order[i].key = order[j].key => i = j

(* A token is accepted a second time only if its nonce was pushed out of a *)
(* full cache, or the request worked with a clock value at least a second  *)
(* behind: it was held up for that long between reading the clock and      *)
(* taking the lock, or the wall clock was set back.  Expiry alone never    *)
(* reopens a token, however Adds with older clock values interleave.       *)
NoReplay == \A r \in reaccepted : r.nonce \in evicted \/ r.late

(* Only an accepted token occupies the cache: requests that fail a check   *)
(* neither fill it nor burn the nonce of the rightful client.              *)
OnlyAcceptedCached == \A i \in 1..Len(order) : order[i].key \in accepted
=============================================================================
