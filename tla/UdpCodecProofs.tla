---------------------------- MODULE UdpCodecProofs ----------------------------
(* Safety of UdpCodec, for every set of packets and frames, every number of *)
(* readers and all limits.                                                 *)
EXTENDS UdpCodec, FiniteSetTheorems, WellFoundedInduction, TLAPS

Byte == (Packets \X Nat) \cup StrayBytes
Frame == [version : Nat, seq : 0..MaxSeq, index : Nat, count : Nat, payload : Seq(Byte)]
Assembly == [count : 1..MaxCount, parts : Seq(Seq(Byte)), received : Nat, total : Nat,
             expiresAt : Nat]

\* What an assembly says of its parts is true of them.
Exact(a) ==
  /\ a \in Assembly /\ Len(a.parts) = a.count
  /\ a.received = Cardinality({i \in 1..a.count : a.parts[i] # Nil})
  /\ a.total = Len(joined(a.parts)) /\ a.total <= DecoderMax

Table(t) ==
  /\ t = [s \in DOMAIN t |-> t[s]] /\ DOMAIN t \subseteq 0..MaxSeq
  /\ Cardinality(DOMAIN t) <= MaxAssemblies
  /\ \A s \in DOMAIN t : Exact(t[s]) /\ t[s].received < t[s].count

\* The frames that a reader has taken from the network and not decoded yet.
Held == {readers[r].frame : r \in {q \in Readers : readers[q] # Idle}}

TypeInv ==
  /\ clock \in Nat /\ nextSeq \in 0..MaxSeq /\ exhausted \in BOOLEAN
  /\ net \subseteq Frame /\ decoded \subseteq Frame
  /\ readers \in [Readers -> {Idle} \cup [frame : {f \in Frame : wellFormed(f)}, now : Nat]]
  /\ sent \subseteq Data /\ delivered \in Seq(Seq(Byte))
  /\ failed \in BOOLEAN /\ dropped \subseteq 0..MaxSeq
  /\ Table(pending)

\* The sequence numbers the encoder has used, and whether they are its alone.
Used == {s \in 0..MaxSeq : s < nextSeq \/ (s = nextSeq /\ exhausted)}
Apart == \A f \in Stray : f.seq \notin Used

(* Where frames and assemblies come from, when src[s] is the packet that   *)
(* was sent with sequence s: from that packet if s was used, and from      *)
(* elsewhere if not.                                                       *)
Origin(f, src, used) ==
  IF f.seq \in used THEN f \in frames(bytes(src[f.seq]), f.seq) ELSE f \in Stray
Pieced(a, s, src, used) ==
  IF s \in used
  THEN /\ a.count = count(bytes(src[s]))
       /\ \A i \in 1..a.count : a.parts[i] \in {Nil, chunk(bytes(src[s]), i - 1)}
  ELSE a.parts \in Seq(Seq(StrayBytes)) /\ \E f \in Stray : f.seq = s

Numbered(src) ==
  /\ src \in [Used -> Packets] /\ sent = {bytes(src[s]) : s \in Used}
  /\ \A s, u \in Used : src[s] = src[u] => s = u
  /\ \A s \in Used : Size[src[s]] \in 1..EncoderMax /\ count(bytes(src[s])) <= MaxCount
Coded(src) ==
  /\ Numbered(src)
  /\ \A f \in net \cup Held \cup decoded : Origin(f, src, Used)
  /\ \A s \in DOMAIN pending : Pieced(pending[s], s, src, Used)
  /\ \A i \in 1..Len(delivered) : delivered[i] \in sent \/ delivered[i] \in Seq(StrayBytes)

(* Without duplicates a frame is in one place: in flight, with one reader, *)
(* or decoded; parts are decoded frames; and what was returned has no      *)
(* frame left.                                                             *)
OnePlace ==
  /\ net \cap Held = {} /\ net \cap decoded = {} /\ Held \cap decoded = {}
  /\ \A q, r \in Readers :
       readers[q] # Idle /\ readers[r] # Idle /\ readers[q].frame = readers[r].frame => q = r
Spent(src) ==
  /\ \A s \in DOMAIN pending : \A i \in 1..pending[s].count :
       pending[s].parts[i] # Nil => \E f \in decoded : f.seq = s /\ f.index = i - 1
  /\ \A s \in Used : \A i \in 1..Len(delivered) :
       delivered[i] = bytes(src[s]) => frames(bytes(src[s]), s) \subseteq decoded

\* A decoded frame was given up with its assembly, is in it, or was returned.
Kept(src) ==
  /\ ~failed
  /\ \A f \in decoded :
       \/ f.seq \in dropped
       \/ f.seq \in DOMAIN pending /\ pending[f.seq].parts[f.index + 1] # Nil
       \/ \E i \in 1..Len(delivered) : delivered[i] = bytes(src[f.seq])

OwnFramesOnce == Stray = {} /\ ~Duplicates
OwnFramesFit == Stray = {} /\ EncoderMax <= DecoderMax

(* The inductive invariant.                                                *)
Traced(src) ==
  /\ Coded(src)
  /\ OwnFramesOnce => OnePlace /\ Spent(src)
  /\ OwnFramesFit => Kept(src)
IInv == TypeInv /\ (Apart => \E src \in [Used -> Packets] : Traced(src))

-----------------------------------------------------------------------------
\* A set of numbers that is not empty has a least one.
LEMMA Least ==
  ASSUME NEW T \in SUBSET Nat, T # {}
  PROVE  \E x \in T : \A y \in T : x <= y
<1>1. \E x \in T : \A y \in T : <<y, x>> \notin OpToRel(<, Nat)
  BY NatLessThanWellFounded, WFMin, Zenon
<1>2. \A x, y \in Nat : y < x => <<y, x>> \in OpToRel(<, Nat)
  BY Zenon DEF OpToRel
<1>3. \E x \in T : \A y \in T : ~(y < x)
  BY <1>1, <1>2, Zenon
<1> QED BY <1>3

\* Induction: a set that holds 0 and with every number its successor holds all.
LEMMA NatSet ==
  ASSUME NEW S, 0 \in S, \A n \in Nat : n \in S => n + 1 \in S
  PROVE  Nat \subseteq S
<1> SUFFICES ASSUME Nat \ S # {} PROVE FALSE
  OBVIOUS
<1>1. PICK x \in Nat \ S : \A y \in Nat \ S : x <= y
  BY Least, Zenon
<1>2. x # 0 /\ x - 1 \in Nat /\ x - 1 \in S
  BY <1>1
<1> QED BY <1>1, <1>2

-----------------------------------------------------------------------------
\* g[i] is what the first i parts make when they are put together.
Joins(g, parts) ==
  g[0] = <<>> /\ \A i \in 0..(Len(parts) - 1) : g[i + 1] = g[i] \o parts[i + 1]

\* The parts can be put together one by one, and joined, the loop of Decode, is
\* the last of what they make.
LEMMA Joined ==
  ASSUME NEW B, NEW parts \in Seq(Seq(B))
  PROVE  \E g \in [0..Len(parts) -> Seq(B)] :
           Joins(g, parts) /\ joined(parts) = g[Len(parts)]
<1> DEFINE n == Len(parts)
           G(g, m) == g[0] = <<>> /\ \A i \in 0..(m - 1) : g[i + 1] = g[i] \o parts[i + 1]
           S == {m \in Nat : m <= n => \E g \in [0..m -> Seq(B)] : G(g, m)}
<1>n. n \in Nat /\ \A i \in 1..n : parts[i] \in Seq(B)
  OBVIOUS
<1>1. 0 \in S
  <2>1. [i \in 0..0 |-> <<>>] \in [0..0 -> Seq(B)] /\ G([i \in 0..0 |-> <<>>], 0)
    OBVIOUS
  <2> QED BY <2>1, Zenon
<1>2. ASSUME NEW m \in Nat, m \in S PROVE m + 1 \in S
  <2> HIDE DEF G
  <2> SUFFICES ASSUME m + 1 <= n PROVE \E g \in [0..(m + 1) -> Seq(B)] : G(g, m + 1)
    OBVIOUS
  <2>1. PICK g \in [0..m -> Seq(B)] : G(g, m)
    BY <1>2, <1>n
  <2> DEFINE last == g[m] \o parts[m + 1]
             h == [i \in 0..(m + 1) |-> IF i <= m THEN g[i] ELSE last]
  <2>2. last \in Seq(B)
    BY <1>n
  <2>3. h \in [0..(m + 1) -> Seq(B)] /\ h[0] = <<>>
    BY <2>1, <2>2 DEF G
  <2>4. ASSUME NEW i \in 0..m PROVE h[i + 1] = h[i] \o parts[i + 1]
    <3>1. CASE i < m
      <4>1. i \in 0..(m - 1) /\ h[i + 1] = g[i + 1] /\ h[i] = g[i]
        BY <3>1
      <4> QED BY <2>1, <4>1, Zenon DEF G
    <3>2. CASE i = m
      <4>1. h[i + 1] = last /\ h[i] = g[m] /\ parts[i + 1] = parts[m + 1]
        BY <3>2
      <4> QED BY <4>1, Zenon
    <3>3. i < m \/ i = m
      OBVIOUS
    <3> QED BY <3>1, <3>2, <3>3, Zenon
  <2>5. (m + 1) - 1 = m
    OBVIOUS
  <2> HIDE DEF h
  <2> QED BY <2>3, <2>4, <2>5, Zenon DEF G
<1>3. n \in S
  <2> HIDE DEF S
  <2> QED BY <1>1, <1>2, <1>n, NatSet, Zenon
<1>4. PICK g \in [0..n -> Seq(B)] : G(g, n)
  <2> HIDE DEF G
  <2> QED BY <1>3, <1>n
<1> DEFINE F(h) == h = [i \in 0..n |-> IF i = 0 THEN <<>> ELSE h[i - 1] \o parts[i]]
           flat == CHOOSE h : F(h)
<1>5. F(g)
  <2>1. ASSUME NEW i \in 0..n PROVE g[i] = IF i = 0 THEN <<>> ELSE g[i - 1] \o parts[i]
    <3>1. CASE i = 0
      BY <1>4, <3>1
    <3>2. CASE i # 0
      <4>1. i - 1 \in 0..(n - 1) /\ (i - 1) + 1 = i
        BY <1>n, <3>2
      <4>2. g[(i - 1) + 1] = g[i - 1] \o parts[(i - 1) + 1]
        BY <1>4, <4>1, Zenon
      <4> QED BY <3>2, <4>1, <4>2, Zenon
    <3> QED BY <3>1, <3>2, Zenon
  <2> QED BY <2>1, Zenon
<1>6. F(flat)
  <2> HIDE DEF F
  <2> QED BY <1>5, Zenon
<1>7. joined(parts) = flat[n]
  BY Zenon DEF joined
<1>8. Joins(flat, parts)
  <2> HIDE DEF flat
  <2>1. flat[0] = <<>>
    BY <1>6, <1>n
  <2>2. ASSUME NEW i \in 0..(n - 1) PROVE flat[i + 1] = flat[i] \o parts[i + 1]
    <3>1. i + 1 \in 0..n /\ i + 1 # 0 /\ (i + 1) - 1 = i
      BY <1>n
    <3> QED BY <1>6, <3>1, Zenon
  <2> QED BY <2>1, <2>2 DEF Joins
<1>9. flat \in [0..n -> Seq(B)]
  <2> DEFINE T == {m \in Nat : m <= n => flat[m] \in Seq(B)}
  <2> HIDE DEF flat
  <2>1. 0 \in T
    <3>1. flat[0] = <<>> /\ <<>> \in Seq(B)
      BY <1>8 DEF Joins
    <3> QED BY <3>1, Zenon
  <2>2. ASSUME NEW m \in Nat, m \in T PROVE m + 1 \in T
    <3> SUFFICES ASSUME m + 1 <= n PROVE flat[m + 1] \in Seq(B)
      OBVIOUS
    <3>1. m \in 0..(n - 1) /\ flat[m] \in Seq(B) /\ parts[m + 1] \in Seq(B)
      BY <1>n, <2>2
    <3>2. flat[m + 1] = flat[m] \o parts[m + 1]
      BY <1>8, <3>1, Zenon DEF Joins
    <3> QED BY <3>1, <3>2
  <2>3. Nat \subseteq T
    <3> HIDE DEF T
    <3> QED BY <2>1, <2>2, NatSet
  <2>4. \A i \in 0..n : flat[i] \in Seq(B)
    BY <1>n, <2>3
  <2>5. flat = [i \in 0..n |-> flat[i]]
    BY <1>6
  <2> QED BY <2>4, <2>5
<1> HIDE DEF flat
<1> QED BY <1>7, <1>8, <1>9

\* The bytes of what the parts make are bytes of the parts.
LEMMA JoinedType ==
  ASSUME NEW B, NEW parts \in Seq(Seq(B))
  PROVE  joined(parts) \in Seq(B)
<1>1. PICK g \in [0..Len(parts) -> Seq(B)] : joined(parts) = g[Len(parts)]
  BY Joined
<1> QED BY <1>1

\* Nothing but missing parts makes nothing: the total of a new assembly.
LEMMA JoinedNothing ==
  ASSUME NEW n \in Nat
  PROVE  Len(joined([i \in 1..n |-> <<>>])) = 0
<1> DEFINE parts == [i \in 1..n |-> <<>>]
<1>1. parts \in Seq(Seq({}))
  OBVIOUS
<1> HIDE DEF parts
<1>2. joined(parts) \in Seq({})
  BY <1>1, JoinedType
<1>3. \A s \in Seq({}) : Len(s) = 0
  OBVIOUS
<1> QED BY <1>2, <1>3 DEF parts

\* L[i] is the sum of the first i numbers of a.
Sums(L, a, n) ==
  /\ L \in [0..n -> Nat] /\ a \in [1..n -> Nat] /\ L[0] = 0
  /\ \A i \in 0..(n - 1) : L[i + 1] = L[i] + a[i + 1]

\* The length of what the parts make is the sum of their lengths.
LEMMA JoinedLength ==
  ASSUME NEW B, NEW parts \in Seq(Seq(B))
  PROVE  \E L :
           /\ Sums(L, [i \in 1..Len(parts) |-> Len(parts[i])], Len(parts))
           /\ Len(joined(parts)) = L[Len(parts)]
<1>1. PICK g \in [0..Len(parts) -> Seq(B)] :
        Joins(g, parts) /\ joined(parts) = g[Len(parts)]
  BY Joined
<1> DEFINE n == Len(parts)
           L == [i \in 0..n |-> Len(g[i])]
           a == [i \in 1..n |-> Len(parts[i])]
<1>2. L \in [0..n -> Nat] /\ a \in [1..n -> Nat] /\ Len(joined(parts)) = L[n] /\ n \in Nat
  BY <1>1
<1>3. L[0] = 0
  BY <1>1, <1>2 DEF Joins
<1>4. ASSUME NEW i \in 0..(n - 1) PROVE L[i + 1] = L[i] + a[i + 1]
  <2>1. g[i + 1] = g[i] \o parts[i + 1]
    BY <1>1, Zenon DEF Joins
  <2>2. g[i] \in Seq(B) /\ parts[i + 1] \in Seq(B)
    <3>1. i \in 0..n /\ i + 1 \in 1..n
      BY <1>2
    <3>2. \A k \in 1..n : parts[k] \in Seq(B)
      OBVIOUS
    <3> QED BY <3>1, <3>2, Zenon
  <2>3. L[i + 1] = Len(g[i + 1]) /\ L[i] = Len(g[i]) /\ a[i + 1] = Len(parts[i + 1])
    BY <1>2
  <2> HIDE DEF L, a
  <2> QED BY <2>1, <2>2, <2>3
<1>5. Sums(L, a, n)
  BY <1>2, <1>3, <1>4, Zenon DEF Sums
<1> QED
  <2> HIDE DEF L
  <2> QED BY <1>2, <1>5, Zenon

\* No number of a is larger than that of b; only the k-th differs, by d.
Below(a, b, n) == \A i \in 1..n : a[i] <= b[i]
Raised(a, b, n, k, d) == \A i \in 1..n : b[i] = a[i] + (IF i = k THEN d ELSE 0)

\* Where no term is larger, no sum is.
LEMMA SumsBound ==
  ASSUME NEW n \in Nat, NEW L, NEW M, NEW a, NEW b,
         Sums(L, a, n), Sums(M, b, n), Below(a, b, n)
  PROVE  L[n] <= M[n]
<1> DEFINE T == {m \in Nat : m <= n => L[m] <= M[m]}
<1>1. 0 \in T
  BY DEF Sums
<1>2. ASSUME NEW m \in Nat, m \in T PROVE m + 1 \in T
  <2> SUFFICES ASSUME m + 1 <= n PROVE L[m + 1] <= M[m + 1]
    OBVIOUS
  <2>1. m \in 0..(n - 1) /\ m + 1 \in 1..n /\ m \in 0..n /\ L[m] <= M[m]
    BY <1>2
  <2>2. L[m + 1] = L[m] + a[m + 1] /\ M[m + 1] = M[m] + b[m + 1]
    BY <2>1, Zenon DEF Sums
  <2>3. L[m] \in Nat /\ M[m] \in Nat /\ a[m + 1] \in Nat /\ b[m + 1] \in Nat
    BY <2>1 DEF Sums
  <2>4. a[m + 1] <= b[m + 1]
    BY <2>1, Zenon DEF Below
  <2>5. \A x, y, u, w \in Nat : x <= y /\ u <= w => x + u <= y + w
    OBVIOUS
  <2> QED BY <2>1, <2>2, <2>3, <2>4, <2>5, Zenon
<1>3. n \in T
  <2> HIDE DEF T
  <2> QED BY <1>1, <1>2, NatSet
<1> QED BY <1>3

\* Where one term is larger by d, so is the sum.
LEMMA SumsDiffer ==
  ASSUME NEW n \in Nat, NEW L, NEW M, NEW a, NEW b, NEW k \in 1..n, NEW d \in Nat,
         Sums(L, a, n), Sums(M, b, n), Raised(a, b, n, k, d)
  PROVE  M[n] = L[n] + d
<1> DEFINE more(m) == IF m < k THEN 0 ELSE d
           T == {m \in Nat : m <= n => M[m] = L[m] + more(m)}
<1>1. 0 \in T
  BY DEF Sums
<1>2. ASSUME NEW m \in Nat, m \in T PROVE m + 1 \in T
  <2> SUFFICES ASSUME m + 1 <= n PROVE M[m + 1] = L[m + 1] + more(m + 1)
    OBVIOUS
  <2>1. m \in 0..(n - 1) /\ m + 1 \in 1..n /\ m \in 0..n /\ M[m] = L[m] + more(m)
    BY <1>2
  <2>2. L[m + 1] = L[m] + a[m + 1] /\ M[m + 1] = M[m] + b[m + 1]
    BY <2>1, Zenon DEF Sums
  <2>3. L[m] \in Nat /\ a[m + 1] \in Nat
    BY <2>1 DEF Sums
  <2>4. b[m + 1] = a[m + 1] + (IF m + 1 = k THEN d ELSE 0)
    BY <2>1, Zenon DEF Raised
  <2>5. \A x, u \in Nat : (x + more(m)) + (u + (IF m + 1 = k THEN d ELSE 0)) = (x + u) + more(m + 1)
    OBVIOUS
  <2>6. M[m + 1] = (L[m] + more(m)) + (a[m + 1] + (IF m + 1 = k THEN d ELSE 0))
    BY <2>1, <2>2, <2>4, Zenon
  <2> HIDE DEF more
  <2>7. M[m + 1] = (L[m] + a[m + 1]) + more(m + 1)
    BY <2>3, <2>5, <2>6, Zenon
  <2> QED BY <2>2, <2>7, Zenon
<1>3. n \in T
  <2> HIDE DEF T
  <2> QED BY <1>1, <1>2, NatSet
<1> QED BY <1>3

\* A part that was missing adds its own length: the total Decode keeps.
LEMMA JoinedStore ==
  ASSUME NEW B, NEW parts \in Seq(Seq(B)), NEW k \in 1..Len(parts), NEW v \in Seq(B),
         parts[k] = <<>>
  PROVE  Len(joined([parts EXCEPT ![k] = v])) = Len(joined(parts)) + Len(v)
<1> DEFINE n == Len(parts)
           more == [parts EXCEPT ![k] = v]
           a == [i \in 1..n |-> Len(parts[i])]
           b == [i \in 1..n |-> Len(more[i])]
<1>1. n \in Nat \ {0} /\ more \in Seq(Seq(B)) /\ Len(more) = n
  OBVIOUS
<1>2. a \in [1..n -> Nat] /\ b \in [1..n -> Nat] /\ Len(v) \in Nat
  BY <1>1
<1>3. ASSUME NEW i \in 1..n PROVE b[i] = a[i] + (IF i = k THEN Len(v) ELSE 0)
  <2>1. b[i] = Len(IF i = k THEN v ELSE parts[i]) /\ a[i] = Len(parts[i])
    OBVIOUS
  <2>2. Len(parts[i]) \in Nat /\ Len(parts[k]) = 0
    OBVIOUS
  <2> HIDE DEF a, b
  <2>3. CASE i = k
    BY <1>2, <2>1, <2>2, <2>3
  <2>4. CASE i # k
    BY <1>2, <2>1, <2>2, <2>4
  <2> QED BY <2>3, <2>4
<1> HIDE DEF more
<1>4. PICK L : Sums(L, a, n) /\ Len(joined(parts)) = L[n]
  BY <1>1, JoinedLength, Zenon
<1>5. PICK M : Sums(M, b, n) /\ Len(joined(more)) = M[n]
  BY <1>1, JoinedLength, Zenon
<1>6. M[n] = L[n] + Len(v)
  <2>1. k \in 1..n /\ Raised(a, b, n, k, Len(v))
    BY <1>3, Zenon DEF Raised
  <2> HIDE DEF a, b, n
  <2>2. n \in Nat /\ Len(v) \in Nat
    BY <1>1, <1>2, Zenon
  <2>3. Sums(L, a, n) /\ Sums(M, b, n)
    BY <1>4, <1>5, Zenon
  <2> QED BY <2>1, <2>2, <2>3, SumsDiffer
<1> QED BY <1>4, <1>5, <1>6 DEF more

-----------------------------------------------------------------------------
\* Rounding up: so many pieces of size p are needed for x bytes, and no fewer.
LEMMA RoundUp ==
  ASSUME NEW x \in Nat \ {0}, NEW p \in Nat \ {0}
  PROVE  /\ (x + p - 1) \div p \in Nat \ {0}
         /\ ((x + p - 1) \div p - 1) * p < x
         /\ x <= ((x + p - 1) \div p) * p
OBVIOUS

\* The positions of the pieces.
LEMMA Pieces ==
  ASSUME NEW p \in Nat \ {0}, NEW n \in Nat \ {0}, NEW i \in 0..(n - 1)
  PROVE  /\ i * p \in Nat /\ (i + 1) * p = i * p + p
         /\ i * p <= (n - 1) * p /\ (n - 1) * p + p = n * p
         /\ (i # n - 1 => (i + 1) * p <= (n - 1) * p)
OBVIOUS

\* Where the bytes of a packet before its i-th fragment end.
upTo(packet, i) == IF i * PayloadSize < Len(packet) THEN i * PayloadSize ELSE Len(packet)

\* A packet of n fragments: they are not empty, not larger than a datagram, and
\* each starts where the one before ends (the loop of Encode).
LEMMA ChunkFacts ==
  ASSUME NEW B, NEW packet \in Seq(B), Len(packet) # 0
  PROVE  /\ count(packet) \in Nat \ {0}
         /\ upTo(packet, count(packet)) = Len(packet)
         /\ \A i \in 0..(count(packet) - 1) :
              /\ chunk(packet, i) \in Seq(B)
              /\ Len(chunk(packet, i)) \in 1..PayloadSize
              /\ i * PayloadSize = upTo(packet, i)
              /\ chunk(packet, i) = SubSeq(packet, upTo(packet, i) + 1, upTo(packet, i + 1))
              /\ 0 <= upTo(packet, i) /\ upTo(packet, i) < upTo(packet, i + 1)
              /\ upTo(packet, i + 1) <= Len(packet)
<1> DEFINE x == Len(packet)
           p == PayloadSize
           n == count(packet)
<1>1. x \in Nat \ {0} /\ p \in Nat \ {0}
  BY CodecAssumption
<1>2. n \in Nat \ {0} /\ (n - 1) * p < x /\ x <= n * p
  BY <1>1, RoundUp DEF count
<1>3. n * p \in Nat /\ (n - 1) * p \in Nat
  BY <1>1, <1>2
<1>4. upTo(packet, n) = x
  <2> HIDE DEF n, p
  <2> QED BY <1>1, <1>2, <1>3 DEF upTo, p
<1>5. ASSUME NEW i \in 0..(n - 1)
      PROVE  /\ chunk(packet, i) \in Seq(B)
             /\ Len(chunk(packet, i)) \in 1..p
             /\ i * p = upTo(packet, i)
             /\ chunk(packet, i) = SubSeq(packet, upTo(packet, i) + 1, upTo(packet, i + 1))
             /\ 0 <= upTo(packet, i) /\ upTo(packet, i) < upTo(packet, i + 1)
             /\ upTo(packet, i + 1) <= x
  <2>1. /\ i * p \in Nat /\ (i + 1) * p = i * p + p
        /\ i * p <= (n - 1) * p
    <3> HIDE DEF n, p
    <3> QED BY <1>1, <1>2, Pieces
  <2>2. i * p < x
    BY <1>1, <1>3, <1>2, <2>1
  <2>3. upTo(packet, i) = i * p
    BY <2>2 DEF upTo
  <2> DEFINE e == upTo(packet, i + 1)
  <2>4. e = IF i * p + p < x THEN i * p + p ELSE x
    BY <2>1 DEF upTo
  <2>5. chunk(packet, i) = SubSeq(packet, i * p + 1, e)
    BY DEF chunk, upTo
  <2>6. \A o \in Nat : o < x => LET f == IF o + p < x THEN o + p ELSE x IN
          /\ SubSeq(packet, o + 1, f) \in Seq(B)
          /\ Len(SubSeq(packet, o + 1, f)) \in 1..p
          /\ o < f /\ f <= x
    BY <1>1
  <2> HIDE DEF e, p, x
  <2> QED BY <2>1, <2>2, <2>3, <2>4, <2>5, <2>6 DEF e
<1> QED BY <1>2, <1>4, <1>5

\* Neighbouring pieces of a sequence make the piece they cover.
LEMMA JoinPieces ==
  ASSUME NEW B, NEW s \in Seq(B), NEW i \in Nat, NEW j \in Nat, i <= j, j <= Len(s)
  PROVE  SubSeq(s, 1, i) \o SubSeq(s, i + 1, j) = SubSeq(s, 1, j)
<1> DEFINE u == SubSeq(s, 1, i)
           v == SubSeq(s, i + 1, j)
           w == SubSeq(s, 1, j)
<1>1. /\ u \in Seq(B) /\ Len(u) = i /\ \A k \in 1..i : u[k] = s[k]
      /\ v \in Seq(B) /\ Len(v) = j - i /\ \A k \in 1..(j - i) : v[k] = s[i + k]
      /\ w \in Seq(B) /\ Len(w) = j /\ \A k \in 1..j : w[k] = s[k]
  <2>1. u \in Seq(B) /\ Len(u) = i /\ \A k \in 1..i : u[k] = s[k]
    OBVIOUS
  <2>2. v \in Seq(B) /\ Len(v) = j - i /\ \A k \in 1..(j - i) : v[k] = s[i + k]
    OBVIOUS
  <2>3. w \in Seq(B) /\ Len(w) = j /\ \A k \in 1..j : w[k] = s[k]
    OBVIOUS
  <2> HIDE DEF u, v, w
  <2> QED BY <2>1, <2>2, <2>3, Zenon
<1> HIDE DEF u, v, w
<1>2. u \o v \in Seq(B) /\ Len(u \o v) = j
  <2>1. u \o v \in Seq(B) /\ Len(u \o v) = Len(u) + Len(v)
    <3>1. \A x, y \in Seq(B) : x \o y \in Seq(B) /\ Len(x \o y) = Len(x) + Len(y)
      OBVIOUS
    <3> QED BY <1>1, <3>1, Zenon
  <2> QED BY <1>1, <2>1
<1>3. ASSUME NEW k \in 1..j PROVE (u \o v)[k] = w[k]
  <2>1. (u \o v)[k] = IF k <= Len(u) THEN u[k] ELSE v[k - Len(u)]
    <3>1. k \in 1..(Len(u) + Len(v))
      BY <1>1
    <3> QED BY <1>1, <3>1
  <2>2. CASE k <= i
    <3>1. k \in 1..i
      BY <2>2
    <3>2. u[k] = s[k] /\ w[k] = s[k] /\ Len(u) = i
      BY <1>1, <3>1, Zenon
    <3> QED BY <2>1, <2>2, <3>2
  <2>3. CASE k > i
    <3>1. k - i \in 1..(j - i) /\ i + (k - i) = k
      BY <2>3
    <3>2. v[k - i] = s[k]
      BY <1>1, <3>1
    <3> QED BY <1>1, <2>1, <2>3, <3>2
  <2>4. k <= i \/ k > i
    OBVIOUS
  <2> QED BY <2>2, <2>3, <2>4, Zenon
<1> QED BY <1>1, <1>2, <1>3 DEF u, v, w

\* All the fragments of a packet, in the order of their indexes, make the packet:
\* what Encode took apart, Decode puts together.
LEMMA JoinedChunks ==
  ASSUME NEW B, NEW packet \in Seq(B), Len(packet) # 0,
         NEW parts \in Seq(Seq(B)), Len(parts) = count(packet),
         \A i \in 1..count(packet) : parts[i] = chunk(packet, i - 1)
  PROVE  joined(parts) = packet
<1> DEFINE n == count(packet)
           U(m) == SubSeq(packet, 1, upTo(packet, m))
<1>1. n \in Nat \ {0} /\ upTo(packet, n) = Len(packet) /\ Len(packet) \in Nat
  BY ChunkFacts
<1>2. PICK g \in [0..n -> Seq(B)] : Joins(g, parts) /\ joined(parts) = g[n]
  BY Joined
<1>3. PayloadSize \in Nat \ {0} /\ \A i \in Nat : i * PayloadSize \in Nat
  <2>1. PayloadSize \in Nat \ {0}
    BY CodecAssumption
  <2> QED BY <2>1
<1> DEFINE T == {m \in Nat : m <= n => g[m] = U(m)}
<1>4. 0 \in T
  <2>1. upTo(packet, 0) = 0
    BY <1>1, <1>3 DEF upTo
  <2>2. g[0] = <<>> /\ SubSeq(packet, 1, 0) = <<>>
    BY <1>2 DEF Joins
  <2> QED BY <2>1, <2>2
<1>5. ASSUME NEW m \in Nat, m \in T PROVE m + 1 \in T
  <2> SUFFICES ASSUME m + 1 <= n PROVE g[m + 1] = U(m + 1)
    OBVIOUS
  <2>1. m \in 0..(n - 1) /\ m + 1 \in 1..n /\ (m + 1) - 1 = m /\ g[m] = U(m)
    BY <1>1, <1>5
  <2>2. g[m + 1] = g[m] \o parts[m + 1]
    BY <1>2, <2>1, Zenon DEF Joins
  <2>3. parts[m + 1] = chunk(packet, m)
    BY <2>1
  <2> DEFINE x == upTo(packet, m)
             y == upTo(packet, m + 1)
  <2>4. /\ chunk(packet, m) = SubSeq(packet, x + 1, y)
        /\ x < y /\ y <= Len(packet)
    BY <2>1, ChunkFacts
  <2>5. x \in Nat /\ y \in Nat
    <3>1. m * PayloadSize \in Nat /\ (m + 1) * PayloadSize \in Nat
      BY <1>3
    <3> QED BY <1>1, <3>1 DEF upTo
  <2>6. SubSeq(packet, 1, x) \o SubSeq(packet, x + 1, y) = SubSeq(packet, 1, y)
    <3> HIDE DEF T, x, y
    <3> QED BY <2>4, <2>5, JoinPieces
  <2> QED BY <2>1, <2>2, <2>3, <2>4, <2>6, Zenon
<1>6. n \in T
  <2> HIDE DEF T, n
  <2> QED BY <1>1, <1>4, <1>5, NatSet, Zenon
<1>7. g[n] = SubSeq(packet, 1, Len(packet))
  <2> HIDE DEF n
  <2> QED BY <1>1, <1>6
<1> QED BY <1>2, <1>7

\* Some of the fragments of a packet are no longer than the packet.
LEMMA JoinedBound ==
  ASSUME NEW B, NEW packet \in Seq(B), Len(packet) # 0,
         NEW parts \in Seq(Seq(B)), Len(parts) = count(packet),
         \A i \in 1..count(packet) : parts[i] \in {<<>>, chunk(packet, i - 1)}
  PROVE  Len(joined(parts)) <= Len(packet)
<1> DEFINE n == count(packet)
           full == [i \in 1..n |-> chunk(packet, i - 1)]
           a == [i \in 1..n |-> Len(parts[i])]
           b == [i \in 1..n |-> Len(full[i])]
<1>1. n \in Nat \ {0} /\ \A i \in 1..n : chunk(packet, i - 1) \in Seq(B)
  BY ChunkFacts
<1>2. full \in Seq(Seq(B)) /\ Len(full) = n
  <2> HIDE DEF n
  <2>1. full \in [1..n -> Seq(B)]
    BY <1>1, Zenon
  <2> HIDE DEF full
  <2> QED BY <1>1, <2>1
<1>3. \A i \in 1..n : full[i] = chunk(packet, i - 1)
  OBVIOUS
<1>4. joined(full) = packet
  <2> HIDE DEF full
  <2> QED BY <1>2, <1>3, JoinedChunks
<1>5. ASSUME NEW i \in 1..n PROVE a[i] <= b[i]
  <2>1. Len(parts[i]) \in {0, Len(full[i])} /\ Len(full[i]) \in Nat
    BY <1>1, <1>3
  <2> HIDE DEF full, n
  <2> QED BY <2>1
<1> HIDE DEF full
<1>6. PICK L : Sums(L, a, n) /\ Len(joined(parts)) = L[n]
  BY <1>2, JoinedLength, Zenon
<1>7. PICK M : Sums(M, b, n) /\ Len(joined(full)) = M[n]
  BY <1>2, JoinedLength, Zenon
<1>8. Below(a, b, n)
  BY <1>5, Zenon DEF Below
<1>9. L[n] <= M[n]
  <2> HIDE DEF a, b, n
  <2> QED BY <1>1, <1>6, <1>7, <1>8, SumsBound
<1> QED BY <1>4, <1>6, <1>7, <1>9

-----------------------------------------------------------------------------
\* The bytes of a packet.
LEMMA BytesFacts ==
  ASSUME NEW p \in Packets
  PROVE  /\ bytes(p) \in Seq(Packets \X Nat) /\ bytes(p) \in Seq(Byte)
         /\ Len(bytes(p)) = Size[p] /\ Size[p] \in Nat
         /\ \A i \in 1..Size[p] : bytes(p)[i] = <<p, i>>
<1>1. Size[p] \in Nat
  BY CodecAssumption
<1>2. bytes(p) \in [1..Size[p] -> Packets \X Nat]
  BY <1>1 DEF bytes
<1>3. bytes(p) \in [1..Size[p] -> Byte]
  BY <1>2, Zenon DEF Byte
<1>4. \A i \in 1..Size[p] : bytes(p)[i] = <<p, i>>
  BY DEF bytes
<1>5. \A S : \A n \in Nat : \A t \in [1..n -> S] : t \in Seq(S) /\ Len(t) = n
  OBVIOUS
<1> QED BY <1>1, <1>2, <1>3, <1>4, <1>5, Zenon

\* Different packets have different bytes.
LEMMA BytesDiffer ==
  ASSUME NEW p \in Packets, NEW q \in Packets, Size[p] # 0, bytes(p) = bytes(q)
  PROVE  p = q
<1>1. Size[p] = Size[q] /\ 1 \in 1..Size[p]
  BY BytesFacts
<1>2. bytes(p)[1] = <<p, 1>> /\ bytes(q)[1] = <<q, 1>>
  BY <1>1, BytesFacts, Zenon
<1> QED BY <1>2

\* A packet Encode takes is not empty (udp_codec.go:40-42).
LEMMA NotEmpty == \A n \in 1..EncoderMax : n # 0
OBVIOUS

\* Every frame of a packet carries the number that Encode took for it.
LEMMA FramesNumber ==
  ASSUME NEW payload, NEW s
  PROVE  \A f \in frames(payload, s) : f.seq = s
BY DEF frames

\* What Encode makes of a packet it accepts: frames that Decode accepts.
LEMMA FramesFacts ==
  ASSUME NEW p \in Packets, Size[p] # 0, count(bytes(p)) <= MaxCount, NEW s \in 0..MaxSeq,
         NEW f \in frames(bytes(p), s)
  PROVE  /\ f \in Frame /\ wellFormed(f) /\ f.seq = s /\ f.count = count(bytes(p))
         /\ f.index \in 0..(f.count - 1) /\ f.payload = chunk(bytes(p), f.index)
<1> DEFINE n == count(bytes(p))
<1>1. PICK i \in 0..(n - 1) :
        f = [version |-> Version, seq |-> s, index |-> i, count |-> n,
             payload |-> chunk(bytes(p), i)]
  BY DEF frames
<1>2. n \in Nat \ {0} /\ chunk(bytes(p), i) \in Seq(Byte)
      /\ Len(chunk(bytes(p), i)) \in 1..PayloadSize
  BY BytesFacts, ChunkFacts
<1>3. /\ f.version = 2 /\ f.seq = s /\ f.index = i /\ f.count = n
      /\ f.payload = chunk(bytes(p), i)
  BY <1>1 DEF Version
<1>4. f \in Frame
  <2> DEFINE c == chunk(bytes(p), i)
  <2>1. n \in Nat /\ i \in Nat /\ 2 \in Nat /\ c \in Seq(Byte)
    BY <1>2
  <2> HIDE DEF n, c
  <2> QED BY <1>1, <2>1 DEF Frame, Version, c
<1>5. wellFormed(f)
  <2>1. n \in 1..MaxCount /\ i < n
    BY <1>2, CodecAssumption
  <2> QED BY <1>2, <1>3, <2>1 DEF wellFormed, Version
<1> QED BY <1>3, <1>4, <1>5

\* Frames from elsewhere are framed alike.
LEMMA StrayFrames == Stray \subseteq Frame
<1>1. \A t : t \in Seq(StrayBytes) => t \in Seq(Byte)
  BY DEF Byte
<1> QED BY <1>1, StrayAssumption DEF Frame

-----------------------------------------------------------------------------
\* The tables of a decoder are finite.
LEMMA TableFinite ==
  ASSUME NEW t, Table(t)
  PROVE  IsFiniteSet(DOMAIN t) /\ Cardinality(DOMAIN t) \in Nat
<1>1. 0 \in Int /\ MaxSeq \in Int /\ DOMAIN t \subseteq 0..MaxSeq
  BY CodecAssumption DEF Table
<1>2. IsFiniteSet(0..MaxSeq)
  BY <1>1, FS_Interval
<1>3. IsFiniteSet(DOMAIN t)
  BY <1>1, <1>2, FS_Subset
<1> QED BY <1>3, FS_CardinalityType

\* A table that keeps some of the assemblies of another one.
LEMMA RestrictTable ==
  ASSUME NEW t, Table(t), NEW S \in SUBSET DOMAIN t
  PROVE  /\ Table(Restrict(t, S)) /\ DOMAIN Restrict(t, S) = S
         /\ \A s \in S : Restrict(t, S)[s] = t[s]
<1> DEFINE u == Restrict(t, S)
<1>1. u = [s \in S |-> t[s]]
  BY DEF Restrict
<1>2. DOMAIN u = S /\ \A s \in S : u[s] = t[s]
  BY <1>1
<1>3. u = [s \in DOMAIN u |-> u[s]]
  BY <1>1
<1>4. Cardinality(S) <= MaxAssemblies
  <2>1. IsFiniteSet(DOMAIN t) /\ Cardinality(DOMAIN t) \in Nat
    BY TableFinite
  <2>2. Cardinality(S) \in Nat /\ Cardinality(S) <= Cardinality(DOMAIN t)
    BY <2>1, FS_Subset, FS_CardinalityType
  <2> QED BY <2>1, <2>2, CodecAssumption DEF Table
<1> HIDE DEF u
<1> QED BY <1>2, <1>3, <1>4 DEF Table, u

\* A new assembly has no part.
LEMMA NewExact ==
  ASSUME NEW n \in 1..MaxCount, NEW now \in Nat
  PROVE  LET a == newAssembly(n, now) IN
         /\ Exact(a) /\ a.received = 0 /\ a.count = n
         /\ a.parts \in [1..n -> {Nil}]
<1> DEFINE a == newAssembly(n, now)
           parts == [i \in 1..n |-> Nil]
<1>1. n \in Nat \ {0} /\ now + AssemblyTTL \in Nat /\ DecoderMax \in Nat /\ 0 <= DecoderMax
  BY CodecAssumption
<1>2. parts \in Seq(Seq(Byte)) /\ Len(parts) = n /\ parts \in [1..n -> {Nil}]
      /\ \A i \in 1..n : parts[i] = Nil
  BY <1>1 DEF Nil
<1>3. Len(joined(parts)) = 0
  BY <1>1, JoinedNothing DEF Nil
<1> HIDE DEF parts
<1>4. a = [count |-> n, parts |-> parts, received |-> 0, total |-> 0,
           expiresAt |-> now + AssemblyTTL]
  BY DEF newAssembly, parts
<1>5. /\ a.count = n /\ a.parts = parts /\ a.received = 0 /\ a.total = 0
      /\ a.expiresAt = now + AssemblyTTL
  BY <1>4
<1>6. a \in Assembly
  <2> DEFINE e == now + AssemblyTTL
  <2>1. e \in Nat /\ 0 \in Nat
    BY <1>1
  <2> HIDE DEF e
  <2> QED BY <1>2, <1>4, <2>1 DEF Assembly, e
<1>7. {i \in 1..n : parts[i] # Nil} = {}
  BY <1>2
<1> HIDE DEF a
<1>8. Exact(a)
  BY <1>1, <1>2, <1>3, <1>5, <1>6, <1>7, FS_EmptySet, Zenon DEF Exact
<1> QED BY <1>2, <1>5, <1>8, Zenon DEF a

\* A part that was missing is stored: the assembly counts it, and is complete
\* when it has counted all of them (udp_codec.go:143-150).
LEMMA StoreExact ==
  ASSUME NEW a, Exact(a), NEW f \in Frame, wellFormed(f), a.count = f.count,
         a.parts[f.index + 1] = Nil, a.total + Len(f.payload) <= DecoderMax
  PROVE  LET b == store(a, f) IN
         /\ Exact(b) /\ b.count = a.count
         /\ b.received # b.count => b.received < b.count
         /\ b.received = b.count => \A i \in 1..b.count : b.parts[i] # Nil
         /\ \A i \in 1..b.count : b.parts[i] = IF i = f.index + 1 THEN f.payload ELSE a.parts[i]
<1> DEFINE b == store(a, f)
           k == f.index + 1
           more == [a.parts EXCEPT ![k] = f.payload]
           A == {i \in 1..a.count : a.parts[i] # Nil}
           M == {i \in 1..a.count : more[i] # Nil}
<1>1. /\ a.count \in 1..MaxCount /\ a.parts \in Seq(Seq(Byte)) /\ a.received \in Nat
      /\ a.total \in Nat /\ a.expiresAt \in Nat
      /\ Len(a.parts) = a.count /\ a.received = Cardinality(A)
      /\ a.total = Len(joined(a.parts)) /\ a \in Assembly
  BY DEF Exact, Assembly
<1>2. k \in 1..a.count /\ f.payload \in Seq(Byte) /\ Len(f.payload) \in Nat \ {0} /\ MaxCount \in Nat
  BY CodecAssumption DEF Frame, wellFormed
<1>3. /\ b.count = a.count /\ b.parts = more /\ b.received = a.received + 1
      /\ b.total = a.total + Len(f.payload) /\ b.expiresAt = a.expiresAt
  BY <1>1 DEF store, Assembly
<1>4. /\ more \in Seq(Seq(Byte)) /\ Len(more) = a.count
      /\ \A i \in 1..a.count : more[i] = IF i = k THEN f.payload ELSE a.parts[i]
  BY <1>1, <1>2
<1>5. Len(joined(more)) = a.total + Len(f.payload)
  <2>1. PICK parts, j, v : parts = a.parts /\ j = k /\ v = f.payload
    BY Zenon
  <2>2. parts \in Seq(Seq(Byte)) /\ j \in 1..Len(parts) /\ v \in Seq(Byte) /\ parts[j] = <<>>
    BY <1>1, <1>2, <2>1 DEF Nil
  <2>3. Len(joined([parts EXCEPT ![j] = v])) = Len(joined(parts)) + Len(v)
    BY <2>2, JoinedStore, SMTT(30)
  <2> QED BY <1>1, <2>1, <2>3, Zenon
<1>6. f.payload # Nil
  BY <1>2 DEF Nil
<1>7. b \in Assembly
  <2> DEFINE c == a.received + 1
             d == a.total + Len(f.payload)
  <2>1. c \in Nat /\ d \in Nat
    <3>1. \A x, y \in Nat : x + 1 \in Nat /\ x + y \in Nat
      OBVIOUS
    <3>2. a.received \in Nat /\ a.total \in Nat /\ Len(f.payload) \in Nat
      BY <1>1, <1>2, Zenon
    <3> QED BY <3>1, <3>2, Zenon
  <2>2. b = [[[a EXCEPT !.parts = more] EXCEPT !.received = c] EXCEPT !.total = d]
    BY <1>1 DEF store, Assembly
  <2> HIDE DEF c, d, more
  <2> QED BY <1>1, <1>4, <2>1, <2>2, Zenon DEF Assembly
<1> HIDE DEF b, more
<1>8. M = A \cup {k} /\ k \notin A
  BY <1>2, <1>4, <1>6
<1>9. /\ IsFiniteSet(1..a.count) /\ Cardinality(1..a.count) = a.count
      /\ IsFiniteSet(A) /\ IsFiniteSet(M) /\ M \subseteq 1..a.count
  <2>1. 1 \in Int /\ a.count \in Int /\ a.count >= 1
    BY <1>1
  <2>2. IsFiniteSet(1..a.count) /\ Cardinality(1..a.count) = a.count
    BY <2>1, FS_Interval
  <2>3. A \subseteq 1..a.count /\ M \subseteq 1..a.count
    OBVIOUS
  <2> HIDE DEF A, M
  <2> QED BY <2>2, <2>3, FS_Subset, Zenon
<1>10. Cardinality(M) = Cardinality(A) + 1
  <2> HIDE DEF A, M
  <2> QED BY <1>8, <1>9, FS_AddElement
<1>11. b.received = Cardinality(M)
  <2> HIDE DEF A, M
  <2> QED BY <1>1, <1>3, <1>10
<1>12. Exact(b)
  BY <1>3, <1>4, <1>5, <1>7, <1>11, Zenon DEF Exact
<1>13. Cardinality(M) <= a.count /\ (Cardinality(M) = a.count => M = 1..a.count)
  <2> HIDE DEF A, M
  <2> QED BY <1>9, FS_Subset, Zenon
<1>14. b.received # b.count => b.received < b.count
  <2> HIDE DEF A, M
  <2> QED BY <1>1, <1>3, <1>11, <1>13
<1>15. b.received = b.count => \A i \in 1..b.count : b.parts[i] # Nil
  <2>1. b.received = b.count => M = 1..a.count
    <3> HIDE DEF A, M
    <3> QED BY <1>3, <1>11, <1>13
  <2> QED BY <2>1, <1>3
<1> QED BY <1>3, <1>4, <1>12, <1>14, <1>15, Zenon DEF b

\* The tables Decode goes on with: the frame has an assembly, new if there was
\* none or it expired; the others are as they were, but for the expired ones and
\* the one evicted (udp_codec.go:119-132).
LEMMA AssemblingFacts ==
  ASSUME Table(pending), NEW f \in Frame, wellFormed(f), NEW now \in Nat,
         NEW table \in Assembling(f, now)
  PROVE  /\ Table(table) /\ f.seq \in DOMAIN table
         /\ DOMAIN table \subseteq DOMAIN pending \cup {f.seq}
         /\ \A s \in DOMAIN table :
              \/ s \in DOMAIN pruneExpired(now) /\ s \in DOMAIN pending /\ table[s] = pending[s]
              \/ s = f.seq /\ table[s] = newAssembly(f.count, now)
                 /\ s \notin DOMAIN pruneExpired(now)
<1> DEFINE live == pruneExpired(now)
           new == newAssembly(f.count, now)
<1>1. f.seq \in 0..MaxSeq /\ f.count \in 1..MaxCount
  BY DEF Frame, wellFormed
<1>2. Exact(new) /\ new.received < new.count
  BY <1>1, NewExact
<1>3. /\ Table(live) /\ DOMAIN live \subseteq DOMAIN pending
      /\ \A s \in DOMAIN live : live[s] = pending[s]
  <2> DEFINE S == {s \in DOMAIN pending : pending[s].expiresAt > now}
  <2>1. live = Restrict(pending, S) /\ S \in SUBSET DOMAIN pending
    BY DEF pruneExpired
  <2> HIDE DEF S, live
  <2> QED BY <2>1, RestrictTable
<1> HIDE DEF live, new
<1>4. CASE f.seq \in DOMAIN live
  <2>1. table = live
    BY <1>4 DEF Assembling, live
  <2> QED BY <1>3, <1>4, <2>1 DEF live
<1>5. CASE f.seq \notin DOMAIN live
  <2> DEFINE tables == IF Cardinality(DOMAIN live) >= MaxAssemblies
                       THEN evictOldest(live) ELSE {live}
  <2>1. PICK t \in tables :
          table = [s \in DOMAIN t \cup {f.seq} |-> IF s = f.seq THEN new ELSE t[s]]
    BY <1>5 DEF Assembling, live, new
  <2>2. /\ Table(t) /\ DOMAIN t \subseteq DOMAIN live
        /\ \A s \in DOMAIN t : t[s] = live[s]
        /\ Cardinality(DOMAIN t) + 1 <= MaxAssemblies
    <3>f. IsFiniteSet(DOMAIN live) /\ Cardinality(DOMAIN live) \in Nat
          /\ Cardinality(DOMAIN live) <= MaxAssemblies /\ MaxAssemblies \in Nat \ {0}
      BY <1>3, TableFinite, CodecAssumption DEF Table
    <3>1. CASE Cardinality(DOMAIN live) >= MaxAssemblies
      <4>1. PICK s \in DOMAIN live : t = Restrict(live, DOMAIN live \ {s})
        BY <2>1, <3>1 DEF evictOldest
      <4>2. Cardinality(DOMAIN live \ {s}) = Cardinality(DOMAIN live) - 1
        BY <3>f, FS_RemoveElement, Zenon
      <4> DEFINE S == DOMAIN live \ {s}
      <4>3. S \in SUBSET DOMAIN live
        OBVIOUS
      <4> HIDE DEF S
      <4>4. /\ Table(t) /\ DOMAIN t = S /\ \A u \in S : t[u] = live[u]
        BY <1>3, <4>1, <4>3, RestrictTable DEF S
      <4>5. Cardinality(S) + 1 <= MaxAssemblies
        BY <3>f, <4>2 DEF S
      <4> QED BY <4>3, <4>4, <4>5
    <3>2. CASE ~(Cardinality(DOMAIN live) >= MaxAssemblies)
      <4>1. t = live
        BY <2>1, <3>2
      <4> QED BY <1>3, <3>f, <3>2, <4>1
    <3> QED BY <3>1, <3>2
  <2>3. DOMAIN table = DOMAIN t \cup {f.seq}
    BY <2>1
  <2>4. \A s \in DOMAIN table : table[s] = IF s = f.seq THEN new ELSE t[s]
    BY <2>1
  <2>5. table = [s \in DOMAIN table |-> table[s]]
    BY <2>1
  <2>6. Cardinality(DOMAIN table) <= MaxAssemblies
    <3>1. IsFiniteSet(DOMAIN t) /\ f.seq \notin DOMAIN t
      BY <2>2, <1>5, TableFinite
    <3>2. Cardinality(DOMAIN table) = Cardinality(DOMAIN t) + 1
      BY <2>3, <3>1, FS_AddElement
    <3> QED BY <2>2, <3>2
  <2> HIDE DEF tables
  <2>7. Table(table)
    <3>1. \A s \in DOMAIN table : Exact(table[s]) /\ table[s].received < table[s].count
      BY <1>2, <2>2, <2>3, <2>4, Zenon DEF Table
    <3>2. DOMAIN table \subseteq 0..MaxSeq
      BY <1>1, <2>2, <2>3 DEF Table
    <3> QED BY <2>5, <2>6, <3>1, <3>2 DEF Table
  <2>8. \A s \in DOMAIN table :
          \/ s \in DOMAIN live /\ s \in DOMAIN pending /\ table[s] = pending[s]
          \/ s = f.seq /\ table[s] = new /\ s \notin DOMAIN live
    BY <1>3, <1>5, <2>2, <2>3, <2>4, Zenon
  <2>9. DOMAIN table \subseteq DOMAIN pending \cup {f.seq} /\ f.seq \in DOMAIN table
    BY <1>3, <2>2, <2>3
  <2> QED BY <2>7, <2>8, <2>9 DEF live, new
<1> QED BY <1>4, <1>5

-----------------------------------------------------------------------------
(* A step of Decode, taken apart: the frame f of reader r and the table it *)
(* goes on with, and the four things that can come of it.                  *)
Chosen(r, f, table) ==
  /\ readers[r] # Idle /\ f = readers[r].frame /\ f \in Frame /\ wellFormed(f)
  /\ readers' = [readers EXCEPT ![r] = Idle] /\ decoded' = decoded \cup {f}
  /\ UNCHANGED <<clock, nextSeq, exhausted, sent, net>>
  /\ Table(table) /\ f.seq \in DOMAIN table
  /\ \A s \in DOMAIN table \ {f.seq} : s \in DOMAIN pending /\ table[s] = pending[s]
  /\ \/ f.seq \in DOMAIN pending /\ table[f.seq] = pending[f.seq]
     \/ table[f.seq].count = f.count /\ \A i \in 1..f.count : table[f.seq].parts[i] = Nil
  /\ dropped \subseteq dropped' /\ dropped' \subseteq 0..MaxSeq
  /\ \A s \in DOMAIN pending : s \in dropped' \/ (s \in DOMAIN table /\ table[s] = pending[s])

Misses(f, a) == a.count = f.count /\ a.parts[f.index + 1] = Nil
Fails(f, table) ==
  /\ \/ table[f.seq].count # f.count
     \/ Misses(f, table[f.seq]) /\ table[f.seq].total + Len(f.payload) > DecoderMax
  /\ pending' = without(table, f.seq) /\ failed' = TRUE /\ delivered' = delivered
Repeats(f, table) ==
  /\ table[f.seq].count = f.count /\ table[f.seq].parts[f.index + 1] # Nil
  /\ pending' = table /\ failed' = failed /\ delivered' = delivered
Stores(f, table) ==
  LET b == store(table[f.seq], f) IN
  /\ Misses(f, table[f.seq]) /\ table[f.seq].total + Len(f.payload) <= DecoderMax
  /\ b.received # b.count
  /\ pending' = [table EXCEPT ![f.seq] = b] /\ failed' = failed /\ delivered' = delivered
Completes(f, table) ==
  LET b == store(table[f.seq], f) IN
  /\ Misses(f, table[f.seq]) /\ table[f.seq].total + Len(f.payload) <= DecoderMax
  /\ b.received = b.count
  /\ pending' = without(table, f.seq) /\ failed' = failed
  /\ delivered' = Append(delivered, joined(b.parts))

\* Decode does one of the four.
LEMMA DecodeCases ==
  ASSUME TypeInv, NEW r \in Readers, Decode(r)
  PROVE  \E f, table : /\ Chosen(r, f, table)
                       /\ \/ Fails(f, table) \/ Repeats(f, table)
                          \/ Stores(f, table) \/ Completes(f, table)
<1>1. PICK f, now : f = readers[r].frame /\ now = readers[r].now
  BY Zenon
<1>2. readers[r] # Idle
  BY Zenon DEF Decode
<1>3. f \in Frame /\ wellFormed(f) /\ now \in Nat
  BY <1>1, <1>2 DEF TypeInv
<1>4. PICK table \in Assembling(f, now) :
        /\ \/ /\ table[f.seq].count # f.count
              /\ pending' = without(table, f.seq)
              /\ failed' = TRUE /\ UNCHANGED delivered
           \/ /\ table[f.seq].count = f.count /\ table[f.seq].parts[f.index + 1] # Nil
              /\ pending' = table
              /\ UNCHANGED <<failed, delivered>>
           \/ /\ table[f.seq].count = f.count /\ table[f.seq].parts[f.index + 1] = Nil
              /\ table[f.seq].total + Len(f.payload) > DecoderMax
              /\ pending' = without(table, f.seq)
              /\ failed' = TRUE /\ UNCHANGED delivered
           \/ /\ table[f.seq].count = f.count /\ table[f.seq].parts[f.index + 1] = Nil
              /\ table[f.seq].total + Len(f.payload) <= DecoderMax
              /\ IF store(table[f.seq], f).received # store(table[f.seq], f).count
                 THEN /\ pending' = [table EXCEPT ![f.seq] = store(table[f.seq], f)]
                      /\ UNCHANGED delivered
                 ELSE /\ pending' = without(table, f.seq)
                      /\ delivered' = Append(delivered, joined(store(table[f.seq], f).parts))
              /\ UNCHANGED failed
        /\ dropped' = dropped \cup (DOMAIN pending \ DOMAIN table)
                              \cup (DOMAIN pending \ DOMAIN pruneExpired(now))
  BY <1>1, Zenon DEF Decode
<1>5. Table(pending)
  BY DEF TypeInv
<1>6. /\ Table(table) /\ f.seq \in DOMAIN table
      /\ \A s \in DOMAIN table :
              \/ s \in DOMAIN pruneExpired(now) /\ s \in DOMAIN pending /\ table[s] = pending[s]
              \/ s = f.seq /\ table[s] = newAssembly(f.count, now)
                 /\ s \notin DOMAIN pruneExpired(now)
  BY <1>3, <1>5, AssemblingFacts, Zenon
<1>7. \/ f.seq \in DOMAIN pending /\ table[f.seq] = pending[f.seq]
      \/ table[f.seq].count = f.count /\ \A i \in 1..f.count : table[f.seq].parts[i] = Nil
  <2>1. f.count \in 1..MaxCount
    BY <1>3 DEF wellFormed
  <2> DEFINE new == newAssembly(f.count, now)
  <2>2. new.count = f.count /\ new.parts \in [1..f.count -> {Nil}]
    BY <1>3, <2>1, NewExact, Zenon
  <2> HIDE DEF new
  <2>3. new.count = f.count /\ \A i \in 1..f.count : new.parts[i] = Nil
    BY <2>2, Zenon
  <2> QED BY <1>6, <2>3 DEF new
<1>8. \A s \in DOMAIN pending : s \in dropped' \/ (s \in DOMAIN table /\ table[s] = pending[s])
  BY <1>4, <1>6, Zenon
<1>9. dropped \subseteq dropped' /\ dropped' \subseteq 0..MaxSeq
  BY <1>4, <1>5, Zenon DEF TypeInv, Table
<1>10. Chosen(r, f, table)
  <2>1. readers' = [readers EXCEPT ![r] = Idle] /\ decoded' = decoded \cup {f}
        /\ UNCHANGED <<clock, nextSeq, exhausted, sent, net>>
    BY <1>1, Zenon DEF Decode, encoderVars
  <2> QED BY <1>1, <1>2, <1>3, <1>6, <1>7, <1>8, <1>9, <2>1, Zenon DEF Chosen
<1>11. Fails(f, table) \/ Repeats(f, table) \/ Stores(f, table) \/ Completes(f, table)
  BY <1>4, Zenon DEF Fails, Repeats, Stores, Completes, Misses
<1> QED BY <1>10, <1>11

-----------------------------------------------------------------------------
\* An empty decoder is well typed.
LEMMA InitTyped ==
  ASSUME Init
  PROVE  TypeInv
<1>1. /\ clock = 0 /\ nextSeq = 0 /\ exhausted = FALSE /\ sent = {} /\ net = Stray
      /\ readers = [r \in Readers |-> Idle] /\ pending = <<>> /\ delivered = <<>>
      /\ failed = FALSE /\ decoded = {} /\ dropped = {}
  BY DEF Init
<1>2. DOMAIN pending = {}
  BY <1>1
<1>3. Table(pending)
  <2>1. Cardinality(DOMAIN pending) = 0 /\ 0 <= MaxAssemblies
    BY <1>2, FS_EmptySet, CodecAssumption
  <2>2. pending = [s \in DOMAIN pending |-> pending[s]]
    BY <1>1, <1>2
  <2> QED BY <1>2, <2>1, <2>2 DEF Table
<1>4. nextSeq \in 0..MaxSeq
  BY <1>1, CodecAssumption
<1>5. readers \in [Readers -> {Idle} \cup [frame : {f \in Frame : wellFormed(f)}, now : Nat]]
  BY <1>1, Zenon
<1>6. delivered \in Seq(Seq(Byte))
  BY <1>1
<1>7. /\ clock \in Nat /\ exhausted \in BOOLEAN /\ failed \in BOOLEAN
      /\ net \subseteq Frame /\ decoded \subseteq Frame /\ sent \subseteq Data
      /\ dropped \subseteq 0..MaxSeq
  BY <1>1, StrayFrames, Zenon
<1> QED BY <1>3, <1>4, <1>5, <1>6, <1>7, Zenon DEF TypeInv

\* Receive takes a frame that is well formed from the network, or fails.
LEMMA ReceiveTyped ==
  ASSUME TypeInv, NEW r \in Readers, NEW f \in net, Receive(r, f)
  PROVE  TypeInv'
<1>1. /\ net' \subseteq net /\ failed' \in BOOLEAN
      /\ UNCHANGED <<clock, nextSeq, exhausted, sent, pending, delivered, decoded, dropped>>
  BY Zenon DEF Receive, TypeInv, encoderVars
<1>2. readers' \in [Readers -> {Idle} \cup [frame : {g \in Frame : wellFormed(g)}, now : Nat]]
  <2>1. CASE wellFormed(f)
    <3>1. readers' = [readers EXCEPT ![r] = [frame |-> f, now |-> clock]]
      BY <2>1 DEF Receive
    <3>2. [frame |-> f, now |-> clock] \in [frame : {g \in Frame : wellFormed(g)}, now : Nat]
      BY <2>1 DEF TypeInv
    <3> QED BY <3>1, <3>2 DEF TypeInv
  <2>2. CASE ~wellFormed(f)
    BY <2>2 DEF Receive, TypeInv
  <2> QED BY <2>1, <2>2
<1>3. Table(pending)'
  BY <1>1 DEF TypeInv, Table
<1> QED BY <1>1, <1>2, <1>3 DEF TypeInv

\* Encode takes the next number and sends well-formed frames.
LEMMA EncodeFacts ==
  ASSUME TypeInv, NEW p \in Packets, Encode(p)
  PROVE  /\ bytes(p) \notin sent /\ sent' = sent \cup {bytes(p)}
         /\ Size[p] \in 1..EncoderMax /\ count(bytes(p)) <= MaxCount
         /\ net' = net \cup frames(bytes(p), nextSeq)
         /\ nextSeq \notin Used /\ Used' = Used \cup {nextSeq}
         /\ nextSeq' \in 0..MaxSeq /\ exhausted' \in BOOLEAN
         /\ UNCHANGED <<clock, readers, pending, delivered, failed, decoded, dropped>>
<1>1. /\ bytes(p) \notin sent /\ sent' = sent \cup {bytes(p)} /\ Len(bytes(p)) \in 1..EncoderMax
      /\ count(bytes(p)) <= MaxCount /\ ~exhausted /\ allocate
      /\ net' = net \cup frames(bytes(p), nextSeq)
      /\ UNCHANGED <<clock, readers, pending, delivered, failed, decoded, dropped>>
  BY DEF Encode, decoderVars
<1>2. Size[p] \in 1..EncoderMax
  BY <1>1, BytesFacts, Zenon
<1>3. nextSeq \in 0..MaxSeq /\ MaxSeq \in Nat
  BY CodecAssumption DEF TypeInv
<1>4. nextSeq' \in 0..MaxSeq /\ exhausted' \in BOOLEAN
  <2>1. CASE nextSeq = MaxSeq
    BY <1>1, <1>3, <2>1 DEF allocate
  <2>2. CASE nextSeq # MaxSeq
    <3>1. nextSeq' = nextSeq + 1 /\ exhausted' = FALSE
      BY <1>1, <2>2 DEF allocate, TypeInv
    <3>2. nextSeq + 1 \in 0..MaxSeq
      BY <1>3, <2>2
    <3> QED BY <3>1, <3>2, Zenon
  <2> QED BY <2>1, <2>2
<1>5. nextSeq \notin Used
  BY <1>1, <1>3 DEF Used
<1>6. Used' = Used \cup {nextSeq}
  BY <1>1, <1>3 DEF Used, allocate
<1> QED BY <1>1, <1>2, <1>4, <1>5, <1>6, Zenon

\* Encode keeps the type: what it sends is frames, what it records is a packet.
LEMMA EncodeTyped ==
  ASSUME TypeInv, NEW p \in Packets, Encode(p)
  PROVE  TypeInv'
<1>1. /\ sent' = sent \cup {bytes(p)}
      /\ Size[p] \in 1..EncoderMax /\ count(bytes(p)) <= MaxCount
      /\ net' = net \cup frames(bytes(p), nextSeq)
      /\ nextSeq' \in 0..MaxSeq /\ exhausted' \in BOOLEAN
      /\ UNCHANGED <<clock, readers, pending, delivered, failed, decoded, dropped>>
  BY EncodeFacts
<1>2. frames(bytes(p), nextSeq) \subseteq Frame
  <2>1. Size[p] # 0 /\ nextSeq \in 0..MaxSeq
    BY <1>1, NotEmpty, Zenon DEF TypeInv
  <2> QED BY <1>1, <2>1, FramesFacts, Zenon
<1>3. sent' \subseteq Data
  BY <1>1 DEF TypeInv, Data
<1>4. Table(pending)'
  BY <1>1 DEF TypeInv, Table
<1> QED BY <1>1, <1>2, <1>3, <1>4, Zenon DEF TypeInv

\* Decode keeps a table of at most MaxAssemblies exact, incomplete assemblies.
LEMMA DecodeTyped ==
  ASSUME TypeInv, NEW r \in Readers, Decode(r)
  PROVE  TypeInv'
<1>1. PICK f, table : /\ Chosen(r, f, table)
                      /\ \/ Fails(f, table) \/ Repeats(f, table)
                         \/ Stores(f, table) \/ Completes(f, table)
  BY DecodeCases
<1>2. /\ f \in Frame /\ wellFormed(f) /\ Table(table) /\ f.seq \in DOMAIN table
      /\ readers' = [readers EXCEPT ![r] = Idle] /\ decoded' = decoded \cup {f}
      /\ dropped' \subseteq 0..MaxSeq
      /\ UNCHANGED <<clock, nextSeq, exhausted, sent, net>>
  BY <1>1, Zenon DEF Chosen
<1>3. Table(without(table, f.seq))
  <2> DEFINE S == DOMAIN table \ {f.seq}
  <2>1. S \in SUBSET DOMAIN table
    OBVIOUS
  <2> HIDE DEF S
  <2> QED BY <1>2, <2>1, RestrictTable DEF without, S
<1>4. PICK a, b : a = table[f.seq] /\ b = store(a, f)
  BY Zenon
<1>5. Exact(a)
  BY <1>2, <1>4 DEF Table
<1>6. Misses(f, a) /\ a.total + Len(f.payload) <= DecoderMax =>
        /\ Exact(b) /\ (b.received # b.count => b.received < b.count)
  BY <1>2, <1>4, <1>5, StoreExact, Zenon DEF Misses
<1>7. Table(pending') /\ failed' \in BOOLEAN /\ delivered' \in Seq(Seq(Byte))
  <2>1. CASE Fails(f, table)
    BY <1>3, <2>1, Zenon DEF Fails, TypeInv
  <2>2. CASE Repeats(f, table)
    BY <1>2, <2>2, Zenon DEF Repeats, TypeInv
  <2>3. CASE Stores(f, table)
    <3>1. pending' = [table EXCEPT ![f.seq] = b] /\ Exact(b) /\ b.received < b.count
      BY <1>4, <1>6, <2>3, Zenon DEF Stores
    <3>2. Table(pending')
      <4>1. DOMAIN pending' = DOMAIN table
        BY <3>1
      <4>2. \A s \in DOMAIN table : pending'[s] = IF s = f.seq THEN b ELSE table[s]
        BY <3>1
      <4>3. pending' = [s \in DOMAIN pending' |-> pending'[s]]
        BY <3>1, Zenon
      <4> QED BY <1>2, <3>1, <4>1, <4>2, <4>3, Zenon DEF Table
    <3> QED BY <2>3, <3>2, Zenon DEF Stores, TypeInv
  <2>4. CASE Completes(f, table)
    <3>1. Exact(b)
      BY <1>4, <1>6, <2>4, Zenon DEF Completes
    <3>2. b.parts \in Seq(Seq(Byte)) /\ Len(b.parts) # 0
      BY <3>1 DEF Exact, Assembly
    <3>3. joined(b.parts) \in Seq(Byte)
      BY <3>2, JoinedType
    <3>4. delivered' = Append(delivered, joined(b.parts)) /\ delivered \in Seq(Seq(Byte))
      BY <1>4, <2>4, Zenon DEF Completes, TypeInv
    <3>5. delivered' \in Seq(Seq(Byte))
      BY <3>3, <3>4
    <3> QED BY <1>3, <2>4, <3>5, Zenon DEF Completes, TypeInv
  <2> QED BY <1>1, <2>1, <2>2, <2>3, <2>4, Zenon
<1>8. readers' \in [Readers -> {Idle} \cup [frame : {g \in Frame : wellFormed(g)}, now : Nat]]
  BY <1>2, Zenon DEF TypeInv
<1>9. Table(pending)'
  BY <1>7 DEF Table
<1> QED BY <1>2, <1>7, <1>8, <1>9, Zenon DEF TypeInv

\* Every step keeps the types and the exactness of the assemblies.
LEMMA NextTyped ==
  ASSUME TypeInv, [Next]_vars
  PROVE  TypeInv'
<1>1. ASSUME UNCHANGED <<nextSeq, exhausted, sent, readers, pending, delivered, failed,
                         decoded, dropped>>,
             net' \subseteq net, clock' \in Nat
      PROVE  TypeInv'
  BY <1>1, Zenon DEF TypeInv, Table
<1>2. CASE Tick
  BY <1>1, <1>2 DEF Tick, encoderVars, decoderVars, TypeInv
<1>3. ASSUME NEW f \in net, Lose(f) PROVE TypeInv'
  BY <1>1, <1>3, Zenon DEF Lose, encoderVars, decoderVars, TypeInv
<1>4. CASE UNCHANGED vars
  BY <1>1, <1>4, Zenon DEF vars, TypeInv
<1> QED BY <1>2, <1>3, <1>4, EncodeTyped, ReceiveTyped, DecodeTyped, Zenon DEF Next

-----------------------------------------------------------------------------
\* A sequence is one over every set its elements are in.
LEMMA SeqRetype ==
  ASSUME NEW X, NEW Y, NEW s \in Seq(X), \A i \in 1..Len(s) : s[i] \in Y
  PROVE  s \in Seq(Y)
<1>1. s \in [1..Len(s) -> Y] /\ Len(s) \in Nat
  OBVIOUS
<1> QED BY <1>1

\* Frames of a used number come from its packet: they fit the assembly.
LEMMA OriginFacts ==
  ASSUME TypeInv, NEW src, Numbered(src), NEW f \in Frame, f.seq \in Used, Origin(f, src, Used)
  PROVE  /\ wellFormed(f) /\ f.count = count(bytes(src[f.seq]))
         /\ f.index \in 0..(f.count - 1) /\ f.payload = chunk(bytes(src[f.seq]), f.index)
         /\ f.payload # Nil /\ src[f.seq] \in Packets /\ Size[src[f.seq]] \in 1..EncoderMax
<1>1. /\ src[f.seq] \in Packets /\ Size[src[f.seq]] \in 1..EncoderMax
      /\ count(bytes(src[f.seq])) <= MaxCount /\ f \in frames(bytes(src[f.seq]), f.seq)
  BY DEF Numbered, Origin
<1>2. f.seq \in 0..MaxSeq /\ Size[src[f.seq]] # 0
  BY <1>1 DEF Used
<1>3. /\ wellFormed(f) /\ f.count = count(bytes(src[f.seq]))
      /\ f.index \in 0..(f.count - 1) /\ f.payload = chunk(bytes(src[f.seq]), f.index)
  BY <1>1, <1>2, FramesFacts, Zenon
<1>4. f.payload # Nil
  BY <1>3 DEF wellFormed, Nil
<1> QED BY <1>1, <1>3, <1>4, Zenon

\* The table Decode goes on with is made like the one before.
LEMMA ChosenPieced ==
  ASSUME TypeInv, NEW src, Coded(src), NEW r \in Readers, NEW f, NEW table, Chosen(r, f, table)
  PROVE  /\ Origin(f, src, Used)
         /\ \A s \in DOMAIN table : Pieced(table[s], s, src, Used)
<1>1. /\ readers[r] # Idle /\ f = readers[r].frame /\ f \in Frame /\ wellFormed(f)
      /\ Table(table) /\ f.seq \in DOMAIN table
      /\ \A s \in DOMAIN table \ {f.seq} : s \in DOMAIN pending /\ table[s] = pending[s]
      /\ \/ f.seq \in DOMAIN pending /\ table[f.seq] = pending[f.seq]
         \/ table[f.seq].count = f.count /\ \A i \in 1..f.count : table[f.seq].parts[i] = Nil
  BY Zenon DEF Chosen
<1>2. f \in Held
  BY <1>1, Zenon DEF Held
<1>3. Origin(f, src, Used)
  BY <1>2 DEF Coded
<1>4. \A s \in DOMAIN pending : Pieced(pending[s], s, src, Used)
  BY DEF Coded
<1>5. ASSUME table[f.seq].count = f.count, \A i \in 1..f.count : table[f.seq].parts[i] = Nil
      PROVE  Pieced(table[f.seq], f.seq, src, Used)
  <2>1. CASE f.seq \in Used
    <3>1. f.count = count(bytes(src[f.seq]))
      BY <1>1, <1>3, <2>1, OriginFacts, Zenon DEF Coded
    <3> QED BY <1>5, <2>1, <3>1, Zenon DEF Pieced
  <2>2. CASE f.seq \notin Used
    <3>1. f \in Stray
      BY <1>3, <2>2, Zenon DEF Origin
    <3>2. table[f.seq].parts \in Seq(Seq(StrayBytes))
      <4>1. PICK parts : parts = table[f.seq].parts
        BY Zenon
      <4>2. parts \in Seq(Seq(Byte)) /\ Len(parts) = f.count
        BY <1>1, <1>5, <4>1, Zenon DEF Table, Exact, Assembly
      <4>3. \A i \in 1..Len(parts) : parts[i] = <<>>
        BY <1>5, <4>1, <4>2, Zenon DEF Nil
      <4>4. <<>> \in Seq(StrayBytes)
        OBVIOUS
      <4>5. \A i \in 1..Len(parts) : parts[i] \in Seq(StrayBytes)
        BY <4>3, <4>4, Zenon
      <4>6. parts \in Seq(Seq(StrayBytes))
        BY <4>2, <4>5, SeqRetype, Zenon
      <4> QED BY <4>1, <4>6
    <3> QED BY <2>2, <3>1, <3>2, Zenon DEF Pieced
  <2> QED BY <2>1, <2>2, Zenon
<1>6. Pieced(table[f.seq], f.seq, src, Used)
  BY <1>1, <1>4, <1>5, Zenon
<1> QED BY <1>1, <1>3, <1>4, <1>6, Zenon

\* A frame stored where it was missing: the assembly is still made of pieces of
\* one packet, or of nothing of a packet.
LEMMA StorePieced ==
  ASSUME TypeInv, NEW src, Numbered(src), NEW f \in Frame, wellFormed(f), Origin(f, src, Used),
         NEW a, Exact(a), Pieced(a, f.seq, src, Used), Misses(f, a),
         a.total + Len(f.payload) <= DecoderMax
  PROVE  Pieced(store(a, f), f.seq, src, Used)
<1>1. PICK b : b = store(a, f)
  BY Zenon
<1>2. /\ Exact(b) /\ b.count = a.count
      /\ \A i \in 1..b.count : b.parts[i] = IF i = f.index + 1 THEN f.payload ELSE a.parts[i]
  BY <1>1, StoreExact, Zenon DEF Misses
<1>3. CASE f.seq \in Used
  <2>1. PICK packet : packet = bytes(src[f.seq])
    BY Zenon
  <2>2. f.index \in Nat /\ f.payload = chunk(packet, f.index)
    BY <1>3, <2>1, OriginFacts, Zenon DEF Frame
  <2>3. a.count = count(packet) /\ \A i \in 1..a.count : a.parts[i] \in {Nil, chunk(packet, i - 1)}
    BY <1>3, <2>1, Zenon DEF Pieced
  <2>4. ASSUME NEW i \in 1..b.count PROVE b.parts[i] \in {Nil, chunk(packet, i - 1)}
    <3>1. CASE i = f.index + 1
      <4>1. f.index = i - 1 /\ b.parts[i] = f.payload
        BY <1>2, <2>2, <3>1
      <4> QED BY <2>2, <4>1, Zenon
    <3>2. CASE i # f.index + 1
      <4>1. b.parts[i] = a.parts[i] /\ i \in 1..a.count
        BY <1>2, <3>2, Zenon
      <4> QED BY <2>3, <4>1, Zenon
    <3> QED BY <3>1, <3>2, Zenon
  <2> QED BY <1>1, <1>2, <1>3, <2>1, <2>3, <2>4, Zenon DEF Pieced
<1>4. CASE f.seq \notin Used
  <2>1. f \in Stray /\ f.payload \in Seq(StrayBytes)
    BY <1>4, StrayAssumption, Zenon DEF Origin
  <2>2. PICK old, parts : old = a.parts /\ parts = b.parts
    BY Zenon
  <2>3. old \in Seq(Seq(StrayBytes)) /\ Len(old) = a.count
    BY <1>4, <2>2, Zenon DEF Pieced, Exact
  <2>4. parts \in Seq(Seq(Byte)) /\ Len(parts) = a.count
    BY <1>2, <2>2, Zenon DEF Exact, Assembly
  <2>5. \A i \in 1..Len(parts) : parts[i] \in Seq(StrayBytes)
    <3> SUFFICES ASSUME NEW i \in 1..a.count PROVE parts[i] \in Seq(StrayBytes)
      BY <2>4
    <3>1. parts[i] = IF i = f.index + 1 THEN f.payload ELSE old[i]
      BY <1>2, <2>2, Zenon
    <3>2. old[i] \in Seq(StrayBytes)
      BY <2>3
    <3> QED BY <2>1, <3>1, <3>2, Zenon
  <2>6. parts \in Seq(Seq(StrayBytes))
    BY <2>4, <2>5, SeqRetype, Zenon
  <2> QED BY <1>1, <1>4, <2>1, <2>2, <2>6, Zenon DEF Pieced
<1> QED BY <1>3, <1>4, Zenon

\* An assembly of pieces of one packet, with none missing, is that packet; one
\* of nothing of a packet has no byte of a packet.
LEMMA WholePieced ==
  ASSUME TypeInv, NEW src, Numbered(src), NEW s, NEW b, Exact(b), Pieced(b, s, src, Used),
         \A i \in 1..b.count : b.parts[i] # Nil
  PROVE  IF s \in Used THEN joined(b.parts) = bytes(src[s])
                       ELSE joined(b.parts) \in Seq(StrayBytes)
<1>1. PICK parts : parts = b.parts
  BY Zenon
<1>2. parts \in Seq(Seq(Byte)) /\ Len(parts) = b.count /\ Len(parts) # 0
  BY <1>1 DEF Exact, Assembly
<1>3. CASE s \in Used
  <2>1. PICK packet : packet = bytes(src[s])
    BY Zenon
  <2>2. packet \in Seq(Byte) /\ Len(packet) # 0
    <3>1. src[s] \in Packets /\ Size[src[s]] \in 1..EncoderMax
      BY <1>3, Zenon DEF Numbered
    <3> QED BY <2>1, <3>1, BytesFacts
  <2>3. Len(parts) = count(packet) /\ \A i \in 1..count(packet) : parts[i] = chunk(packet, i - 1)
    BY <1>1, <1>2, <1>3, <2>1, Zenon DEF Pieced
  <2>4. joined(parts) = packet
    BY <1>2, <2>2, <2>3, JoinedChunks, Zenon
  <2> QED BY <1>1, <1>3, <2>1, <2>4, Zenon
<1>4. CASE s \notin Used
  <2>1. parts \in Seq(Seq(StrayBytes))
    BY <1>1, <1>4, Zenon DEF Pieced
  <2> QED BY <1>1, <1>2, <1>4, <2>1, JoinedType, Zenon
<1> QED BY <1>3, <1>4, Zenon

\* The pieces of a packet that fit the encoder fit a decoder of the same limit.
LEMMA PiecedFits ==
  ASSUME TypeInv, OwnFramesFit, NEW src, Numbered(src), NEW f \in Frame, f.seq \in Used,
         Origin(f, src, Used), NEW a, Exact(a), Pieced(a, f.seq, src, Used)
  PROVE  /\ a.count = f.count
         /\ a.parts[f.index + 1] = Nil => a.total + Len(f.payload) <= DecoderMax
<1>1. PICK packet, parts, v : packet = bytes(src[f.seq]) /\ parts = a.parts /\ v = f.payload
  BY Zenon
<1>2. /\ wellFormed(f) /\ f.count = count(packet) /\ f.index \in 0..(f.count - 1)
      /\ v = chunk(packet, f.index)
      /\ src[f.seq] \in Packets /\ Size[src[f.seq]] \in 1..EncoderMax
  BY <1>1, OriginFacts, Zenon
<1>3. packet \in Seq(Byte) /\ Len(packet) # 0 /\ Len(packet) \in 1..EncoderMax
  <2>1. packet \in Seq(Byte) /\ Len(packet) = Size[src[f.seq]]
    BY <1>1, <1>2, BytesFacts, Zenon
  <2> QED BY <1>2, <2>1, NotEmpty, Zenon
<1>4. a.count = count(packet) /\ \A i \in 1..count(packet) : parts[i] \in {<<>>, chunk(packet, i - 1)}
  BY <1>1, Zenon DEF Pieced, Nil
<1>5. parts \in Seq(Seq(Byte)) /\ Len(parts) = count(packet) /\ a.total = Len(joined(parts))
  BY <1>1, <1>4, Zenon DEF Exact, Assembly
<1>6. a.count = f.count
  BY <1>2, <1>4, Zenon
<1>7. ASSUME a.parts[f.index + 1] = Nil PROVE a.total + Len(f.payload) <= DecoderMax
  <2>1. PICK k : k = f.index + 1
    BY Zenon
  <2>2. k \in 1..Len(parts) /\ k - 1 = f.index /\ parts[k] = <<>>
    <3>1. parts[k] = <<>>
      BY <1>1, <1>7, <2>1, Zenon DEF Nil
    <3>2. f.count \in Nat
      BY DEF Frame
    <3>3. k \in 1..f.count /\ k - 1 = f.index
      <4>1. \A n \in Nat : \A i \in 0..(n - 1) : i + 1 \in 1..n /\ (i + 1) - 1 = i
        OBVIOUS
      <4> QED BY <1>2, <2>1, <3>2, <4>1, Zenon
    <3> QED BY <1>2, <1>5, <3>1, <3>3, Zenon
  <2>3. v \in Seq(Byte)
    BY <1>1 DEF Frame
  <2>4. PICK more : more = [parts EXCEPT ![k] = v]
    BY Zenon
  <2>5. Len(joined(more)) = a.total + Len(v)
    <3>1. Len(joined(more)) = Len(joined(parts)) + Len(v)
      <4>1. parts \in Seq(Seq(Byte)) /\ k \in 1..Len(parts) /\ v \in Seq(Byte) /\ parts[k] = <<>>
        BY <1>5, <2>2, <2>3, Zenon
      <4>2. Len(joined([parts EXCEPT ![k] = v])) = Len(joined(parts)) + Len(v)
        BY <4>1, JoinedStore, SMTT(30)
      <4> QED BY <4>2, <2>4, Zenon
    <3> QED BY <1>5, <3>1, Zenon
  <2>6. /\ more \in Seq(Seq(Byte)) /\ Len(more) = count(packet)
        /\ \A i \in 1..count(packet) : more[i] = IF i = k THEN v ELSE parts[i]
    BY <1>5, <2>2, <2>3, <2>4
  <2>7. \A i \in 1..count(packet) : more[i] \in {<<>>, chunk(packet, i - 1)}
    BY <1>2, <1>4, <2>2, <2>6, Zenon
  <2>8. Len(joined(more)) <= Len(packet)
    BY <1>3, <2>6, <2>7, JoinedBound, Zenon
  <2>9. \A x \in Int : x <= Len(packet) => x <= DecoderMax
    BY <1>3, CodecAssumption DEF OwnFramesFit
  <2>10. joined(more) \in Seq(Byte)
    BY <1>3, <2>2, <1>5, <2>6, JoinedType, Zenon
  <2>11. Len(joined(more)) \in Int
    BY <2>10
  <2> QED BY <1>1, <2>5, <2>8, <2>9, <2>11, Zenon
<1> QED BY <1>6, <1>7, Zenon

-----------------------------------------------------------------------------
\* Nothing has been sent: what is in flight comes from elsewhere.
LEMMA InitTraced ==
  ASSUME Init
  PROVE  \E src \in [Used -> Packets] : Traced(src)
<1>1. /\ nextSeq = 0 /\ exhausted = FALSE /\ sent = {} /\ net = Stray
      /\ readers = [r \in Readers |-> Idle] /\ pending = <<>> /\ delivered = <<>>
      /\ failed = FALSE /\ decoded = {} /\ dropped = {}
  BY DEF Init
<1>2. Used = {}
  BY <1>1 DEF Used
<1>3. Held = {} /\ DOMAIN pending = {} /\ 1..Len(delivered) = {}
  BY <1>1 DEF Held
<1>4. PICK src : src = [s \in Used |-> s]
  BY Zenon
<1>5. src \in [Used -> Packets]
  BY <1>2, <1>4
<1>6. Numbered(src)
  BY <1>1, <1>2, <1>5, Zenon DEF Numbered
<1>7. Coded(src)
  BY <1>1, <1>2, <1>3, <1>6, Zenon DEF Coded, Origin
<1>8. OnePlace /\ Spent(src) /\ Kept(src)
  BY <1>1, <1>2, <1>3, Zenon DEF OnePlace, Spent, Kept
<1> QED BY <1>5, <1>7, <1>8 DEF Traced

\* Time passes and datagrams are lost: nothing else changes.
LEMMA QuietTraced ==
  ASSUME TypeInv, NEW src, Traced(src),
         UNCHANGED <<nextSeq, exhausted, sent, readers, pending, delivered, failed, decoded,
                     dropped>>,
         net' \subseteq net
  PROVE  Traced(src)'
<1>1. Used' = Used /\ Held' = Held
  BY DEF Used, Held
<1>2. Numbered(src)'
  BY <1>1, Zenon DEF Traced, Coded, Numbered
<1>3. Coded(src)'
  <2>1. \A f \in (net \cup Held \cup decoded)' : Origin(f, src, Used)'
    BY <1>1, Zenon DEF Traced, Coded, Origin
  <2>2. \A s \in DOMAIN pending' : Pieced(pending[s], s, src, Used)'
    BY <1>1, Zenon DEF Traced, Coded, Pieced
  <2>3. \A i \in 1..Len(delivered') : delivered'[i] \in sent' \/ delivered'[i] \in Seq(StrayBytes)
    BY DEF Traced, Coded
  <2> QED BY <1>2, <2>1, <2>2, <2>3, Zenon DEF Coded
<1>4. ASSUME OwnFramesOnce PROVE OnePlace' /\ Spent(src)'
  <2>1. OnePlace /\ Spent(src)
    BY <1>4, Zenon DEF Traced
  <2>2. OnePlace'
    BY <1>1, <2>1, Zenon DEF OnePlace
  <2>3. Spent(src)'
    BY <1>1, <2>1, Zenon DEF Spent
  <2> QED BY <2>2, <2>3
<1>5. OwnFramesFit => Kept(src)'
  BY Zenon DEF Traced, Kept
<1> QED BY <1>3, <1>4, <1>5 DEF Traced, OwnFramesOnce, OwnFramesFit

\* Receive moves a frame from the network to a reader; it refuses none of the
\* encoder's.
LEMMA ReceiveTraced ==
  ASSUME TypeInv, NEW src, Traced(src), NEW r \in Readers, NEW f \in net, Receive(r, f)
  PROVE  Traced(src)'
<1>1. /\ readers[r] = Idle /\ net' = (IF Duplicates THEN net ELSE net \ {f})
      /\ UNCHANGED <<clock, nextSeq, exhausted, sent, pending, delivered, decoded, dropped>>
  BY Zenon DEF Receive, encoderVars
<1>2. Used' = Used
  BY <1>1 DEF Used
<1>3. \/ /\ wellFormed(f) /\ failed' = failed
         /\ readers' = [readers EXCEPT ![r] = [frame |-> f, now |-> clock]]
      \/ ~wellFormed(f) /\ readers' = readers
  BY DEF Receive
<1>4. Held' \subseteq Held \cup {f} /\ (wellFormed(f) \/ Held' = Held)
  <2>1. CASE readers' = readers /\ ~wellFormed(f)
    BY <2>1, Zenon DEF Held
  <2>2. CASE wellFormed(f) /\ readers' = [readers EXCEPT ![r] = [frame |-> f, now |-> clock]]
    <3>1. \A q \in Readers : readers'[q] = IF q = r THEN [frame |-> f, now |-> clock] ELSE readers[q]
      BY <2>2, Zenon DEF TypeInv
    <3> QED BY <2>2, <3>1 DEF Held
  <2> QED BY <1>3, <2>1, <2>2, Zenon
<1>5. Origin(f, src, Used) /\ Numbered(src)
  BY DEF Traced, Coded
<1>6. Coded(src)'
  <2>1. Numbered(src)'
    BY <1>1, <1>2, <1>5, Zenon DEF Numbered
  <2>2. \A g \in (net \cup Held \cup decoded)' : Origin(g, src, Used)'
    <3>1. (net \cup Held \cup decoded)' \subseteq net \cup Held \cup decoded
      BY <1>1, <1>4
    <3>2. \A g \in net \cup Held \cup decoded : Origin(g, src, Used)
      BY DEF Traced, Coded
    <3> QED BY <1>2, <3>1, <3>2, Zenon DEF Origin
  <2>3. \A s \in DOMAIN pending' : Pieced(pending[s], s, src, Used)'
    BY <1>1, <1>2, Zenon DEF Traced, Coded, Pieced
  <2>4. \A i \in 1..Len(delivered') : delivered'[i] \in sent' \/ delivered'[i] \in Seq(StrayBytes)
    BY <1>1 DEF Traced, Coded
  <2> QED BY <2>1, <2>2, <2>3, <2>4, Zenon DEF Coded
<1>7. ASSUME OwnFramesOnce PROVE OnePlace' /\ Spent(src)'
  <2>1. OnePlace /\ Spent(src) /\ net' = net \ {f}
    BY <1>1, <1>7 DEF Traced, OwnFramesOnce
  <2>2. /\ (net \cap Held)' = {} /\ (net \cap decoded)' = {} /\ (Held \cap decoded)' = {}
    BY <1>1, <1>4, <2>1, Zenon DEF OnePlace
  <2>3. ASSUME NEW q \in Readers, NEW u \in Readers, readers'[q] # Idle, readers'[u] # Idle,
               readers'[q].frame = readers'[u].frame
        PROVE  q = u
    <3>1. CASE readers' = readers
      BY <2>1, <2>3, <3>1, Zenon DEF OnePlace
    <3>2. CASE readers' = [readers EXCEPT ![r] = [frame |-> f, now |-> clock]]
      <4>1. \A w \in Readers : readers'[w] = IF w = r THEN [frame |-> f, now |-> clock] ELSE readers[w]
        BY <3>2, Zenon DEF TypeInv
      <4>2. \A w \in Readers : readers[w] # Idle => readers[w].frame # f
        BY <2>1, Zenon DEF OnePlace, Held
      <4>3. [frame |-> f, now |-> clock].frame = f
        OBVIOUS
      <4>4. q = r <=> u = r
        BY <2>3, <4>1, <4>2, <4>3, Zenon
      <4>5. CASE q # r
        <5>1. readers'[q] = readers[q] /\ readers'[u] = readers[u]
          BY <4>1, <4>4, <4>5, Zenon
        <5> QED BY <2>1, <2>3, <5>1, Zenon DEF OnePlace
      <4> QED BY <4>4, <4>5, Zenon
    <3> QED BY <1>3, <3>1, <3>2, Zenon
  <2>4. Spent(src)'
    BY <1>1, <1>2, <2>1 DEF Spent
  <2> QED BY <2>2, <2>3, <2>4, Zenon DEF OnePlace
<1>8. ASSUME OwnFramesFit PROVE Kept(src)'
  <2>1. f.seq \in Used
    BY <1>5, <1>8, Zenon DEF Origin, OwnFramesFit
  <2>2. f \in Frame
    BY DEF TypeInv
  <2>3. wellFormed(f)
    BY <1>5, <2>1, <2>2, OriginFacts, Zenon
  <2>4. failed' = failed
    BY <1>3, <2>3
  <2> QED BY <1>1, <1>8, <2>4, Zenon DEF Traced, Kept
<1> QED BY <1>6, <1>7, <1>8, Zenon DEF Traced, OwnFramesOnce, OwnFramesFit

\* Encode gives the packet a number of its own, and its frames that number.
LEMMA EncodeTraced ==
  ASSUME TypeInv, NEW src, Traced(src), NEW p \in Packets, Encode(p), Apart',
         NEW w, w = [s \in Used \cup {nextSeq} |-> IF s = nextSeq THEN p ELSE src[s]]
  PROVE  Traced(w)'
<1>1. /\ bytes(p) \notin sent /\ sent' = sent \cup {bytes(p)}
      /\ Size[p] \in 1..EncoderMax /\ count(bytes(p)) <= MaxCount
      /\ net' = net \cup frames(bytes(p), nextSeq)
      /\ nextSeq \notin Used /\ Used' = Used \cup {nextSeq}
      /\ UNCHANGED <<clock, readers, pending, delivered, failed, decoded, dropped>>
  BY EncodeFacts, Zenon
<1>2. /\ Numbered(src) /\ \A f \in net \cup Held \cup decoded : Origin(f, src, Used)
      /\ \A s \in DOMAIN pending : Pieced(pending[s], s, src, Used)
      /\ \A i \in 1..Len(delivered) : delivered[i] \in sent \/ delivered[i] \in Seq(StrayBytes)
  BY DEF Traced, Coded
<1>3. w[nextSeq] = p /\ \A s \in Used : w[s] = src[s]
  BY <1>1, Zenon
<1>4. Held' = Held
  BY <1>1, Zenon DEF Held
<1>5. Numbered(w)'
  <2>1. /\ src \in [Used -> Packets] /\ sent = {bytes(src[s]) : s \in Used}
        /\ \A s, u \in Used : src[s] = src[u] => s = u
        /\ \A s \in Used : Size[src[s]] \in 1..EncoderMax /\ count(bytes(src[s])) <= MaxCount
    BY <1>2, Zenon DEF Numbered
  <2>2. w \in [Used' -> Packets]
    BY <1>1, <2>1, Zenon
  <2>3. sent' = {bytes(w[s]) : s \in Used'}
    BY <1>1, <1>3, <2>1, Zenon
  <2>4. \A s \in Used : src[s] # p
    BY <1>1, <2>1, Zenon
  <2>5. \A s, u \in Used' : w[s] = w[u] => s = u
    BY <1>1, <1>3, <2>1, <2>4, Zenon
  <2>6. \A s \in Used' : Size[w[s]] \in 1..EncoderMax /\ count(bytes(w[s])) <= MaxCount
    BY <1>1, <1>3, <2>1, Zenon
  <2> QED BY <2>2, <2>3, <2>5, <2>6, Zenon DEF Numbered
<1>6. nextSeq \in 0..MaxSeq /\ \A f \in frames(bytes(p), nextSeq) : f.seq = nextSeq
  BY FramesNumber, Zenon DEF TypeInv
<1>7. \A f \in (net \cup Held \cup decoded)' : Origin(f, w, Used')
  <2>1. ASSUME NEW f \in net \cup Held \cup decoded PROVE Origin(f, w, Used')
    <3>1. CASE f.seq \in Used
      BY <1>1, <1>2, <1>3, <3>1, Zenon DEF Origin
    <3>2. CASE f.seq \notin Used
      <4>1. f \in Stray
        BY <1>2, <3>2, Zenon DEF Origin
      <4>2. f.seq \notin Used'
        BY <4>1 DEF Apart
      <4> QED BY <4>1, <4>2, Zenon DEF Origin
    <3> QED BY <3>1, <3>2, Zenon
  <2>2. ASSUME NEW f \in frames(bytes(p), nextSeq) PROVE Origin(f, w, Used')
    BY <1>1, <1>3, <1>6, Zenon DEF Origin
  <2> QED BY <1>1, <1>4, <2>1, <2>2, Zenon
<1>8. \A s \in DOMAIN pending : Pieced(pending[s], s, w, Used')
  <2>1. ASSUME NEW s \in DOMAIN pending PROVE Pieced(pending[s], s, w, Used')
    <3>1. CASE s \in Used
      BY <1>1, <1>2, <1>3, <3>1, Zenon DEF Pieced
    <3>2. CASE s \notin Used
      <4>1. pending[s].parts \in Seq(Seq(StrayBytes)) /\ \E f \in Stray : f.seq = s
        BY <1>2, <3>2, Zenon DEF Pieced
      <4>2. s \notin Used'
        BY <4>1, Zenon DEF Apart
      <4> QED BY <4>1, <4>2, Zenon DEF Pieced
    <3> QED BY <3>1, <3>2, Zenon
  <2> QED BY <2>1, Zenon
<1>9. Coded(w)'
  <2>1. \A f \in (net \cup Held \cup decoded)' : Origin(f, w, Used)'
    BY <1>7, Zenon DEF Origin
  <2>2. \A s \in DOMAIN pending' : Pieced(pending[s], s, w, Used)'
    BY <1>1, <1>8, Zenon DEF Pieced
  <2>3. \A i \in 1..Len(delivered') : delivered'[i] \in sent' \/ delivered'[i] \in Seq(StrayBytes)
    BY <1>1, <1>2, Zenon
  <2> QED BY <1>5, <2>1, <2>2, <2>3, Zenon DEF Coded
<1>10. Stray = {} => \A f \in net \cup Held \cup decoded : f.seq \in Used
  BY <1>2, Zenon DEF Origin
<1>11. ASSUME OwnFramesOnce PROVE OnePlace' /\ Spent(w)'
  <2>1. OnePlace /\ Spent(src) /\ Stray = {}
    BY <1>11 DEF Traced, OwnFramesOnce
  <2>2. \A f \in frames(bytes(p), nextSeq) : f \notin Held /\ f \notin decoded
    BY <1>1, <1>6, <1>10, <2>1, Zenon
  <2>3. OnePlace'
    BY <1>1, <1>4, <2>1, <2>2, Zenon DEF OnePlace
  <2>4. \A i \in 1..Len(delivered) : delivered[i] # bytes(p)
    <3>1. StrayBytes = {}
      BY <2>1 DEF StrayBytes
    <3>2. \A t \in Seq(StrayBytes) : Len(t) = 0
      BY <3>1
    <3>3. Len(bytes(p)) # 0
      BY <1>1, BytesFacts, NotEmpty, Zenon
    <3> QED BY <1>1, <1>2, <3>2, <3>3, Zenon
  <2>5. Spent(w)'
    <3>1. \A s \in DOMAIN pending' : \A i \in 1..pending'[s].count :
            pending'[s].parts[i] # Nil => \E f \in decoded' : f.seq = s /\ f.index = i - 1
      <4>1. pending' = pending /\ decoded' = decoded
        BY <1>1, Zenon
      <4> QED BY <2>1, <4>1 DEF Spent
    <3>2. \A s \in Used' : \A i \in 1..Len(delivered') :
            delivered'[i] = bytes(w[s]) => frames(bytes(w[s]), s) \subseteq decoded'
      BY <1>1, <1>3, <2>1, <2>4, Zenon DEF Spent
    <3> QED BY <3>1, <3>2, Zenon DEF Spent
  <2> QED BY <2>3, <2>5, Zenon
<1>12. ASSUME OwnFramesFit PROVE Kept(w)'
  <2>1. Kept(src) /\ Stray = {}
    BY <1>12 DEF Traced, OwnFramesFit
  <2>2. \A f \in decoded : bytes(w[f.seq]) = bytes(src[f.seq])
    BY <1>3, <1>10, <2>1, Zenon
  <2> QED BY <1>1, <2>1, <2>2, Zenon DEF Kept
<1> QED BY <1>9, <1>11, <1>12, Zenon DEF Traced, OwnFramesOnce, OwnFramesFit

\* Decode takes its frame from the reader and from no other.
LEMMA ChosenHeld ==
  ASSUME TypeInv, NEW r \in Readers, NEW f, NEW table, Chosen(r, f, table)
  PROVE  /\ f \in Held /\ Held' \subseteq Held /\ Used' = Used
         /\ \A q \in Readers : readers'[q] = IF q = r THEN Idle ELSE readers[q]
<1>1. readers[r] # Idle /\ f = readers[r].frame /\ readers' = [readers EXCEPT ![r] = Idle]
  BY Zenon DEF Chosen
<1>2. \A q \in Readers : readers'[q] = IF q = r THEN Idle ELSE readers[q]
  BY <1>1 DEF TypeInv
<1>3. Used' = Used
  BY Zenon DEF Chosen, Used
<1>4. f \in Held
  BY <1>1, Zenon DEF Held
<1>5. Held' \subseteq Held
  <2> SUFFICES ASSUME NEW g \in Held' PROVE g \in Held
    BY Zenon
  <2>1. PICK q \in Readers : readers'[q] # Idle /\ g = readers'[q].frame
    BY Zenon DEF Held
  <2>2. q # r /\ readers'[q] = readers[q]
    BY <1>2, <2>1, Zenon
  <2> QED BY <2>1, <2>2, Zenon DEF Held
<1> QED BY <1>2, <1>3, <1>4, <1>5, Zenon

-----------------------------------------------------------------------------
\* What a Decode leaves in the table: without the assembly of the frame, or with
\* b in its place (udp_codec.go:133-157).
Deleted(f, table) == /\ DOMAIN pending' = DOMAIN table \ {f.seq}
                     /\ \A u \in DOMAIN pending' : u \in DOMAIN table /\ pending'[u] = table[u]

Replaced(f, table, b) == /\ DOMAIN pending' = DOMAIN table /\ pending'[f.seq] = b
                         /\ \A u \in DOMAIN table : u # f.seq => pending'[u] = table[u]

\* b has the part of the frame beside those of a, and no other.
Filled(a, f, b) ==
  /\ Exact(a) /\ Exact(b) /\ a.count = f.count /\ b.count = f.count
  /\ f.index + 1 \in 1..f.count /\ b.parts[f.index + 1] # Nil
  /\ \A i \in 1..f.count : a.parts[i] # Nil => b.parts[i] # Nil
  /\ \A i \in 1..f.count : b.parts[i] # Nil => i = f.index + 1 \/ a.parts[i] # Nil
  /\ b.received = b.count => \A i \in 1..f.count : b.parts[i] # Nil

\* Decode returned the packet, after those it returned before.
Returned(packet) ==
  /\ \E i \in 1..Len(delivered') : delivered'[i] = packet
  /\ \A i \in 1..Len(delivered) : i \in 1..Len(delivered') /\ delivered'[i] = delivered[i]
  /\ \A i \in 1..Len(delivered') :
       delivered'[i] = packet \/ (i \in 1..Len(delivered) /\ delivered'[i] = delivered[i])

\* Deleting the assembly of the frame leaves the others (udp_codec.go:134, 141, 157).
LEMMA WithoutFacts ==
  ASSUME NEW f, NEW table, pending' = without(table, f.seq)
  PROVE  Deleted(f, table)
BY DEF without, Restrict, Deleted

\* Storing its part changes the assembly of the frame alone (udp_codec.go:144-148).
LEMMA StoresFacts ==
  ASSUME NEW r, NEW f, NEW table, Chosen(r, f, table), Stores(f, table)
  PROVE  Replaced(f, table, store(table[f.seq], f))
<1>1. pending' = [table EXCEPT ![f.seq] = store(table[f.seq], f)] /\ f.seq \in DOMAIN table
  BY DEF Chosen, Stores
<1>2. table = [s \in DOMAIN table |-> table[s]]
  BY DEF Chosen, Table
<1> QED BY <1>1, <1>2 DEF Replaced

\* The part of a frame that was missing is stored (udp_codec.go:144-146).
LEMMA FilledFacts ==
  ASSUME NEW r, NEW f, NEW table, Chosen(r, f, table), Misses(f, table[f.seq]),
         table[f.seq].total + Len(f.payload) <= DecoderMax
  PROVE  Filled(table[f.seq], f, store(table[f.seq], f))
<1>1. PICK a, b : a = table[f.seq] /\ b = store(a, f)
  BY Zenon
<1>2. f \in Frame /\ wellFormed(f)
  BY DEF Chosen
<1>3. Exact(a) /\ a.count = f.count /\ a.parts[f.index + 1] = Nil
      /\ a.total + Len(f.payload) <= DecoderMax
  BY <1>1 DEF Chosen, Table, Misses
<1>4. /\ Exact(b) /\ b.count = a.count
      /\ b.received = b.count => \A i \in 1..b.count : b.parts[i] # Nil
      /\ \A i \in 1..b.count : b.parts[i] = IF i = f.index + 1 THEN f.payload ELSE a.parts[i]
  <2>1. LET d == store(a, f) IN
        /\ Exact(d) /\ d.count = a.count
        /\ d.received = d.count => \A i \in 1..d.count : d.parts[i] # Nil
        /\ \A i \in 1..d.count : d.parts[i] = IF i = f.index + 1 THEN f.payload ELSE a.parts[i]
    BY <1>2, <1>3, StoreExact
  <2> QED BY <1>1, <2>1
<1>5. f.index + 1 \in 1..f.count /\ f.payload # Nil
  BY <1>2 DEF Frame, wellFormed, Nil
<1>6. Filled(a, f, b)
  <2>1. b.parts[f.index + 1] = f.payload /\ b.count = f.count
    BY <1>3, <1>4, <1>5, Zenon
  <2>2. ASSUME NEW i \in 1..f.count
        PROVE  /\ a.parts[i] # Nil => b.parts[i] # Nil
               /\ b.parts[i] # Nil => i = f.index + 1 \/ a.parts[i] # Nil
    BY <1>3, <1>4, <2>1, Zenon
  <2> QED BY <1>3, <1>4, <1>5, <2>1, <2>2, Zenon DEF Filled
<1> QED BY <1>1, <1>6, Zenon

\* Appending to what Decode returned (udp_codec.go:158).
LEMMA ReturnedFacts ==
  ASSUME TypeInv, NEW packet, delivered' = Append(delivered, packet)
  PROVE  Returned(packet)
<1>1. delivered \in Seq(Seq(Byte))
  BY DEF TypeInv
<1>2. /\ Len(delivered') = Len(delivered) + 1 /\ Len(delivered) \in Nat
      /\ \A i \in 1..Len(delivered') :
           delivered'[i] = IF i <= Len(delivered) THEN delivered[i] ELSE packet
  BY <1>1
<1>3. Len(delivered') \in 1..Len(delivered') /\ delivered'[Len(delivered')] = packet
  BY <1>2
<1>4. \A i \in 1..Len(delivered) : i \in 1..Len(delivered') /\ delivered'[i] = delivered[i]
  BY <1>2
<1>5. \A i \in 1..Len(delivered') :
        delivered'[i] = packet \/ (i \in 1..Len(delivered) /\ delivered'[i] = delivered[i])
  BY <1>2
<1> QED BY <1>3, <1>4, <1>5, Zenon DEF Returned

\* What is of one packet, or of none, stays so when the part of the frame is
\* stored.
LEMMA FilledPieced ==
  ASSUME TypeInv, NEW src, Coded(src), NEW r \in Readers, NEW f, NEW table,
         Chosen(r, f, table), Misses(f, table[f.seq]),
         table[f.seq].total + Len(f.payload) <= DecoderMax
  PROVE  Pieced(store(table[f.seq], f), f.seq, src, Used)
<1>1. PICK a : a = table[f.seq]
  BY Zenon
<1>2. f \in Frame /\ wellFormed(f) /\ f.seq \in DOMAIN table
  BY Zenon DEF Chosen
<1>3. Origin(f, src, Used) /\ \A s \in DOMAIN table : Pieced(table[s], s, src, Used)
  BY ChosenPieced, Zenon
<1>4. Filled(a, f, store(a, f))
  BY <1>1, FilledFacts, Zenon
<1>5. Exact(a)
  BY <1>4, Zenon DEF Filled
<1>6. /\ Numbered(src) /\ Misses(f, a) /\ Pieced(a, f.seq, src, Used)
      /\ a.total + Len(f.payload) <= DecoderMax
  BY <1>1, <1>2, <1>3, Zenon DEF Coded
<1>7. Pieced(store(a, f), f.seq, src, Used)
  BY <1>2, <1>3, <1>5, <1>6, StorePieced
<1> QED BY <1>1, <1>7, Zenon

\* What Decode completes is what was sent with the number of the frame, or
\* has bytes of stray frames only.
LEMMA CompletesPieced ==
  ASSUME TypeInv, NEW src, Coded(src), NEW r \in Readers, NEW f, NEW table,
         Chosen(r, f, table), Completes(f, table)
  PROVE  \E whole : /\ delivered' = Append(delivered, whole)
                    /\ IF f.seq \in Used THEN whole = bytes(src[f.seq])
                                         ELSE whole \in Seq(StrayBytes)
<1>1. PICK a, b : a = table[f.seq] /\ b = store(a, f)
  BY Zenon
<1>2. /\ Misses(f, a) /\ a.total + Len(f.payload) <= DecoderMax
      /\ b.received = b.count /\ delivered' = Append(delivered, joined(b.parts))
  BY <1>1, Zenon DEF Completes
<1>3. Pieced(b, f.seq, src, Used) /\ Filled(a, f, b)
  BY <1>1, <1>2, FilledPieced, FilledFacts, Zenon
<1>4. Exact(b) /\ \A i \in 1..b.count : b.parts[i] # Nil
  BY <1>2, <1>3, Zenon DEF Filled
<1>5. Numbered(src)
  BY Zenon DEF Coded
<1>6. IF f.seq \in Used THEN joined(b.parts) = bytes(src[f.seq])
                        ELSE joined(b.parts) \in Seq(StrayBytes)
  BY <1>3, <1>4, <1>5, WholePieced
<1> QED BY <1>2, <1>6, Zenon

\* What Decode stores and returns is of one packet, or of none.
LEMMA DecodeCoded ==
  ASSUME TypeInv, NEW src, Coded(src), NEW r \in Readers, NEW f, NEW table,
         Chosen(r, f, table),
         Fails(f, table) \/ Repeats(f, table) \/ Stores(f, table) \/ Completes(f, table)
  PROVE  Coded(src)'
<1>1. decoded' = decoded \cup {f} /\ net' = net /\ sent' = sent
  BY Zenon DEF Chosen
<1>2. f \in Held /\ Held' \subseteq Held /\ Used' = Used
  BY ChosenHeld, Zenon
<1>3. Numbered(src)'
  BY <1>1, <1>2, Zenon DEF Coded, Numbered
<1>4. \A g \in (net \cup Held \cup decoded)' : Origin(g, src, Used)'
  BY <1>1, <1>2, Zenon DEF Coded, Origin
<1>5. \A s \in DOMAIN pending' : Pieced(pending'[s], s, src, Used)
  <2>1. \A s \in DOMAIN table : Pieced(table[s], s, src, Used)
    BY ChosenPieced, Zenon
  <2>2. CASE pending' = without(table, f.seq)
    <3>1. Deleted(f, table)
      BY <2>2, WithoutFacts, Zenon
    <3> QED BY <2>1, <3>1, Zenon DEF Deleted
  <2>3. CASE Repeats(f, table)
    BY <2>1, <2>3, Zenon DEF Repeats
  <2>4. CASE Stores(f, table)
    <3>1. PICK b : b = store(table[f.seq], f)
      BY Zenon
    <3>2. Misses(f, table[f.seq]) /\ table[f.seq].total + Len(f.payload) <= DecoderMax
      BY <2>4, Zenon DEF Stores
    <3>3. Pieced(b, f.seq, src, Used) /\ Replaced(f, table, b)
      BY <2>4, <3>1, <3>2, FilledPieced, StoresFacts, Zenon
    <3> QED BY <2>1, <3>3, Zenon DEF Replaced
  <2> QED BY <2>2, <2>3, <2>4, Zenon DEF Fails, Completes
<1>6. \A i \in 1..Len(delivered') : delivered'[i] \in sent' \/ delivered'[i] \in Seq(StrayBytes)
  <2>1. CASE delivered' = delivered
    BY <1>1, <2>1, Zenon DEF Coded
  <2>2. CASE Completes(f, table)
    <3>1. PICK whole : /\ delivered' = Append(delivered, whole)
                       /\ IF f.seq \in Used THEN whole = bytes(src[f.seq])
                                            ELSE whole \in Seq(StrayBytes)
      BY <2>2, CompletesPieced, Zenon
    <3>2. whole \in sent \/ whole \in Seq(StrayBytes)
      BY <3>1 DEF Coded, Numbered
    <3>3. Returned(whole)
      BY <3>1, ReturnedFacts, Zenon
    <3> QED BY <1>1, <3>2, <3>3, Zenon DEF Coded, Returned
  <2> QED BY <2>1, <2>2, Zenon DEF Fails, Repeats, Stores
<1> QED
  <2>1. \A s \in DOMAIN pending' : Pieced(pending[s], s, src, Used)'
    BY <1>2, <1>5, Zenon DEF Pieced
  <2> QED BY <1>3, <1>4, <1>6, <2>1, Zenon DEF Coded

\* Without stray frames what Decode returns is the packet whose number the frame
\* has, and it held the packet's other parts.
LEMMA CompletesWhole ==
  ASSUME TypeInv, NEW src, Coded(src), Stray = {}, NEW r \in Readers, NEW f, NEW table,
         Chosen(r, f, table), Completes(f, table)
  PROVE  /\ f.seq \in Used /\ delivered' = Append(delivered, bytes(src[f.seq]))
         /\ Returned(bytes(src[f.seq])) /\ Filled(table[f.seq], f, store(table[f.seq], f))
         /\ \A i \in 1..f.count : i = f.index + 1 \/ table[f.seq].parts[i] # Nil
<1>1. f.seq \in Used
  <2>1. Origin(f, src, Used)
    BY ChosenPieced, Zenon
  <2> QED BY <2>1, Zenon DEF Origin
<1>2. delivered' = Append(delivered, bytes(src[f.seq]))
  BY <1>1, CompletesPieced, Zenon
<1>3. Filled(table[f.seq], f, store(table[f.seq], f))
  BY FilledFacts, Zenon DEF Completes
<1>4. \A i \in 1..f.count : i = f.index + 1 \/ table[f.seq].parts[i] # Nil
  BY <1>3, Zenon DEF Completes, Filled
<1> QED BY <1>1, <1>2, <1>3, <1>4, ReturnedFacts, Zenon

\* A packet has one frame of an index.
LEMMA FramesUnique ==
  ASSUME NEW packet, NEW s, NEW f \in frames(packet, s), NEW g \in frames(packet, s),
         f.index = g.index
  PROVE  f = g
<1>1. PICK i \in 0..(count(packet) - 1) :
        f = [version |-> Version, seq |-> s, index |-> i, count |-> count(packet),
             payload |-> chunk(packet, i)]
  BY Zenon DEF frames
<1>2. PICK j \in 0..(count(packet) - 1) :
        g = [version |-> Version, seq |-> s, index |-> j, count |-> count(packet),
             payload |-> chunk(packet, j)]
  BY Zenon DEF frames
<1>3. i = j
  BY <1>1, <1>2, Zenon
<1> QED BY <1>1, <1>2, <1>3, Zenon

\* The parts of the assembly are of frames of D.
PartsOf(a, s, D) ==
  \A i \in 1..a.count : a.parts[i] # Nil => \E g \in D : g.seq = s /\ g.index = i - 1

\* The parts Decode holds are of frames it has decoded.
LEMMA DecodeHolds ==
  ASSUME NEW src, Spent(src), NEW r \in Readers, NEW f, NEW table, Chosen(r, f, table),
         Fails(f, table) \/ Repeats(f, table) \/ Stores(f, table) \/ Completes(f, table)
  PROVE  /\ \A s \in DOMAIN table : PartsOf(table[s], s, decoded)
         /\ \A s \in DOMAIN pending' : PartsOf(pending'[s], s, decoded')
<1>1. decoded \subseteq decoded' /\ f \in decoded' /\ f \in Frame /\ f.seq \in DOMAIN table
  BY Zenon DEF Chosen
<1>2. \A s \in DOMAIN table : PartsOf(table[s], s, decoded)
  <2>1. \A s \in DOMAIN pending : PartsOf(pending[s], s, decoded)
    BY Zenon DEF Spent, PartsOf
  <2>2. ASSUME NEW s \in DOMAIN table PROVE PartsOf(table[s], s, decoded)
    <3>1. CASE s \in DOMAIN pending /\ table[s] = pending[s]
      BY <2>1, <3>1, Zenon
    <3>2. CASE table[s].count = f.count /\ \A i \in 1..f.count : table[s].parts[i] = Nil
      BY <3>2, Zenon DEF PartsOf
    <3> QED BY <3>1, <3>2, Zenon DEF Chosen
  <2> QED BY <2>2, Zenon
<1>3. \A a, s : PartsOf(a, s, decoded) => PartsOf(a, s, decoded')
  BY <1>1, Zenon DEF PartsOf
<1>4. CASE pending' = without(table, f.seq)
  <2>1. Deleted(f, table)
    BY <1>4, WithoutFacts, Zenon
  <2> QED BY <1>2, <1>3, <2>1, Zenon DEF Deleted
<1>5. CASE Repeats(f, table)
  BY <1>2, <1>3, <1>5, Zenon DEF Repeats
<1>6. CASE Stores(f, table)
  <2>1. PICK a, b : a = table[f.seq] /\ b = store(a, f)
    BY Zenon
  <2>2. Replaced(f, table, b) /\ Filled(a, f, b)
    BY <1>6, <2>1, StoresFacts, FilledFacts, Zenon DEF Stores
  <2>3. ASSUME NEW i \in 1..b.count, b.parts[i] # Nil
        PROVE  \E g \in decoded' : g.seq = f.seq /\ g.index = i - 1
    <3>1. CASE i = f.index + 1
      <4>1. f.index \in Int
        BY <1>1 DEF Frame
      <4>2. f.index = i - 1
        BY <3>1, <4>1
      <4> QED BY <1>1, <4>2, Zenon
    <3>2. CASE i # f.index + 1
      <4>1. i \in 1..a.count /\ a.parts[i] # Nil
        BY <2>2, <2>3, <3>2, Zenon DEF Filled
      <4>2. PartsOf(a, f.seq, decoded')
        BY <1>1, <1>2, <1>3, <2>1, Zenon
      <4> QED BY <4>1, <4>2, Zenon DEF PartsOf
    <3> QED BY <3>1, <3>2, Zenon
  <2>4. PartsOf(b, f.seq, decoded')
    BY <2>3, Zenon DEF PartsOf
  <2> QED BY <1>2, <1>3, <2>2, <2>4, Zenon DEF Replaced
<1> QED BY <1>2, <1>4, <1>5, <1>6, Zenon DEF Fails, Completes

\* All frames of the packet Decode returns have been decoded.
LEMMA CompletesDecoded ==
  ASSUME TypeInv, NEW src, Coded(src), Stray = {}, Spent(src),
         NEW r \in Readers, NEW f, NEW table, Chosen(r, f, table), Completes(f, table)
  PROVE  frames(bytes(src[f.seq]), f.seq) \subseteq decoded'
<1>1. decoded' = decoded \cup {f} /\ f \in Frame /\ f.seq \in DOMAIN table
  BY Zenon DEF Chosen
<1>2. PICK packet, u, a : packet = bytes(src[u]) /\ u = f.seq /\ a = table[u]
  BY Zenon
<1>3. u \in Used /\ a.count = f.count /\ \A i \in 1..f.count : i = f.index + 1 \/ a.parts[i] # Nil
  <2>1. /\ f.seq \in Used /\ table[f.seq].count = f.count
        /\ \A i \in 1..f.count : i = f.index + 1 \/ table[f.seq].parts[i] # Nil
    BY CompletesWhole, Zenon DEF Completes, Misses
  <2> QED BY <1>2, <2>1, Zenon
<1>4. src[u] \in Packets /\ Size[src[u]] # 0 /\ count(packet) <= MaxCount /\ u \in 0..MaxSeq
  <2>1. Numbered(src)
    BY Zenon DEF Coded
  <2>2. src[u] \in Packets /\ Size[src[u]] \in 1..EncoderMax /\ count(bytes(src[u])) <= MaxCount
    BY <1>3, <2>1 DEF Numbered
  <2>3. u \in 0..MaxSeq
    BY <1>3, Zenon DEF Used
  <2>4. Size[src[u]] # 0
    BY <2>2, NotEmpty, Zenon
  <2> QED BY <1>2, <2>2, <2>3, <2>4, Zenon
<1>5. f \in frames(packet, u) /\ \A h \in decoded : h.seq = u => h \in frames(packet, u)
  <2>1. f \in Held
    BY ChosenHeld, Zenon
  <2> QED BY <1>2, <1>3, <2>1, Zenon DEF Coded, Origin
<1>6. \A i \in 1..a.count : a.parts[i] # Nil => \E h \in decoded : h.seq = u /\ h.index = i - 1
  <2>1. PartsOf(table[f.seq], f.seq, decoded)
    BY <1>1, DecodeHolds, Zenon
  <2> QED BY <1>2, <2>1, Zenon DEF PartsOf
<1>7. ASSUME NEW g \in frames(packet, u) PROVE g \in decoded'
  <2>1. g.count = f.count /\ g.index \in 0..(f.count - 1) /\ f.count \in Nat /\ f.index \in Nat
    <3>1. f.count \in Nat /\ f.index \in Nat
      BY <1>1 DEF Frame
    <3>2. f \in frames(bytes(src[u]), u) /\ g \in frames(bytes(src[u]), u)
          /\ count(bytes(src[u])) <= MaxCount
      BY <1>2, <1>4, <1>5, Zenon
    <3>3. f.count = count(bytes(src[u]))
      BY <1>4, <3>2, FramesFacts, Zenon
    <3>4. g.count = count(bytes(src[u])) /\ g.index \in 0..(g.count - 1)
      BY <1>4, <3>2, FramesFacts, Zenon
    <3> QED BY <3>1, <3>3, <3>4, Zenon
  <2>2. g.index + 1 \in 1..f.count /\ (g.index + 1) - 1 = g.index
        /\ (g.index # f.index => g.index + 1 # f.index + 1)
    BY <2>1
  <2>3. CASE g.index = f.index
    BY <1>1, <1>5, <2>3, FramesUnique, Zenon
  <2>4. CASE g.index # f.index
    <3>1. PICK h \in decoded : h.seq = u /\ h.index = g.index
      BY <1>3, <1>6, <2>2, <2>4, Zenon
    <3>2. h = g
      BY <1>5, <3>1, FramesUnique, Zenon
    <3> QED BY <1>1, <3>2, Zenon
  <2> QED BY <2>3, <2>4, Zenon
<1> QED BY <1>2, <1>7, Zenon

\* Without duplicates no frame is decoded twice, so that no packet is returned twice.
LEMMA DecodeOnce ==
  ASSUME TypeInv, NEW src, Coded(src), Stray = {}, OnePlace, Spent(src),
         NEW r \in Readers, NEW f, NEW table, Chosen(r, f, table),
         Fails(f, table) \/ Repeats(f, table) \/ Stores(f, table) \/ Completes(f, table)
  PROVE  OnePlace' /\ Spent(src)'
<1>1. decoded' = decoded \cup {f} /\ net' = net
  BY Zenon DEF Chosen
<1>2. /\ f \in Held /\ Held' \subseteq Held /\ Used' = Used
      /\ \A q \in Readers : readers'[q] = IF q = r THEN Idle ELSE readers[q]
  BY ChosenHeld, Zenon
<1>3. OnePlace'
  <2>1. readers[r] # Idle /\ f = readers[r].frame
    BY Zenon DEF Chosen
  <2>2. f \notin Held'
    <3> SUFFICES ASSUME NEW q \in Readers, readers'[q] # Idle
                 PROVE  readers'[q].frame # f
      BY Zenon DEF Held
    <3>1. q # r /\ readers'[q] = readers[q]
      BY <1>2, Zenon
    <3> QED BY <2>1, <3>1, Zenon DEF OnePlace
  <2> QED BY <1>1, <1>2, <2>2, Zenon DEF OnePlace
<1>4. \A s \in DOMAIN pending' : \A i \in 1..pending'[s].count :
        pending'[s].parts[i] # Nil => \E g \in decoded' : g.seq = s /\ g.index = i - 1
  <2>1. \A s \in DOMAIN pending' : PartsOf(pending'[s], s, decoded')
    BY DecodeHolds, Zenon
  <2> QED BY <2>1, Zenon DEF PartsOf
<1>5. \A s \in Used : \A i \in 1..Len(delivered') :
        delivered'[i] = bytes(src[s]) => frames(bytes(src[s]), s) \subseteq decoded'
  <2>1. CASE delivered' = delivered
    BY <1>1, <2>1, Zenon DEF Spent
  <2>2. CASE Completes(f, table)
    <3>1. f.seq \in Used /\ Returned(bytes(src[f.seq]))
      BY <2>2, CompletesWhole, Zenon
    <3>2. frames(bytes(src[f.seq]), f.seq) \subseteq decoded'
      BY <2>2, CompletesDecoded, Zenon
    <3>3. ASSUME NEW s \in Used, bytes(src[s]) = bytes(src[f.seq]) PROVE s = f.seq
      <4>1. src[s] \in Packets /\ src[f.seq] \in Packets /\ Size[src[s]] # 0
            /\ (src[s] = src[f.seq] => s = f.seq)
        BY <3>1 DEF Coded, Numbered
      <4> QED BY <3>3, <4>1, BytesDiffer, Zenon
    <3>4. ASSUME NEW s \in Used, NEW i \in 1..Len(delivered'), delivered'[i] = bytes(src[s])
          PROVE  frames(bytes(src[s]), s) \subseteq decoded'
      <4>1. CASE i \in 1..Len(delivered) /\ delivered[i] = bytes(src[s])
        BY <1>1, <4>1, Zenon DEF Spent
      <4>2. CASE bytes(src[s]) = bytes(src[f.seq])
        BY <3>2, <3>3, <4>2, Zenon
      <4> QED BY <3>1, <3>4, <4>1, <4>2, Zenon DEF Returned
    <3> QED BY <3>4, Zenon
  <2> QED BY <2>1, <2>2, Zenon DEF Fails, Repeats, Stores
<1> QED BY <1>2, <1>3, <1>4, <1>5, Zenon DEF Spent

\* With limits that agree Decode refuses none of the encoder's frames.
LEMMA NoneFails ==
  ASSUME TypeInv, NEW src, Coded(src), OwnFramesFit,
         NEW r \in Readers, NEW f, NEW table, Chosen(r, f, table)
  PROVE  ~Fails(f, table)
<1>1. f \in Frame /\ wellFormed(f) /\ Table(table) /\ f.seq \in DOMAIN table
  BY Zenon DEF Chosen
<1>2. Origin(f, src, Used) /\ \A s \in DOMAIN table : Pieced(table[s], s, src, Used)
  BY ChosenPieced, Zenon
<1>3. f.seq \in Used /\ Numbered(src)
  BY <1>2, Zenon DEF Origin, Coded, OwnFramesFit
<1>4. PICK a : a = table[f.seq]
  BY Zenon
<1>5. Exact(a) /\ Pieced(a, f.seq, src, Used)
  BY <1>1, <1>2, <1>4, Zenon DEF Table
<1>6. a.count = f.count /\ (a.parts[f.index + 1] = Nil => a.total + Len(f.payload) <= DecoderMax)
  BY <1>1, <1>2, <1>3, <1>5, PiecedFits, Zenon
<1>7. a.total \in Nat /\ DecoderMax \in Nat
  BY <1>5, CodecAssumption DEF Exact, Assembly
<1>8. Len(f.payload) \in Nat
  BY <1>1 DEF Frame
<1>9. ~(a.total + Len(f.payload) <= DecoderMax /\ a.total + Len(f.payload) > DecoderMax)
  BY <1>7, <1>8
<1> QED BY <1>4, <1>6, <1>9, Zenon DEF Fails, Misses

\* The frame is given up, held or returned with its packet.
Safe(g, src, given, t, got) ==
  \/ g.seq \in given
  \/ g.seq \in DOMAIN t /\ t[g.seq].parts[g.index + 1] # Nil
  \/ \E i \in 1..Len(got) : got[i] = bytes(src[g.seq])

\* With limits that agree every frame Decode has decoded is kept until its
\* packet is returned or given up.
LEMMA DecodeKept ==
  ASSUME TypeInv, NEW src, Coded(src), OwnFramesFit, Kept(src),
         NEW r \in Readers, NEW f, NEW table, Chosen(r, f, table),
         Fails(f, table) \/ Repeats(f, table) \/ Stores(f, table) \/ Completes(f, table)
  PROVE  Kept(src)'
<1>1. ~Fails(f, table)
  BY NoneFails, Zenon
<1>2. ~failed'
  BY <1>1, Zenon DEF Repeats, Stores, Completes, Kept
<1>3. decoded' = decoded \cup {f} /\ f \in Frame /\ f.seq \in DOMAIN table
  BY Zenon DEF Chosen
<1>4. \A g \in decoded : Safe(g, src, dropped', table, delivered)
  <2>1. /\ dropped \subseteq dropped'
        /\ \A s \in DOMAIN pending : s \in dropped' \/ (s \in DOMAIN table /\ table[s] = pending[s])
    BY Zenon DEF Chosen
  <2> QED BY <2>1, Zenon DEF Kept, Safe
<1>5. SUFFICES ASSUME NEW g \in decoded \cup {f} PROVE Safe(g, src, dropped', pending', delivered')
  BY <1>2, <1>3, <1>5, Zenon DEF Kept, Safe
<1>6. CASE Repeats(f, table)
  BY <1>3, <1>4, <1>5, <1>6, Zenon DEF Repeats, Safe
<1>7. CASE Stores(f, table)
  <2>1. PICK a, b : a = table[f.seq] /\ b = store(a, f)
    BY Zenon
  <2>2. Replaced(f, table, b) /\ Filled(a, f, b) /\ delivered' = delivered
    BY <1>7, <2>1, StoresFacts, FilledFacts, Zenon DEF Stores
  <2>3. CASE g = f
    BY <1>3, <2>2, <2>3, Zenon DEF Filled, Replaced, Safe
  <2>4. CASE g \in decoded /\ g.seq # f.seq
    BY <1>4, <2>2, <2>4, Zenon DEF Replaced, Safe
  <2>5. CASE g \in decoded /\ g.seq = f.seq
    <3>1. g.index + 1 \in 1..f.count
      <4>1. Origin(f, src, Used) /\ Origin(g, src, Used) /\ Numbered(src) /\ g \in Frame
        BY <2>5, ChosenPieced, Zenon DEF TypeInv, Coded
      <4>2. f.seq \in Used
        BY <4>1, Zenon DEF Origin, OwnFramesFit
      <4>3. f.count = count(bytes(src[f.seq])) /\ g.count = count(bytes(src[f.seq]))
            /\ g.index \in 0..(g.count - 1)
        BY <1>3, <2>5, <4>1, <4>2, OriginFacts, Zenon
      <4>4. f.count \in Nat /\ g.index \in 0..(f.count - 1)
        BY <1>3, <4>3 DEF Frame
      <4> QED BY <4>4
    <3>2. a.parts[g.index + 1] # Nil => b.parts[g.index + 1] # Nil
      BY <2>2, <3>1, Zenon DEF Filled
    <3>3. f.seq \in DOMAIN pending' /\ pending'[f.seq] = b
      BY <1>3, <2>2, Zenon DEF Replaced
    <3>4. Safe(g, src, dropped', table, delivered)
      BY <1>4, <2>5, Zenon
    <3> QED BY <2>1, <2>2, <2>5, <3>2, <3>3, <3>4, Zenon DEF Safe
  <2> QED BY <1>5, <2>3, <2>4, <2>5, Zenon
<1>8. CASE Completes(f, table)
  <2>1. Returned(bytes(src[f.seq])) /\ Deleted(f, table)
    <3>1. pending' = without(table, f.seq) /\ Stray = {}
      BY <1>8, Zenon DEF Completes, OwnFramesFit
    <3> QED BY <1>8, <3>1, CompletesWhole, WithoutFacts, Zenon
  <2>2. CASE g.seq = f.seq
    BY <2>1, <2>2, Zenon DEF Returned, Safe
  <2>3. CASE g.seq # f.seq
    BY <1>4, <1>5, <2>1, <2>3, Zenon DEF Returned, Deleted, Safe
  <2> QED BY <2>2, <2>3, Zenon
<1> QED BY <1>1, <1>6, <1>7, <1>8, Zenon

-----------------------------------------------------------------------------
\* Numbers once used stay used.
LEMMA ApartBefore ==
  ASSUME TypeInv, [Next]_vars, Apart'
  PROVE  Apart
<1>1. Used \subseteq Used'
  <2>1. ASSUME NEW p \in Packets, Encode(p) PROVE Used \subseteq Used'
    BY <2>1, EncodeFacts, Zenon
  <2>2. CASE UNCHANGED <<nextSeq, exhausted>>
    BY <2>2 DEF Used
  <2> QED BY <2>1, <2>2, Zenon DEF Next, Tick, Lose, Receive, Decode, encoderVars, vars
<1> QED BY <1>1 DEF Apart

\* Every step keeps the inductive invariant.
LEMMA NextKeeps ==
  ASSUME IInv, [Next]_vars
  PROVE  IInv'
<1>1. TypeInv
  BY DEF IInv
<1>2. TypeInv'
  BY <1>1, NextTyped
<1>3. ASSUME Apart' PROVE \E src \in [Used' -> Packets] : Traced(src)'
  <2>1. Apart
    BY <1>1, <1>3, ApartBefore, Zenon
  <2>2. PICK src \in [Used -> Packets] : Traced(src)
    BY <2>1 DEF IInv
  <2>3. SUFFICES ASSUME TRUE PROVE \E w : Traced(w)'
    BY Zenon DEF Traced, Coded, Numbered
  <2>4. CASE \E p \in Packets : Encode(p)
    <3>1. PICK p \in Packets : Encode(p)
      BY <2>4
    <3>2. PICK w : w = [s \in Used \cup {nextSeq} |-> IF s = nextSeq THEN p ELSE src[s]]
      BY Zenon
    <3>3. Traced(w)'
      BY <1>1, <1>3, <2>2, <3>1, <3>2, EncodeTraced, Zenon
    <3> QED BY <3>3
  <2>5. ASSUME NEW r \in Readers, Decode(r) PROVE Traced(src)'
    <3>1. PICK f, table : /\ Chosen(r, f, table)
                          /\ \/ Fails(f, table) \/ Repeats(f, table)
                             \/ Stores(f, table) \/ Completes(f, table)
      BY <1>1, <2>5, DecodeCases, Zenon
    <3>2. Coded(src)'
      BY <1>1, <2>2, <3>1, DecodeCoded, Zenon DEF Traced
    <3>3. OwnFramesOnce => OnePlace' /\ Spent(src)'
      BY <1>1, <2>2, <3>1, DecodeOnce, Zenon DEF Traced, OwnFramesOnce
    <3>4. OwnFramesFit => Kept(src)'
      BY <1>1, <2>2, <3>1, DecodeKept, Zenon DEF Traced
    <3> QED BY <3>2, <3>3, <3>4, Zenon DEF Traced, OwnFramesOnce, OwnFramesFit
  <2>6. ASSUME NEW r \in Readers, NEW f \in net, Receive(r, f) PROVE Traced(src)'
    BY <1>1, <2>2, <2>6, ReceiveTraced, Zenon
  <2>7. CASE Tick \/ (\E f \in net : Lose(f)) \/ UNCHANGED vars
    <3>1. /\ UNCHANGED <<nextSeq, exhausted, sent, readers, pending, delivered, failed, decoded,
                         dropped>>
          /\ net' \subseteq net
      BY <2>7, Zenon DEF Tick, Lose, encoderVars, decoderVars, vars
    <3> QED BY <1>1, <2>2, <3>1, QuietTraced, Zenon
  <2> QED BY <2>4, <2>5, <2>6, <2>7, Zenon DEF Next
<1> QED BY <1>2, <1>3, Zenon DEF IInv

(* The codec keeps its inductive invariant: the tables of the decoder are  *)
(* exact, and frames and assemblies can be traced to the packet that was   *)
(* sent with their number (udp_codec.go:39-159).                           *)
THEOREM Invariance == Spec => []IInv
<1>1. Init => IInv
  BY InitTyped, InitTraced DEF IInv
<1>2. IInv /\ [Next]_vars => IInv'
  BY NextKeeps
<1> QED BY <1>1, <1>2, PTL DEF Spec

(* Whatever frames reach it, a decoder holds at most MaxAssemblies         *)
(* assemblies of at most DecoderMax bytes, and its counters are those of   *)
(* the parts it holds (udp_codec.go:119-150).                              *)
THEOREM DecoderIsBounded == Spec => []DecoderBounded
<1>1. IInv => DecoderBounded
  BY Zenon DEF IInv, TypeInv, Table, Exact, DecoderBounded
<1> QED BY <1>1, Invariance, PTL

(* Under every loss, reordering and duplication, and with frames from      *)
(* elsewhere in between, what Decode returns of a sent packet is that      *)
(* packet, as long as the encoder has used no number of those frames       *)
(* (udp_codec.go:61-72, 137-156).                                          *)
THEOREM SentIsIntact == Spec => [](Apart => Integrity)
<1>1. ASSUME IInv, Apart PROVE Integrity
  <2>1. PICK src : Coded(src)
    BY <1>1 DEF IInv, Traced
  <2>2. ASSUME NEW i \in 1..Len(delivered), NEW t \in Seq(StrayBytes), t = delivered[i]
        PROVE  Range(delivered[i]) \cap UNION {Range(d) : d \in Data} = {}
    <3>1. Range(t) \subseteq StrayBytes
      BY DEF Range
    <3>2. ASSUME NEW p \in Packets PROVE Range(bytes(p)) \subseteq Packets \X Nat
      <4>1. bytes(p) \in Seq(Packets \X Nat)
        BY BytesFacts, Zenon
      <4> QED BY <4>1 DEF Range
    <3>3. \A b \in StrayBytes : b \notin Packets \X Nat
      BY StrayAssumption
    <3>4. UNION {Range(d) : d \in Data} \subseteq Packets \X Nat
      BY <3>2, Zenon DEF Data
    <3> QED BY <2>2, <3>1, <3>3, <3>4, Zenon
  <2> QED BY <2>1, <2>2, Zenon DEF Coded, Integrity
<1> QED BY <1>1, Invariance, PTL

\* The first byte of a fragment is a byte of the packet.
LEMMA ChunkOfPacket ==
  ASSUME NEW B, NEW packet \in Seq(B), Len(packet) # 0, NEW i \in 0..(count(packet) - 1)
  PROVE  chunk(packet, i)[1] \in Range(packet)
<1>1. PICK x, y : x = upTo(packet, i) /\ y = upTo(packet, i + 1)
  BY Zenon
<1>2. /\ chunk(packet, i) = SubSeq(packet, x + 1, y) /\ i * PayloadSize = x
      /\ 0 <= x /\ x < y /\ y <= Len(packet)
  BY <1>1, ChunkFacts, Zenon
<1>3. count(packet) \in Nat /\ PayloadSize \in Nat
  BY ChunkFacts, CodecAssumption, Zenon
<1>4. x \in Nat
  BY <1>2, <1>3
<1>5. y \in Nat
  <2>1. (i + 1) * PayloadSize \in Nat
    BY <1>3
  <2> QED BY <1>1, <2>1 DEF upTo
<1>6. SubSeq(packet, x + 1, y)[1] = packet[x + 1] /\ x + 1 \in 1..Len(packet)
  BY <1>2, <1>4, <1>5
<1>7. packet[x + 1] \in Range(packet)
  BY <1>6 DEF Range
<1> QED BY <1>2, <1>6, <1>7, Zenon

(* Where nothing but the encoder's frames arrives, in whatever number and  *)
(* order, and the decoder takes packets as large as the encoder does,      *)
(* Decode never fails, and a packet all fragments of which were decoded    *)
(* was returned unless its assembly expired or was evicted                 *)
(* (udp_codec.go:104-158).                                                 *)
THEOREM NoneDroppedSilently == OwnFramesFit => (Spec => []NoSilentDrop)
<1> SUFFICES ASSUME OwnFramesFit PROVE Spec => []NoSilentDrop
  OBVIOUS
<1>1. ASSUME IInv PROVE NoSilentDrop
  <2>1. Apart
    BY DEF Apart, OwnFramesFit
  <2>2. PICK src : Coded(src) /\ Kept(src)
    BY <1>1, <2>1 DEF IInv, Traced
  <2>3. TypeInv
    BY <1>1 DEF IInv
  <2>4. ASSUME NEW f \in decoded
        PROVE  f \in Frame /\ Origin(f, src, Used) /\ f.seq \in Used
    BY <2>2, <2>3, Zenon DEF TypeInv, Coded, Origin, OwnFramesFit
  <2>5. ASSUME NEW f \in decoded, NEW i \in 1..Len(delivered), delivered[i] = bytes(src[f.seq])
        PROVE  f.payload[1] \in Range(delivered[i])
    <3>1. PICK p : p = src[f.seq]
      BY Zenon
    <3>2. /\ f.count = count(bytes(p)) /\ f.index \in 0..(f.count - 1)
          /\ f.payload = chunk(bytes(p), f.index) /\ p \in Packets /\ Size[p] \in 1..EncoderMax
      BY <2>2, <2>3, <2>4, <3>1, OriginFacts, Zenon DEF Coded
    <3>3. bytes(p) \in Seq(Byte) /\ Len(bytes(p)) # 0
      BY <3>2, BytesFacts
    <3>4. f.payload[1] \in Range(bytes(p))
      BY <3>2, <3>3, ChunkOfPacket, Zenon
    <3> QED BY <2>5, <3>1, <3>4, Zenon
  <2>6. ASSUME NEW f \in decoded, f.seq \notin dropped,
               \A i \in 0..(f.count - 1) : \E g \in decoded : g.seq = f.seq /\ g.index = i,
               \A i \in 1..Len(delivered) : delivered[i] # bytes(src[f.seq])
        PROVE  FALSE
    <3>1. f.seq \in DOMAIN pending
      BY <2>2, <2>6, Zenon DEF Kept
    <3>2. PICK a : a = pending[f.seq]
      BY Zenon
    <3>3. Exact(a) /\ a.received < a.count /\ Pieced(a, f.seq, src, Used)
      BY <2>2, <2>3, <3>1, <3>2, Zenon DEF TypeInv, Table, Coded
    <3>4. a.count = f.count /\ f.count \in Nat
      <4>1. f.count = count(bytes(src[f.seq]))
        BY <2>2, <2>3, <2>4, OriginFacts, Zenon DEF Coded
      <4> QED BY <2>4, <3>3, <4>1, Zenon DEF Pieced, Frame
    <3>5. ASSUME NEW i \in 1..a.count PROVE a.parts[i] # Nil
      <4>1. i - 1 \in 0..(f.count - 1)
        BY <3>4
      <4>2. PICK g \in decoded : g.seq = f.seq /\ g.index = i - 1
        BY <2>6, <4>1, Zenon
      <4>3. g.index + 1 = i
        BY <4>2
      <4>4. pending[g.seq].parts[g.index + 1] # Nil
        <5>1. \/ g.seq \in dropped
              \/ g.seq \in DOMAIN pending /\ pending[g.seq].parts[g.index + 1] # Nil
              \/ \E k \in 1..Len(delivered) : delivered[k] = bytes(src[g.seq])
          BY <2>2, Zenon DEF Kept
        <5> QED BY <2>6, <4>2, <5>1, Zenon
      <4> QED BY <3>2, <4>2, <4>3, <4>4, Zenon
    <3>6. {i \in 1..a.count : a.parts[i] # Nil} = 1..a.count
      BY <3>5, Zenon
    <3>7. 1 \in Int /\ a.count \in Int /\ a.count >= 1
      BY <3>3, <3>4 DEF Exact, Assembly
    <3>8. Cardinality(1..a.count) = a.count
      BY <3>7, FS_Interval
    <3>9. a.received = a.count
      BY <3>3, <3>6, <3>8, Zenon DEF Exact
    <3> QED BY <3>3, <3>4, <3>9
  <2>7. ~failed
    BY <2>2, Zenon DEF Kept
  <2> QED BY <2>5, <2>6, <2>7, Zenon DEF NoSilentDrop
<1> QED BY <1>1, Invariance, PTL

(* Where nothing but the encoder's frames arrives, and none twice, the     *)
(* codec is an at-most-once datagram service: Encode is Send, the Decode   *)
(* that completes a packet is Deliver of a packet that was sent and not    *)
(* yet delivered, and every other step changes nothing the service shows   *)
(* (udp_codec.go:39-74, 104-159).                                          *)
THEOREM CodecIsService == OwnFramesOnce => (Spec => ImplementsService)
<1> SUFFICES ASSUME OwnFramesOnce PROVE Spec => ImplementsService
  OBVIOUS
<1>1. Init => Service!Init
  BY DEF Init, Service!Init
<1>2. ASSUME IInv, [Next]_vars PROVE [Service!Next]_<<sent, delivered>>
  <2>1. TypeInv /\ Apart
    BY <1>2, Zenon DEF IInv, Apart, OwnFramesOnce
  <2>2. PICK src : Coded(src) /\ OnePlace /\ Spent(src)
    BY <1>2, <2>1, Zenon DEF IInv, Traced
  <2>3. ASSUME NEW p \in Packets, Encode(p) PROVE Service!Send
    <3>1. bytes(p) \notin sent /\ sent' = sent \cup {bytes(p)} /\ delivered' = delivered
      BY <2>1, <2>3, EncodeFacts, Zenon
    <3> QED BY <3>1, Zenon DEF Service!Send, Data
  <2>4. ASSUME NEW r \in Readers, Decode(r) PROVE Service!Deliver \/ UNCHANGED <<sent, delivered>>
    <3>1. PICK f, table : /\ Chosen(r, f, table)
                          /\ \/ Fails(f, table) \/ Repeats(f, table)
                             \/ Stores(f, table) \/ Completes(f, table)
      BY <2>1, <2>4, DecodeCases, Zenon
    <3>2. sent' = sent
      BY <3>1, Zenon DEF Chosen
    <3>3. CASE Completes(f, table)
      <4>1. f.seq \in Used /\ delivered' = Append(delivered, bytes(src[f.seq]))
        BY <2>1, <2>2, <3>1, <3>3, CompletesWhole, Zenon DEF OwnFramesOnce
      <4>2. f \in Held
        BY <2>1, <3>1, ChosenHeld, Zenon
      <4>3. f \in frames(bytes(src[f.seq]), f.seq) /\ f \notin decoded
        BY <2>2, <4>1, <4>2, Zenon DEF Coded, Origin, OnePlace
      <4>4. \A i \in 1..Len(delivered) : delivered[i] # bytes(src[f.seq])
        BY <2>2, <4>1, <4>3, Zenon DEF Spent
      <4>5. DOMAIN delivered = 1..Len(delivered)
        BY <2>1 DEF TypeInv
      <4>6. bytes(src[f.seq]) \in sent
        BY <2>2, <4>1, Zenon DEF Coded, Numbered
      <4>7. bytes(src[f.seq]) \in sent \ {delivered[i] : i \in DOMAIN delivered}
        BY <4>4, <4>5, <4>6, Zenon
      <4> QED BY <3>2, <4>1, <4>7, Zenon DEF Service!Deliver
    <3> QED BY <3>1, <3>2, <3>3, Zenon DEF Fails, Repeats, Stores
  <2>5. ASSUME Tick \/ (\E f \in net : Lose(f) \/ \E r \in Readers : Receive(r, f))
               \/ UNCHANGED vars
        PROVE  UNCHANGED <<sent, delivered>>
    BY <2>5, Zenon DEF Tick, Lose, Receive, encoderVars, decoderVars, vars
  <2>6. \/ Tick \/ \E p \in Packets : Encode(p)
        \/ \E f \in net : Lose(f) \/ \E r \in Readers : Receive(r, f)
        \/ \E r \in Readers : Decode(r)
        \/ UNCHANGED vars
    BY <1>2, Zenon DEF Next
  <2>7. Service!Send \/ Service!Deliver \/ UNCHANGED <<sent, delivered>>
    BY <2>3, <2>4, <2>5, <2>6, Zenon
  <2> QED BY <2>7 DEF Service!Next
<1> QED BY <1>1, <1>2, Invariance, PTL DEF Spec, ImplementsService, Service!Spec
====
