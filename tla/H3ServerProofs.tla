--------------------------- MODULE H3ServerProofs ---------------------------
(* Correctness of Guard for every IPv4 address; and safety of H3Server,    *)
(* which uses it, for every set of requests and addresses and every number *)
(* of slots.                                                               *)
EXTENDS H3Server, FiniteSetTheorems, TLAPS

-----------------------------------------------------------------------------
(* The target guard: IsForbiddenIP of every IPv4 address. *)

\* An IPv4 address is four octets, and is not a mapped address.
LEMMA IPv4Length ==
  ASSUME NEW ip \in IPv4
  PROVE  Len(ip) = 4 /\ unmap(ip) = ip /\ \A i \in 1..4 : ip[i] \in 0..255
BY DEF IPv4, Octet, unmap, isMapped

\* What is left of an octet outside, and at the edge of, the bits of a prefix.
LEMMA Low ==
  ASSUME NEW x \in Octet
  PROVE  /\ \A k \in Int : k <= 0 => x \div low(k) = 0
         /\ \A k \in Int : k >= 8 => x \div low(k) = x
         /\ low(2) = 64 /\ low(4) = 16 /\ low(7) = 2
BY DEF low, Octet

\* contains, for each length of prefix in the tables, octet by octet.
LEMMA PrefixLengths ==
  ASSUME NEW ip \in IPv4, NEW a \in Octet, NEW b \in Octet, NEW c \in Octet, NEW d \in Octet
  PROVE  /\ contains(prefix(<<a, b, c, d>>, 4), ip) <=> ip[1] \div 16 = a \div 16
         /\ contains(prefix(<<a, b, c, d>>, 8), ip) <=> ip[1] = a
         /\ contains(prefix(<<a, b, c, d>>, 10), ip) <=> ip[1] = a /\ ip[2] \div 64 = b \div 64
         /\ contains(prefix(<<a, b, c, d>>, 12), ip) <=> ip[1] = a /\ ip[2] \div 16 = b \div 16
         /\ contains(prefix(<<a, b, c, d>>, 15), ip) <=> ip[1] = a /\ ip[2] \div 2 = b \div 2
         /\ contains(prefix(<<a, b, c, d>>, 16), ip) <=> ip[1] = a /\ ip[2] = b
         /\ contains(prefix(<<a, b, c, d>>, 24), ip) <=> ip[1] = a /\ ip[2] = b /\ ip[3] = c
         /\ contains(prefix(<<a, b, c, d>>, 32), ip) <=>
              ip[1] = a /\ ip[2] = b /\ ip[3] = c /\ ip[4] = d
<1> DEFINE C(bits) == contains(prefix(<<a, b, c, d>>, bits), ip)
<1>1. \A bits \in 0..32 :
        C(bits) <=> /\ ip[1] \div low(bits) = a \div low(bits)
                    /\ ip[2] \div low(bits - 8) = b \div low(bits - 8)
                    /\ ip[3] \div low(bits - 16) = c \div low(bits - 16)
                    /\ ip[4] \div low(bits - 24) = d \div low(bits - 24)
  <2> TAKE bits \in 0..32
  <2> DEFINE n == <<a, b, c, d>>
             agree(i) == LET l == low(bits - 8 * (i - 1)) IN ip[i] \div l = n[i] \div l
  <2>1. contains(prefix(n, bits), ip) <=> \A i \in 1..4 : agree(i)
    <3>1. Len(n) = 4 /\ Len(ip) = 4
      BY IPv4Length
    <3> HIDE DEF n
    <3> QED
      BY <3>1 DEF contains, prefix
  <2>2. /\ bits - 8 * (1 - 1) = bits /\ bits - 8 * (2 - 1) = bits - 8
        /\ bits - 8 * (3 - 1) = bits - 16 /\ bits - 8 * (4 - 1) = bits - 24
    OBVIOUS
  <2>3. (\A i \in 1..4 : agree(i)) <=> agree(1) /\ agree(2) /\ agree(3) /\ agree(4)
    <3> HIDE DEF agree
    <3> QED
      OBVIOUS
  <2>4. n[1] = a /\ n[2] = b /\ n[3] = c /\ n[4] = d
    OBVIOUS
  <2>5. /\ agree(1) <=> ip[1] \div low(bits) = a \div low(bits)
        /\ agree(2) <=> ip[2] \div low(bits - 8) = b \div low(bits - 8)
        /\ agree(3) <=> ip[3] \div low(bits - 16) = c \div low(bits - 16)
        /\ agree(4) <=> ip[4] \div low(bits - 24) = d \div low(bits - 24)
    <3> HIDE DEF n
    <3> QED
      BY <2>2, <2>4
  <2> HIDE DEF agree
  <2> QED
    BY <2>1, <2>3, <2>5
<1>2. {ip[1], ip[2], ip[3], ip[4]} \subseteq Octet
  <2>1. ip[1] \in Octet /\ ip[2] \in Octet /\ ip[3] \in Octet /\ ip[4] \in Octet
    BY IPv4Length DEF Octet
  <2> QED BY <2>1, Zenon
<1>3. \A x, y \in Octet :
        /\ \A k \in Int : k <= 0 => x \div low(k) = y \div low(k)
        /\ \A k \in Int : k >= 8 => (x \div low(k) = y \div low(k) <=> x = y)
  BY Low
<1>4. low(2) = 64 /\ low(4) = 16 /\ low(7) = 2
  BY Low DEF Octet
<1> HIDE DEF C
<1>5. C(4) <=> ip[1] \div 16 = a \div 16
  BY <1>1, <1>2, <1>3, <1>4
<1>6. C(8) <=> ip[1] = a
  BY <1>1, <1>2, <1>3
<1>7. C(10) <=> ip[1] = a /\ ip[2] \div 64 = b \div 64
  BY <1>1, <1>2, <1>3, <1>4
<1>8. C(12) <=> ip[1] = a /\ ip[2] \div 16 = b \div 16
  BY <1>1, <1>2, <1>3, <1>4
<1>9. C(15) <=> ip[1] = a /\ ip[2] \div 2 = b \div 2
  BY <1>1, <1>2, <1>3, <1>4
<1>10. C(16) <=> ip[1] = a /\ ip[2] = b
  BY <1>1, <1>2, <1>3
<1>11. C(24) <=> ip[1] = a /\ ip[2] = b /\ ip[3] = c
  BY <1>1, <1>2, <1>3
<1>12. C(32) <=> ip[1] = a /\ ip[2] = b /\ ip[3] = c /\ ip[4] = d
  BY <1>1, <1>2, <1>3
<1> QED
  BY <1>5, <1>6, <1>7, <1>8, <1>9, <1>10, <1>11, <1>12 DEF C

\* An IPv6 prefix holds no IPv4 address.
LEMMA OtherFamily ==
  ASSUME NEW ip \in IPv4, NEW n, NEW bits, Len(n) = 16
  PROVE  ~contains(prefix(n, bits), ip)
BY IPv4Length, SMTT(40) DEF contains, prefix

\* The two tables of prefixes, as conditions on the octets of an IPv4 address.
Listed(ip) ==
  \/ ip[1] \in {0, 10, 127} \cup 224..255
  \/ ip[1] = 100 /\ ip[2] \in 64..127
  \/ ip[1] = 169 /\ ip[2] = 254
  \/ ip[1] = 172 /\ ip[2] \in 16..31
  \/ ip[1] = 192 /\ ip[2] = 168
  \/ ip[1] = 192 /\ ip[2] = 0 /\ ip[3] \in {0, 2}
  \/ ip[1] = 198 /\ ip[2] \in {18, 19}
  \/ ip[1] = 198 /\ ip[2] = 51 /\ ip[3] = 100
  \/ ip[1] = 203 /\ ip[2] = 0 /\ ip[3] = 113

\* IsForbiddenIP on IPv4 addresses is Listed.
LEMMA ForbiddenIsListed ==
  ASSUME NEW ip \in IPv4
  PROVE  IsForbiddenIP(ip) <=> Listed(ip)
<1> DEFINE C(n, bits) == contains(prefix(n, bits), ip)
<1>1. IsForbiddenIP(ip) <=> \E p \in special \cup forbiddenPrefixes : contains(p, ip)
  BY IPv4Length DEF IsForbiddenIP
<1>2. {0, 2, 10, 16, 18, 51, 64, 100, 113, 127, 168, 169, 172, 192, 198, 203, 224, 240, 254}
        \subseteq Octet
  BY DEF Octet
<1>3. ip[1] \in Octet /\ ip[2] \in Octet
  BY IPv4Length DEF Octet
<1>4. C(<<127, 0, 0, 0>>, 8) <=> ip[1] = 127
  BY <1>2, PrefixLengths, SMTT(40)
<1>5. C(<<10, 0, 0, 0>>, 8) <=> ip[1] = 10
  BY <1>2, PrefixLengths, SMTT(40)
<1>6. C(<<172, 16, 0, 0>>, 12) <=> ip[1] = 172 /\ ip[2] \in 16..31
  <2>1. C(<<172, 16, 0, 0>>, 12) <=> ip[1] = 172 /\ ip[2] \div 16 = 16 \div 16
    BY <1>2, PrefixLengths, SMTT(40)
  <2> QED
    BY <2>1, <1>3 DEF Octet
<1>7. C(<<192, 168, 0, 0>>, 16) <=> ip[1] = 192 /\ ip[2] = 168
  BY <1>2, PrefixLengths, SMTT(40)
<1>8. C(<<169, 254, 0, 0>>, 16) <=> ip[1] = 169 /\ ip[2] = 254
  BY <1>2, PrefixLengths, SMTT(40)
<1>9. C(<<224, 0, 0, 0>>, 4) <=> ip[1] \in 224..239
  <2>1. C(<<224, 0, 0, 0>>, 4) <=> ip[1] \div 16 = 224 \div 16
    BY <1>2, PrefixLengths, SMTT(40)
  <2> QED
    BY <2>1, <1>3 DEF Octet
<1>10. C(<<0, 0, 0, 0>>, 32) => ip[1] = 0
  BY <1>2, PrefixLengths, SMTT(40)
<1>11. C(<<0, 0, 0, 0>>, 8) <=> ip[1] = 0
  BY <1>2, PrefixLengths, SMTT(40)
<1>12. C(<<100, 64, 0, 0>>, 10) <=> ip[1] = 100 /\ ip[2] \in 64..127
  <2>1. C(<<100, 64, 0, 0>>, 10) <=> ip[1] = 100 /\ ip[2] \div 64 = 64 \div 64
    BY <1>2, PrefixLengths, SMTT(40)
  <2> QED
    BY <2>1, <1>3 DEF Octet
<1>13. C(<<192, 0, 0, 0>>, 24) <=> ip[1] = 192 /\ ip[2] = 0 /\ ip[3] = 0
  BY <1>2, PrefixLengths, SMTT(40)
<1>14. C(<<192, 0, 2, 0>>, 24) <=> ip[1] = 192 /\ ip[2] = 0 /\ ip[3] = 2
  BY <1>2, PrefixLengths, SMTT(40)
<1>15. C(<<198, 18, 0, 0>>, 15) <=> ip[1] = 198 /\ ip[2] \in {18, 19}
  <2>1. C(<<198, 18, 0, 0>>, 15) <=> ip[1] = 198 /\ ip[2] \div 2 = 18 \div 2
    BY <1>2, PrefixLengths, SMTT(40)
  <2> QED
    BY <2>1, <1>3 DEF Octet
<1>16. C(<<198, 51, 100, 0>>, 24) <=> ip[1] = 198 /\ ip[2] = 51 /\ ip[3] = 100
  BY <1>2, PrefixLengths, SMTT(40)
<1>17. C(<<203, 0, 113, 0>>, 24) <=> ip[1] = 203 /\ ip[2] = 0 /\ ip[3] = 113
  BY <1>2, PrefixLengths, SMTT(40)
<1>18. C(<<240, 0, 0, 0>>, 4) <=> ip[1] \in 240..255
  <2>1. C(<<240, 0, 0, 0>>, 4) <=> ip[1] \div 16 = 240 \div 16
    BY <1>2, PrefixLengths, SMTT(40)
  <2> QED
    BY <2>1, <1>3 DEF Octet
<1>19. \A a, b, c, d, bits : ~C(v6(a, b, c, d), bits)
  <2>1. \A a, b, c, d : Len(v6(a, b, c, d)) = 16
    BY DEF v6
  <2> QED
    BY <2>1, OtherFamily
<1>20. ~C([v6(0, 0, 0, 0) EXCEPT ![16] = 1], 128)
  <2>1. Len([v6(0, 0, 0, 0) EXCEPT ![16] = 1]) = 16
    BY DEF v6
  <2> QED
    BY <2>1, OtherFamily
<1>21. (\E p \in special : contains(p, ip)) <=>
         \/ ip[1] \in {10, 127} \/ ip[1] \in 224..239 \/ C(<<0, 0, 0, 0>>, 32)
         \/ ip[1] = 169 /\ ip[2] = 254
         \/ ip[1] = 172 /\ ip[2] \in 16..31
         \/ ip[1] = 192 /\ ip[2] = 168
  BY <1>4, <1>5, <1>6, <1>7, <1>8, <1>9, <1>19, <1>20 DEF special
<1>22. (\E p \in forbiddenPrefixes : contains(p, ip)) <=>
         \/ ip[1] = 0 \/ ip[1] \in 240..255
         \/ ip[1] = 100 /\ ip[2] \in 64..127
         \/ ip[1] = 192 /\ ip[2] = 0 /\ ip[3] \in {0, 2}
         \/ ip[1] = 198 /\ ip[2] \in {18, 19}
         \/ ip[1] = 198 /\ ip[2] = 51 /\ ip[3] = 100
         \/ ip[1] = 203 /\ ip[2] = 0 /\ ip[3] = 113
  BY <1>11, <1>12, <1>13, <1>14, <1>15, <1>16, <1>17, <1>18, <1>19 DEF forbiddenPrefixes
<1> HIDE DEF C
<1> QED
  BY <1>1, <1>3, <1>10, <1>21, <1>22 DEF Listed, Octet

\* The order of addresses, on their octets.
before(p, q, r, s, w, x, y, v) ==
  \/ p < w
  \/ p = w /\ q < x
  \/ p = w /\ q = x /\ r < y
  \/ p = w /\ q = x /\ r = y /\ s <= v

\* upTo, as an order on the four octets.
LEMMA UpToBefore ==
  ASSUME NEW ip, NEW p, NEW q, NEW r, NEW s
  PROVE  /\ upTo(<<p, q, r, s>>, ip) <=> before(p, q, r, s, ip[1], ip[2], ip[3], ip[4])
         /\ upTo(ip, <<p, q, r, s>>) <=> before(ip[1], ip[2], ip[3], ip[4], p, q, r, s)
BY DEF upTo, before

\* A range that ends on whole octets, as a condition on the octets before.
LEMMA RangeShapes ==
  ASSUME NEW ip \in IPv4
  PROVE  /\ \A a, z \in Octet :
              (upTo(<<a, 0, 0, 0>>, ip) /\ upTo(ip, <<z, 255, 255, 255>>)) <=> ip[1] \in a..z
         /\ \A a, b, z \in Octet :
              (upTo(<<a, b, 0, 0>>, ip) /\ upTo(ip, <<a, z, 255, 255>>)) <=>
                (ip[1] = a /\ ip[2] \in b..z)
         /\ \A a, b, c \in Octet :
              (upTo(<<a, b, c, 0>>, ip) /\ upTo(ip, <<a, b, c, 255>>)) <=>
                (ip[1] = a /\ ip[2] = b /\ ip[3] = c)
<1> DEFINE w == ip[1]
           x == ip[2]
           y == ip[3]
           v == ip[4]
<1>1. w \in Octet /\ x \in Octet /\ y \in Octet /\ v \in Octet
  BY IPv4Length DEF Octet
<1> HIDE DEF w, x, y, v
<1>2. ASSUME NEW a \in Octet, NEW z \in Octet
      PROVE  (upTo(<<a, 0, 0, 0>>, ip) /\ upTo(ip, <<z, 255, 255, 255>>)) <=> w \in a..z
  <2>1. /\ upTo(<<a, 0, 0, 0>>, ip) <=> before(a, 0, 0, 0, w, x, y, v)
        /\ upTo(ip, <<z, 255, 255, 255>>) <=> before(w, x, y, v, z, 255, 255, 255)
    BY UpToBefore DEF w, x, y, v
  <2>2. (/\ before(a, 0, 0, 0, w, x, y, v)
         /\ before(w, x, y, v, z, 255, 255, 255)) <=> w \in a..z
    BY <1>1 DEF before, Octet
  <2> QED
    BY <2>1, <2>2
<1>3. ASSUME NEW a \in Octet, NEW b \in Octet, NEW z \in Octet
      PROVE  (upTo(<<a, b, 0, 0>>, ip) /\ upTo(ip, <<a, z, 255, 255>>)) <=>
               (w = a /\ x \in b..z)
  <2>1. /\ upTo(<<a, b, 0, 0>>, ip) <=> before(a, b, 0, 0, w, x, y, v)
        /\ upTo(ip, <<a, z, 255, 255>>) <=> before(w, x, y, v, a, z, 255, 255)
    BY UpToBefore DEF w, x, y, v
  <2>2. (/\ before(a, b, 0, 0, w, x, y, v)
         /\ before(w, x, y, v, a, z, 255, 255)) <=> (w = a /\ x \in b..z)
    BY <1>1 DEF before, Octet
  <2> QED
    BY <2>1, <2>2
<1>4. ASSUME NEW a \in Octet, NEW b \in Octet, NEW c \in Octet
      PROVE  (upTo(<<a, b, c, 0>>, ip) /\ upTo(ip, <<a, b, c, 255>>)) <=>
               (w = a /\ x = b /\ y = c)
  <2>1. /\ upTo(<<a, b, c, 0>>, ip) <=> before(a, b, c, 0, w, x, y, v)
        /\ upTo(ip, <<a, b, c, 255>>) <=> before(w, x, y, v, a, b, c, 255)
    BY UpToBefore DEF w, x, y, v
  <2>2. (/\ before(a, b, c, 0, w, x, y, v)
         /\ before(w, x, y, v, a, b, c, 255)) <=> (w = a /\ x = b /\ y = c)
    BY <1>1 DEF before, Octet
  <2> QED
    BY <2>1, <2>2
<1> QED
  BY <1>2, <1>3, <1>4 DEF w, x, y

\* The table of ranges is Listed.
LEMMA ReservedIsListed ==
  ASSUME NEW ip \in IPv4
  PROVE  Reserved(ip) <=> Listed(ip)
<1> DEFINE R(lo, hi) == upTo(lo, ip) /\ upTo(ip, hi)
<1>1. {0, 2, 10, 16, 18, 19, 31, 51, 64, 100, 113, 127, 168, 169, 172, 192, 198, 203, 224, 254, 255}
        \subseteq Octet
  BY DEF Octet
<1>2. R(<<0, 0, 0, 0>>, <<0, 255, 255, 255>>) <=> ip[1] \in 0..0
  BY <1>1, RangeShapes
<1>3. R(<<10, 0, 0, 0>>, <<10, 255, 255, 255>>) <=> ip[1] \in 10..10
  BY <1>1, RangeShapes
<1>4. R(<<100, 64, 0, 0>>, <<100, 127, 255, 255>>) <=> ip[1] = 100 /\ ip[2] \in 64..127
  BY <1>1, RangeShapes
<1>5. R(<<127, 0, 0, 0>>, <<127, 255, 255, 255>>) <=> ip[1] \in 127..127
  BY <1>1, RangeShapes
<1>6. R(<<169, 254, 0, 0>>, <<169, 254, 255, 255>>) <=> ip[1] = 169 /\ ip[2] \in 254..254
  BY <1>1, RangeShapes
<1>7. R(<<172, 16, 0, 0>>, <<172, 31, 255, 255>>) <=> ip[1] = 172 /\ ip[2] \in 16..31
  BY <1>1, RangeShapes
<1>8. R(<<192, 0, 0, 0>>, <<192, 0, 0, 255>>) <=> ip[1] = 192 /\ ip[2] = 0 /\ ip[3] = 0
  BY <1>1, RangeShapes
<1>9. R(<<192, 0, 2, 0>>, <<192, 0, 2, 255>>) <=> ip[1] = 192 /\ ip[2] = 0 /\ ip[3] = 2
  BY <1>1, RangeShapes
<1>10. R(<<192, 168, 0, 0>>, <<192, 168, 255, 255>>) <=> ip[1] = 192 /\ ip[2] \in 168..168
  BY <1>1, RangeShapes
<1>11. R(<<198, 18, 0, 0>>, <<198, 19, 255, 255>>) <=> ip[1] = 198 /\ ip[2] \in 18..19
  BY <1>1, RangeShapes
<1>12. R(<<198, 51, 100, 0>>, <<198, 51, 100, 255>>) <=> ip[1] = 198 /\ ip[2] = 51 /\ ip[3] = 100
  BY <1>1, RangeShapes
<1>13. R(<<203, 0, 113, 0>>, <<203, 0, 113, 255>>) <=> ip[1] = 203 /\ ip[2] = 0 /\ ip[3] = 113
  BY <1>1, RangeShapes
<1>14. R(<<224, 0, 0, 0>>, <<255, 255, 255, 255>>) <=> ip[1] \in 224..255
  BY <1>1, RangeShapes
<1>15. ip[1] \in 0..255 /\ ip[2] \in 0..255
  BY IPv4Length
<1>16. Reserved(ip) <=>
        \/ R(<<0, 0, 0, 0>>, <<0, 255, 255, 255>>)
        \/ R(<<10, 0, 0, 0>>, <<10, 255, 255, 255>>)
        \/ R(<<100, 64, 0, 0>>, <<100, 127, 255, 255>>)
        \/ R(<<127, 0, 0, 0>>, <<127, 255, 255, 255>>)
        \/ R(<<169, 254, 0, 0>>, <<169, 254, 255, 255>>)
        \/ R(<<172, 16, 0, 0>>, <<172, 31, 255, 255>>)
        \/ R(<<192, 0, 0, 0>>, <<192, 0, 0, 255>>)
        \/ R(<<192, 0, 2, 0>>, <<192, 0, 2, 255>>)
        \/ R(<<192, 168, 0, 0>>, <<192, 168, 255, 255>>)
        \/ R(<<198, 18, 0, 0>>, <<198, 19, 255, 255>>)
        \/ R(<<198, 51, 100, 0>>, <<198, 51, 100, 255>>)
        \/ R(<<203, 0, 113, 0>>, <<203, 0, 113, 255>>)
        \/ R(<<224, 0, 0, 0>>, <<255, 255, 255, 255>>)
  BY DEF Reserved, Ranges
<1> HIDE DEF R
<1> QED
  BY <1>2, <1>3, <1>4, <1>5, <1>6, <1>7, <1>8, <1>9, <1>10, <1>11, <1>12,
     <1>13, <1>14, <1>15, <1>16, SMTT(30) DEF Listed

(* For every IPv4 address: IsForbiddenIP refuses exactly the addresses of  *)
(* the ranges that are not public (guard.go:12-22, 49-67).                 *)
THEOREM GuardExact == \A ip \in IPv4 : IsForbiddenIP(ip) <=> Reserved(ip)
BY ForbiddenIsListed, ReservedIsListed

(* For every IPv4 address: its mapped form, which ParseIP and the resolver *)
(* give, is refused exactly when the address itself is (guard.go:57).      *)
THEOREM MappedAlike == \A ip \in IPv4 : IsForbiddenIP(mapped(ip)) <=> Reserved(ip)
<1> SUFFICES ASSUME NEW ip \in IPv4
             PROVE  IsForbiddenIP(mapped(ip)) <=> Reserved(ip)
  OBVIOUS
<1>1. Len(mapped(ip)) = 16 /\ Len(ip) = 4 /\ unmap(ip) = ip
  BY IPv4Length DEF mapped
<1>2. isMapped(mapped(ip))
  BY <1>1 DEF isMapped, mapped
<1>3. unmap(mapped(ip)) = ip
  BY <1>2 DEF unmap, mapped, IPv4
<1>4. IsForbiddenIP(mapped(ip)) <=> IsForbiddenIP(ip)
  BY <1>1, <1>3 DEF IsForbiddenIP
<1> QED
  BY <1>4, GuardExact

-----------------------------------------------------------------------------
(* The server. *)

\* The directions of a tunnel that have ended.
Over(q) ==
  (IF q.toTarget = "done" THEN 1 ELSE 0) + (IF q.toClient = "done" THEN 1 ELSE 0)

\* A goroutine in a Read or a Write of its io.Copy.
Copying == {"read", "write"}

(* What a handler has behind it at each place: authentication before a     *)
(* lookup, a lookup of public addresses before a dial, and in done what    *)
(* its goroutines have sent and it has not received.                       *)
Sound(q) ==
  /\ q.authenticated => q.method = "CONNECT"
  /\ q.at = "idle" => q.target = "none"
  /\ q.at \in {"resolve", "dial"} => q.authenticated
  /\ q.at = "dial" => ~Reserved(unmap(q.addr))
  /\ q.target = "open" => /\ q.authenticated /\ ~Reserved(unmap(q.addr))
                          /\ q.at \in {"wait1", "wait2", "closeTarget"}
  /\ q.at \notin {"wait1", "wait2"} =>
       q.toTarget \notin Copying /\ q.toClient \notin Copying /\ q.done = 0
  /\ q.at = "wait1" => q.done = Over(q)
  /\ q.at = "wait2" => q.done + 1 = Over(q)

\* As many slots are in use as requests hold one.
SlotsAccounted == sem = Cardinality(Holders)

(* The inductive invariant.                                                *)
IInv ==
  /\ TypeOK
  /\ SlotsAccounted
  /\ \A r \in Requests : Sound(reqs[r])

-----------------------------------------------------------------------------
\* A step of the semaphore, as the handlers see it.
SlotStep == [Semaphore!Next]_<<sem, Holders>>

HoldersOf(f) == {r \in Requests : f[r].at \in Holding}

(* The requests that hold a slot can be counted.                           *)
LEMMA HoldersFinite ==
  ASSUME NEW f
  PROVE  IsFiniteSet(HoldersOf(f)) /\ Cardinality(HoldersOf(f)) \in Nat
BY ServerAssumption, FS_Subset, FS_CardinalityType DEF HoldersOf

(* A step of one request changes the number of holders by that request.    *)
LEMMA HoldersChange ==
  ASSUME NEW f \in [Requests -> Request], NEW r \in Requests, NEW q \in Request,
         NEW g, g = [f EXCEPT ![r] = q]
  PROVE  Cardinality(HoldersOf(g)) =
           Cardinality(HoldersOf(f)) + (IF q.at \in Holding THEN 1 ELSE 0)
                                   - (IF f[r].at \in Holding THEN 1 ELSE 0)
<1>1. IsFiniteSet(HoldersOf(f)) /\ Cardinality(HoldersOf(f)) \in Nat
  BY HoldersFinite
<1>2. CASE q.at \in Holding /\ f[r].at \notin Holding
  <2>1. HoldersOf(g) = HoldersOf(f) \cup {r} /\ r \notin HoldersOf(f)
    BY <1>2 DEF HoldersOf
  <2>2. Cardinality(HoldersOf(g)) = Cardinality(HoldersOf(f)) + 1
    BY <1>1, <2>1, FS_AddElement
  <2> QED
    BY <1>1, <1>2, <2>2
<1>3. CASE q.at \notin Holding /\ f[r].at \in Holding
  <2>1. HoldersOf(g) = HoldersOf(f) \ {r} /\ r \in HoldersOf(f)
    BY <1>3 DEF HoldersOf
  <2>2. Cardinality(HoldersOf(g)) = Cardinality(HoldersOf(f)) - 1
    BY <1>1, <2>1, FS_RemoveElement
  <2> QED
    BY <1>1, <1>3, <2>2
<1>4. CASE q.at \in Holding <=> f[r].at \in Holding
  <2>1. HoldersOf(g) = HoldersOf(f)
    BY <1>4 DEF HoldersOf
  <2> QED
    BY <1>1, <1>4, <2>1
<1> QED
  BY <1>2, <1>3, <1>4

(* A step of one request that leaves it sound keeps the invariant, if the  *)
(* slot is taken and given back with it.                                   *)
LEMMA StepKeeps ==
  ASSUME IInv, NEW r \in Requests, NEW q \in Request,
         reqs' = [reqs EXCEPT ![r] = q], closed' = closed, Sound(q),
         \/ sem' = sem /\ (q.at \in Holding <=> reqs[r].at \in Holding)
         \/ sem < MaxConcurrent /\ sem' = sem + 1 /\ q.at \in Holding /\ reqs[r].at \notin Holding
         \/ sem' = sem - 1 /\ q.at \notin Holding /\ reqs[r].at \in Holding
  PROVE  IInv' /\ SlotStep
<1>1. reqs \in [Requests -> Request] /\ sem \in 0..MaxConcurrent /\ MaxConcurrent \in Nat
  BY ServerAssumption DEF IInv, TypeOK
<1>2. reqs' \in [Requests -> Request] /\ \A p \in Requests : p # r => reqs'[p] = reqs[p]
  BY <1>1
<1>3. reqs'[r] = q
  BY <1>1
<1>4. SlotsAccounted'
  <2>1. sem = Cardinality(HoldersOf(reqs)) /\ Cardinality(HoldersOf(reqs)) \in Nat
    BY HoldersFinite DEF IInv, SlotsAccounted, Holders, HoldersOf
  <2>2. Cardinality(HoldersOf(reqs')) =
          Cardinality(HoldersOf(reqs)) + (IF q.at \in Holding THEN 1 ELSE 0)
                                     - (IF reqs[r].at \in Holding THEN 1 ELSE 0)
    BY <1>1, HoldersChange
  <2>3. sem' = Cardinality(HoldersOf(reqs'))
    BY <2>1, <2>2
  <2> QED
    BY <2>3 DEF SlotsAccounted, Holders, HoldersOf
<1>5. sem' \in 0..MaxConcurrent
  <2>1. Cardinality(HoldersOf(reqs')) \in Nat /\ sem' = Cardinality(HoldersOf(reqs'))
    BY <1>4, HoldersFinite DEF SlotsAccounted, Holders, HoldersOf
  <2> QED
    BY <1>1, <2>1
<1>6. TypeOK'
  BY <1>2, <1>5 DEF IInv, TypeOK
<1>7. \A p \in Requests : Sound(reqs'[p])
  BY <1>2, <1>3 DEF IInv
<1>8. SlotStep
  <2>1. CASE sem' = sem /\ (q.at \in Holding <=> reqs[r].at \in Holding)
    <3>1. Holders' = Holders
      BY <1>2, <1>3, <2>1 DEF Holders
    <3> QED
      BY <2>1, <3>1 DEF SlotStep
  <2>2. CASE /\ sem < MaxConcurrent /\ sem' = sem + 1
             /\ q.at \in Holding /\ reqs[r].at \notin Holding
    <3>1. r \notin Holders /\ Holders' = Holders \cup {r}
      BY <1>2, <1>3, <2>2 DEF Holders
    <3> QED
      BY <2>2, <3>1 DEF SlotStep, Semaphore!Next, Semaphore!Take
  <2>3. CASE sem' = sem - 1 /\ q.at \notin Holding /\ reqs[r].at \in Holding
    <3>1. r \in Holders /\ Holders' = Holders \ {r}
      BY <1>2, <1>3, <2>3 DEF Holders
    <3> QED
      BY <2>3, <3>1 DEF SlotStep, Semaphore!Next, Semaphore!Give
  <2> QED
    BY <2>1, <2>2, <2>3
<1> QED
  BY <1>4, <1>6, <1>7, <1>8 DEF IInv

-----------------------------------------------------------------------------
(* It holds when the server starts.                                        *)
LEMMA InitHolds == Init => IInv
<1> SUFFICES ASSUME Init
             PROVE  IInv
  OBVIOUS
<1>1. TypeOK
  <2>1. reqs \in [Requests -> Request]
    BY DEF Init, Request
  <2>2. 0 \in 0..MaxConcurrent
    BY ServerAssumption
  <2> QED
    BY <2>1, <2>2 DEF Init, TypeOK
<1>2. SlotsAccounted
  <2>1. Holders = {}
    BY DEF Init, Holding, Holders
  <2> QED
    BY <2>1, FS_EmptySet DEF Init, SlotsAccounted
<1>3. \A r \in Requests : Sound(reqs[r])
  BY DEF Init, Sound, Copying
<1> QED
  BY <1>1, <1>2, <1>3 DEF IInv

-----------------------------------------------------------------------------
(* A request whose fields are set, one after the other, is a request.      *)
LEMMA Updates ==
  /\ \A p \in Request, x \in Holding \cup {"idle", "allow", "returned"} :
       [p EXCEPT !.at = x] \in Request
  /\ \A p \in Request, x \in {"none", "200", "502", "404 decoy", "decoy", "429"} :
       [p EXCEPT !.status = x] \in Request
  /\ \A p \in Request, x \in {"none", "open", "closed"} : [p EXCEPT !.target = x] \in Request
  /\ \A p \in Request, x \in {"none", "read", "write", "done"} :
       [p EXCEPT !.toTarget = x] \in Request /\ [p EXCEPT !.toClient = x] \in Request
  /\ \A p \in Request, x \in 0..2 : [p EXCEPT !.done = x] \in Request
  /\ \A p \in Request, x \in BOOLEAN : [p EXCEPT !.expired = x] \in Request
<1>1. \A p \in Request, x \in Holding \cup {"idle", "allow", "returned"} :
        [p EXCEPT !.at = x] \in Request
  BY ZenonT(60) DEF Request
<1>2. \A p \in Request, x \in {"none", "200", "502", "404 decoy", "decoy", "429"} :
        [p EXCEPT !.status = x] \in Request
  BY ZenonT(60) DEF Request
<1>3. \A p \in Request, x \in {"none", "open", "closed"} : [p EXCEPT !.target = x] \in Request
  BY ZenonT(60) DEF Request
<1>4. \A p \in Request, x \in {"none", "read", "write", "done"} : [p EXCEPT !.toTarget = x] \in Request
  BY ZenonT(60) DEF Request
<1>5. \A p \in Request, x \in {"none", "read", "write", "done"} : [p EXCEPT !.toClient = x] \in Request
  BY ZenonT(60) DEF Request
<1>6. \A p \in Request, x \in 0..2 : [p EXCEPT !.done = x] \in Request
  BY ZenonT(60) DEF Request
<1>7. \A p \in Request, x \in BOOLEAN : [p EXCEPT !.expired = x] \in Request
  BY ZenonT(60) DEF Request
<1> QED
  BY <1>1, <1>2, <1>3, <1>4, <1>5, <1>6, <1>7

(* The facts about one request that the steps of its handler start from.   *)
LEMMA OneRequest ==
  ASSUME IInv, NEW r \in Requests
  PROVE  /\ reqs \in [Requests -> Request] /\ reqs[r] \in Request
         /\ Sound(reqs[r])
         /\ reqs[r].done \in 0..2
         /\ reqs[r].toTarget \in {"none", "read", "write", "done"}
         /\ reqs[r].toClient \in {"none", "read", "write", "done"}
<1>1. reqs \in [Requests -> Request] /\ reqs[r] \in Request /\ Sound(reqs[r])
  BY DEF IInv, TypeOK
<1> QED
  BY <1>1 DEF Request

(* A request arrives, whatever Validate answers.                           *)
LEMMA AuthenticateKeeps ==
  ASSUME IInv, NEW r \in Requests, NEW method \in {"CONNECT", "GET"}, NEW valid \in BOOLEAN,
         Authenticate(r, method, valid)
  PROVE  IInv' /\ SlotStep
<1> DEFINE ok == method = "CONNECT" /\ valid
           q == [reqs[r] EXCEPT !.at = "allow", !.method = method, !.authenticated = ok]
<1>1. /\ reqs \in [Requests -> Request] /\ reqs[r] \in Request
      /\ Sound(reqs[r]) /\ reqs[r].at = "idle"
  BY OneRequest DEF Authenticate
<1>2. reqs' = [reqs EXCEPT ![r] = q] /\ sem' = sem /\ closed' = closed
  BY <1>1 DEF Authenticate
<1>3. ok \in BOOLEAN /\ (ok => method = "CONNECT")
  OBVIOUS
<1> HIDE DEF ok
<1>4. q \in Request
  BY <1>1, <1>3 DEF Request
<1>5. Sound(q)
  BY <1>1, <1>3 DEF Sound, Request, Over
<1>6. q.at \notin Holding /\ reqs[r].at \notin Holding
  BY <1>1 DEF Holding, Request
<1> HIDE DEF q
<1> QED
  BY <1>2, <1>4, <1>5, <1>6, StepKeeps

(* One lemma for every step of a handler and of its goroutines.            *)
LEMMA AllowKeeps ==
  ASSUME IInv, NEW r \in Requests, Allow(r)
  PROVE  IInv' /\ SlotStep
<1>1. /\ reqs \in [Requests -> Request] /\ reqs[r] \in Request
      /\ Sound(reqs[r]) /\ reqs[r].at = "allow"
  BY OneRequest DEF Allow
<1>2. CASE sem < MaxConcurrent
  <2>0. PICK x \in {"route", "bucket"} : reqs' = [reqs EXCEPT ![r].at = x]
    BY <1>2 DEF Allow
  <2> DEFINE q == [reqs[r] EXCEPT !.at = x]
  <2>1. q \in Request
    BY <1>1, Updates DEF Holding
  <2>2. Sound(q)
    BY <1>1 DEF Request, Sound, Over
  <2>3. reqs' = [reqs EXCEPT ![r] = q]
    BY <1>1, <2>0
  <2>4. q.at \in Holding /\ reqs[r].at \notin Holding
    BY <1>1 DEF Request, Holding
  <2> HIDE DEF q
  <2> QED
    BY <1>2, <2>1, <2>2, <2>3, <2>4, StepKeeps DEF Allow
<1>3. CASE ~(sem < MaxConcurrent)
  <2>0. reqs' = [reqs EXCEPT ![r].at = "returned", ![r].status = "429"] /\ sem' = sem
    BY <1>3 DEF Allow
  <2> DEFINE q == [reqs[r] EXCEPT !.at = "returned", !.status = "429"]
  <2>1. q \in Request
    BY <1>1, Updates DEF Holding
  <2>2. Sound(q)
    BY <1>1, <1>3 DEF Request, Sound, Over
  <2>3. reqs' = [reqs EXCEPT ![r] = q]
    BY <1>1, <2>0
  <2>4. q.at \notin Holding /\ reqs[r].at \notin Holding
    BY <1>1, <1>3 DEF Request, Holding
  <2> HIDE DEF q
  <2> QED
    BY <2>0, <2>1, <2>2, <2>3, <2>4, StepKeeps DEF Allow
<1> QED
  BY <1>2, <1>3 DEF Allow

(* A request that is answered before it has a tunnel stays sound.          *)
LEMMA AnswerSound ==
  ASSUME NEW q0, NEW q, Sound(q0),
         q0.at \in {"bucket", "route", "udp", "resolve", "dial"},
         q.at = "release", q.done = q0.done, q.method = q0.method,
         q.authenticated = q0.authenticated, q.addr = q0.addr,
         q.target = q0.target, q.toTarget = q0.toTarget, q.toClient = q0.toClient
  PROVE  Sound(q)
BY DEF Sound

(* The answers that end a handler without a tunnel.                        *)
LEMMA AnswerKeeps ==
  ASSUME IInv, NEW r \in Requests, NEW status \in {"502", "404 decoy", "decoy", "429"},
         reqs[r].at \in {"bucket", "route", "udp", "resolve", "dial"}, reqs' = Answer(r, status),
         closed' = closed, sem' = sem
  PROVE  IInv' /\ SlotStep
<1>1. /\ reqs \in [Requests -> Request] /\ reqs[r] \in Request
      /\ Sound(reqs[r])
  BY OneRequest
<1> DEFINE q == [reqs[r] EXCEPT !.at = "release", !.status = status]
<1>2. q \in Request
  BY <1>1, Updates DEF Holding
<1>3. reqs' = [reqs EXCEPT ![r] = q]
  BY <1>1 DEF Answer
<1>4. q.at = "release" /\ q.done = reqs[r].done
  BY <1>1, Zenon DEF Request
<1>5. /\ q.method = reqs[r].method /\ q.addr = reqs[r].addr
      /\ q.authenticated = reqs[r].authenticated
  BY <1>1, Zenon DEF Request
<1>6. /\ q.target = reqs[r].target /\ q.toTarget = reqs[r].toTarget
      /\ q.toClient = reqs[r].toClient
  BY <1>1, Zenon DEF Request
<1> HIDE DEF q
<1>7. Sound(q)
  BY <1>1, <1>4, <1>5, <1>6, AnswerSound
<1>8. q.at \in Holding /\ reqs[r].at \in Holding
  BY <1>4 DEF Holding
<1> QED
  BY <1>2, <1>3, <1>7, <1>8, StepKeeps

(* The bucket lets the request through or refuses it.                      *)
LEMMA BucketKeeps ==
  ASSUME IInv, NEW r \in Requests, Bucket(r)
  PROVE  IInv' /\ SlotStep
<1>1. /\ reqs \in [Requests -> Request] /\ reqs[r] \in Request
      /\ Sound(reqs[r]) /\ reqs[r].at = "bucket"
  BY OneRequest DEF Bucket
<1>2. CASE reqs' = [reqs EXCEPT ![r].at = "route"]
  <2> DEFINE q == [reqs[r] EXCEPT !.at = "route"]
  <2>1. q \in Request
    BY <1>1, Updates DEF Holding
  <2>2. Sound(q)
    BY <1>1 DEF Request, Sound, Over
  <2>3. reqs' = [reqs EXCEPT ![r] = q]
    BY <1>1, <1>2
  <2>4. q.at \in Holding /\ reqs[r].at \in Holding
    BY <1>1 DEF Request, Holding
  <2> HIDE DEF q
  <2> QED
    BY <2>1, <2>2, <2>3, <2>4, StepKeeps DEF Bucket
<1>3. CASE reqs' = Answer(r, "429")
  BY <1>1, <1>3, AnswerKeeps DEF Bucket
<1> QED
  BY <1>2, <1>3 DEF Bucket

(* The branch ServeHTTP takes.                                             *)
LEMMA RouteKeeps ==
  ASSUME IInv, NEW r \in Requests, NEW kind, Route(r, kind)
  PROVE  IInv' /\ SlotStep
<1>1. /\ reqs \in [Requests -> Request] /\ reqs[r] \in Request
      /\ Sound(reqs[r])
  BY OneRequest
<1>2. CASE reqs[r].authenticated
  <2> DEFINE q == [reqs[r] EXCEPT !.at = IF kind = "udp" THEN "udp" ELSE "resolve"]
  <2>1. q \in Request
    BY <1>1, Updates DEF Holding
  <2>2. Sound(q)
    BY <1>1, <1>2 DEF Request, Sound, Over, Route
  <2>3. reqs' = [reqs EXCEPT ![r] = q]
    BY <1>1, <1>2 DEF Route
  <2>4. q.at \in Holding /\ reqs[r].at \in Holding
    BY <1>1 DEF Request, Holding, Route
  <2> HIDE DEF q
  <2> QED
    BY <2>1, <2>2, <2>3, <2>4, StepKeeps DEF Route
<1>3. CASE ~reqs[r].authenticated
  <2>1. reqs' = Answer(r, "404 decoy") \/ reqs' = Answer(r, "decoy")
    BY <1>3 DEF Route
  <2> QED
    BY <2>1, AnswerKeeps DEF Route
<1> QED
  BY <1>2, <1>3

(* A UDP session is refused, or it starts and ends.                        *)
LEMMA ServeUDPKeeps ==
  ASSUME IInv, NEW r \in Requests, ServeUDP(r)
  PROVE  IInv' /\ SlotStep
<1>1. /\ reqs \in [Requests -> Request] /\ reqs[r] \in Request
      /\ Sound(reqs[r]) /\ reqs[r].at \in {"udp", "session"}
      /\ sem' = sem /\ closed' = closed
  BY OneRequest DEF ServeUDP
<1>2. CASE reqs[r].at = "udp" /\ \E status \in {"429", "502"} : reqs' = Answer(r, status)
  BY <1>1, <1>2, AnswerKeeps
<1>3. CASE reqs' = [reqs EXCEPT ![r].at = "session", ![r].status = "200"]
  <2> DEFINE q == [reqs[r] EXCEPT !.at = "session", !.status = "200"]
  <2>1. q \in Request
    BY <1>1, Updates DEF Holding
  <2>2. reqs' = [reqs EXCEPT ![r] = q]
    BY <1>1, <1>3
  <2>3. /\ q.at = "session" /\ q.done = reqs[r].done /\ q.method = reqs[r].method
        /\ q.authenticated = reqs[r].authenticated /\ q.addr = reqs[r].addr
        /\ q.target = reqs[r].target /\ q.toTarget = reqs[r].toTarget
        /\ q.toClient = reqs[r].toClient
    BY <1>1 DEF Request
  <2> HIDE DEF q
  <2>4. Sound(q)
    BY <1>1, <2>3 DEF Sound
  <2>5. q.at \in Holding /\ reqs[r].at \in Holding
    BY <1>1, <2>3 DEF Holding
  <2> QED
    BY <1>1, <2>1, <2>2, <2>4, <2>5, StepKeeps
<1>4. CASE reqs' = [reqs EXCEPT ![r].at = "release"]
  <2> DEFINE q == [reqs[r] EXCEPT !.at = "release"]
  <2>1. q \in Request
    BY <1>1, Updates DEF Holding
  <2>2. reqs' = [reqs EXCEPT ![r] = q]
    BY <1>1, <1>4
  <2>3. /\ q.at = "release" /\ q.done = reqs[r].done /\ q.method = reqs[r].method
        /\ q.authenticated = reqs[r].authenticated /\ q.addr = reqs[r].addr
        /\ q.target = reqs[r].target /\ q.toTarget = reqs[r].toTarget
        /\ q.toClient = reqs[r].toClient
    BY <1>1 DEF Request
  <2> HIDE DEF q
  <2>4. Sound(q)
    BY <1>1, <2>3 DEF Sound
  <2>5. q.at \in Holding /\ reqs[r].at \in Holding
    BY <1>1, <2>3 DEF Holding
  <2> QED
    BY <1>1, <2>1, <2>2, <2>4, <2>5, StepKeeps
<1> QED
  BY <1>2, <1>3, <1>4 DEF ServeUDP

(* Every address ResolveAndValidateAuthority lets through is public, in    *)
(* whichever form the resolver gave it.                                    *)
LEMMA AcceptablePublic ==
  ASSUME NEW ips \in Answers, acceptable(ips)
  PROVE  ips[1] \in IPs /\ ~Reserved(unmap(ips[1]))
<1>1. ips[1] \in IPs /\ 1 \in DOMAIN ips
  BY DEF Answers, acceptable
<1>2. ~IsForbiddenIP(ips[1])
  BY <1>1 DEF acceptable
<1>3. unmap(ips[1]) \in IPv4
  BY <1>1, ServerAssumption
<1>4. Len(unmap(ips[1])) = 4 /\ unmap(unmap(ips[1])) = unmap(ips[1])
  BY <1>3, IPv4Length
<1>5. ~IsForbiddenIP(unmap(ips[1]))
  BY <1>2, <1>4 DEF IsForbiddenIP
<1> QED
  BY <1>1, <1>3, <1>5, GuardExact

(* A lookup ends in a refusal or in a public address.                      *)
LEMMA ResolveKeeps ==
  ASSUME IInv, NEW r \in Requests, NEW ips \in Answers, Resolve(r, ips)
  PROVE  IInv' /\ SlotStep
<1>1. /\ reqs \in [Requests -> Request] /\ reqs[r] \in Request
      /\ Sound(reqs[r])
  BY OneRequest
<1>2. CASE acceptable(ips)
  <2>0. ips[1] \in IPs /\ ~Reserved(unmap(ips[1]))
    BY <1>2, AcceptablePublic
  <2> DEFINE q == [reqs[r] EXCEPT !.at = "dial", !.addr = ips[1]]
  <2>1. q \in Request
    BY <1>1, <2>0 DEF Request, Holding
  <2>2. Sound(q)
    BY <1>1, <2>0 DEF Request, Sound, Over, Resolve
  <2>3. reqs' = [reqs EXCEPT ![r] = q]
    BY <1>1, <1>2 DEF Resolve, validatedTarget
  <2>4. q.at \in Holding /\ reqs[r].at \in Holding
    BY <1>1 DEF Request, Holding, Resolve
  <2> HIDE DEF q
  <2> QED
    BY <2>1, <2>2, <2>3, <2>4, StepKeeps DEF Resolve
<1>3. CASE ~acceptable(ips)
  BY <1>3, AnswerKeeps DEF Resolve
<1> QED
  BY <1>2, <1>3

(* A dial starts a tunnel, or ends the handler.                            *)
LEMMA DialKeeps ==
  ASSUME IInv, NEW r \in Requests, Dial(r)
  PROVE  IInv' /\ SlotStep
<1>1. /\ reqs \in [Requests -> Request] /\ reqs[r] \in Request
      /\ Sound(reqs[r])
  BY OneRequest
<1>2. reqs[r].at = "dial"
  BY DEF Dial
<1>3. CASE reqs' = Answer(r, "502")
  BY <1>2, <1>3, AnswerKeeps DEF Dial
<1>4. CASE reqs' = [reqs EXCEPT ![r].at = "closeTarget", ![r].target = "open", ![r].status = "502"]
  <2> DEFINE q == [reqs[r] EXCEPT !.at = "closeTarget", !.target = "open", !.status = "502"]
  <2>1. q \in Request
    BY <1>1, Updates DEF Holding
  <2>2. Sound(q)
    BY <1>1, <1>2, <1>4 DEF Request, Sound, Over
  <2>3. reqs' = [reqs EXCEPT ![r] = q]
    BY <1>1, <1>2, <1>4
  <2>4. q.at \in Holding /\ reqs[r].at \in Holding
    BY <1>1, <1>2, <1>4 DEF Request, Holding
  <2> HIDE DEF q
  <2> QED
    BY <1>2, <1>4, <2>1, <2>2, <2>3, <2>4, StepKeeps DEF Dial
<1>5. CASE reqs' = [reqs EXCEPT ![r].at = "wait1", ![r].target = "open", ![r].status = "200",
                                ![r].toTarget = "read", ![r].toClient = "read"]
  <2> DEFINE q == [reqs[r] EXCEPT !.at = "wait1", !.target = "open", !.status = "200",
                                !.toTarget = "read", !.toClient = "read"]
  <2>1. reqs[r].authenticated /\ ~Reserved(unmap(reqs[r].addr)) /\ reqs[r].done = 0
    BY <1>1, <1>2, <1>5 DEF Sound
  <2>2. reqs' = [reqs EXCEPT ![r] = q]
    BY <1>1, <1>2, <1>5
  <2>3. q \in Request
    BY <1>1, Updates DEF Holding
  <2>4. /\ q.at = "wait1" /\ q.target = "open" /\ q.status = "200" /\ q.toTarget = "read" /\ q.toClient = "read"
         /\ q.method = reqs[r].method
         /\ q.authenticated = reqs[r].authenticated /\ q.addr = reqs[r].addr /\ q.done = reqs[r].done
         /\ q.expired = reqs[r].expired
    BY <1>1 DEF Request
  <2> HIDE DEF q
  <2>5. Sound(q)
    BY <1>1, <1>2, <1>5, <2>1, <2>4 DEF Sound, Over
  <2>6. q.at \in Holding /\ reqs[r].at \in Holding
    BY <1>2, <1>5, <2>1, <2>4 DEF Holding
  <2> QED
    BY <1>2, <1>5, <2>2, <2>3, <2>4, <2>5, <2>6, StepKeeps DEF Dial
<1> QED
  BY <1>3, <1>4, <1>5 DEF Dial

(* A goroutine ends and its element of done is counted.                    *)
LEMMA CopyEndsKeeps ==
  ASSUME IInv, NEW r \in Requests, CopyEnds(r)
  PROVE  IInv' /\ SlotStep
<1>0. /\ reqs[r].done \in 0..2
      /\ reqs[r].toTarget \in {"none", "read", "write", "done"}
      /\ reqs[r].toClient \in {"none", "read", "write", "done"}
  BY OneRequest
<1>1. /\ reqs \in [Requests -> Request] /\ reqs[r] \in Request
      /\ Sound(reqs[r])
  BY OneRequest
<1>2. CASE reqs[r].toTarget \in Copying /\ reqs' = ToTarget(r, "done")
  <2> DEFINE n == reqs[r].done + 1
             q == [reqs[r] EXCEPT !.toTarget = "done", !.done = n]
  <2>1. reqs[r].at \in {"wait1", "wait2"} /\ n \in 0..2
    BY <1>0, <1>1, <1>2 DEF Sound, Over, Copying
  <2>0. /\ reqs[r].at = "wait1" => n = Over(reqs[r]) + 1
        /\ reqs[r].at = "wait2" => n = Over(reqs[r])
    BY <1>0, <1>1, <1>2 DEF Sound, Over, Copying
  <2>2. reqs' = [reqs EXCEPT ![r] = q]
    BY <1>1, <1>2 DEF ToTarget
  <2> HIDE DEF n
  <2>3. q \in Request
    BY <1>1, <2>1, Updates
  <2>4. /\ q.toTarget = "done" /\ q.done = n
         /\ q.at = reqs[r].at /\ q.method = reqs[r].method
         /\ q.authenticated = reqs[r].authenticated /\ q.status = reqs[r].status
         /\ q.addr = reqs[r].addr /\ q.target = reqs[r].target /\ q.toClient = reqs[r].toClient
         /\ q.expired = reqs[r].expired
    BY <1>1 DEF Request
  <2> HIDE DEF q
  <2>5. Over(q) = Over(reqs[r]) + 1
    BY <1>2, <2>4 DEF Over, Copying
  <2>6. Sound(q)
    BY <1>1, <2>0, <2>1, <2>4, <2>5 DEF Sound
  <2>7. q.at \in Holding /\ reqs[r].at \in Holding
    BY <2>1, <2>4 DEF Holding
  <2> QED
    BY <1>2, <2>2, <2>3, <2>4, <2>6, <2>7, StepKeeps DEF CopyEnds
<1>3. CASE reqs[r].toClient \in Copying /\ reqs' = ToClient(r, "done")
  <2> DEFINE n == reqs[r].done + 1
             q == [reqs[r] EXCEPT !.toClient = "done", !.done = n]
  <2>1. reqs[r].at \in {"wait1", "wait2"} /\ n \in 0..2
    BY <1>0, <1>1, <1>3 DEF Sound, Over, Copying
  <2>0. /\ reqs[r].at = "wait1" => n = Over(reqs[r]) + 1
        /\ reqs[r].at = "wait2" => n = Over(reqs[r])
    BY <1>0, <1>1, <1>3 DEF Sound, Over, Copying
  <2>2. reqs' = [reqs EXCEPT ![r] = q]
    BY <1>1, <1>3 DEF ToClient
  <2> HIDE DEF n
  <2>3. q \in Request
    BY <1>1, <2>1, Updates
  <2>4. /\ q.toClient = "done" /\ q.done = n
         /\ q.at = reqs[r].at /\ q.method = reqs[r].method
         /\ q.authenticated = reqs[r].authenticated /\ q.status = reqs[r].status
         /\ q.addr = reqs[r].addr /\ q.target = reqs[r].target /\ q.toTarget = reqs[r].toTarget
         /\ q.expired = reqs[r].expired
    BY <1>1 DEF Request
  <2> HIDE DEF q
  <2>5. Over(q) = Over(reqs[r]) + 1
    BY <1>3, <2>4 DEF Over, Copying
  <2>6. Sound(q)
    BY <1>1, <2>0, <2>1, <2>4, <2>5 DEF Sound
  <2>7. q.at \in Holding /\ reqs[r].at \in Holding
    BY <2>1, <2>4 DEF Holding
  <2> QED
    BY <1>3, <2>2, <2>3, <2>4, <2>6, <2>7, StepKeeps DEF CopyEnds
<1> QED
  BY <1>2, <1>3 DEF CopyEnds, Copying

(* A goroutine goes from its Read to its Write or back.                    *)
LEMMA CopyMovesKeeps ==
  ASSUME IInv, NEW r \in Requests, CopyReads(r) \/ CopyWrites(r)
  PROVE  IInv' /\ SlotStep
<1>1. /\ reqs \in [Requests -> Request] /\ reqs[r] \in Request
      /\ Sound(reqs[r]) /\ reqs[r].done \in 0..2
      /\ sem' = sem /\ closed' = closed
  BY OneRequest DEF CopyReads, CopyWrites
<1>2. PICK x \in Copying :
        \/ reqs[r].toTarget \in Copying /\ reqs' = ToTarget(r, x)
        \/ reqs[r].toClient \in Copying /\ reqs' = ToClient(r, x)
  BY Zenon DEF CopyReads, CopyWrites, Copying
<1>3. x # "done" /\ x \in {"none", "read", "write", "done"}
  BY DEF Copying
<1>4. CASE reqs[r].toTarget \in Copying /\ reqs' = ToTarget(r, x)
  <2> DEFINE q == [reqs[r] EXCEPT !.toTarget = x]
  <2>1. reqs' = [reqs EXCEPT ![r] = q]
    BY <1>1, <1>3, <1>4 DEF ToTarget, Request
  <2>2. q \in Request
    BY <1>1, <1>3, Updates
  <2>3. /\ q.toTarget = x /\ q.done = reqs[r].done
        /\ q.at = reqs[r].at /\ q.method = reqs[r].method
        /\ q.authenticated = reqs[r].authenticated /\ q.addr = reqs[r].addr
        /\ q.target = reqs[r].target /\ q.toClient = reqs[r].toClient
    BY <1>1 DEF Request
  <2> HIDE DEF q
  <2>4. Over(q) = Over(reqs[r]) /\ reqs[r].at \in {"wait1", "wait2"}
    BY <1>1, <1>3, <1>4, <2>3 DEF Over, Sound, Copying
  <2>5. Sound(q)
    BY <1>1, <2>3, <2>4 DEF Sound
  <2>6. q.at \in Holding /\ reqs[r].at \in Holding
    BY <2>3, <2>4 DEF Holding
  <2> QED
    BY <1>1, <2>1, <2>2, <2>5, <2>6, StepKeeps
<1>5. CASE reqs[r].toClient \in Copying /\ reqs' = ToClient(r, x)
  <2> DEFINE q == [reqs[r] EXCEPT !.toClient = x]
  <2>1. reqs' = [reqs EXCEPT ![r] = q]
    BY <1>1, <1>3, <1>5 DEF ToClient, Request
  <2>2. q \in Request
    BY <1>1, <1>3, Updates
  <2>3. /\ q.toClient = x /\ q.done = reqs[r].done
        /\ q.at = reqs[r].at /\ q.method = reqs[r].method
        /\ q.authenticated = reqs[r].authenticated /\ q.addr = reqs[r].addr
        /\ q.target = reqs[r].target /\ q.toTarget = reqs[r].toTarget
    BY <1>1 DEF Request
  <2> HIDE DEF q
  <2>4. Over(q) = Over(reqs[r]) /\ reqs[r].at \in {"wait1", "wait2"}
    BY <1>1, <1>3, <1>5, <2>3 DEF Over, Sound, Copying
  <2>5. Sound(q)
    BY <1>1, <2>3, <2>4 DEF Sound
  <2>6. q.at \in Holding /\ reqs[r].at \in Holding
    BY <2>3, <2>4 DEF Holding
  <2> QED
    BY <1>1, <2>1, <2>2, <2>5, <2>6, StepKeeps
<1> QED
  BY <1>2, <1>4, <1>5

(* The handler takes an element of done, or closes the target.             *)
LEMMA RelayKeeps ==
  ASSUME IInv, NEW r \in Requests, Relay(r)
  PROVE  IInv' /\ SlotStep
<1>0. /\ reqs[r].done \in 0..2
      /\ reqs[r].toTarget \in {"none", "read", "write", "done"}
      /\ reqs[r].toClient \in {"none", "read", "write", "done"}
  BY OneRequest
<1>1. /\ reqs \in [Requests -> Request] /\ reqs[r] \in Request
      /\ Sound(reqs[r])
  BY OneRequest
<1>2. CASE /\ reqs[r].at = "wait1" /\ reqs[r].done > 0
           /\ reqs' = [reqs EXCEPT ![r].at = "wait2", ![r].done = @ - 1,
                                   ![r].expired = deadlinesSet]
  <2> DEFINE n == reqs[r].done - 1
             q == [reqs[r] EXCEPT !.at = "wait2", !.done = n, !.expired = deadlinesSet]
  <2>1. n \in 0..2 /\ n + 1 = Over(reqs[r])
    BY <1>0, <1>1, <1>2 DEF Sound, Over
  <2>2. reqs' = [reqs EXCEPT ![r] = q]
    BY <1>1, <1>2
  <2> HIDE DEF n
  <2>3. q \in Request
    BY <1>1, <2>1 DEF Request, Holding, deadlinesSet
  <2>4. /\ q.at = "wait2" /\ q.done = n /\ q.expired = deadlinesSet
         /\ q.method = reqs[r].method
         /\ q.authenticated = reqs[r].authenticated /\ q.status = reqs[r].status /\ q.addr = reqs[r].addr
         /\ q.target = reqs[r].target /\ q.toTarget = reqs[r].toTarget /\ q.toClient = reqs[r].toClient
    BY <1>1 DEF Request
  <2> HIDE DEF q
  <2>5. Sound(q)
    BY <1>1, <1>2, <2>1, <2>4 DEF Sound, Over
  <2>6. q.at \in Holding /\ reqs[r].at \in Holding
    BY <1>2, <2>1, <2>4 DEF Holding
  <2> QED
    BY <1>2, <2>2, <2>3, <2>4, <2>5, <2>6, StepKeeps DEF Relay
<1>3. CASE /\ reqs[r].at = "wait2" /\ reqs[r].done > 0
           /\ reqs' = [reqs EXCEPT ![r].at = "closeTarget", ![r].done = @ - 1]
  <2> DEFINE n == reqs[r].done - 1
             q == [reqs[r] EXCEPT !.at = "closeTarget", !.done = n]
  <2>1. /\ n = 0 /\ n \in 0..2
         /\ reqs[r].toTarget = "done" /\ reqs[r].toClient = "done"
    BY <1>0, <1>1, <1>3 DEF Sound, Over
  <2>2. reqs' = [reqs EXCEPT ![r] = q]
    BY <1>1, <1>3
  <2> HIDE DEF n
  <2>3. q \in Request
    BY <1>1, <2>1, Updates DEF Holding
  <2>4. /\ q.at = "closeTarget" /\ q.done = n
         /\ q.method = reqs[r].method
         /\ q.authenticated = reqs[r].authenticated /\ q.status = reqs[r].status /\ q.addr = reqs[r].addr
         /\ q.target = reqs[r].target /\ q.toTarget = reqs[r].toTarget /\ q.toClient = reqs[r].toClient
         /\ q.expired = reqs[r].expired
    BY <1>1 DEF Request
  <2> HIDE DEF q
  <2>5. Sound(q)
    BY <1>1, <1>3, <2>1, <2>4 DEF Sound, Copying
  <2>6. q.at \in Holding /\ reqs[r].at \in Holding
    BY <1>3, <2>1, <2>4 DEF Holding
  <2> QED
    BY <1>3, <2>2, <2>3, <2>4, <2>5, <2>6, StepKeeps DEF Relay
<1>4. CASE /\ reqs[r].at = "closeTarget"
           /\ reqs' = [reqs EXCEPT ![r].at = "release", ![r].target = "closed"]
  <2> DEFINE q == [reqs[r] EXCEPT !.at = "release", !.target = "closed"]
  <2>1. q \in Request
    BY <1>1, Updates DEF Holding
  <2>2. Sound(q)
    BY <1>1, <1>4 DEF Request, Sound, Over
  <2>3. reqs' = [reqs EXCEPT ![r] = q]
    BY <1>1, <1>4
  <2>4. q.at \in Holding /\ reqs[r].at \in Holding
    BY <1>1, <1>4 DEF Request, Holding
  <2> HIDE DEF q
  <2> QED
    BY <1>4, <2>1, <2>2, <2>3, <2>4, StepKeeps DEF Relay
<1> QED
  BY <1>2, <1>3, <1>4 DEF Relay

(* The slot is given back.                                                 *)
LEMMA ReleaseKeeps ==
  ASSUME IInv, NEW r \in Requests, Release(r)
  PROVE  IInv' /\ SlotStep
<1>1. /\ reqs \in [Requests -> Request] /\ reqs[r] \in Request
      /\ Sound(reqs[r])
  BY OneRequest
<1>2. reqs[r].at = "release" /\ sem' = sem - 1 /\ reqs' = [reqs EXCEPT ![r].at = "returned"]
  BY DEF Release, released
<1> QED
  <2> DEFINE q == [reqs[r] EXCEPT !.at = "returned"]
  <2>1. q \in Request
    BY <1>1, Updates DEF Holding
  <2>2. Sound(q)
    BY <1>1, <1>2 DEF Request, Sound, Over
  <2>3. reqs' = [reqs EXCEPT ![r] = q]
    BY <1>1, <1>2
  <2>4. q.at \notin Holding /\ reqs[r].at \in Holding
    BY <1>1, <1>2 DEF Request, Holding
  <2> HIDE DEF q
  <2> QED
    BY <1>2, <2>1, <2>2, <2>3, <2>4, StepKeeps DEF Release

-----------------------------------------------------------------------------
(* Every step keeps the invariant.                                         *)
LEMMA NextKeeps == IInv /\ [Next]_vars => IInv' /\ SlotStep
<1> SUFFICES ASSUME IInv, [Next]_vars
             PROVE  IInv' /\ SlotStep
  OBVIOUS
<1>1. CASE Close
  <2>1. TypeOK' /\ SlotsAccounted' /\ SlotStep
    BY <1>1 DEF Close, IInv, TypeOK, SlotsAccounted, Holders, SlotStep
  <2>2. reqs' = reqs
    BY <1>1 DEF Close
  <2> QED
    BY <2>1, <2>2 DEF IInv
<1>2. CASE UNCHANGED vars
  BY <1>2 DEF vars, IInv, TypeOK, SlotsAccounted, Holders, SlotStep
<1>3. ASSUME NEW r \in Requests,
             \E method \in {"CONNECT", "GET"}, valid \in BOOLEAN : Authenticate(r, method, valid)
      PROVE  IInv' /\ SlotStep
  BY <1>3, AuthenticateKeeps
<1>4. ASSUME NEW r \in Requests, Handler(r)
      PROVE  IInv' /\ SlotStep
  BY <1>4, AllowKeeps, BucketKeeps, RouteKeeps, ServeUDPKeeps, ResolveKeeps, DialKeeps, RelayKeeps,
     ReleaseKeeps DEF Handler
<1>5. ASSUME NEW r \in Requests, CopyEnds(r)
      PROVE  IInv' /\ SlotStep
  BY <1>5, CopyEndsKeeps
<1>6. ASSUME NEW r \in Requests, CopyReads(r) \/ CopyWrites(r)
      PROVE  IInv' /\ SlotStep
  BY <1>6, CopyMovesKeeps
<1> QED
  BY <1>1, <1>2, <1>3, <1>4, <1>5, <1>6 DEF Next

(* The inductive invariant holds in every behaviour of the server, that    *)
(* is, of ServeHTTP and relayH3Stream (server.go:145-186, 246-262).        *)
THEOREM Invariance == Spec => []IInv
BY InitHolds, NextKeeps, PTL DEF Spec

(* The state of the server keeps its type: the semaphore never overflows   *)
(* or goes below zero, and done never holds more than its two elements     *)
(* (server.go:147-152, 246-262).                                           *)
THEOREM TypeCorrect == Spec => []TypeOK
<1>1. IInv => TypeOK
  BY DEF IInv
<1> QED
  BY <1>1, Invariance, PTL

(* For any number of requests and slots, the handlers use the semaphore as *)
(* Slots does: every path through ServeHTTP gives back once the slot it    *)
(* took, and nobody is served without one (server.go:147-152).             *)
THEOREM SlotsImplemented == Spec => ImplementsSlots
<1>1. Init => Semaphore!Init
  BY DEF Init, Holders, Holding, Semaphore!Init
<1>2. IInv /\ [Next]_vars => [Semaphore!Next]_<<sem, Holders>>
  BY NextKeeps DEF SlotStep
<1> QED
  BY <1>1, <1>2, Invariance, PTL DEF Spec, ImplementsSlots, Semaphore!Spec

(* For any IPv4 addresses, in any mixture and either form, that lookups    *)
(* give: a connection to a target belongs to an authenticated CONNECT that *)
(* holds a slot, and leads to an address outside the ranges that are not   *)
(* public (server.go:165-177, guard.go:49-67, 94-99).                      *)
THEOREM TargetsAlwaysVetted == Spec => []TargetsVetted
<1>1. IInv => TargetsVetted
  <2> SUFFICES ASSUME IInv, NEW r \in Requests, reqs[r].target = "open"
               PROVE  /\ reqs[r].authenticated /\ reqs[r].method = "CONNECT"
                      /\ reqs[r].at \in Holding
                      /\ ~Reserved(unmap(reqs[r].addr))
    BY DEF TargetsVetted
  <2>1. Sound(reqs[r])
    BY DEF IInv
  <2> QED
    BY <2>1 DEF Sound, Holding
<1> QED
  BY <1>1, Invariance, PTL

-----------------------------------------------------------------------------
(* The end of a tunnel.  A handler that waits has started both goroutines, *)
(* and has set the deadlines before it waits for the second.               *)
Started(q) ==
  /\ q.at \in {"wait1", "wait2"} => q.toTarget # "none" /\ q.toClient # "none"
  /\ q.at = "wait2" => q.expired

WaitsStarted == \A r \in Requests : Started(reqs[r])

(* Whoever waits on done has an element there or a goroutine that is yet   *)
(* to send one, and past the first element one the deadlines end; and a    *)
(* handler that is about to give its slot back leaves neither the target   *)
(* nor a goroutine nor an element of done behind.                          *)
Settles(q) ==
  /\ q.at \in {"wait1", "wait2"} /\ q.done = 0 =>
       q.toTarget \in Copying \/ q.toClient \in Copying
  /\ q.at = "wait2" /\ q.done = 0 => q.expired /\ "done" \in {q.toTarget, q.toClient}
  /\ q.at \in {"release", "returned"} =>
       /\ q.target # "open" /\ q.done = 0
       /\ q.toTarget \notin Copying /\ q.toClient \notin Copying

TunnelsSettle == \A r \in Requests : Settles(reqs[r])

(* A step of one request touches no other, and starts no wait early.       *)
LEMMA RequestStarts ==
  ASSUME TypeOK, NEW r \in Requests, Started(reqs[r]),
         \/ \E method, valid : Authenticate(r, method, valid)
         \/ Handler(r) \/ CopyReads(r) \/ CopyWrites(r) \/ CopyEnds(r)
  PROVE  Started(reqs'[r]) /\ \A s \in Requests : s # r => reqs'[s] = reqs[s]
<1>1. reqs \in [Requests -> Request] /\ reqs[r] \in Request
  BY DEF TypeOK
<1>2. ASSUME NEW method, NEW valid, Authenticate(r, method, valid)
      PROVE  reqs'[r].at = "allow" /\ \A s \in Requests : s # r => reqs'[s] = reqs[s]
  BY <1>1, <1>2 DEF Authenticate, Request
<1>3. CASE Allow(r)
  <2>1. CASE reqs' = [reqs EXCEPT ![r].at = IF reqs[r].authenticated THEN "route" ELSE "bucket"]
    BY <1>1, <2>1 DEF Request, Started
  <2>2. CASE reqs' = [reqs EXCEPT ![r].at = "returned", ![r].status = "429"]
    BY <1>1, <2>2 DEF Request, Started
  <2> QED
    BY <1>3, <2>1, <2>2 DEF Allow
<1>4. ASSUME NEW status, reqs' = Answer(r, status)
      PROVE  Started(reqs'[r]) /\ \A s \in Requests : s # r => reqs'[s] = reqs[s]
  BY <1>1, <1>4 DEF Answer, Request, Started
<1>5. ASSUME NEW x \in {"route", "udp", "resolve", "release", "returned"}, reqs' = [reqs EXCEPT ![r].at = x]
      PROVE  Started(reqs'[r]) /\ \A s \in Requests : s # r => reqs'[s] = reqs[s]
  BY <1>1, <1>5 DEF Request, Started
<1>6. CASE Bucket(r)
  BY <1>4, <1>5, <1>6 DEF Bucket
<1>7. ASSUME NEW kind, Route(r, kind)
      PROVE  Started(reqs'[r]) /\ \A s \in Requests : s # r => reqs'[s] = reqs[s]
  BY <1>4, <1>5, <1>7 DEF Route
<1>8. CASE ServeUDP(r)
  <2>1. CASE reqs' = [reqs EXCEPT ![r].at = "session", ![r].status = "200"]
    BY <1>1, <2>1 DEF Request, Started
  <2> QED
    BY <1>4, <1>5, <1>8, <2>1 DEF ServeUDP
<1>9. ASSUME NEW ips, Resolve(r, ips)
      PROVE  Started(reqs'[r]) /\ \A s \in Requests : s # r => reqs'[s] = reqs[s]
  <2>1. CASE acceptable(ips)
    <3>1. reqs' = [reqs EXCEPT ![r].at = "dial", ![r].addr = validatedTarget(ips)]
      BY <1>9, <2>1 DEF Resolve
    <3> QED
      BY <1>1, <3>1 DEF Request, Started
  <2> QED
    BY <1>4, <1>9, <2>1 DEF Resolve
<1>10. CASE Dial(r)
  <2>1. CASE reqs' = [reqs EXCEPT ![r].at = "closeTarget", ![r].target = "open", ![r].status = "502"]
    BY <1>1, <2>1 DEF Request, Started
  <2>2. CASE reqs' = [reqs EXCEPT ![r].at = "wait1", ![r].target = "open", ![r].status = "200",
                                  ![r].toTarget = "read", ![r].toClient = "read"]
    <3>1. /\ reqs'[r].at = "wait1" /\ reqs'[r].toTarget = "read" /\ reqs'[r].toClient = "read"
          /\ \A s \in Requests : s # r => reqs'[s] = reqs[s]
      BY <1>1, <2>2 DEF Request
    <3> QED BY <3>1 DEF Started
  <2> QED
    BY <1>4, <1>10, <2>1, <2>2 DEF Dial
<1>11. CASE CopyReads(r) \/ CopyWrites(r) \/ CopyEnds(r)
  <2>0. PICK x \in {"read", "write", "done"} : reqs' = ToTarget(r, x) \/ reqs' = ToClient(r, x)
    BY <1>11, Zenon DEF CopyReads, CopyWrites, CopyEnds
  <2>1. CASE reqs' = ToTarget(r, x)
    BY <1>1, <2>1 DEF ToTarget, Request, Started
  <2>2. CASE reqs' = ToClient(r, x)
    BY <1>1, <2>2 DEF ToClient, Request, Started
  <2> QED
    BY <2>0, <2>1, <2>2
<1>12. CASE Relay(r)
  <2>1. CASE /\ reqs[r].at = "wait1"
             /\ reqs' = [reqs EXCEPT ![r].at = "wait2", ![r].done = @ - 1, ![r].expired = deadlinesSet]
    BY <1>1, <2>1 DEF Request, Started, deadlinesSet
  <2>2. CASE reqs' = [reqs EXCEPT ![r].at = "closeTarget", ![r].done = @ - 1]
    BY <1>1, <2>2 DEF Request, Started
  <2>3. CASE reqs' = [reqs EXCEPT ![r].at = "release", ![r].target = "closed"]
    BY <1>1, <2>3 DEF Request, Started
  <2> QED
    BY <1>12, <2>1, <2>2, <2>3 DEF Relay
<1>13. CASE Release(r)
  BY <1>5, <1>13 DEF Release
<1>14. CASE Handler(r)
  BY <1>3, <1>6, <1>7, <1>8, <1>9, <1>10, <1>12, <1>13, <1>14 DEF Handler
<1> QED
  BY <1>2, <1>11, <1>14 DEF Started

(* Every step keeps what a waiting handler has behind it.                  *)
LEMMA NextStarts ==
  ASSUME TypeOK, WaitsStarted, [Next]_vars
  PROVE  WaitsStarted'
<1>1. CASE reqs' = reqs
  BY <1>1 DEF WaitsStarted
<1>2. ASSUME NEW r \in Requests,
             \/ \E method, valid : Authenticate(r, method, valid)
             \/ Handler(r) \/ CopyReads(r) \/ CopyWrites(r) \/ CopyEnds(r)
      PROVE  WaitsStarted'
  BY <1>2, RequestStarts DEF WaitsStarted
<1> QED
  BY <1>1, <1>2 DEF Next, vars, Close

(* A tunnel always has a way to end, and a handler that has ended leaves   *)
(* nothing behind: for any number of requests, whoever waits on done has   *)
(* an element there or a goroutine that is still to send one, which after  *)
(* the first element is under expired deadlines.  It is the safety half of *)
(* TunnelEnds (server.go:246-262).                                         *)
THEOREM TunnelsAlwaysSettle == Spec => []TunnelsSettle
<1>1. Init => WaitsStarted
  BY DEF Init, Started, WaitsStarted
<1>2. IInv => TypeOK
  BY DEF IInv
<1>3. ASSUME IInv, WaitsStarted PROVE TunnelsSettle
  <2> SUFFICES ASSUME NEW r \in Requests PROVE Settles(reqs[r])
    BY DEF TunnelsSettle
  <2> DEFINE q == reqs[r]
  <2>1. /\ Started(q) /\ Sound(q) /\ q.done \in 0..2
        /\ q.toTarget \in {"none", "read", "write", "done"} /\ q.toClient \in {"none", "read", "write", "done"}
    BY <1>3, OneRequest DEF WaitsStarted
  <2> HIDE DEF q
  <2>2. ASSUME q.at = "wait1" PROVE Settles(q)
    BY <2>1, <2>2 DEF Started, Sound, Settles, Over, Copying
  <2>3. ASSUME q.at = "wait2" PROVE Settles(q)
    BY <2>1, <2>3 DEF Started, Sound, Settles, Over, Copying
  <2>4. ASSUME q.at \notin {"wait1", "wait2"} PROVE Settles(q)
    BY <2>1, <2>4 DEF Sound, Settles
  <2>5. Settles(q)
    BY <2>2, <2>3, <2>4
  <2> QED
    BY <2>5 DEF q
<1> QED
  BY <1>1, <1>2, <1>3, NextStarts, Invariance, PTL DEF Spec
=============================================================================
