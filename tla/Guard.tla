-------------------------------- MODULE Guard --------------------------------
(***************************************************************************)
(* The addresses the server refuses to dial (IsForbiddenIP in              *)
(* internal/chimera/guard.go), and the ranges they are meant to be.        *)
(*                                                                         *)
(* A net.IP is a sequence of octets: 4 for IPv4, 16 for IPv6 and for an    *)
(* IPv4 address in its mapped form.                                        *)
(***************************************************************************)
EXTENDS Integers, Sequences

Octet == 0..255
IPv4 == [1..4 -> Octet]

v6(a, b, c, d) == <<a, b, c, d, 0, 0, 0, 0, 0, 0, 0, 0, 0, 0, 0, 0>>
mapped(ip) == [i \in 1..16 |-> IF i <= 10 THEN 0 ELSE IF i <= 12 THEN 255 ELSE ip[i - 12]]

-----------------------------------------------------------------------------
(* net/netip.                                                              *)

\* Addr.Unmap
isMapped(ip) == Len(ip) = 16 /\ ip[11] = 255 /\ ip[12] = 255 /\ \A i \in 1..10 : ip[i] = 0
unmap(ip) == IF isMapped(ip) THEN [i \in 1..4 |-> ip[i + 12]] ELSE ip

\* Prefix.Contains: the first bits agree, and addresses of the other family never do.
prefix(ip, bits) == [ip |-> ip, bits |-> bits]
low(bits) == IF bits <= 0 THEN 256 ELSE IF bits >= 8 THEN 1
             ELSE <<128, 64, 32, 16, 8, 4, 2>>[bits]
contains(p, ip) ==
  /\ Len(p.ip) = Len(ip)
  /\ \A i \in 1..Len(ip) :
       LET l == low(p.bits - 8 * (i - 1)) IN ip[i] \div l = p.ip[i] \div l

\* IsLoopback, IsPrivate, IsLinkLocalUnicast, IsMulticast and IsUnspecified.
special ==
  {prefix(<<127, 0, 0, 0>>, 8), prefix([v6(0, 0, 0, 0) EXCEPT ![16] = 1], 128),
   prefix(<<10, 0, 0, 0>>, 8), prefix(<<172, 16, 0, 0>>, 12), prefix(<<192, 168, 0, 0>>, 16),
   prefix(v6(252, 0, 0, 0), 7),
   prefix(<<169, 254, 0, 0>>, 16), prefix(v6(254, 128, 0, 0), 10),
   prefix(<<224, 0, 0, 0>>, 4), prefix(v6(255, 0, 0, 0), 8),
   prefix(<<0, 0, 0, 0>>, 32), prefix(v6(0, 0, 0, 0), 128)}

-----------------------------------------------------------------------------
forbiddenPrefixes ==
  {prefix(<<0, 0, 0, 0>>, 8), prefix(<<100, 64, 0, 0>>, 10), prefix(<<192, 0, 0, 0>>, 24),
   prefix(<<192, 0, 2, 0>>, 24), prefix(<<198, 18, 0, 0>>, 15), prefix(<<198, 51, 100, 0>>, 24),
   prefix(<<203, 0, 113, 0>>, 24), prefix(<<240, 0, 0, 0>>, 4),
   prefix(v6(32, 1, 13, 184), 32)}

\* AddrFromSlice takes 4 or 16 octets; anything else is refused.
IsForbiddenIP(ip) ==
  Len(ip) \notin {4, 16} \/ \E p \in special \cup forbiddenPrefixes : contains(p, unmap(ip))

-----------------------------------------------------------------------------
(* The reference: the first and the last address of every range that is    *)
(* not public, adjacent ones put together.                                 *)
Ranges ==
  {<<<<0, 0, 0, 0>>, <<0, 255, 255, 255>>>>, <<<<10, 0, 0, 0>>, <<10, 255, 255, 255>>>>,
   <<<<100, 64, 0, 0>>, <<100, 127, 255, 255>>>>, <<<<127, 0, 0, 0>>, <<127, 255, 255, 255>>>>,
   <<<<169, 254, 0, 0>>, <<169, 254, 255, 255>>>>, <<<<172, 16, 0, 0>>, <<172, 31, 255, 255>>>>,
   <<<<192, 0, 0, 0>>, <<192, 0, 0, 255>>>>, <<<<192, 0, 2, 0>>, <<192, 0, 2, 255>>>>,
   <<<<192, 168, 0, 0>>, <<192, 168, 255, 255>>>>, <<<<198, 18, 0, 0>>, <<198, 19, 255, 255>>>>,
   <<<<198, 51, 100, 0>>, <<198, 51, 100, 255>>>>, <<<<203, 0, 113, 0>>, <<203, 0, 113, 255>>>>,
   <<<<224, 0, 0, 0>>, <<255, 255, 255, 255>>>>}

\* The order of IPv4 addresses.
upTo(x, y) ==
  \/ x[1] < y[1]
  \/ x[1] = y[1] /\ \/ x[2] < y[2]
                    \/ x[2] = y[2] /\ \/ x[3] < y[3]
                                      \/ x[3] = y[3] /\ x[4] <= y[4]

Reserved(ip) == \E r \in Ranges : upTo(r[1], ip) /\ upTo(ip, r[2])
=============================================================================
