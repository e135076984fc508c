----------------------------- MODULE MCH3Server -----------------------------
(* A small instance of H3Server for TLC, and the guard at its boundaries. *)
EXTENDS H3Server

\* A public address next to a private range, and a private one in mapped form.
MCIPs == {<<172, 32, 0, 0>>, mapped(<<172, 31, 255, 255>>)}

\* The addresses around every bound of a range.
Edges ==
  LET next(o) == {k \in Octet : k \in (o - 1)..(o + 1)} IN
  UNION {{<<a, b, c, d>> : a \in next(x[1]), b \in next(x[2]), c \in next(x[3]), d \in next(x[4])}
           : x \in {r[1] : r \in Ranges} \cup {r[2] : r \in Ranges}}

ASSUME GuardAtEdges ==
  \A ip \in Edges : Reserved(ip) <=> (IsForbiddenIP(ip) /\ IsForbiddenIP(mapped(ip)))
=============================================================================
