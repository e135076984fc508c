---------------------------- MODULE TunnelProofs ----------------------------
(* Safety of the two kinds of tunnel: the TCP tunnel of Tunnel, for every  *)
(* -auto-quic-timeout, and the UDP associations of UdpAssociation, for     *)
(* every number of sessions, slots and packets.                            *)
EXTENDS Tunnel, UdpAssociation, FiniteSetTheorems, TLAPS
-----------------------------------------------------------------------------
(* The tunnel of a SOCKS connection.                                       *)

\* Phases of the client's handler before there is a TCP carrier.
Undialled == {"handshake", "request", "dialTCP"} \cup QuicPhases
\* Phases of the client's handler once its carrier is answered for.
Answering == {"reply", "relay", "wait"}

\* The server accepts a connection that the client has dialled, and a handler
\* of the server that returned has closed its end.
Carried ==
  /\ conn["tcp"] = "none" => srv = "idle"
  /\ srv = "idle" <=> conn["accepted"] = "none"
  /\ srv \in {"wait", "returned"} => conn["accepted"] = "closed"
  /\ srv \in {"wait", "returned"} => conn["target"] # "open"
  /\ srv \in {"idle", "header", "connect", "resolve", "dial"} => conn["target"] = "none"
  /\ srv \in {"relay", "wait"} => conn["target"] # "none"
  /\ conn["target"] # "none" \/ srv = "dial" => target = "public"

\* What the client has opened where it is.
Opened ==
  /\ conn["socks"] # "none"
  /\ c \in {"handshake", "request", "dialQUIC"} => conn["quic"] = "none"
  /\ c \in {"handshake", "request", "dialQUIC", "openStream"} => conn["stream"] = "none"
  /\ c \in Undialled => conn["tcp"] = "none"
  /\ c = "reality" => srv = "idle" /\ conn["tcp"] # "none"
  /\ c \in TcpPhases \ {"dialTCP", "reality"} => srv # "idle"
  /\ c \in Answering /\ srv = "idle" => conn["tcp"] = "none"
  /\ c \in QuicPhases => mode # "tcp"
  /\ c \in {"readResponse"} \cup Answering /\ srv = "idle" => conn["stream"] # "none"
  /\ c \in {"wait", "returned"} =>
       \A k \in {"socks", "quic", "stream", "tcp"} : conn[k] # "open"
  /\ c \in Answering => target = "public"

\* The messages in flight, by where the two handlers are.
InFlight ==
  /\ srv = "idle" => wire.up = <<>> /\ wire.down = <<>>
  /\ srv = "header" => wire.up \in {<<>>, <<"header">>} /\ wire.down = <<>>
  /\ srv = "connect" => \/ wire.up = <<>> /\ wire.down \in {<<>>, <<Succeeded>>}
                        \/ wire.up = <<"connect">> /\ wire.down = <<>>
  /\ srv \in {"resolve", "dial"} => wire.up = <<>> /\ wire.down = <<>>
  /\ srv \in {"relay", "wait"} => wire.up = <<>>

\* The handshake: what the server has got to where the client is.
Agreed ==
  /\ c = "header" =>
       srv \in {"header", "returned"} /\ wire.up = <<>> /\ wire.down = <<>>
  /\ c = "session" =>
       \/ srv \in {"header", "returned"} /\ wire.up = <<"header">> /\ wire.down = <<>>
       \/ srv \in {"connect", "returned"} /\ wire.up = <<>> /\ wire.down = <<Succeeded>>
  /\ c = "connect" =>
       srv \in {"connect", "returned"} /\ wire.up = <<>> /\ wire.down = <<>>
  /\ c = "result" =>
       \/ srv \in {"connect", "returned"} /\ wire.up = <<"connect">> /\ wire.down = <<>>
       \/ srv \in {"resolve", "dial", "returned"} /\ wire.up = <<>> /\ wire.down = <<>>
       \/ srv = "returned" /\ wire.up = <<>> /\ wire.down = <<StatusDialError>>
       \/ /\ srv \in {"relay", "wait", "returned"} /\ conn["target"] # "none"
          /\ wire.up = <<>> /\ wire.down = <<Succeeded>>
  /\ c \in Answering /\ srv # "idle" =>
       srv \in {"relay", "wait", "returned"} /\ conn["target"] # "none"

\* What the application was told.
Told ==
  /\ c \notin {"relay", "wait", "returned"} => replies = <<>>
  /\ c \in {"relay", "wait"} => replies = <<Succeeded>>
  /\ replies \in {<<>>, <<Succeeded>>, <<1>>, <<5>>}
  /\ replies = <<Succeeded>> =>
       /\ conn[IF conn["tcp"] = "none" THEN "stream" ELSE "target"] # "none"
       /\ target = "public"

\* The goroutines of a Relay run.
Running ==
  /\ c \in {"relay", "wait"} => \A d \in {"up", "down"} : copy[<<"client", d>>] # "none"
  /\ srv \in {"relay", "wait"} => \A d \in {"up", "down"} : copy[<<"server", d>>] # "none"

\* Everything but the replies has its type; Told says more of those.
TunnelShape ==
  /\ mode \in {"tcp", "quic", "auto"}
  /\ target \in {"public", "forbidden", "empty"}
  /\ c \in {"handshake", "request", "returned"}
            \cup Answering \cup QuicPhases \cup TcpPhases
  /\ srv \in {"idle", "header", "connect", "resolve", "dial", "relay", "wait", "returned"}
  /\ conn \in [Conns -> {"none", "open", "closed"}]
  /\ wire \in [up : {<<>>, <<"header">>, <<"connect">>},
               down : {<<>>, <<Succeeded>>, <<StatusDialError>>}]
  /\ copy \in [Sides \X {"up", "down"} -> {"none", "read", "write", "done"}]
  /\ gone \subseteq {"app", "target", "quic", "tcp"}
  /\ elapsed \in 0..MaxElapsed

TunnelInv ==
  /\ TunnelShape /\ LazyTCP /\ NothingLeaked
  /\ Carried /\ Opened /\ InFlight /\ Agreed /\ Told /\ Running

\* The client, or the server, waits for a message of the handshake.
ClientWaits == c \in {"session", "result"} /\ wire.down = <<>> /\ ~ConnEnded("tcp")
ServerWaits == srv \in {"header", "connect"} /\ wire.up = <<>> /\ ~ConnEnded("accepted")

\* Whoever waits in the handshake waits for a peer that has a step to take.
NoMutualWait ==
  /\ ClientWaits => srv \in {"header", "connect", "resolve", "dial"} /\ ~ServerWaits
  /\ ServerWaits => c \in {"header", "session", "connect"} /\ ~ClientWaits

\* A Relay that waits for a goroutine waits for one that ends.
WaitEnds ==
  \A side \in Sides, d \in {"up", "down"} :
    At(side) = "wait" =>
      \/ copy[<<side, d>>] = "done"
      \/ /\ copy[<<side, d>>] \in {"read", "write"}
         /\ ConnEnded(Source(<<side, d>>)) /\ ConnEnded(Sink(<<side, d>>))

\* Only a target that the guard admits is dialled, or reported as reached.
OnlyPublic ==
  conn["target"] # "none" \/ replies = <<Succeeded>> => target = "public"

\* A request that was read does not end without an answer.
NeverSilent ==
  c \notin {"handshake", "returned"} /\ c' = "returned" => replies' # <<>> \/ "app" \in gone

\* A connection is opened once, and stays closed.
NeverReopened ==
  \A k \in Conns :
    /\ conn[k] = "closed" => conn'[k] = "closed"
    /\ conn[k] = "open" => conn'[k] # "none"

\* Sequences of at most one message.
LEMMA OneMessage ==
  /\ \A x : Append(<<>>, x) = <<x>> /\ Head(<<x>>) = x /\ Tail(<<x>>) = <<>>
  /\ \A x : <<x>> # <<>> /\ <<>> \o <<x>> = <<x>> /\ Len(<<x>>) = 1
  /\ \A x, y : <<x>> = <<y>> => x = y
  /\ Len(<<>>) = 0
OBVIOUS

\* The connections after some of them are closed (the deferred Close calls).
LEMMA ClosingConns ==
  ASSUME TunnelShape, NEW ks
  PROVE  /\ Closing(ks) \in [Conns -> {"none", "open", "closed"}]
         /\ \A k \in Conns :
              Closing(ks)[k] = IF k \in ks /\ conn[k] = "open" THEN "closed" ELSE conn[k]
BY DEF TunnelShape, Closing

\* The states in which a SOCKS connection was just accepted have it.
LEMMA TunnelInit ==
  ASSUME TunInit
  PROVE  TunnelInv
<1>1. TunnelShape
  BY TunnelAssumption DEF TunInit, TunnelShape, Conns, Sides
<1>2. LazyTCP /\ NothingLeaked /\ Carried /\ Opened
  BY DEF TunInit, LazyTCP, NothingLeaked, Carried, Opened,
         Conns, QuicPhases, TcpPhases, Undialled, Answering
<1>3. InFlight /\ Agreed /\ Told /\ Running
  BY DEF TunInit, InFlight, Agreed, Told, Running, Answering, Succeeded
<1> QED BY <1>1, <1>2, <1>3 DEF TunnelInv

\* A return of handleSocks5 on any of its error paths: what it owns is closed
\* with the application's connection, and there is at most one reply.
LEMMA ClientReturns ==
  ASSUME TunnelInv, NEW owned, NEW code \in {1, 5},
         c \notin Answering \ {"reply"}, c # "returned",
         \A k \in {"quic", "stream", "tcp"} : k \in owned \/ conn[k] # "open",
         c' = "returned", conn' = Closing(owned \cup {"socks"}),
         replies' = replies \/ replies' = socks5Reply(code),
         wire' = wire \/ wire' = [wire EXCEPT !.down = <<>>],
         owned \cap {"accepted", "target"} = {},
         UNCHANGED <<mode, target, srv, copy, gone, elapsed>>
  PROVE  TunnelInv'
<1> USE DEF TunnelInv
<1>1. /\ conn' \in [Conns -> {"none", "open", "closed"}]
      /\ \A k \in Conns : /\ conn'[k] = "none" <=> conn[k] = "none"
                          /\ conn[k] = "closed" => conn'[k] = "closed"
                          /\ conn[k] # "open" => conn'[k] # "open"
      /\ \A k \in {"socks", "quic", "stream", "tcp"} : conn'[k] # "open"
      /\ \A k \in {"accepted", "target"} : conn'[k] = conn[k]
  BY ClosingConns DEF Conns
<1>2. TunnelShape'
  <2>1. wire' \in [up : {<<>>, <<"header">>, <<"connect">>},
                   down : {<<>>, <<Succeeded>>, <<StatusDialError>>}]
    BY DEF TunnelShape
  <2> QED BY <1>1, <2>1, Zenon DEF TunnelShape
<1>3. LazyTCP' /\ NothingLeaked'
  BY <1>1 DEF LazyTCP, NothingLeaked, TcpPhases, Conns
<1>4. Carried' /\ Opened'
  BY <1>1 DEF Carried, Opened, Conns, Undialled, Answering, QuicPhases, TcpPhases
<1>5. InFlight' /\ Agreed'
  <2>1. wire'.up = wire.up /\ (wire'.down = wire.down \/ wire'.down = <<>>)
    BY DEF TunnelShape
  <2> QED BY <2>1 DEF InFlight, Agreed, Answering
<1>6. Told'
  <2>1. replies = <<>>
    BY DEF Told, Answering
  <2>2. replies' = <<>> \/ replies' = <<code>>
    BY <2>1, OneMessage, Zenon DEF socks5Reply
  <2>3. code # Succeeded
    BY DEF Succeeded
  <2>4. replies' # <<Succeeded>> /\ replies' \in {<<>>, <<1>>, <<5>>}
    BY <2>2, <2>3, OneMessage, Zenon
  <2> QED BY <2>4, Zenon DEF Told
<1>7. Running'
  BY DEF Running
<1> QED BY <1>2, <1>3, <1>4, <1>5, <1>6, <1>7

\* A return of handleConn before its Relay: the deferred closes run.
LEMMA ServerGivesUp ==
  ASSUME TunnelInv, ServerReturns,
         \/ srv \in {"header", "connect"} /\ wire' = wire
         \/ srv \in {"resolve", "dial"} /\ wire' = [wire EXCEPT !.down = <<StatusDialError>>],
         UNCHANGED <<mode, target, c, replies, copy, gone, elapsed>>
  PROVE  TunnelInv'
<1> USE DEF TunnelInv
<1>1. /\ conn' \in [Conns -> {"none", "open", "closed"}]
      /\ \A k \in {"socks", "quic", "stream", "tcp", "target"} : conn'[k] = conn[k]
      /\ conn'["accepted"] = "closed"
  BY ClosingConns DEF ServerReturns, Conns, Carried, TunnelShape
<1>2. srv' = "returned"
  BY DEF ServerReturns
<1>3. /\ wire'.up = wire.up
      /\ wire' \in [up : {<<>>, <<"header">>, <<"connect">>},
                    down : {<<>>, <<Succeeded>>, <<StatusDialError>>}]
      /\ \/ srv \in {"header", "connect"} /\ wire'.down = wire.down
         \/ srv \in {"resolve", "dial"} /\ wire'.down = <<StatusDialError>>
  BY DEF TunnelShape
<1>4. TunnelShape'
  BY <1>1, <1>2, <1>3 DEF TunnelShape
<1>5. LazyTCP' /\ NothingLeaked'
  BY <1>1, <1>2 DEF LazyTCP, NothingLeaked, Carried
<1>6. Carried' /\ Opened'
  BY <1>1, <1>2 DEF Carried, Opened, Undialled
<1>7. InFlight' /\ Agreed'
  BY <1>1, <1>2, <1>3 DEF InFlight, Agreed, Answering
<1>8. Told' /\ Running'
  BY <1>1, <1>2 DEF Told, Running, Carried
<1> QED BY <1>4, <1>5, <1>6, <1>7, <1>8

\* handleSocks5 up to the request.
LEMMA SocksKeeps ==
  ASSUME TunnelInv, SocksStep
  PROVE  TunnelInv'
<1>0. c \in {"handshake", "request"} /\ \A k \in {"quic", "stream", "tcp"} : conn[k] = "none"
  BY DEF TunnelInv, Opened, Carried, Undialled, SocksStep, socks5Handshake, socks5ReadRequest
<1>1. CASE c' = "returned"
  <2>1. conn' = Closing({} \cup {"socks"})
    BY <1>1 DEF SocksStep, socks5Handshake, socks5ReadRequest, selectTransport
  <2>2. /\ replies' = replies \/ replies' = socks5Reply(1)
        /\ UNCHANGED <<wire, mode, target, srv, copy, gone, elapsed>>
    BY <1>1 DEF SocksStep, socks5Handshake, socks5ReadRequest, selectTransport
  <2> QED BY <1>0, <1>1, <2>1, <2>2, ClientReturns DEF Answering
<1>2. CASE c' # "returned"
  <2>1. /\ \/ c' = "request"
           \/ c' = "dialTCP" /\ mode = "tcp"
           \/ c' = "dialQUIC" /\ mode # "tcp"
        /\ UNCHANGED <<conn, replies, wire, mode, target, srv, copy, gone, elapsed>>
    BY <1>2 DEF SocksStep, socks5Handshake, socks5ReadRequest, selectTransport
  <2>2. TunnelShape' /\ LazyTCP' /\ NothingLeaked'
    BY <1>0, <2>1 DEF TunnelInv, TunnelShape, LazyTCP, NothingLeaked,
                      QuicPhases, TcpPhases
  <2>3. Carried' /\ Opened' /\ Running'
    BY <1>0, <2>1 DEF TunnelInv, Carried, Opened, Running, Undialled, Answering,
                      QuicPhases, TcpPhases
  <2>4. InFlight' /\ Agreed' /\ Told'
    BY <1>0, <2>1 DEF TunnelInv, InFlight, Agreed, Told, Answering
  <2> QED BY <2>2, <2>3, <2>4 DEF TunnelInv
<1> QED BY <1>1, <1>2

\* A QUIC attempt that fails has closed what it opened; auto goes on to TCP.
LEMMA QuicFailsKeeps ==
  ASSUME TunnelInv, c \in QuicPhases, QuicFails,
         UNCHANGED <<mode, target, srv, wire, copy, gone, elapsed>>
  PROVE  TunnelInv'
<1>0. srv = "idle" /\ conn["tcp"] = "none"
  BY DEF TunnelInv, Opened, Carried, Undialled
<1>1. CASE mode # "auto"
  BY <1>0, <1>1, ClientReturns DEF QuicFails, Refuse, QuicPhases, Answering
<1>2. CASE mode = "auto"
  <2>1. c' = "dialTCP" /\ UNCHANGED replies
    BY <1>2 DEF QuicFails
  <2>2. /\ conn' \in [Conns -> {"none", "open", "closed"}]
        /\ \A k \in {"socks", "tcp", "accepted", "target"} : conn'[k] = conn[k]
        /\ conn'["quic"] # "open" /\ conn'["stream"] # "open"
    BY <1>2, ClosingConns DEF TunnelInv, QuicFails, Conns
  <2>3. TunnelShape' /\ LazyTCP' /\ NothingLeaked'
    BY <1>0, <1>2, <2>1, <2>2 DEF TunnelInv, TunnelShape, LazyTCP, NothingLeaked,
                                  TcpPhases
  <2>4. Carried' /\ Opened' /\ Running'
    BY <1>0, <2>1, <2>2 DEF TunnelInv, Carried, Opened, Running, Answering, QuicPhases, Undialled
  <2>5. InFlight' /\ Agreed' /\ Told'
    BY <1>0, <2>1, <2>2, OneMessage DEF TunnelInv, InFlight, Agreed, Told, Answering, QuicPhases
  <2> QED BY <2>3, <2>4, <2>5 DEF TunnelInv
<1> QED BY <1>1, <1>2

\* The QUIC attempt of DialClientWithConfig and DialTCP.
LEMMA QuicKeeps ==
  ASSUME TunnelInv, QuicStep
  PROVE  TunnelInv'
<1>0. /\ c \in QuicPhases
      /\ UNCHANGED <<mode, target, srv, wire, copy, gone, elapsed>>
  BY DEF QuicStep, DialClientWithConfig, DialTCP_OpenRequestStream, DialTCP_ReadResponse, QuicPhases
<1>1. CASE QuicFails
  BY <1>0, <1>1, QuicFailsKeeps
<1>2. CASE ~QuicFails
  <2>1. /\ UNCHANGED replies
        /\ \/ c = "dialQUIC" /\ c' = "openStream" /\ conn' = [conn EXCEPT !["quic"] = "open"]
           \/ c = "openStream" /\ c' = "readResponse" /\ conn' = [conn EXCEPT !["stream"] = "open"]
           \/ c = "readResponse" /\ target = "public" /\ c' = "reply" /\ conn' = conn
    BY <1>2 DEF QuicStep, DialClientWithConfig, DialTCP_OpenRequestStream, DialTCP_ReadResponse, Opening
  <2>2. srv = "idle" /\ conn["tcp"] = "none"
    BY <1>0 DEF TunnelInv, Opened, Carried, Undialled
  <2>3. /\ conn' \in [Conns -> {"none", "open", "closed"}]
        /\ \A k \in {"socks", "tcp", "accepted", "target"} : conn'[k] = conn[k]
    BY <2>1 DEF TunnelInv, TunnelShape, Conns
  <2>4. TunnelShape' /\ LazyTCP' /\ NothingLeaked'
    BY <1>0, <2>1, <2>2, <2>3
    DEF TunnelInv, TunnelShape, LazyTCP, NothingLeaked, QuicPhases, TcpPhases, Answering
  <2>5. Carried' /\ Opened'
    BY <1>0, <2>1, <2>2, <2>3
    DEF TunnelInv, TunnelShape, Carried, Opened, Undialled, Answering, Conns, QuicPhases, TcpPhases
  <2>6. InFlight' /\ Agreed' /\ Told' /\ Running'
    BY <1>0, <2>1, <2>2, <2>3, OneMessage
    DEF TunnelInv, InFlight, Agreed, Told, Running, Answering, QuicPhases
  <2> QED BY <2>4, <2>5, <2>6 DEF TunnelInv
<1> QED BY <1>1, <1>2

\* The dial of rawConn: it is open, or there is none.
LEMMA DialContextKeeps ==
  ASSUME TunnelInv, Dial_DialContext
  PROVE  TunnelInv'
<1>0. /\ c = "dialTCP" /\ srv = "idle" /\ mode # "quic"
      /\ \A k \in {"tcp", "accepted", "target"} : conn[k] = "none"
      /\ \A k \in {"quic", "stream"} : conn[k] # "open"
      /\ replies = <<>> /\ UNCHANGED <<mode, target, srv, wire, copy, gone, elapsed>>
  BY DEF Dial_DialContext, TunnelInv, Opened, Carried, Told, Undialled, LazyTCP, TcpPhases
<1>1. CASE Refuse({})
  BY <1>0, <1>1, ClientReturns DEF Refuse, Answering
<1>2. CASE ~Refuse({})
  <2>1. c' = "reality" /\ conn' = [conn EXCEPT !["tcp"] = "open"] /\ UNCHANGED replies
    BY <1>2 DEF Dial_DialContext, Opening
  <2>2. /\ conn' \in [Conns -> {"none", "open", "closed"}]
        /\ conn'["tcp"] = "open"
        /\ \A k \in {"socks", "quic", "stream", "accepted", "target"} : conn'[k] = conn[k]
    BY <2>1 DEF TunnelInv, TunnelShape, Conns
  <2>3. TunnelShape' /\ LazyTCP' /\ NothingLeaked'
    BY <1>0, <2>1, <2>2
    DEF TunnelInv, TunnelShape, LazyTCP, NothingLeaked, TcpPhases
  <2>4. Carried' /\ Opened' /\ Running'
    BY <1>0, <2>1, <2>2
    DEF TunnelInv, Carried, Opened, Running, Undialled, Answering, QuicPhases
  <2>5. InFlight' /\ Agreed' /\ Told'
    BY <1>0, <2>1, <2>2, OneMessage DEF TunnelInv, InFlight, Agreed, Told, Answering
  <2> QED BY <2>3, <2>4, <2>5 DEF TunnelInv
<1> QED BY <1>1, <1>2

\* The handshake of rawConn: the server accepts it, or it is closed.
LEMMA HandshakeKeeps ==
  ASSUME TunnelInv, Dial_Handshake
  PROVE  TunnelInv'
<1>0. /\ c = "reality" /\ srv = "idle" /\ mode # "quic" /\ conn["tcp"] # "none"
      /\ \A k \in {"accepted", "target"} : conn[k] = "none"
      /\ \A k \in {"quic", "stream"} : conn[k] # "open"
      /\ replies = <<>> /\ UNCHANGED <<mode, target, wire, copy, gone, elapsed>>
  BY DEF Dial_Handshake, TunnelInv, Opened, Carried, Told, LazyTCP, TcpPhases
<1>1. CASE RawFails
  <2>1. srv' = srv
    BY <1>0, <1>1 DEF Dial_Handshake, RawFails, Refuse
  <2> QED BY <1>0, <1>1, <2>1, ClientReturns DEF RawFails, Refuse, Answering
<1>2. CASE ~RawFails
  <2>1. /\ c' = "header" /\ srv' = "header" /\ UNCHANGED replies
        /\ conn' = [conn EXCEPT !["accepted"] = "open"]
    BY <1>2 DEF Dial_Handshake, Opening
  <2>2. /\ conn' \in [Conns -> {"none", "open", "closed"}]
        /\ conn'["accepted"] = "open"
        /\ \A k \in {"socks", "quic", "stream", "tcp", "target"} : conn'[k] = conn[k]
    BY <2>1 DEF TunnelInv, TunnelShape, Conns
  <2>3. TunnelShape' /\ LazyTCP' /\ NothingLeaked'
    BY <1>0, <2>1, <2>2
    DEF TunnelInv, TunnelShape, LazyTCP, NothingLeaked, TcpPhases
  <2>4. Carried' /\ Opened' /\ Running'
    BY <1>0, <2>1, <2>2
    DEF TunnelInv, Carried, Opened, Running, Undialled, Answering, QuicPhases
  <2>5. InFlight' /\ Agreed' /\ Told'
    BY <1>0, <2>1, <2>2, OneMessage DEF TunnelInv, InFlight, Agreed, Told, Answering
  <2> QED BY <2>3, <2>4, <2>5 DEF TunnelInv
<1> QED BY <1>1, <1>2

\* A dialChimeraTCP that fails leaves nothing open: what the QUIC attempt of
\* auto opened was closed before.
LEMMA TcpFailsKeeps ==
  ASSUME TunnelInv, c \in TcpPhases, TcpFails,
         wire' = wire \/ wire' = [wire EXCEPT !.down = <<>>],
         UNCHANGED <<mode, target, srv, copy, gone, elapsed>>
  PROVE  TunnelInv'
<1>1. \A k \in {"quic", "stream"} : conn[k] # "open"
  BY DEF TunnelInv, LazyTCP
<1> QED BY <1>1, ClientReturns DEF TcpFails, Refuse, TcpPhases, Answering

\* A step of the handshake on the client's side that goes on.
LEMMA HandshakeGoesOn ==
  ASSUME TunnelInv, c \in {"header", "session", "connect", "result"},
         c' \in {"session", "connect", "result", "reply"},
         wire' \in [up : {<<>>, <<"header">>, <<"connect">>},
                    down : {<<>>, <<Succeeded>>, <<StatusDialError>>}],
         InFlight', Agreed', c' = "reply" => target = "public",
         UNCHANGED <<conn, replies, mode, target, srv, copy, gone, elapsed>>
  PROVE  TunnelInv'
<1>0. srv # "idle" /\ conn["tcp"] # "none"
  BY DEF TunnelInv, Opened, Carried, TcpPhases
<1>1. TunnelShape' /\ LazyTCP' /\ NothingLeaked'
  BY <1>0
  DEF TunnelInv, TunnelShape, LazyTCP, NothingLeaked, TcpPhases, Answering
<1>2. Carried' /\ Opened' /\ Running'
  BY <1>0
  DEF TunnelInv, Carried, Opened, Running, Undialled, Answering, QuicPhases, TcpPhases
<1>3. Told'
  BY <1>0, OneMessage DEF TunnelInv, Told
<1> QED BY <1>1, <1>2, <1>3 DEF TunnelInv

\* WriteSessionHeader.
LEMMA HeaderKeeps ==
  ASSUME TunnelInv, WriteSessionHeader
  PROVE  TunnelInv'
<1>0. c = "header" /\ UNCHANGED <<mode, target, srv, copy, gone, elapsed>>
  BY DEF WriteSessionHeader
<1>1. CASE TcpFails
  <2>1. wire' = wire
    BY <1>1 DEF WriteSessionHeader, TcpFails, Refuse
  <2> QED BY <1>0, <1>1, <2>1, TcpFailsKeeps DEF TcpPhases
<1>2. CASE ~TcpFails
  <2>1. /\ c' = "session" /\ UNCHANGED <<conn, replies>>
        /\ wire' = [wire EXCEPT !.up = Append(@, "header")]
    BY <1>2 DEF WriteSessionHeader
  <2>2. srv \in {"header", "returned"} /\ wire.up = <<>> /\ wire.down = <<>>
    BY <1>0 DEF TunnelInv, Agreed
  <2>3. /\ wire'.up = <<"header">> /\ wire'.down = <<>>
        /\ wire' \in [up : {<<>>, <<"header">>, <<"connect">>},
                      down : {<<>>, <<Succeeded>>, <<StatusDialError>>}]
    BY <2>1, <2>2, OneMessage DEF TunnelInv, TunnelShape
  <2>4. InFlight' /\ Agreed'
    BY <1>0, <2>1, <2>2, <2>3 DEF InFlight, Agreed, Answering
  <2> QED BY <1>0, <2>1, <2>3, <2>4, HandshakeGoesOn
<1> QED BY <1>1, <1>2

\* WriteTargetConnect.
LEMMA ConnectKeeps ==
  ASSUME TunnelInv, WriteTargetConnect
  PROVE  TunnelInv'
<1>0. c = "connect" /\ UNCHANGED <<mode, target, srv, copy, gone, elapsed>>
  BY DEF WriteTargetConnect
<1>1. CASE TcpFails
  <2>1. wire' = wire
    BY <1>1 DEF WriteTargetConnect, TcpFails, Refuse
  <2> QED BY <1>0, <1>1, <2>1, TcpFailsKeeps DEF TcpPhases
<1>2. CASE ~TcpFails
  <2>1. /\ c' = "result" /\ UNCHANGED <<conn, replies>>
        /\ wire' = [wire EXCEPT !.up = @ \o <<"connect">>]
    BY <1>2, Zenon DEF WriteTargetConnect, WriteAddress
  <2>2. srv \in {"connect", "returned"} /\ wire.up = <<>> /\ wire.down = <<>>
    BY <1>0 DEF TunnelInv, Agreed
  <2>3. /\ wire'.up = <<"connect">> /\ wire'.down = <<>>
        /\ wire' \in [up : {<<>>, <<"header">>, <<"connect">>},
                      down : {<<>>, <<Succeeded>>, <<StatusDialError>>}]
    BY <2>1, <2>2, OneMessage DEF TunnelInv, TunnelShape
  <2>4. InFlight' /\ Agreed'
    BY <1>0, <2>1, <2>2, <2>3 DEF InFlight, Agreed, Answering
  <2> QED BY <1>0, <2>1, <2>3, <2>4, HandshakeGoesOn
<1> QED BY <1>1, <1>2

\* ReadSessionResponse, of the session and of the target.
LEMMA ResponseKeeps ==
  ASSUME TunnelInv, ReadSessionResponse
  PROVE  TunnelInv'
<1>0. /\ c \in {"session", "result"}
      /\ UNCHANGED <<mode, target, srv, copy, gone, elapsed>>
  BY DEF ReadSessionResponse
<1>1. wire.down \in {<<>>, <<Succeeded>>, <<StatusDialError>>}
  BY DEF TunnelInv, TunnelShape
<1>2. CASE TcpFails
  <2>1. \/ wire' = wire
        \/ wire.down # <<>> /\ wire' = [wire EXCEPT !.down = Tail(@)]
    BY Zenon DEF ReadSessionResponse
  <2>2. wire' = wire \/ wire' = [wire EXCEPT !.down = <<>>]
    BY <1>1, <2>1, OneMessage
  <2> QED BY <1>0, <1>2, <2>2, TcpFailsKeeps DEF TcpPhases
<1>3. CASE ~TcpFails
  <2>1. /\ wire.down # <<>> /\ Head(wire.down) = Succeeded
        /\ c' = IF c = "session" THEN "connect" ELSE "reply"
        /\ wire' = [wire EXCEPT !.down = Tail(@)]
        /\ UNCHANGED <<conn, replies>>
    BY <1>3 DEF ReadSessionResponse, granted
  <2>2. wire.down = <<Succeeded>>
    BY <1>1, <2>1, OneMessage DEF Succeeded, StatusDialError
  <2>3. /\ wire'.up = wire.up /\ wire'.down = <<>>
        /\ wire' \in [up : {<<>>, <<"header">>, <<"connect">>},
                      down : {<<>>, <<Succeeded>>, <<StatusDialError>>}]
    BY <2>1, <2>2, OneMessage DEF TunnelInv, TunnelShape
  <2>4. wire.down # <<>> /\ wire.down # <<StatusDialError>>
    BY <2>2, OneMessage DEF Succeeded, StatusDialError
  <2>5. \/ /\ c' = "connect" /\ srv \in {"connect", "returned"} /\ wire.up = <<>>
        \/ /\ c' = "reply" /\ srv \in {"relay", "wait", "returned"}
           /\ conn["target"] # "none" /\ wire.up = <<>>
    BY <1>0, <2>1, <2>4 DEF TunnelInv, Agreed
  <2>6. InFlight' /\ Agreed'
    BY <1>0, <2>1, <2>3, <2>5 DEF InFlight, Agreed, Answering
  <2>7. c' = "reply" => target = "public"
    BY <2>5 DEF TunnelInv, Carried
  <2> QED BY <1>0, <2>1, <2>3, <2>5, <2>6, <2>7, HandshakeGoesOn
<1> QED BY <1>2, <1>3

\* The dial of the TCP carrier and the client's half of the handshake.
LEMMA TcpKeeps ==
  ASSUME TunnelInv, TcpStep
  PROVE  TunnelInv'
BY DialContextKeeps, HandshakeKeeps, HeaderKeeps, ConnectKeeps, ResponseKeeps DEF TcpStep

\* The reply of chimeraConnect, which starts the client's Relay.
LEMMA ReplyKeeps ==
  ASSUME TunnelInv, Reply
  PROVE  TunnelInv'
<1>0. c = "reply" /\ UNCHANGED <<mode, target, srv, wire, gone, elapsed>>
  BY DEF Reply
<1>1. CASE Refuse(Proxy)
  <2>1. UNCHANGED copy
    BY <1>1 DEF Reply, Refuse
  <2>2. \A k \in {"quic", "stream", "tcp"} : k \in Proxy \/ conn[k] # "open"
    BY <1>0 DEF Proxy, TunnelInv, LazyTCP, TunnelShape, Opened, Carried, Answering
  <2>3. Proxy \cap {"accepted", "target"} = {}
    BY DEF Proxy
  <2> QED BY <1>0, <1>1, <2>1, <2>2, <2>3, ClientReturns DEF Refuse, Answering
<1>2. CASE ~Refuse(Proxy)
  <2>1. /\ "app" \notin gone /\ c' = "relay" /\ replies' = socks5Reply(Succeeded)
        /\ copy' = [copy EXCEPT ![<<"client", "up">>] = "read", ![<<"client", "down">>] = "read"]
        /\ UNCHANGED conn
    BY <1>2 DEF Reply
  <2>2. replies' = <<Succeeded>>
    BY <1>0, <2>1, OneMessage DEF TunnelInv, Told, socks5Reply
  <2>3. /\ copy' \in [Sides \X {"up", "down"} -> {"none", "read", "write", "done"}]
        /\ \A d \in {"up", "down"} : copy'[<<"client", d>>] # "none"
        /\ \A d \in {"up", "down"} : copy'[<<"server", d>>] = copy[<<"server", d>>]
    BY <2>1 DEF TunnelInv, TunnelShape, Sides
  <2>4. TunnelShape'
    BY <1>0, <2>1, <2>3, Zenon DEF TunnelInv, TunnelShape, Answering
  <2>5. LazyTCP' /\ NothingLeaked'
    BY <1>0, <2>1 DEF TunnelInv, LazyTCP, NothingLeaked, TcpPhases
  <2>6. Carried' /\ Opened' /\ Running'
    BY <1>0, <2>1, <2>3
    DEF TunnelInv, Carried, Opened, Running, Undialled, Answering, QuicPhases, TcpPhases
  <2>7. InFlight' /\ Agreed'
    BY <1>0, <2>1 DEF TunnelInv, InFlight, Agreed, Answering
  <2>8. Told'
    <3>1. CASE conn["tcp"] = "none"
      BY <1>0, <2>1, <2>2, <3>1 DEF TunnelInv, Told, Opened, Carried, Answering
    <3>2. CASE conn["tcp"] # "none"
      BY <1>0, <2>1, <2>2, <3>2 DEF TunnelInv, Told, Opened, Agreed, Answering
    <3> QED BY <3>1, <3>2
  <2> QED BY <2>4, <2>5, <2>6, <2>7, <2>8 DEF TunnelInv
<1> QED BY <1>1, <1>2

\* A step of handleConn that goes on: it changes where the server is, what is
\* in flight and, for the dial, the target's connection and the goroutines.
LEMMA ServerGoesOn ==
  ASSUME TunnelInv, srv \in {"header", "connect", "resolve", "dial"},
         srv' \in {"connect", "resolve", "dial", "relay"},
         srv' = "dial" => target = "public",
         conn' \in [Conns -> {"none", "open", "closed"}],
         \A k \in Conns \ {"target"} : conn'[k] = conn[k],
         conn'["target"] # "none" <=> srv' = "relay", srv' = "relay" => target = "public",
         copy' \in [Sides \X {"up", "down"} -> {"none", "read", "write", "done"}],
         \A d \in {"up", "down"} : copy'[<<"client", d>>] = copy[<<"client", d>>],
         srv' = "relay" => \A d \in {"up", "down"} : copy'[<<"server", d>>] # "none",
         wire' \in [up : {<<>>, <<"header">>, <<"connect">>},
                    down : {<<>>, <<Succeeded>>, <<StatusDialError>>}],
         InFlight', Agreed',
         UNCHANGED <<mode, target, c, replies, gone, elapsed>>
  PROVE  TunnelInv'
<1>0. \A k \in {"socks", "quic", "stream", "tcp", "accepted"} : conn'[k] = conn[k]
  BY DEF Conns
<1>1. TunnelShape'
  BY DEF TunnelInv, TunnelShape
<1>2. LazyTCP' /\ NothingLeaked'
  BY <1>0 DEF TunnelInv, LazyTCP, NothingLeaked
<1>3. Carried' /\ Opened'
  BY <1>0 DEF TunnelInv, Carried, Opened, Undialled
<1>4. conn["target"] = "none"
  BY DEF TunnelInv, Carried
<1>5. Told' /\ Running'
  BY <1>0, <1>4 DEF TunnelInv, Told, Running
<1> QED BY <1>1, <1>2, <1>3, <1>5 DEF TunnelInv

\* ReadSessionHeader and the first answer of handleConn.
LEMMA ReadHeaderKeeps ==
  ASSUME TunnelInv, ReadSessionHeader
  PROVE  TunnelInv'
<1>0. srv = "header" /\ UNCHANGED <<mode, target, c, replies, copy, gone, elapsed>>
  BY DEF ReadSessionHeader
<1>1. CASE ServerReturns
  <2>1. wire' = wire
    BY <1>1 DEF ReadSessionHeader, ServerReturns
  <2> QED BY <1>0, <1>1, <2>1, ServerGivesUp
<1>2. CASE ~ServerReturns
  <2>1. /\ wire.up # <<>> /\ srv' = "connect" /\ UNCHANGED conn
        /\ wire' = [up |-> Tail(wire.up), down |-> Append(wire.down, Succeeded)]
    BY <1>2 DEF ReadSessionHeader, consumed
  <2>2. wire.up = <<"header">> /\ wire.down = <<>>
    BY <1>0, <2>1 DEF TunnelInv, InFlight
  <2>3. /\ wire'.up = <<>> /\ wire'.down = <<Succeeded>>
        /\ wire' \in [up : {<<>>, <<"header">>, <<"connect">>},
                      down : {<<>>, <<Succeeded>>, <<StatusDialError>>}]
    BY <2>1, <2>2, OneMessage
  <2>4. c \in {"session", "returned"}
    BY <1>0, <2>1
    DEF TunnelInv, TunnelShape, Agreed, Opened, Carried, Undialled, Answering, TcpPhases
  <2>5. InFlight' /\ Agreed'
    BY <1>0, <2>1, <2>3, <2>4 DEF InFlight, Agreed, Answering
  <2>6. conn["target"] = "none"
    BY <1>0 DEF TunnelInv, Carried
  <2> QED BY <1>0, <2>1, <2>3, <2>5, <2>6, ServerGoesOn DEF TunnelInv, TunnelShape
<1> QED BY <1>1, <1>2

\* ReadTargetConnect.
LEMMA ReadTargetKeeps ==
  ASSUME TunnelInv, ReadTargetConnect
  PROVE  TunnelInv'
<1>0. srv = "connect" /\ UNCHANGED <<mode, target, c, replies, copy, gone, elapsed>>
  BY DEF ReadTargetConnect
<1>1. CASE ServerReturns
  <2>1. wire' = wire
    BY <1>1 DEF ReadTargetConnect, ServerReturns
  <2> QED BY <1>0, <1>1, <2>1, ServerGivesUp
<1>2. CASE ~ServerReturns
  <2>1. /\ wire.up # <<>> /\ srv' = "resolve" /\ UNCHANGED conn
        /\ wire' = [wire EXCEPT !.up = Tail(@)]
    BY <1>2 DEF ReadTargetConnect, consumed
  <2>2. wire.up = <<"connect">> /\ wire.down = <<>>
    BY <1>0, <2>1 DEF TunnelInv, InFlight
  <2>3. /\ wire'.up = <<>> /\ wire'.down = <<>>
        /\ wire' \in [up : {<<>>, <<"header">>, <<"connect">>},
                      down : {<<>>, <<Succeeded>>, <<StatusDialError>>}]
    BY <2>1, <2>2, OneMessage DEF TunnelInv, TunnelShape
  <2>4. c \in {"result", "returned"}
    BY <1>0, <2>1
    DEF TunnelInv, TunnelShape, Agreed, Opened, Carried, Undialled, Answering, TcpPhases
  <2>5. InFlight' /\ Agreed'
    BY <1>0, <2>1, <2>3, <2>4 DEF InFlight, Agreed, Answering
  <2>6. conn["target"] = "none"
    BY <1>0 DEF TunnelInv, Carried
  <2> QED BY <1>0, <2>1, <2>3, <2>5, <2>6, ServerGoesOn DEF TunnelInv, TunnelShape
<1> QED BY <1>1, <1>2

\* The server refuses a target, with a status and a return.
LEMMA RejectsKeeps ==
  ASSUME TunnelInv, srv \in {"resolve", "dial"}, Rejects,
         UNCHANGED <<mode, target, c, replies, copy, gone, elapsed>>
  PROVE  TunnelInv'
<1>1. wire.down = <<>>
  BY DEF TunnelInv, InFlight
<1>2. wire' = [wire EXCEPT !.down = <<StatusDialError>>]
  BY <1>1, OneMessage DEF Rejects
<1> QED BY <1>2, ServerGivesUp DEF Rejects

\* ResolveAndValidateAuthority in handleConn.
LEMMA ResolveKeeps ==
  ASSUME TunnelInv, ResolveTarget
  PROVE  TunnelInv'
<1>0. srv = "resolve" /\ UNCHANGED <<mode, target, c, replies, copy, gone, elapsed>>
  BY DEF ResolveTarget
<1>1. CASE Rejects
  BY <1>0, <1>1, RejectsKeeps
<1>2. CASE ~Rejects
  <2>1. target = "public" /\ srv' = "dial" /\ UNCHANGED <<conn, wire>>
    BY <1>2 DEF ResolveTarget
  <2>2. InFlight' /\ Agreed'
    BY <1>0, <2>1 DEF TunnelInv, InFlight, Agreed, Answering
  <2>3. conn["target"] = "none"
    BY <1>0 DEF TunnelInv, Carried
  <2> QED BY <1>0, <2>1, <2>2, <2>3, ServerGoesOn DEF TunnelInv, TunnelShape
<1> QED BY <1>1, <1>2

\* The dial of the target.  When the answer cannot be written the target was
\* opened and is closed again.
LEMMA DialTargetKeeps ==
  ASSUME TunnelInv, DialTarget
  PROVE  TunnelInv'
<1>0. /\ srv = "dial" /\ UNCHANGED <<mode, target, c, replies, gone, elapsed>>
      /\ target = "public" /\ conn["target"] = "none" /\ wire.up = <<>> /\ wire.down = <<>>
      /\ c \in {"result", "returned"}
  BY DEF DialTarget, TunnelInv, TunnelShape, Carried, InFlight, Agreed, Opened, Undialled,
         Answering, TcpPhases
<1>1. CASE Rejects /\ UNCHANGED copy
  BY <1>0, <1>1, RejectsKeeps
<1>2. CASE /\ srv' = "relay" /\ conn' = Opening("target")
           /\ wire' = [wire EXCEPT !.down = Append(@, Succeeded)]
           /\ copy' = [copy EXCEPT ![<<"server", "up">>] = "read", ![<<"server", "down">>] = "read"]
  <2>1. /\ wire'.up = <<>> /\ wire'.down = <<Succeeded>>
        /\ wire' \in [up : {<<>>, <<"header">>, <<"connect">>},
                      down : {<<>>, <<Succeeded>>, <<StatusDialError>>}]
    BY <1>0, <1>2, OneMessage DEF TunnelInv, TunnelShape
  <2>2. /\ conn' \in [Conns -> {"none", "open", "closed"}]
        /\ \A k \in Conns \ {"target"} : conn'[k] = conn[k]
        /\ conn'["target"] = "open"
    BY <1>2 DEF Opening, TunnelInv, TunnelShape, Conns
  <2>3. /\ copy' \in [Sides \X {"up", "down"} -> {"none", "read", "write", "done"}]
        /\ \A d \in {"up", "down"} : copy'[<<"server", d>>] # "none"
        /\ \A d \in {"up", "down"} : copy'[<<"client", d>>] = copy[<<"client", d>>]
    BY <1>2 DEF TunnelInv, TunnelShape, Sides
  <2>4. InFlight' /\ Agreed'
    BY <1>0, <1>2, <2>1, <2>2 DEF InFlight, Agreed, Answering
  <2> QED BY <1>0, <1>2, <2>1, <2>2, <2>3, <2>4, ServerGoesOn
<1>3. CASE /\ srv' = "returned"
           /\ conn' = [Closing({"accepted"}) EXCEPT !["target"] = "closed"]
           /\ UNCHANGED <<wire, copy>>
  <2>1. /\ conn' \in [Conns -> {"none", "open", "closed"}]
        /\ \A k \in {"socks", "quic", "stream", "tcp"} : conn'[k] = conn[k]
        /\ conn'["accepted"] = "closed" /\ conn'["target"] = "closed"
    BY <1>0, <1>3, ClosingConns DEF TunnelInv, Carried, TunnelShape, Conns
  <2>2. TunnelShape'
    BY <1>0, <1>3, <2>1 DEF TunnelInv, TunnelShape
  <2>3. LazyTCP' /\ NothingLeaked' /\ Carried' /\ Opened'
    BY <1>0, <1>3, <2>1
    DEF TunnelInv, LazyTCP, NothingLeaked, Carried, Opened, Undialled, QuicPhases
  <2>4. InFlight' /\ Agreed'
    BY <1>0, <1>3 DEF TunnelInv, InFlight, Agreed, Answering
  <2>5. Told' /\ Running'
    BY <1>0, <1>3, <2>1 DEF TunnelInv, Told, Running
  <2> QED BY <2>2, <2>3, <2>4, <2>5 DEF TunnelInv
<1> QED BY <1>1, <1>2, <1>3 DEF DialTarget

\* The handler of the server up to its Relay.
LEMMA HandleConnKeeps ==
  ASSUME TunnelInv, handleConn
  PROVE  TunnelInv'
BY ReadHeaderKeeps, ReadTargetKeeps, ResolveKeeps, DialTargetKeeps DEF handleConn

\* The client's Relay closes both of its connections, then returns.
LEMMA ClientRelayKeeps ==
  ASSUME TunnelInv, Relay("client")
  PROVE  TunnelInv'
<1>1. /\ c \in {"relay", "wait"} /\ c' \in {"wait", "returned"} /\ srv' = srv
      /\ conn' = Closing(Proxy \cup {"socks"})
      /\ UNCHANGED <<mode, target, wire, replies, copy, gone, elapsed>>
  BY DEF Relay, RelayCloses, RelayReturns, At, Move, RelayClosed, Owned
<1>2. \A k \in {"quic", "stream", "tcp"} : k \in Proxy \/ conn[k] # "open"
  BY <1>1 DEF Proxy, TunnelInv, LazyTCP, TunnelShape, Opened, Carried, Answering
<1>3. Proxy \cap {"accepted", "target"} = {}
  BY DEF Proxy
<1>4. /\ conn' \in [Conns -> {"none", "open", "closed"}]
      /\ \A k \in Conns : conn'[k] = "none" <=> conn[k] = "none"
      /\ \A k \in {"socks", "quic", "stream", "tcp"} : conn'[k] # "open"
      /\ \A k \in {"accepted", "target"} : conn'[k] = conn[k]
  BY <1>1, <1>2, <1>3, ClosingConns DEF TunnelInv, Conns
<1>5. TunnelShape'
  <2>1. c' \in {"handshake", "request", "returned"} \cup Answering \cup QuicPhases \cup TcpPhases
    BY <1>1, Zenon DEF Answering
  <2> QED BY <1>1, <1>4, <2>1, Zenon DEF TunnelInv, TunnelShape
<1>6. LazyTCP' /\ NothingLeaked'
  BY <1>1, <1>4 DEF TunnelInv, LazyTCP, NothingLeaked, TcpPhases, Conns
<1>7. Carried' /\ Opened' /\ Running'
  BY <1>1, <1>4 DEF TunnelInv, Carried, Opened, Running, Undialled, Answering, Conns,
                    QuicPhases, TcpPhases
<1>8. InFlight' /\ Agreed'
  BY <1>1, <1>4 DEF TunnelInv, InFlight, Agreed, Answering
<1>9. Told'
  BY <1>1, <1>4 DEF TunnelInv, Told, Conns
<1> QED BY <1>5, <1>6, <1>7, <1>8, <1>9 DEF TunnelInv

\* So does the server's.
LEMMA ServerRelayKeeps ==
  ASSUME TunnelInv, Relay("server")
  PROVE  TunnelInv'
<1>1. /\ srv \in {"relay", "wait"} /\ srv' \in {"wait", "returned"} /\ c' = c
      /\ conn' = Closing({"accepted", "target"})
      /\ UNCHANGED <<mode, target, wire, replies, copy, gone, elapsed>>
  BY DEF Relay, RelayCloses, RelayReturns, At, Move, RelayClosed, Owned
<1>2. /\ conn' \in [Conns -> {"none", "open", "closed"}]
      /\ \A k \in {"socks", "quic", "stream", "tcp"} : conn'[k] = conn[k]
      /\ conn'["accepted"] = "closed"
      /\ conn'["target"] = "closed"
  BY <1>1, ClosingConns DEF TunnelInv, TunnelShape, Carried, Conns
<1>3. TunnelShape'
  BY <1>1, <1>2 DEF TunnelInv, TunnelShape
<1>4. LazyTCP' /\ NothingLeaked'
  BY <1>1, <1>2 DEF TunnelInv, LazyTCP, NothingLeaked
<1>5. Carried' /\ Opened'
  <2>1. Carried'
    BY <1>1, <1>2 DEF TunnelInv, Carried
  <2>2. Opened'
    BY <1>1, <1>2 DEF TunnelInv, Opened, Undialled
  <2> QED BY <2>1, <2>2
<1>6. InFlight' /\ Agreed'
  BY <1>1, <1>2 DEF TunnelInv, InFlight, Agreed, Answering
<1>7. Told' /\ Running'
  BY <1>1, <1>2 DEF TunnelInv, Told, Running
<1> QED BY <1>3, <1>4, <1>5, <1>6, <1>7 DEF TunnelInv

\* What does not depend on the goroutines, the peers and the time.
LEMMA Untouched ==
  ASSUME TunnelInv, UNCHANGED <<mode, target, c, srv, conn, wire, replies>>
  PROVE  /\ LazyTCP' /\ NothingLeaked' /\ Carried' /\ Opened'
         /\ InFlight' /\ Agreed' /\ Told'
<1>1. LazyTCP' /\ NothingLeaked'
  BY Zenon DEF TunnelInv, LazyTCP, NothingLeaked
<1>2. Carried'
  BY Zenon DEF TunnelInv, Carried
<1>3. Opened'
  BY Zenon DEF TunnelInv, Opened
<1>4. InFlight' /\ Agreed'
  BY Zenon DEF TunnelInv, InFlight, Agreed
<1>5. Told'
  BY Zenon DEF TunnelInv, Told
<1> QED BY <1>1, <1>2, <1>3, <1>4, <1>5

\* A goroutine of Relay steps, a peer goes away, or time passes.
LEMMA SurroundingsKeep ==
  ASSUME TunnelInv,
         \/ Tick
         \/ \E g \in Sides \X {"up", "down"} : CopyReads(g) \/ CopyWrites(g) \/ CopyEnds(g)
         \/ \E p \in {"app", "target", "quic", "tcp"} : GoAway(p)
  PROVE  TunnelInv'
<1>1. UNCHANGED <<mode, target, c, srv, conn, wire, replies>>
  BY Zenon DEF Tick, CopyReads, CopyWrites, CopyEnds, GoAway
<1>2. /\ copy' \in [Sides \X {"up", "down"} -> {"none", "read", "write", "done"}]
      /\ \A g \in Sides \X {"up", "down"} : copy[g] # "none" => copy'[g] # "none"
  <2>1. \/ copy' = copy
        \/ \E g \in Sides \X {"up", "down"}, x \in {"read", "write", "done"} :
             copy' = [copy EXCEPT ![g] = x]
    BY Zenon DEF Tick, CopyReads, CopyWrites, CopyEnds, GoAway
  <2> QED BY <2>1 DEF TunnelInv, TunnelShape
<1>3. gone' \subseteq {"app", "target", "quic", "tcp"}
  <2>1. gone' = gone \/ \E p \in {"app", "target", "quic", "tcp"} : gone' = gone \cup {p}
    BY Zenon DEF Tick, CopyReads, CopyWrites, CopyEnds, GoAway
  <2> QED BY <2>1 DEF TunnelInv, TunnelShape
<1>4. elapsed' \in 0..MaxElapsed
  <2>1. elapsed' = elapsed \/ (elapsed < MaxElapsed /\ elapsed' = elapsed + 1)
    BY Zenon DEF Tick, CopyReads, CopyWrites, CopyEnds, GoAway
  <2> QED BY <2>1, TunnelAssumption DEF TunnelInv, TunnelShape
<1>5. TunnelShape'
  BY <1>1, <1>2, <1>3, <1>4 DEF TunnelInv, TunnelShape
<1>6. Running'
  BY <1>1, <1>2, <1>4 DEF TunnelInv, Running, QuicPhases, Sides
<1>7. LazyTCP' /\ NothingLeaked' /\ Carried' /\ Opened' /\ InFlight' /\ Agreed' /\ Told'
  BY <1>1, Untouched
<1> QED BY <1>5, <1>6, <1>7 DEF TunnelInv

\* Every step keeps the invariant.
LEMMA TunnelNext ==
  ASSUME TunnelInv, [TunNext]_tunVars
  PROVE  TunnelInv'
<1>1. CASE UNCHANGED tunVars
  <2>1. UNCHANGED <<mode, target, c, srv, conn, wire, replies, copy, gone, elapsed>>
    BY <1>1 DEF tunVars
  <2>2. TunnelShape'
    BY <2>1 DEF TunnelInv, TunnelShape
  <2>3. Running'
    BY <2>1 DEF TunnelInv, Running
  <2> QED BY <2>1, <2>2, <2>3, Untouched DEF TunnelInv
<1>2. CASE \E side \in Sides : Relay(side)
  BY <1>2, ClientRelayKeeps, ServerRelayKeeps DEF Sides
<1> QED
  BY <1>1, <1>2, SocksKeeps, QuicKeeps, TcpKeeps, ReplyKeeps, HandleConnKeeps, SurroundingsKeep
  DEF TunNext

-----------------------------------------------------------------------------
\* The inductive invariant holds throughout.
LEMMA TunnelInvariance == TunSpec => []TunnelInv
<1>1. TunInit => TunnelInv
  BY TunnelInit
<1>2. TunnelInv /\ [TunNext]_tunVars => TunnelInv'
  BY TunnelNext
<1> QED BY <1>1, <1>2, PTL DEF TunSpec

\* Every variable keeps its type; above all, no handshake message is ever
\* sent while one is still in flight in its direction.
THEOREM TunnelTyped == TunSpec => []TypeOK
<1>1. TunnelInv => TypeOK
  <2> SUFFICES ASSUME TunnelInv PROVE TypeOK
    OBVIOUS
  <2>1. \A x \in {Succeeded, 1, 5} : <<x>> \in Seq({Succeeded, 1, 5})
    OBVIOUS
  <2>2. <<>> \in Seq({Succeeded, 1, 5})
    OBVIOUS
  <2>3. replies \in Seq({Succeeded, 1, 5})
    BY <2>1, <2>2, Zenon DEF TunnelInv, Told
  <2> QED BY <2>3 DEF TunnelInv, TunnelShape, TypeOK, Answering
<1> QED BY <1>1, TunnelInvariance, PTL

\* handleSocks5 answers a request at most once, and says that the connection
\* is open only after a server reached the target.
THEOREM TunnelHonest == TunSpec => []OneHonestReply
<1>1. TunnelInv => OneHonestReply
  <2> SUFFICES ASSUME TunnelInv PROVE OneHonestReply
    OBVIOUS
  <2>1. Len(replies) \in {0, 1}
    BY OneMessage, Zenon DEF TunnelInv, Told
  <2>2. \A n \in {0, 1} : n <= 1
    OBVIOUS
  <2> QED BY <2>1, <2>2, Zenon DEF TunnelInv, Told, OneHonestReply
<1> QED BY <1>1, TunnelInvariance, PTL

\* No return of handleSocks5, of the dialers or of handleConn leaves a
\* connection open.
THEOREM TunnelLeavesNothing == TunSpec => []NothingLeaked
BY TunnelInvariance, PTL DEF TunnelInv

\* selectTransport dials TCP only in a mode that allows it, with nothing of a
\* QUIC attempt left open.
THEOREM TunnelLazy == TunSpec => []LazyTCP
BY TunnelInvariance, PTL DEF TunnelInv

\* handleConn dials, and the client reports as reached, only a target that
\* ResolveAndValidateAuthority admits.
THEOREM TunnelGuarded == TunSpec => []OnlyPublic
<1>1. TunnelInv => OnlyPublic
  BY DEF TunnelInv, Carried, Told, OnlyPublic
<1> QED BY <1>1, TunnelInvariance, PTL

\* The client and the server never both wait for the other's next message of
\* the handshake, neither of which has a deadline: the peer of the one that
\* waits can always step.
THEOREM TunnelNoMutualWait == TunSpec => []NoMutualWait
<1>1. TunnelInv => NoMutualWait
  <2> SUFFICES ASSUME TunnelInv PROVE NoMutualWait
    OBVIOUS
  <2>1. ASSUME ClientWaits
        PROVE  \/ srv \in {"header", "connect"} /\ wire.up # <<>>
               \/ srv \in {"resolve", "dial"}
    BY <2>1, OneMessage DEF TunnelInv, ClientWaits, Agreed, Carried, ConnEnded
  <2>2. ASSUME ServerWaits
        PROVE  \/ c \in {"header", "connect"}
               \/ c = "session" /\ wire.down # <<>>
    <3>1. c \notin Undialled \cup Answering \cup {"reality"}
      BY <2>2 DEF TunnelInv, ServerWaits, Opened, Carried, Agreed
    <3>2. c # "returned"
      BY <2>2 DEF TunnelInv, TunnelShape, ServerWaits, Carried, Opened, ConnEnded, Conns
    <3>3. c = "session" => wire.down # <<>>
      BY <2>2, OneMessage DEF TunnelInv, ServerWaits, Agreed
    <3>4. c # "result"
      BY <2>2, OneMessage DEF TunnelInv, ServerWaits, Agreed
    <3> QED BY <3>1, <3>2, <3>3, <3>4 DEF TunnelInv, TunnelShape, Undialled, TcpPhases
  <2> QED BY <2>1, <2>2 DEF NoMutualWait, ClientWaits, ServerWaits
<1> QED BY <1>1, TunnelInvariance, PTL

\* Relay never waits for a goroutine that could stay where it is, in a Read
\* or in a Write: before it waits it has closed both connections.
THEOREM TunnelWaitEnds == TunSpec => []WaitEnds
<1>1. TunnelInv => WaitEnds
  <2> SUFFICES ASSUME TunnelInv, NEW side \in Sides, NEW d \in {"up", "down"},
                      At(side) = "wait"
               PROVE  \/ copy[<<side, d>>] = "done"
                      \/ /\ copy[<<side, d>>] \in {"read", "write"}
                         /\ ConnEnded(Source(<<side, d>>)) /\ ConnEnded(Sink(<<side, d>>))
    BY DEF WaitEnds
  <2>1. copy[<<side, d>>] \in {"read", "write", "done"}
    BY DEF TunnelInv, TunnelShape, Running, At, Sides
  <2>2. CASE side = "client"
    <3>1. c = "wait"
      BY <2>2 DEF At
    <3>2. conn["socks"] = "closed"
      BY <3>1 DEF TunnelInv, TunnelShape, Opened, Conns
    <3>3. conn[Carrier("client")] = "closed"
      BY <3>1 DEF TunnelInv, TunnelShape, Opened, Carried, Answering, Carrier, Proxy, Conns
    <3>4. {Source(<<side, d>>), Sink(<<side, d>>)} \subseteq {"socks", Carrier("client")}
      BY <2>2 DEF Source, Sink, Opposite
    <3> QED BY <2>1, <3>2, <3>3, <3>4 DEF ConnEnded
  <2>3. CASE side = "server"
    <3>1. srv = "wait"
      BY <2>3 DEF At
    <3>2. conn["accepted"] = "closed" /\ conn["target"] = "closed"
      BY <3>1 DEF TunnelInv, TunnelShape, Carried, Conns
    <3>3. {Source(<<side, d>>), Sink(<<side, d>>)} \subseteq {"target", "accepted"}
      BY <2>3 DEF Source, Sink, Opposite, Carrier
    <3> QED BY <2>1, <3>2, <3>3 DEF ConnEnded
  <2> QED BY <2>2, <2>3 DEF Sides
<1> QED BY <1>1, TunnelInvariance, PTL

\* A step that ends the client's handler after the request was read answers
\* the application, which is only missed when it left.
LEMMA StepNeverSilent ==
  ASSUME TunnelInv, [TunNext]_tunVars
  PROVE  NeverSilent
<1> SUFFICES ASSUME c \notin {"handshake", "returned"}, c' = "returned"
             PROVE  replies' # <<>> \/ "app" \in gone
  BY DEF NeverSilent
<1>0. c # c'
  OBVIOUS
<1>1. ASSUME NEW code, replies' = socks5Reply(code), c \notin {"relay", "wait"}
      PROVE  replies' # <<>> \/ "app" \in gone
  <2>1. replies = <<>>
    BY <1>1, Zenon DEF TunnelInv, Told
  <2>2. "app" \notin gone => replies' = Append(<<>>, code)
    BY <1>1, <2>1 DEF socks5Reply
  <2> QED BY <2>2, OneMessage
<1>2. CASE SocksStep \/ QuicStep \/ TcpStep \/ Reply
  <2>1. c \notin {"relay", "wait"}
    BY <1>2 DEF SocksStep, socks5Handshake, socks5ReadRequest,
                QuicStep, DialClientWithConfig, DialTCP_OpenRequestStream, DialTCP_ReadResponse,
                TcpStep, Dial_DialContext, Dial_Handshake, WriteSessionHeader,
                WriteTargetConnect, ReadSessionResponse, Reply
  <2>2. replies' = socks5Reply(1) \/ replies' = socks5Reply(5)
    BY <1>2 DEF SocksStep, socks5Handshake, socks5ReadRequest, selectTransport,
                QuicStep, DialClientWithConfig, DialTCP_OpenRequestStream, DialTCP_ReadResponse,
                QuicFails, TcpStep, Dial_DialContext, Dial_Handshake, RawFails, WriteSessionHeader,
                WriteTargetConnect, ReadSessionResponse, TcpFails, Refuse, Reply
  <2> QED BY <1>1, <2>1, <2>2
<1>3. CASE \E side \in Sides : Relay(side)
  <2>1. replies' = replies /\ c \in {"relay", "wait"}
    BY <1>0, <1>3 DEF Relay, RelayCloses, RelayReturns, At, Move
  <2> QED BY <2>1, OneMessage DEF TunnelInv, Told
<1>4. CASE handleConn \/ Tick
  BY <1>0, <1>4, Zenon DEF handleConn, ReadSessionHeader, ReadTargetConnect, ResolveTarget,
                    DialTarget, Tick
<1>5. CASE \/ \E g \in Sides \X {"up", "down"} : CopyReads(g) \/ CopyWrites(g) \/ CopyEnds(g)
           \/ \E p \in {"app", "target", "quic", "tcp"} : GoAway(p)
           \/ UNCHANGED tunVars
  BY <1>0, <1>5, Zenon DEF CopyReads, CopyWrites, CopyEnds, GoAway, tunVars
<1> QED BY <1>2, <1>3, <1>4, <1>5 DEF TunNext

\* handleSocks5 never drops a request that it read: it answers 0x00, 0x01 or
\* 0x05 before it returns, unless the application is gone.
THEOREM TunnelNeverSilent == TunSpec => [][NeverSilent]_tunVars
<1>1. TunnelInv /\ [TunNext]_tunVars => [NeverSilent]_tunVars
  BY StepNeverSilent
<1> QED BY <1>1, TunnelInvariance, PTL DEF TunSpec

\* A step opens only what was never open: closing never reopens, and the dial
\* of a connection runs once.
LEMMA StepNeverReopens ==
  ASSUME TunnelInv, [TunNext]_tunVars
  PROVE  NeverReopened
<1>1. CASE \E ks : conn' = Closing(ks)
  BY <1>1, ClosingConns DEF TunnelInv, NeverReopened
<1>2. CASE conn' = conn
  BY <1>2 DEF NeverReopened
<1>3. CASE /\ SocksStep \/ Reply \/ \E side \in Sides : Relay(side)
  <2>1. conn' = conn \/ \E ks : conn' = Closing(ks)
    BY <1>3, Zenon DEF SocksStep, socks5Handshake, socks5ReadRequest, Reply, Refuse,
                Relay, RelayCloses, RelayReturns
  <2> QED BY <1>1, <1>2, <2>1
<1>4. CASE QuicStep
  <2>1. \/ conn' = conn
        \/ \E ks : conn' = Closing(ks)
        \/ c = "dialQUIC" /\ conn' = [conn EXCEPT !["quic"] = "open"]
        \/ c = "openStream" /\ conn' = [conn EXCEPT !["stream"] = "open"]
    BY <1>4, Zenon DEF QuicStep, DialClientWithConfig, DialTCP_OpenRequestStream, DialTCP_ReadResponse,
                QuicFails, Refuse, Opening
  <2>2. /\ c = "dialQUIC" => conn["quic"] = "none"
        /\ c = "openStream" => conn["stream"] = "none"
    BY DEF TunnelInv, Opened
  <2>3. CASE \/ c = "dialQUIC" /\ conn' = [conn EXCEPT !["quic"] = "open"]
             \/ c = "openStream" /\ conn' = [conn EXCEPT !["stream"] = "open"]
    BY <2>2, <2>3 DEF TunnelInv, TunnelShape, NeverReopened
  <2> QED BY <1>1, <1>2, <2>1, <2>3
<1>5. CASE TcpStep
  <2>1. \/ conn' = conn
        \/ \E ks : conn' = Closing(ks)
        \/ c = "dialTCP" /\ conn' = [conn EXCEPT !["tcp"] = "open"]
        \/ c = "reality" /\ conn' = [conn EXCEPT !["accepted"] = "open"]
    BY <1>5, Zenon DEF TcpStep, Dial_DialContext, Dial_Handshake, WriteSessionHeader,
                WriteTargetConnect, ReadSessionResponse, TcpFails, RawFails, Refuse, Opening
  <2>2. /\ c = "dialTCP" => conn["tcp"] = "none"
        /\ c = "reality" => conn["accepted"] = "none"
    BY DEF TunnelInv, Opened, Carried, Undialled
  <2>3. CASE \/ c = "dialTCP" /\ conn' = [conn EXCEPT !["tcp"] = "open"]
             \/ c = "reality" /\ conn' = [conn EXCEPT !["accepted"] = "open"]
    BY <2>2, <2>3 DEF TunnelInv, TunnelShape, NeverReopened
  <2> QED BY <1>1, <1>2, <2>1, <2>3
<1>6. CASE handleConn
  <2>1. \/ conn' = conn
        \/ \E ks : conn' = Closing(ks)
        \/ srv = "dial" /\ conn' = [conn EXCEPT !["target"] = "open"]
        \/ srv = "dial" /\ conn' = [Closing({"accepted"}) EXCEPT !["target"] = "closed"]
    BY <1>6, Zenon DEF handleConn, ReadSessionHeader, ReadTargetConnect, ResolveTarget,
                DialTarget, Rejects, ServerReturns, Opening
  <2>2. srv = "dial" => conn["target"] = "none"
    BY DEF TunnelInv, Carried
  <2>3. CASE srv = "dial" /\ conn' = [conn EXCEPT !["target"] = "open"]
    BY <2>2, <2>3 DEF TunnelInv, TunnelShape, NeverReopened
  <2>4. CASE srv = "dial" /\ conn' = [Closing({"accepted"}) EXCEPT !["target"] = "closed"]
    BY <2>2, <2>4, ClosingConns DEF TunnelInv, NeverReopened
  <2> QED BY <1>1, <1>2, <2>1, <2>3, <2>4
<1>7. CASE \/ Tick
           \/ \E g \in Sides \X {"up", "down"} : CopyReads(g) \/ CopyWrites(g) \/ CopyEnds(g)
           \/ \E p \in {"app", "target", "quic", "tcp"} : GoAway(p)
           \/ UNCHANGED tunVars
  BY <1>2, <1>7, Zenon DEF Tick, CopyReads, CopyWrites, CopyEnds, GoAway, tunVars
<1> QED BY <1>3, <1>4, <1>5, <1>6, <1>7 DEF TunNext

\* No connection of the two handlers is opened twice: each goes from none to
\* open to closed, so a deferred Close acts on the connection it was set for.
THEOREM TunnelNeverReopens == TunSpec => [][NeverReopened]_tunVars
<1>1. TunnelInv /\ [TunNext]_tunVars => [NeverReopened]_tunVars
  BY StepNeverReopens
<1> QED BY <1>1, TunnelInvariance, PTL DEF TunSpec

-----------------------------------------------------------------------------
(* The UDP associations.                                                   *)

\* Sessions and clients are functions to records with the fields used below.
Shape ==
  /\ DOMAIN ses = Sessions /\ DOMAIN cli = Sessions
  /\ \A s \in Sessions : /\ {"main", "pc"} \subseteq DOMAIN ses[s]
                         /\ {"at", "stream"} \subseteq DOMAIN cli[s]

\* The sessions that hold a slot.
Holders == {s \in Sessions : ses[s].main \in Holding}

\* Where the handler has a socket that it will still close.
Serving == {"loop", "closeStream", "cancel", "closeSocket"}

(* The inductive invariant.  SlotsBoundSockets lacks that the socket is    *)
(* closed before the slot is given back, and AssociationHonest that a dial *)
(* begins without a stream.                                                *)
IInv ==
  /\ Shape
  /\ others \in Nat /\ slots \in 0..MaxSessions
  /\ slots = others + Cardinality(Holders)
  /\ \A s \in Sessions : ses[s].pc = "open" => ses[s].main \in Serving
  /\ \A s \in Sessions : cli[s].at = "idle" => cli[s].stream # "open"
  /\ AssociationHonest

-----------------------------------------------------------------------------
(* What a step of session s does, as far as the invariant is concerned: a  *)
(* slot is taken or given back with the place of the handler, and the      *)
(* socket is open only while the handler will still close it.              *)
SessionStep(s) ==
  /\ DOMAIN ses' = Sessions /\ DOMAIN ses'[s] = DOMAIN ses[s]
  /\ \A t \in Sessions : t # s => ses'[t] = ses[t]
  /\ ses'[s].pc = "open" => ses'[s].main \in Serving
  /\ ses'[s].pc = "none" => ses[s].pc = "none"
  /\ \/ slots' = slots /\ (ses'[s].main \in Holding <=> ses[s].main \in Holding)
     \/ /\ slots < MaxSessions /\ slots' = slots + 1
        /\ ses'[s].main \in Holding /\ ses[s].main \notin Holding
     \/ slots' = slots - 1 /\ ses'[s].main \notin Holding /\ ses[s].main \in Holding

\* What a step of the client of s does.
ClientStep(s) ==
  /\ DOMAIN cli' = Sessions /\ DOMAIN cli'[s] = DOMAIN cli[s]
  /\ \A t \in Sessions : t # s => cli'[t] = cli[t]
  /\ cli'[s].at = "conn" => ses[s].pc # "none"
  /\ cli'[s].at \in {"idle", "failed"} => cli'[s].stream # "open"

(* The steps of the session.                                               *)
LEMMA SessionSteps ==
  ASSUME IInv, NEW s \in Sessions,
         \/ Handler(s) \/ Up(s) \/ Down(s) \/ UpReceive(s) \/ DownRead(s)
         \/ RequestDone(s) \/ TimerFires(s) \/ WriteTo(s) \/ Lose(s) \/ TargetSends(s)
  PROVE  SessionStep(s)
<1> USE DEF Shape, SessionStep, Serving, Holding
<1>0. Shape /\ (ses[s].pc = "open" => ses[s].main \in Serving)
  BY DEF IInv
<1>1. CASE TakeSlot(s)
  BY <1>0, <1>1 DEF TakeSlot
<1>2. CASE SetupFails(s)
  BY <1>0, <1>2 DEF SetupFails
<1>3. CASE Start(s)
  BY <1>0, <1>3 DEF Start
<1>4. CASE Select(s)
  BY <1>0, <1>4 DEF Select
<1>5. CASE WayOut(s)
  BY <1>0, <1>5 DEF WayOut, socketAfterClose
<1>6. CASE FreeSlot(s)
  BY <1>0, <1>6 DEF FreeSlot
<1>7. CASE Up(s)
  BY <1>0, <1>7 DEF Up, UpCancelled, UpWrite, UpExit
<1>8. CASE Down(s)
  BY <1>0, <1>8 DEF Down, DownClosed, DownSend, DownExit
<1>9. CASE UpReceive(s)
  BY <1>0, <1>9 DEF UpReceive
<1>10. CASE DownRead(s)
  BY <1>0, <1>10 DEF DownRead
<1>11. CASE RequestDone(s) \/ TimerFires(s)
  BY <1>0, <1>11 DEF RequestDone, TimerFires
<1>12. CASE WriteTo(s) \/ Lose(s) \/ TargetSends(s)
  BY <1>0, <1>12 DEF WriteTo, Lose, TargetSends
<1> QED
  BY <1>1, <1>2, <1>3, <1>4, <1>5, <1>6, <1>7, <1>8, <1>9, <1>10, <1>11, <1>12 DEF Handler

(* The steps of the client, and of quic-go as the client sees it.          *)
LEMMA ClientSteps ==
  ASSUME IInv, NEW s \in Sessions,
         \/ DialUDP(s) \/ ReadFrom(s) \/ ReadReceives(s) \/ ReadEnds(s) \/ SetReadDeadline(s)
         \/ CloseCancels(s) \/ CloseReturns(s) \/ Break(s) \/ StreamEnds(s)
  PROVE  ClientStep(s) /\ UNCHANGED <<slots, ses, others>>
<1> USE DEF Shape, ClientStep, session
<1>0. /\ Shape /\ (cli[s].at = "conn" => ses[s].pc # "none")
      /\ cli[s].at \in {"idle", "failed"} => cli[s].stream # "open"
  BY DEF IInv, AssociationHonest
<1>1. CASE OpenRequestStream(s)
  BY <1>0, <1>1 DEF OpenRequestStream
<1>2. CASE ReadResponse(s)
  BY <1>0, <1>2 DEF ReadResponse, ServerAnswers, afterRejection
<1>3. CASE ReadFrom(s) \/ ReadReceives(s) \/ ReadEnds(s) \/ SetReadDeadline(s)
  BY <1>0, <1>3 DEF ReadFrom, ReadReceives, ReadEnds, SetReadDeadline
<1>4. CASE CloseCancels(s) \/ CloseReturns(s)
  BY <1>0, <1>4 DEF CloseCancels, CloseReturns, afterCancel
<1>5. CASE Break(s) \/ StreamEnds(s)
  BY <1>0, <1>5 DEF Break, StreamEnds
<1> QED
  BY <1>1, <1>2, <1>3, <1>4, <1>5 DEF DialUDP

-----------------------------------------------------------------------------
(* The number of holders changes by the session that takes the step.       *)
LEMMA HoldersChange ==
  ASSUME IInv, NEW s \in Sessions, SessionStep(s)
  PROVE  /\ Cardinality(Holders) \in Nat /\ Cardinality(Holders') \in Nat
         /\ slots' = others + Cardinality(Holders')
<1>1. /\ IsFiniteSet(Holders) /\ Cardinality(Holders) \in Nat
      /\ IsFiniteSet(Holders') /\ Cardinality(Holders') \in Nat
  BY SessionAssumption, FS_Subset, FS_CardinalityType DEF Holders
<1>2. slots = others + Cardinality(Holders) /\ others \in Nat
  BY DEF IInv
<1>3. CASE slots' = slots /\ (ses'[s].main \in Holding <=> ses[s].main \in Holding)
  <2>1. Holders' = Holders
    BY <1>3 DEF Holders, SessionStep
  <2> QED
    BY <1>1, <1>2, <1>3, <2>1
<1>4. CASE slots' = slots + 1 /\ ses'[s].main \in Holding /\ ses[s].main \notin Holding
  <2>1. Holders' = Holders \cup {s} /\ s \notin Holders
    BY <1>4 DEF Holders, SessionStep
  <2>2. Cardinality(Holders') = Cardinality(Holders) + 1
    BY <1>1, <2>1, FS_AddElement
  <2> QED
    BY <1>1, <1>2, <1>4, <2>2
<1>5. CASE slots' = slots - 1 /\ ses'[s].main \notin Holding /\ ses[s].main \in Holding
  <2>1. Holders' = Holders \ {s} /\ s \in Holders
    BY <1>5 DEF Holders, SessionStep
  <2>2. Cardinality(Holders') = Cardinality(Holders) - 1
    BY <1>1, <2>1, FS_RemoveElement
  <2> QED
    BY <1>1, <1>2, <1>5, <2>2
<1> QED
  BY <1>1, <1>3, <1>4, <1>5 DEF SessionStep

(* A step of a session keeps the invariant, if it leaves its client alone  *)
(* or only lets a datagram arrive there.                                   *)
LEMMA SessionKeeps ==
  ASSUME IInv, NEW s \in Sessions, SessionStep(s), others' = others,
         DOMAIN cli' = Sessions, \A t \in Sessions : DOMAIN cli'[t] = DOMAIN cli[t],
         \A t \in Sessions : cli'[t].at = cli[t].at /\ cli'[t].stream = cli[t].stream
  PROVE  IInv'
<1>1. Shape'
  BY DEF IInv, Shape, SessionStep
<1>2. slots' = others' + Cardinality(Holders') /\ slots' \in 0..MaxSessions
  <2>1. /\ Cardinality(Holders) \in Nat /\ Cardinality(Holders') \in Nat
        /\ slots' = others + Cardinality(Holders')
    BY HoldersChange
  <2>2. /\ slots \in 0..MaxSessions /\ others \in Nat /\ MaxSessions \in Nat
        /\ slots' = slots \/ (slots < MaxSessions /\ slots' = slots + 1) \/ slots' = slots - 1
    BY SessionAssumption, Zenon DEF IInv, SessionStep
  <2> QED
    BY <2>1, <2>2
<1>3. \A t \in Sessions : ses'[t].pc = "open" => ses'[t].main \in Serving
  BY DEF IInv, SessionStep
<1>4. AssociationHonest' /\ \A t \in Sessions : cli'[t].at = "idle" => cli'[t].stream # "open"
  BY DEF IInv, SessionStep, AssociationHonest
<1> QED
  BY <1>1, <1>2, <1>3, <1>4 DEF IInv

(* A step of a client keeps it.                                            *)
LEMMA ClientKeeps ==
  ASSUME IInv, NEW s \in Sessions, ClientStep(s), UNCHANGED <<slots, ses, others>>
  PROVE  IInv'
BY DEF IInv, Shape, Holders, AssociationHonest, ClientStep

(* It holds when the server starts.                                        *)
LEMMA InitHolds == Init => IInv
<1> SUFFICES ASSUME Init
             PROVE  IInv
  OBVIOUS
<1>1. Holders = {}
  BY DEF Init, NewSession, Holders, Holding
<1>2. Cardinality(Holders) = 0
  BY <1>1, FS_EmptySet
<1>3. others \in 0..MaxSessions /\ slots = others /\ MaxSessions \in Nat
  BY SessionAssumption DEF Init
<1>4. Shape
  BY DEF Init, NewSession, Shape
<1>5. \A s \in Sessions : /\ ses[s].pc = "none"
                          /\ cli[s].at = "idle" /\ cli[s].stream = "none"
  BY DEF Init, NewSession
<1>6. others \in Nat /\ slots \in 0..MaxSessions /\ slots = others + Cardinality(Holders)
  BY <1>2, <1>3
<1>7. AssociationHonest
  BY <1>5 DEF AssociationHonest
<1>8. \A s \in Sessions : /\ ses[s].pc = "open" => ses[s].main \in Serving
                          /\ cli[s].at = "idle" => cli[s].stream # "open"
  BY <1>5
<1> QED
  BY <1>4, <1>6, <1>7, <1>8 DEF IInv

(* Every step keeps the invariant.                                         *)
LEMMA NextKeeps == IInv /\ [Next]_vars => IInv'
<1> SUFFICES ASSUME IInv, [Next]_vars
             PROVE  IInv'
  OBVIOUS
<1>0. UNCHANGED cli => /\ DOMAIN cli' = Sessions
                       /\ \A t \in Sessions : /\ DOMAIN cli'[t] = DOMAIN cli[t]
                                              /\ cli'[t].at = cli[t].at
                                              /\ cli'[t].stream = cli[t].stream
  BY DEF IInv, Shape
<1>1. ASSUME NEW s \in Sessions,
             \/ Serve(s) \/ Upward(s) \/ Outside(s) \/ WriteTo(s) \/ Lose(s) \/ TargetSends(s)
      PROVE  IInv'
  <2>1. SessionStep(s) /\ UNCHANGED <<others, cli>>
    BY <1>1, SessionSteps DEF Serve, Upward, Outside, PeerGone, WriteTo, Lose, TargetSends
  <2> QED
    BY <1>0, <2>1, SessionKeeps
<1>2. ASSUME NEW s \in Sessions, Downward(s)
      PROVE  IInv'
  <2>1. SessionStep(s) /\ others' = others
    BY <1>2, SessionSteps DEF Downward
  <2>2. CASE UNCHANGED cli
    BY <1>0, <2>1, <2>2, SessionKeeps
  <2>3. CASE cli' = [cli EXCEPT ![s].arrived = @ + 1]
    <3>1. /\ DOMAIN cli' = Sessions
          /\ \A t \in Sessions : /\ DOMAIN cli'[t] = DOMAIN cli[t]
                                 /\ cli'[t].at = cli[t].at /\ cli'[t].stream = cli[t].stream
      BY <2>3 DEF IInv, Shape
    <3> QED
      BY <2>1, <3>1, SessionKeeps
  <2> QED
    BY <1>2, <2>2, <2>3 DEF Downward
<1>3. ASSUME NEW s \in Sessions,
             \/ DialUDP(s) \/ ReadFrom(s) \/ ReadReceives(s) \/ ReadEnds(s) \/ SetReadDeadline(s)
             \/ CloseCancels(s) \/ CloseReturns(s) \/ Break(s) \/ StreamEnds(s)
      PROVE  IInv'
  BY <1>3, ClientSteps, ClientKeeps
<1>4. CASE OtherFrees
  <2>1. /\ slots' = slots - 1 /\ others' = others - 1 /\ others > 0
        /\ ses' = ses /\ cli' = cli /\ Holders' = Holders
    BY <1>4 DEF OtherFrees, Holders
  <2>2. Cardinality(Holders) \in Nat
    BY SessionAssumption, FS_Subset, FS_CardinalityType DEF Holders
  <2>3. others' \in Nat /\ slots' \in 0..MaxSessions /\ slots' = others' + Cardinality(Holders')
    BY <2>1, <2>2, SessionAssumption DEF IInv
  <2> QED
    BY <2>1, <2>3 DEF IInv, Shape, AssociationHonest
<1>5. CASE UNCHANGED vars
  BY <1>5 DEF vars, IInv, Shape, Holders, AssociationHonest
<1> QED
  BY <1>1, <1>2, <1>3, <1>4, <1>5 DEF Next

-----------------------------------------------------------------------------
(* The inductive invariant holds in every behaviour of associations and    *)
(* sessions (udp.go:20-143, client.go:73-119, udp_client.go:61-173).       *)
THEOREM Invariance == Spec => []IInv
BY InitHolds, NextKeeps, PTL DEF Spec

(* For any number of sessions and slots: slots are counted exactly, never  *)
(* exceed their capacity, and a socket is open only while its session      *)
(* holds one (udp.go:25-31, 52).                                           *)
THEOREM SocketsAlwaysBounded == Spec => []SlotsBoundSockets
<1>1. IInv => SlotsBoundSockets
  <2> SUFFICES ASSUME IInv PROVE SlotsBoundSockets
    OBVIOUS
  <2>1. slots <= MaxSessions
    BY SessionAssumption DEF IInv
  <2>2. \A s \in Sessions : ses[s].pc = "open" => ses[s].main \in Holding
    BY Zenon DEF IInv, Serving, Holding
  <2> QED
    BY <2>1, <2>2, Zenon DEF IInv, SlotsBoundSockets, Holders
<1> QED
  BY <1>1, Invariance, PTL

(* For any number of associations: a UDPConn exists only where the server  *)
(* had a socket, and a failed DialUDP leaves no stream open                *)
(* (client.go:73-119).                                                     *)
THEOREM AssociationsAlwaysHonest == Spec => []AssociationHonest
<1>1. IInv => AssociationHonest
  BY DEF IInv
<1> QED
  BY <1>1, Invariance, PTL

-----------------------------------------------------------------------------
(* How a session ends.  SessionEnds needs more than fairness: that no      *)
(* goroutine is ever left at a step which nothing will enable.             *)

\* The fields used here.
Fields ==
  /\ DOMAIN ses = Sessions /\ DOMAIN cli = Sessions
  /\ \A s \in Sessions :
       /\ {"main", "pc", "up", "down", "done", "timer", "ctxDone", "stream"} \subseteq DOMAIN ses[s]
       /\ {"close", "ctxDone"} \subseteq DOMAIN cli[s]

\* How many goroutines of a session have put their error into done.
Exits(s) == (IF ses[s].up = "exited" THEN 1 ELSE 0) + (IF ses[s].down = "exited" THEN 1 ELSE 0)

\* The goroutines of a session and what ends them, by where its handler is.
Goroutines(s) ==
  /\ ses[s].done \in Nat /\ ses[s].done <= Exits(s)
  /\ ses[s].pc = "none" => ses[s].up = "none" /\ ses[s].down = "none"
  /\ ses[s].main \in {"request", "refused", "setup"} => ses[s].pc = "none"
  /\ ses[s].main \in Serving => ses[s].pc = "open"
  /\ ses[s].main = "loop" => ses[s].timer \in {"armed", "fired"}
  /\ ses[s].main \in {"cancel", "closeSocket"} => ses[s].stream = "closed"
  /\ ses[s].main = "closeSocket" => ses[s].ctxDone
  /\ ses[s].main \in {"freeSlot", "returned"} /\ ses[s].pc # "none" =>
       ses[s].pc = "closed" /\ ses[s].ctxDone /\ ses[s].stream = "closed"

\* Close cancels the context of the UDPConn before anything else.
Cancelled(s) == cli[s].close # "open" => cli[s].ctxDone

EndInv == Fields /\ \A s \in Sessions : Goroutines(s) /\ Cancelled(s)

(* Nobody is left waiting: a goroutine that failed finds room in done, the *)
(* select loop has a timer that runs or has fired, and once the socket is  *)
(* closed each goroutine has been woken from its read (udp.go:59-142).     *)
(* After Close a ReadFrom of the client does not wait.                     *)
NobodyStranded ==
  \A s \in Sessions :
    /\ "fail" \in {ses[s].up, ses[s].down} => ses[s].done < 2
    /\ ses[s].main = "loop" => ses[s].timer # "stopped"
    /\ ses[s].main \in {"freeSlot", "returned"} =>
         /\ ses[s].up = "receive" => ses[s].ctxDone
         /\ ses[s].down = "read" => ses[s].pc = "closed"
    /\ cli[s].close # "open" => watched(cli[s])

\* A step of session s leaves its goroutines so, and the other sessions alone.
LEMMA SessionStepsEnd ==
  ASSUME EndInv, NEW s \in Sessions,
         \/ Handler(s) \/ Up(s) \/ Down(s) \/ UpReceive(s) \/ DownRead(s)
         \/ RequestDone(s) \/ TimerFires(s) \/ WriteTo(s) \/ Lose(s) \/ TargetSends(s)
  PROVE  /\ DOMAIN ses' = Sessions /\ DOMAIN ses'[s] = DOMAIN ses[s]
         /\ \A t \in Sessions : t # s => ses'[t] = ses[t]
         /\ Goroutines(s)'
<1> USE DEF Fields, Goroutines, Exits, Serving
<1>0. Fields /\ Goroutines(s)
  BY DEF EndInv
<1>1. CASE TakeSlot(s)
  BY <1>0, <1>1 DEF TakeSlot
<1>2. CASE SetupFails(s)
  BY <1>0, <1>2 DEF SetupFails
<1>3. CASE Start(s)
  <2>1. /\ ses[s].main = "setup"
        /\ ses' = [ses EXCEPT ![s] = [@ EXCEPT !.main = "loop", !.pc = "open", !.ctxDone = ses[s].reqDone,
                                              !.up = "receive", !.down = "read", !.timer = "armed"]]
    BY <1>3 DEF Start
  <2>2. ses[s].done = 0
    BY <1>0, <2>1
  <2> QED
    BY <1>0, <2>1, <2>2
<1>4. CASE Select(s)
  BY <1>0, <1>4 DEF Select, afterReset
<1>5. CASE WayOut(s)
  BY <1>0, <1>5 DEF WayOut, socketAfterClose
<1>6. CASE FreeSlot(s)
  BY <1>0, <1>6 DEF FreeSlot
<1>7. CASE Up(s)
  BY <1>0, <1>7 DEF Up, UpCancelled, UpWrite, UpExit
<1>8. CASE Down(s)
  BY <1>0, <1>8 DEF Down, DownClosed, DownSend, DownExit
<1>9. CASE UpReceive(s)
  BY <1>0, <1>9 DEF UpReceive
<1>10. CASE DownRead(s)
  BY <1>0, <1>10 DEF DownRead
<1>11. CASE RequestDone(s) \/ TimerFires(s)
  BY <1>0, <1>11 DEF RequestDone, TimerFires
<1>12. CASE WriteTo(s) \/ Lose(s) \/ TargetSends(s)
  BY <1>0, <1>12 DEF WriteTo, Lose, TargetSends
<1> QED
  BY <1>1, <1>2, <1>3, <1>4, <1>5, <1>6, <1>7, <1>8, <1>9, <1>10, <1>11, <1>12 DEF Handler

\* A step of the client of s, or the arrival of a datagram there.
LEMMA ClientStepsEnd ==
  ASSUME EndInv, NEW s \in Sessions,
         \/ DialUDP(s) \/ ReadFrom(s) \/ ReadReceives(s) \/ ReadEnds(s) \/ SetReadDeadline(s)
         \/ CloseCancels(s) \/ CloseReturns(s) \/ Break(s) \/ StreamEnds(s)
         \/ cli' = [cli EXCEPT ![s].arrived = @ + 1]
  PROVE  /\ DOMAIN cli' = Sessions /\ \A t \in Sessions : DOMAIN cli'[t] = DOMAIN cli[t]
         /\ \A t \in Sessions : Cancelled(t)'
<1> USE DEF Fields, Cancelled
<1>0. Fields /\ \A t \in Sessions : Cancelled(t)
  BY DEF EndInv
<1>1. CASE OpenRequestStream(s)
  BY <1>0, <1>1 DEF OpenRequestStream
<1>2. CASE ReadResponse(s)
  BY <1>0, <1>2 DEF ReadResponse
<1>3. CASE ReadFrom(s) \/ ReadReceives(s) \/ ReadEnds(s) \/ SetReadDeadline(s)
  BY <1>0, <1>3 DEF ReadFrom, ReadReceives, ReadEnds, SetReadDeadline
<1>4. CASE CloseCancels(s) \/ CloseReturns(s)
  BY <1>0, <1>4 DEF CloseCancels, CloseReturns
<1>5. CASE Break(s) \/ StreamEnds(s)
  BY <1>0, <1>5 DEF Break, StreamEnds
<1>6. CASE cli' = [cli EXCEPT ![s].arrived = @ + 1]
  BY <1>0, <1>6
<1> QED
  BY <1>1, <1>2, <1>3, <1>4, <1>5, <1>6 DEF DialUDP

\* Every step keeps EndInv.
LEMMA NextEnds == EndInv /\ [Next]_vars => EndInv'
<1> SUFFICES ASSUME EndInv, [Next]_vars
             PROVE  EndInv'
  OBVIOUS
<1>1. ASSUME NEW s \in Sessions,
             \/ Serve(s) \/ Upward(s) \/ Outside(s) \/ WriteTo(s) \/ Lose(s) \/ TargetSends(s)
             \/ Downward(s)
      PROVE  EndInv'
  <2>1. \/ Handler(s) \/ Up(s) \/ Down(s) \/ UpReceive(s) \/ DownRead(s)
        \/ RequestDone(s) \/ TimerFires(s) \/ WriteTo(s) \/ Lose(s) \/ TargetSends(s)
    BY <1>1, Zenon DEF Serve, Upward, Outside, PeerGone, Downward
  <2>2. cli' = cli \/ cli' = [cli EXCEPT ![s].arrived = @ + 1]
    BY <1>1, Zenon DEF Serve, Upward, Outside, WriteTo, Lose, TargetSends, Downward
  <2>3. /\ DOMAIN cli' = Sessions /\ \A t \in Sessions : DOMAIN cli'[t] = DOMAIN cli[t]
        /\ \A t \in Sessions : Cancelled(t)'
    BY <2>2, ClientStepsEnd DEF EndInv, Fields, Cancelled
  <2>4. /\ DOMAIN ses' = Sessions /\ DOMAIN ses'[s] = DOMAIN ses[s]
        /\ \A t \in Sessions : t # s => ses'[t] = ses[t]
        /\ Goroutines(s)'
    BY <2>1, SessionStepsEnd
  <2>5. ASSUME NEW t \in Sessions
        PROVE  Goroutines(t)'
    <3>1. CASE t = s
      BY <2>4, <3>1
    <3>2. CASE t # s
      <4>1. ses'[t] = ses[t] /\ Goroutines(t)
        BY <2>4, <3>2 DEF EndInv
      <4> QED
        BY <4>1 DEF Goroutines, Exits
    <3> QED
      BY <3>1, <3>2
  <2> QED
    BY <2>3, <2>4, <2>5 DEF EndInv, Fields
<1>2. ASSUME NEW s \in Sessions,
             \/ DialUDP(s) \/ ReadFrom(s) \/ ReadReceives(s) \/ ReadEnds(s) \/ SetReadDeadline(s)
             \/ CloseCancels(s) \/ CloseReturns(s) \/ Break(s) \/ StreamEnds(s)
      PROVE  EndInv'
  <2>1. ses' = ses
    BY <1>2, Zenon DEF DialUDP, OpenRequestStream, ReadResponse, ReadFrom, ReadReceives, ReadEnds,
                SetReadDeadline, CloseCancels, CloseReturns, Break, StreamEnds, session
  <2>2. /\ DOMAIN cli' = Sessions /\ \A t \in Sessions : DOMAIN cli'[t] = DOMAIN cli[t]
        /\ \A t \in Sessions : Cancelled(t)'
    BY <1>2, ClientStepsEnd
  <2>3. ASSUME NEW t \in Sessions
        PROVE  Goroutines(t)'
    <3>1. Goroutines(t)
      BY DEF EndInv
    <3> QED
      BY <2>1, <3>1 DEF Goroutines, Exits
  <2> QED
    BY <2>1, <2>2, <2>3 DEF EndInv, Fields
<1>3. CASE OtherFrees \/ UNCHANGED vars
  <2>1. ses' = ses /\ cli' = cli
    BY <1>3 DEF OtherFrees, vars
  <2> QED
    BY <2>1 DEF EndInv, Fields, Goroutines, Exits, Cancelled
<1> QED
  BY <1>1, <1>2, <1>3 DEF Next

(* For any number of sessions, the safety half of SessionEnds and          *)
(* ReadReturns: no goroutine of serveUDPSession blocks on done or in a     *)
(* read that nothing ends, its loop is never without a running timer, and  *)
(* a closed UDPConn never waits (udp.go:59-142, udp_client.go:61-85).      *)
THEOREM NobodyIsStranded == Spec => []NobodyStranded
<1>1. Init => EndInv
  <2> SUFFICES ASSUME Init
               PROVE  EndInv
    OBVIOUS
  <2>1. Fields
    BY DEF Init, NewSession, Fields
  <2>2. \A s \in Sessions : Cancelled(s)
    BY DEF Init, Cancelled
  <2>3. \A s \in Sessions :
          /\ ses[s].main = "request" /\ ses[s].pc = "none" /\ ses[s].done = 0
          /\ ses[s].up = "none" /\ ses[s].down = "none"
    BY DEF Init, NewSession
  <2>4. \A s \in Sessions : Goroutines(s)
    <3> SUFFICES ASSUME NEW s \in Sessions PROVE Goroutines(s)
      OBVIOUS
    <3>1. Exits(s) = 0
      BY <2>3 DEF Exits
    <3>2. ses[s].done \in Nat /\ ses[s].done <= Exits(s)
      BY <2>3, <3>1
    <3> QED
      BY <2>3, <3>2, Zenon DEF Goroutines, Serving
  <2> QED
    BY <2>1, <2>2, <2>4 DEF EndInv
<1>2. EndInv => NobodyStranded
  <2> SUFFICES ASSUME EndInv, NEW s \in Sessions
               PROVE  /\ "fail" \in {ses[s].up, ses[s].down} => ses[s].done < 2
                      /\ ses[s].main = "loop" => ses[s].timer # "stopped"
                      /\ ses[s].main \in {"freeSlot", "returned"} =>
                           /\ ses[s].up = "receive" => ses[s].ctxDone
                           /\ ses[s].down = "read" => ses[s].pc = "closed"
                      /\ cli[s].close # "open" => watched(cli[s])
    BY Zenon DEF NobodyStranded
  <2>1. Goroutines(s) /\ Cancelled(s)
    BY DEF EndInv
  <2>2. "fail" \in {ses[s].up, ses[s].down} => ses[s].done < 2
    <3>1. "fail" \in {ses[s].up, ses[s].down} => Exits(s) \in {0, 1}
      BY DEF Exits
    <3>2. ses[s].done \in Nat /\ ses[s].done <= Exits(s)
      BY <2>1, Zenon DEF Goroutines
    <3> QED
      BY <3>1, <3>2
  <2> QED
    BY <2>1, <2>2 DEF Goroutines, Cancelled, watched
<1> QED
  BY <1>1, <1>2, NextEnds, PTL DEF Spec
=============================================================================
