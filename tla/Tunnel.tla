-------------------------------- MODULE Tunnel --------------------------------
(***************************************************************************)
(* One SOCKS5 connection from the client's accept to the end of its        *)
(* tunnel: handleSocks5, selectTransport and the dialers of                *)
(* cmd/chimera-client/main.go, DialTCP of internal/quicx/client.go, Dial   *)
(* of internal/realclient/client.go, handleConn of                         *)
(* cmd/chimera-server/main.go, and the handshake and Relay of              *)
(* internal/chimera/chimera.go that both sides use.                        *)
(*                                                                         *)
(* Connections share nothing but the configuration, so one is modelled.    *)
(* The bytes of the padded stream are in PadStream and the HTTP/3 server   *)
(* is in H3Server: here a QUIC server is a peer that answers, refuses or   *)
(* goes away at any time.                                                  *)
(***************************************************************************)
EXTENDS Naturals, Sequences

CONSTANTS
  AutoQUICTimeout,   \* -auto-quic-timeout, in ticks
  MaxElapsed         \* bound: ticks counted in one selection

ASSUME TunnelAssumption == AutoQUICTimeout \in Nat \ {0} /\ MaxElapsed \in Nat

VARIABLES
  mode,       \* selectedMode of the flags
  target,     \* what the application asks for
  c,          \* where the client's handler is
  srv,        \* where the handler of the server is
  conn,       \* the connections the two handlers own
  wire,       \* handshake messages in flight on the TCP carrier
  replies,    \* SOCKS replies the application received
  copy,       \* the four copying goroutines
  gone,       \* peers that went away, and the TCP carrier when it is cut
  elapsed     \* ticks since the QUIC attempt began

tunVars == <<mode, target, c, srv, conn, wire, replies, copy, gone, elapsed>>

\* "socks", "quic", "stream" and "tcp" are the client's, the others the server's.
Conns == {"socks", "quic", "stream", "tcp", "accepted", "target"}
QuicPhases == {"dialQUIC", "openStream", "readResponse"}
TcpPhases == {"dialTCP", "reality", "header", "session", "connect", "result"}
Succeeded == 0             \* the code of a SOCKS reply and StatusOK
StatusDialError == 2       \* the status of a refused target
Sides == {"client", "server"}

TypeOK ==
  /\ mode \in {"tcp", "quic", "auto"}
  /\ target \in {"public", "forbidden", "empty"}
  /\ c \in {"handshake", "request", "reply", "relay", "wait", "returned"}
            \cup QuicPhases \cup TcpPhases
  /\ srv \in {"idle", "header", "connect", "resolve", "dial", "relay", "wait", "returned"}
  /\ conn \in [Conns -> {"none", "open", "closed"}]
  /\ wire \in [up : {<<>>, <<"header">>, <<"connect">>},
               down : {<<>>, <<Succeeded>>, <<StatusDialError>>}]
  /\ replies \in Seq({Succeeded, 1, 5})
  /\ copy \in [Sides \X {"up", "down"} -> {"none", "read", "write", "done"}]
  /\ gone \subseteq {"app", "target", "quic", "tcp"}
  /\ elapsed \in 0..MaxElapsed

TunInit ==
  /\ mode \in {"tcp", "quic", "auto"}
  /\ target \in {"public", "forbidden", "empty"}
  /\ c = "handshake" /\ srv = "idle"
  /\ conn = [k \in Conns |-> IF k = "socks" THEN "open" ELSE "none"]
  /\ wire = [up |-> <<>>, down |-> <<>>]
  /\ replies = <<>>
  /\ copy = [g \in Sides \X {"up", "down"} |-> "none"]
  /\ gone = {} /\ elapsed = 0

-----------------------------------------------------------------------------
\* Reading from k gives an end of file or an error, and writing may fail.
ConnEnded(k) ==
  \/ conn[k] = "closed"
  \/ k = "socks" /\ "app" \in gone
  \/ k = "target" /\ "target" \in gone
  \/ k = "stream" /\ "quic" \in gone
  \/ k = "tcp" /\ ("tcp" \in gone \/ conn["accepted"] = "closed")
  \/ k = "accepted" /\ ("tcp" \in gone \/ conn["tcp"] = "closed")

Closing(ks) == [k \in Conns |-> IF k \in ks /\ conn[k] = "open" THEN "closed" ELSE conn[k]]

Opening(k) == [conn EXCEPT ![k] = "open"]

\* socks5Reply: a reply reaches the application unless that is gone.
socks5Reply(code) == IF "app" \in gone THEN replies ELSE Append(replies, code)

\* Mutant of Refuse: nothing is answered.
RefuseSilently(owned) ==
  c' = "returned" /\ conn' = Closing(owned \cup {"socks"}) /\ UNCHANGED replies
\* An error from chimeraConnect, which closed `owned` on its way out.
Refuse(owned) ==
  /\ c' = "returned"
  /\ conn' = Closing(owned \cup {"socks"})
  /\ replies' = socks5Reply(5)

-----------------------------------------------------------------------------
(* handleSocks5 up to the request.                                         *)
socks5Handshake ==
  /\ c = "handshake"
  /\ \/ "app" \notin gone /\ c' = "request" /\ UNCHANGED conn
     \/ c' = "returned" /\ conn' = Closing({"socks"})
  /\ UNCHANGED <<mode, target, srv, wire, replies, copy, gone, elapsed>>

\* selectTransport: the first carrier of a mode.
selectTransport == IF mode = "tcp" THEN "dialTCP" ELSE "dialQUIC"

socks5ReadRequest ==
  /\ c = "request"
  /\ \/ "app" \notin gone /\ c' = selectTransport /\ UNCHANGED <<conn, replies>>
     \/ c' = "returned" /\ conn' = Closing({"socks"}) /\ replies' = socks5Reply(1)
  /\ UNCHANGED <<mode, target, srv, wire, copy, gone, elapsed>>

-----------------------------------------------------------------------------
\* Mutant of QuicFails: the connection stays open for the fallback.
QuicFailsOpen ==
  IF mode = "auto" THEN c' = "dialTCP" /\ UNCHANGED <<conn, replies>>
                   ELSE Refuse({"stream", "quic"})
(* The QUIC dial fails; what it opened is closed.  Only auto goes on.      *)
QuicFails ==
  IF mode = "auto"
  THEN c' = "dialTCP" /\ conn' = Closing({"stream", "quic"}) /\ UNCHANGED replies
  ELSE Refuse({"stream", "quic"})

(* DialClientWithConfig under the context of the selection.                *)
DialClientWithConfig ==
  /\ c = "dialQUIC"
  /\ \/ /\ "quic" \notin gone
        /\ c' = "openStream" /\ conn' = Opening("quic") /\ UNCHANGED replies
     \/ QuicFails
  /\ UNCHANGED <<mode, target, srv, wire, copy, gone, elapsed>>

(* DialTCP: authority, signature, OpenRequestStream, request header.       *)
DialTCP_OpenRequestStream ==
  /\ c = "openStream"
  /\ \/ /\ target # "empty" /\ "quic" \notin gone
        /\ c' = "readResponse" /\ conn' = Opening("stream") /\ UNCHANGED replies
     \/ QuicFails
  /\ UNCHANGED <<mode, target, srv, wire, copy, gone, elapsed>>

(* DialTCP: ReadResponse, which is not given the context, so nothing but   *)
(* the answer or the end of the connection returns it.                     *)
DialTCP_ReadResponse ==
  /\ c = "readResponse"
  /\ \/ /\ "quic" \notin gone /\ target = "public"
        /\ c' = "reply" /\ UNCHANGED <<conn, replies>>
     \/ QuicFails
  /\ UNCHANGED <<mode, target, srv, wire, copy, gone, elapsed>>

(* Time passes during a selection.  The steps under the context return     *)
(* when it expires.                                                        *)
Tick ==
  /\ mode = "auto" /\ c \in QuicPhases
  /\ elapsed < MaxElapsed
  /\ c # "readResponse" => elapsed < AutoQUICTimeout
  /\ elapsed' = elapsed + 1
  /\ UNCHANGED <<mode, target, c, srv, conn, wire, replies, copy, gone>>

-----------------------------------------------------------------------------
(* Dial of realclient: the TCP dial, which only the operating system gives *)
(* up.                                                                     *)
Dial_DialContext ==
  /\ c = "dialTCP"
  /\ \/ /\ "tcp" \notin gone
        /\ c' = "reality" /\ conn' = Opening("tcp") /\ UNCHANGED replies
     \/ Refuse({})
  /\ UNCHANGED <<mode, target, srv, wire, copy, gone, elapsed>>

\* Mutant of RawFails: an error path without rawConn.Close.
RawFailsOpen == Refuse({})
\* An error of Dial once rawConn is open.
RawFails == Refuse({"tcp"})

(* Dial of realclient: the keys, the handshake and the verification of the *)
(* server.  The context has no deadline, so a server that stays connected  *)
(* and silent is waited for.  The server accepts the connection when the   *)
(* handshake is complete.                                                  *)
Dial_Handshake ==
  /\ c = "reality"
  /\ \/ /\ "tcp" \notin gone
        /\ c' = "header" /\ srv' = "header" /\ conn' = Opening("accepted")
        /\ UNCHANGED replies
     \/ RawFails /\ UNCHANGED srv
  /\ UNCHANGED <<mode, target, wire, copy, gone, elapsed>>

(* dialChimeraTCP returns an error, and its deferred close runs.           *)
TcpFails == Refuse({"tcp"})

(* WriteSessionHeader.                                                     *)
WriteSessionHeader ==
  /\ c = "header"
  /\ \/ /\ c' = "session" /\ wire' = [wire EXCEPT !.up = Append(@, "header")]
        /\ UNCHANGED <<conn, replies>>
     \/ ConnEnded("tcp") /\ TcpFails /\ UNCHANGED wire
  /\ UNCHANGED <<mode, target, srv, copy, gone, elapsed>>

\* WriteAddress writes nothing for an empty domain.
WriteAddress == IF target = "empty" THEN <<>> ELSE <<"connect">>

(* WriteTargetConnect.                                                     *)
WriteTargetConnect ==
  /\ c = "connect"
  /\ \/ /\ WriteAddress # <<>>
        /\ c' = "result" /\ wire' = [wire EXCEPT !.up = @ \o WriteAddress]
        /\ UNCHANGED <<conn, replies>>
     \/ /\ WriteAddress = <<>> \/ ConnEnded("tcp")
        /\ TcpFails /\ UNCHANGED wire
  /\ UNCHANGED <<mode, target, srv, copy, gone, elapsed>>

\* Mutant of granted: the status is not looked at.
grantedAlways(status) == TRUE
\* The client's test of a status.
granted(status) == status = Succeeded

(* ReadSessionResponse, after the header and after the target.             *)
ReadSessionResponse ==
  /\ c \in {"session", "result"}
  /\ \/ /\ wire.down # <<>> /\ granted(Head(wire.down))
        /\ c' = IF c = "session" THEN "connect" ELSE "reply"
        /\ wire' = [wire EXCEPT !.down = Tail(@)]
        /\ UNCHANGED <<conn, replies>>
     \/ /\ wire.down # <<>> /\ ~granted(Head(wire.down))
        /\ wire' = [wire EXCEPT !.down = Tail(@)]
        /\ TcpFails
     \/ ConnEnded("tcp") /\ TcpFails /\ UNCHANGED wire
  /\ UNCHANGED <<mode, target, srv, copy, gone, elapsed>>

-----------------------------------------------------------------------------
\* proxy.Close: an ownedConn closes its stream and its client.
Proxy == IF conn["stream"] = "none" \/ conn["tcp"] # "none" THEN {"tcp"} ELSE {"stream", "quic"}

(* The reply of chimeraConnect, and the goroutines of Relay.               *)
Reply ==
  /\ c = "reply"
  /\ \/ /\ "app" \notin gone
        /\ c' = "relay" /\ replies' = socks5Reply(Succeeded)
        /\ copy' = [copy EXCEPT ![<<"client", "up">>] = "read", ![<<"client", "down">>] = "read"]
        /\ UNCHANGED conn
     \/ ConnEnded("socks") /\ Refuse(Proxy) /\ UNCHANGED copy
  /\ UNCHANGED <<mode, target, srv, wire, gone, elapsed>>

-----------------------------------------------------------------------------
\* Mutant of consumed: the message stays in the stream.
peeked(messages) == messages
\* What io.ReadFull of one message leaves.
consumed(messages) == Tail(messages)

\* A handler of the server returns; its deferred closes run.
ServerReturns == srv' = "returned" /\ conn' = Closing({"accepted", "target"})

\* Mutant: a read that failed is tried again.
ReadSessionHeaderRetried ==
  /\ srv = "header" /\ wire.up # <<>>
  /\ srv' = "connect"
  /\ wire' = [up |-> consumed(wire.up), down |-> Append(wire.down, Succeeded)]
  /\ UNCHANGED <<conn, mode, target, c, replies, copy, gone, elapsed>>
(* ReadSessionHeader and the first WriteSessionResponse of handleConn.     *)
ReadSessionHeader ==
  /\ srv = "header"
  /\ \/ /\ wire.up # <<>>
        /\ srv' = "connect"
        /\ wire' = [up |-> consumed(wire.up), down |-> Append(wire.down, Succeeded)]
        /\ UNCHANGED conn
     \/ ConnEnded("accepted") /\ ServerReturns /\ UNCHANGED wire
  /\ UNCHANGED <<mode, target, c, replies, copy, gone, elapsed>>

(* ReadTargetConnect.  The client of the project sends no command but      *)
(* CmdConnect, so the return for another one is not reached.               *)
ReadTargetConnect ==
  /\ srv = "connect"
  /\ \/ /\ wire.up # <<>>
        /\ srv' = "resolve" /\ wire' = [wire EXCEPT !.up = consumed(@)]
        /\ UNCHANGED conn
     \/ ConnEnded("accepted") /\ ServerReturns /\ UNCHANGED wire
  /\ UNCHANGED <<mode, target, c, replies, copy, gone, elapsed>>

\* The server answers with an error and returns.
Rejects == wire' = [wire EXCEPT !.down = Append(@, StatusDialError)] /\ ServerReturns

(* ResolveAndValidateAuthority; a lookup may also fail.                    *)
ResolveTarget ==
  /\ srv = "resolve"
  /\ \/ target = "public" /\ srv' = "dial" /\ UNCHANGED <<conn, wire>>
     \/ Rejects
  /\ UNCHANGED <<mode, target, c, replies, copy, gone, elapsed>>

(* The dial of the target, the answer, and the goroutines of Relay.        *)
DialTarget ==
  /\ srv = "dial"
  /\ \/ /\ "target" \notin gone
        /\ srv' = "relay" /\ conn' = Opening("target")
        /\ wire' = [wire EXCEPT !.down = Append(@, Succeeded)]
        /\ copy' = [copy EXCEPT ![<<"server", "up">>] = "read", ![<<"server", "down">>] = "read"]
     \/ /\ "target" \notin gone /\ ConnEnded("accepted")
        /\ srv' = "returned"
        /\ conn' = [Closing({"accepted"}) EXCEPT !["target"] = "closed"]
        /\ UNCHANGED <<wire, copy>>
     \/ Rejects /\ UNCHANGED copy
  /\ UNCHANGED <<mode, target, c, replies, gone, elapsed>>

-----------------------------------------------------------------------------
At(side) == IF side = "client" THEN c ELSE srv
Move(side, at) ==
  IF side = "client" THEN c' = at /\ UNCHANGED srv ELSE srv' = at /\ UNCHANGED c

\* The connection a goroutine reads: "up" copies towards the target.
Carrier(side) == IF side = "server" THEN "accepted" ELSE IF "tcp" \in Proxy THEN "tcp" ELSE "stream"
Source(g) ==
  CASE g = <<"client", "up">> -> "socks"
    [] g = <<"server", "down">> -> "target"
    [] OTHER -> Carrier(g[1])
Opposite(d) == IF d = "up" THEN "down" ELSE "up"

Sink(g) == Source(<<g[1], Opposite(g[2])>>)

(* io.Copy alternates between a Read of its source and a Write of what it  *)
(* got.  Bytes that were under way when the source ended were read before. *)
CopyReads(g) ==
  /\ copy[g] = "read" /\ ~ConnEnded(Source(g))
  /\ copy' = [copy EXCEPT ![g] = "write"]
  /\ UNCHANGED <<mode, target, c, srv, conn, wire, replies, gone, elapsed>>

(* The Write returns when the bytes are taken; until then io.Copy sees     *)
(* nothing of its source.                                                  *)
CopyWrites(g) ==
  /\ copy[g] = "write" /\ ~ConnEnded(Sink(g))
  /\ copy' = [copy EXCEPT ![g] = "read"]
  /\ UNCHANGED <<mode, target, c, srv, conn, wire, replies, gone, elapsed>>

(* It returns from a Read whose source ended and from a Write that fails.  *)
CopyEnds(g) ==
  /\ \/ copy[g] = "read" /\ ConnEnded(Source(g))
     \/ copy[g] = "write" /\ ConnEnded(Sink(g))
  /\ copy' = [copy EXCEPT ![g] = "done"]
  /\ UNCHANGED <<mode, target, c, srv, conn, wire, replies, gone, elapsed>>

\* The two connections of a handler.
Owned(side) == IF side = "client" THEN Proxy \cup {"socks"} ELSE {"accepted", "target"}
\* Mutant of RelayClosed: the carrier is left open.
RelayClosedOne(side) == Owned(side) \cap {"socks", "target"}
RelayClosed(side) == Owned(side)

(* Relay: after the first of the two goroutines both ends are closed ...   *)
RelayCloses(side) ==
  /\ At(side) = "relay"
  /\ \E d \in {"up", "down"} : copy[<<side, d>>] = "done"
  /\ Move(side, "wait")
  /\ conn' = Closing(RelayClosed(side))
  /\ UNCHANGED <<mode, target, wire, replies, copy, gone, elapsed>>

(* ... and it waits for the other.  The deferred closes find them closed.  *)
RelayReturns(side) ==
  /\ At(side) = "wait"
  /\ \A d \in {"up", "down"} : copy[<<side, d>>] = "done"
  /\ Move(side, "returned")
  /\ conn' = Closing(Owned(side))
  /\ UNCHANGED <<mode, target, wire, replies, copy, gone, elapsed>>

(* The application, the target, the QUIC peer or the TCP path goes away.   *)
(* An application or a target may end its own sending only, and still read.*)
GoAway(p) ==
  /\ p \notin gone
  /\ gone' = gone \cup {p}
  /\ UNCHANGED <<mode, target, c, srv, conn, wire, replies, copy, elapsed>>

-----------------------------------------------------------------------------
SocksStep == socks5Handshake \/ socks5ReadRequest

QuicStep == DialClientWithConfig \/ DialTCP_OpenRequestStream \/ DialTCP_ReadResponse

TcpStep == Dial_DialContext \/ Dial_Handshake \/ WriteSessionHeader \/ ReadSessionResponse \/ WriteTargetConnect

handleConn == ReadSessionHeader \/ ReadTargetConnect \/ ResolveTarget \/ DialTarget

Relay(side) == RelayCloses(side) \/ RelayReturns(side)

TunNext ==
  \/ SocksStep \/ QuicStep \/ TcpStep \/ Reply \/ handleConn \/ Tick
  \/ \E side \in Sides : Relay(side)
  \/ \E g \in Sides \X {"up", "down"} : CopyReads(g) \/ CopyWrites(g) \/ CopyEnds(g)
  \/ \E p \in {"app", "target", "quic", "tcp"} : GoAway(p)

\* The steps of the client that come whatever its peers do.  The QUIC handshake
\* has a timeout and the opening of the stream in auto the context; a QUIC
\* connection whose peer is gone is given up by its idle timeout, a TCP
\* connection by the keep-alive of the runtime.  While the peer is there,
\* keep-alives hold up the idle timeout, and only its answer ends the wait.
ClientMustStep ==
  \/ DialClientWithConfig
  \/ DialTCP_OpenRequestStream /\ (mode = "auto" \/ "quic" \in gone)
  \/ DialTCP_ReadResponse /\ "quic" \in gone
  \/ Dial_DialContext
  \/ Dial_Handshake /\ "tcp" \in gone
  \/ WriteSessionHeader \/ ReadSessionResponse \/ WriteTargetConnect \/ Reply

\* A Write to an application or a target that ended its own sending need not
\* fail before the connection is closed on this side.
CopyMustEnd(g) ==
  /\ copy[g] = "write" /\ Sink(g) \in {"socks", "target"} => conn[Sink(g)] = "closed"
  /\ CopyEnds(g)

\* The goroutine of the other process that reads what g writes to TCP takes it.
CarrierTakes(g) ==
  /\ Sink(g) \in {"tcp", "accepted"}
  /\ copy[<<IF g[1] = "client" THEN "server" ELSE "client", g[2]>>] = "read"
  /\ CopyWrites(g)

(* Goroutines that can step do; lookups and the dial of the target end by  *)
(* their timeouts; TCP delivers to a reader that comes back to reading.    *)
(* Nothing makes an application, a target or a server send, read or leave. *)
TunFairness ==
  /\ WF_tunVars(ClientMustStep)
  /\ WF_tunVars(handleConn)
  /\ \A side \in Sides : WF_tunVars(Relay(side))
  /\ \A g \in Sides \X {"up", "down"} : WF_tunVars(CopyMustEnd(g)) /\ SF_tunVars(CarrierTakes(g))

TunSpec == TunInit /\ [][TunNext]_tunVars /\ TunFairness

-----------------------------------------------------------------------------
(* A request is answered once, whichever of the error paths of             *)
(* handleSocks5 and chimeraConnect it takes, and an application that was   *)
(* told its connection is open has a server that reached the target:       *)
(* chimeraConnect replies 0x00 only after the status of the server, which  *)
(* handleConn sends after its own dial.                                    *)
OneHonestReply ==
  /\ Len(replies) <= 1
  /\ replies = <<Succeeded>> =>
       conn[IF conn["tcp"] = "none" THEN "stream" ELSE "target"] # "none"

(* A handler that returned owns no open connection: every early return of  *)
(* the dialers and of handleConn, and ownedConn.Close, closes what was     *)
(* opened before it.                                                       *)
NothingLeaked ==
  /\ c = "returned" => \A k \in {"socks", "quic", "stream", "tcp"} : conn[k] # "open"
  /\ srv = "returned" => \A k \in {"accepted", "target"} : conn[k] # "open"

(* TCP is dialled only by a mode that allows it and only once nothing of   *)
(* the QUIC attempt is left open (selectTransport).                        *)
LazyTCP ==
  c \in TcpPhases \/ conn["tcp"] # "none" =>
    mode # "quic" /\ conn["quic"] # "open" /\ conn["stream"] # "open"

\* The client waits, without a deadline, for a server that is connected.
ServerSilent ==
  \/ "quic" \notin gone /\ (c = "readResponse" \/ (c = "openStream" /\ mode = "quic"))
  \/ "tcp" \notin gone /\ c = "reality"

(* A request is answered, or its application leaves, unless a connected    *)
(* server keeps silent for ever in the REALITY handshake, in the opening   *)
(* of the stream or in the CONNECT response: the three waits of the        *)
(* dialers that have neither a deadline nor an end by themselves           *)
(* (realclient client.go:133, quicx client.go:130, 147).                   *)
Answered ==
  []<>~ServerSilent =>
    (c \in QuicPhases \cup TcpPhases) ~> (replies # <<>> \/ "app" \in gone)

\* No goroutine stays for ever in a Write to a peer outside: the peer takes
\* the bytes or the Write fails.
PeersRead ==
  \A g \in Sides \X {"up", "down"} :
    []<>~(copy[g] = "write" /\ Sink(g) \in {"socks", "target", "stream"})

(* When the application, the target or the carrier of an open tunnel goes  *)
(* away, the tunnel comes down on both sides: Relay closes both of its     *)
(* connections, which ends the other goroutine and then the other side.    *)
(* Relay sets no deadline, so this needs peers that do not leave a Write   *)
(* blocked: a live target that stops reading keeps all four goroutines     *)
(* from seeing that the application left (chimera.go:197-212).             *)
TornDown ==
  PeersRead =>
    (c = "relay" /\ \E k \in {"socks", "target", Carrier("client")} :
                      conn[k] # "none" /\ ConnEnded(k))
      ~> (c = "returned" /\ srv \in {"idle", "returned"})

(* A handler of the server whose client is gone returns, wherever it is,   *)
(* unless its target leaves a Write of the relay blocked for ever.         *)
(* handleConn sets no deadline on the reads of the header and the target,  *)
(* so in the handshake nothing but the end of the carrier gets it out.     *)
OrphanReturns ==
  []<>(copy[<<"server", "up">>] # "write") =>
    (srv # "idle" /\ ConnEnded("accepted")) ~> srv = "returned"

(* The QUIC attempt of the auto mode ends with -auto-quic-timeout, which   *)
(* the context of selectTransport carries.                                 *)
WithinBudget == c \in QuicPhases => elapsed <= AutoQUICTimeout
=============================================================================
