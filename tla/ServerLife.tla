------------------------------ MODULE ServerLife ------------------------------
(***************************************************************************)
(* The life of a server, from its start to the end of its goroutines: main *)
(* of cmd/chimera-server, ListenServerWithConfig with normalizeServerConfig,*)
(* refreshDecoy, the watcher of the context and Server.Close of            *)
(* internal/quicx/server.go, and the decoy of internal/quicx/decoy.go,     *)
(* which is refreshed while unauthenticated requests are answered from it. *)
(*                                                                         *)
(* The certificate is in CertStore, authenticated requests are in          *)
(* H3Server.  quic-go and net/http are external: a listen or a fetch       *)
(* succeeds or fails, and a closed listener ends ServeListener.            *)
(***************************************************************************)
EXTENDS Integers, FiniteSets

CONSTANTS
  Callers,     \* goroutines of the owner that may call Server.Close
  Requests,    \* unauthenticated requests
  maxDecoyBody

ASSUME LifeAssumption == IsFiniteSet(Callers) /\ maxDecoyBody \in Nat

VARIABLES
  cfg,        \* the configuration, raw and then normalised
  boot,       \* where the start is
  open,       \* sockets and servers that are open
  running,    \* goroutines that run: "serve", "refresh", "watch"
  cancelled,  \* the context of ListenServerWithConfig is done
  closed,     \* the channel Server.closed is closed
  once,       \* closeOnce and what its function does next
  closeErr,   \* the error Close returns
  closers,    \* per caller of Close: where it is and what it returned
  snapshot,   \* Decoy.snapshot
  fetching,   \* refreshDecoy is in Refresh
  requests    \* per request: its method, the copy it answers from, its response

vars == <<cfg, boot, open, running, cancelled, closed, once, closeErr, closers,
          snapshot, fetching, requests>>

-----------------------------------------------------------------------------
(* Configuration.  A field that must be given is fine or in `wrong`; a     *)
(* field with a default is a number, of which the sign matters.            *)
UDPFields == {"UDPMaxPacketSize", "UDPMaxSessions", "UDPIdleTimeout"}
LimitFields == {"MaxConcurrent", "PerIPBurst", "PerIPWindow", "MaxTrackedIPs"}
ServerFields == {"DecoyRefreshInterval", "TargetDialTimeout", "AuthenticationSkew", "ReplayCapacity"}
Fields == UDPFields \cup LimitFields \cup ServerFields

MainRequires == {"sni", "key", "sid"}    \* checked by main before it listens
Required == {"ListenAddr", "ServerName", "AuthKeys", "DecoyTarget"}
Pair == {"CertificateFile", "PrivateKeyFile"}

AtMostOne(S) == {{}} \cup {{x} : x \in S}

\* At most one field is wrong; the numbers are all negative or all positive.
\* main leaves them at zero, derives AuthKeys from the short IDs and takes the
\* first SNI for ServerName.
RawConfigs ==
  [by : {"library"}, quic : {TRUE}, wrong : AtMostOne(Required \cup {"key length"}),
   pair : SUBSET Pair, EnableUDPRelay : BOOLEAN,
   number : {[f \in Fields |-> n] : n \in {-1, 1}}]
  \cup
  [by : {"main"}, quic : BOOLEAN,
   wrong : AtMostOne(MainRequires \cup {"psk", "ListenAddr", "DecoyTarget"}),
   pair : SUBSET Pair, EnableUDPRelay : BOOLEAN,
   number : {[f \in Fields |-> 0]}]

\* A default is 1, as every positive number is.
WithDefaults(c, fs) ==
  [c EXCEPT !.number = [f \in Fields |-> IF f \in fs /\ @[f] <= 0 THEN 1 ELSE @[f]]]

\* Mutant of defaulted: the relay's own fields are forgotten.
defaultedCommon(c) == ServerFields
\* The fields to which normalizeServerConfig gives a default.
defaulted(c) == ServerFields \cup IF c.EnableUDPRelay THEN UDPFields ELSE {}

-----------------------------------------------------------------------------
(* Decoy pages.  A page is known by its number, which its headers and its  *)
(* body carry; page 0 is the built-in one.                                 *)
SafeHeaders == {"ETag", "Vary"}
Pages == {[page |-> 1, status |-> 204, header |-> {"ETag"}, len |-> 0],
          [page |-> 2, status |-> 503, header |-> {"ETag", "Set-Cookie", "Vary: a CR LF b"},
           len |-> maxDecoyBody + 2]}

BuiltIn == [status |-> 404, header |-> [page |-> 0, names |-> {"Type"}],
            body |-> [page |-> 0, len |-> 1]]

atMost(n, m) == IF n > m THEN m ELSE n

\* defaultDecoyFetcher reads one byte more than is kept.
fetched(p) ==
  [status |-> p.status, header |-> [page |-> p.page, names |-> p.header],
   body |-> [page |-> p.page, len |-> atMost(p.len, maxDecoyBody + 1)]]

sanitizeDecoySnapshot(s) ==
  [status |-> IF s.status \in 200..299 THEN s.status ELSE 200,
   header |-> [s.header EXCEPT !.names = @ \cap SafeHeaders],
   body |-> [s.body EXCEPT !.len = atMost(@, maxDecoyBody)]]

NoResponse == [status |-> 0, header |-> {}, length |-> 0, body |-> {}]

-----------------------------------------------------------------------------
Closers == Callers \cup {"watcher"}

(* Every number that a running server uses is positive: NewTicker panics   *)
(* otherwise, and a channel of no capacity would refuse every session.     *)
TypeOK ==
  /\ cfg.number \in [Fields -> -1..1]
  /\ boot \in {"flags", "tcp", "psk", "config", "certificate", "authenticator", "decoy",
               "packetConn", "listener", "running", "failed"}
  /\ open \subseteq {"tcp", "packetConn", "listener", "h3"}
  /\ running \subseteq {"serve", "refresh", "watch"}
  /\ {cancelled, closed, fetching} \subseteq BOOLEAN
  /\ once \in {"new", "h3", "listener", "packetConn", "done"}
  /\ closeErr \in {"none", "h3", "listener", "packetConn"}
  /\ \A c \in Closers : closers[c].at \in {"idle", "do", "wait", "returned"}
  /\ snapshot \in {BuiltIn} \cup {sanitizeDecoySnapshot(fetched(p)) : p \in Pages}
  /\ \A q \in Requests : /\ requests[q].at \in {"new", "arrived", "copied", "header", "done"}
                         /\ requests[q].current \subseteq 0..2
  /\ running # {} =>
       \A f \in Fields : f \notin UDPFields \/ cfg.EnableUDPRelay => cfg.number[f] > 0

Init ==
  /\ cfg \in RawConfigs
  /\ boot = IF cfg.by = "main" THEN "flags" ELSE "config"
  /\ open = {} /\ running = {}
  /\ cancelled = FALSE /\ closed = FALSE /\ fetching = FALSE
  /\ once = "new" /\ closeErr = "none"
  /\ closers = [c \in Closers |-> [at |-> "idle", err |-> "none"]]
  /\ snapshot = BuiltIn
  /\ requests = [q \in Requests |-> [at |-> "new", method |-> "GET", copy |-> BuiltIn,
                                     response |-> NoResponse, current |-> {}]]

closing == <<closed, once, closeErr, closers>>
decoy == <<snapshot, fetching, requests>>

-----------------------------------------------------------------------------
(* The start: main up to its accept loop, and ListenServerWithConfig.      *)

\* The start ends with an error.  main exits, which closes everything; another
\* caller keeps what was left open.
Fails(left) ==
  /\ boot' = "failed"
  /\ open' = IF cfg.by = "main" THEN {} ELSE left

\* A step of the start that opens nothing.
BootStep(from, fine, to) ==
  /\ boot = from
  /\ IF fine THEN boot' = to /\ UNCHANGED open ELSE Fails(open)
  /\ UNCHANGED <<running, cancelled, closing, decoy>>

\* At least one name, and at least one short ID and only well-formed ones.
parseServerNames == "sni" \notin cfg.wrong
parseShortIDs == "sid" \notin cfg.wrong
decodePSK == "psk" \notin cfg.wrong

CheckFlags ==
  /\ BootStep("flags", parseServerNames /\ "key" \notin cfg.wrong /\ parseShortIDs, "tcp")
  /\ UNCHANGED cfg

realservListen ==
  /\ boot = "tcp"
  /\ \/ boot' = (IF cfg.quic THEN "psk" ELSE "running") /\ open' = open \cup {"tcp"}
     \/ Fails(open)
  /\ UNCHANGED <<cfg, running, cancelled, closing, decoy>>

\* There is a short ID and the public key is 32 bytes long, so this succeeds.
deriveServerAuthKeys == BootStep("psk", decodePSK, "config") /\ UNCHANGED cfg

normalizeServerConfig ==
  /\ BootStep("config", cfg.wrong \cap Required = {} /\ cfg.pair \in {{}, Pair}, "certificate")
  /\ cfg' = WithDefaults(cfg, defaulted(cfg))

loadServerCertificate ==
  /\ \E fine \in BOOLEAN : BootStep("certificate", fine, "authenticator")
  /\ cfg' = [cfg EXCEPT !.pair = {}]

NewAuthenticator ==
  /\ BootStep("authenticator",
       "key length" \notin cfg.wrong
         /\ cfg.number["AuthenticationSkew"] > 0 /\ cfg.number["ReplayCapacity"] > 0,
       "decoy")
  /\ UNCHANGED cfg

net_ListenPacket ==
  /\ boot = "packetConn"
  /\ \/ boot' = "listener" /\ open' = open \cup {"packetConn"}
     \/ Fails(open)
  /\ UNCHANGED <<cfg, running, cancelled, closing, decoy>>

NewLimiter(c) == WithDefaults(c, LimitFields)

\* Mutant of afterListenEarly: the socket is forgotten.
afterListenEarlyLeft == open
\* What is open after a ListenEarly that failed.
afterListenEarly == open \ {"packetConn"}

(* ListenEarly, NewLimiter, and the three goroutines.                      *)
ListenEarly ==
  /\ boot = "listener"
  /\ \/ /\ boot' = "running"
        /\ open' = open \cup {"listener", "h3"}
        /\ running' = {"serve", "refresh", "watch"}
        /\ cfg' = NewLimiter(cfg)
     \/ Fails(afterListenEarly) /\ UNCHANGED <<cfg, running>>
  /\ UNCHANGED <<cancelled, closing, decoy>>

-----------------------------------------------------------------------------
(* Decoy.Refresh: a page is fetched and replaces the snapshot under the    *)
(* lock; after an error the old one stays.                                 *)
RefreshWith(s) ==
  /\ snapshot' = s
  /\ requests' = [q \in Requests |->
       IF requests[q].at \in {"new", "done"} THEN requests[q]
       ELSE [requests[q] EXCEPT !.current = @ \cup {s.header.page}]]

Refresh ==
  \/ \E p \in Pages : RefreshWith(sanitizeDecoySnapshot(fetched(p)))
  \/ UNCHANGED <<snapshot, requests>>

(* NewDecoy and the first Refresh, whose error is ignored.                 *)
NewDecoy ==
  /\ boot = "decoy" /\ Refresh
  /\ boot' = "packetConn"
  /\ UNCHANGED <<cfg, open, running, cancelled, closing, fetching>>

(* refreshDecoy: a tick starts a Refresh ...                               *)
RefreshTick ==
  /\ "refresh" \in running /\ ~fetching
  /\ fetching' = TRUE
  /\ UNCHANGED <<cfg, boot, open, running, cancelled, closing, snapshot, requests>>

(* ... which ends by its timeout at the latest ...                         *)
RefreshEnds ==
  /\ fetching /\ Refresh
  /\ fetching' = FALSE
  /\ UNCHANGED <<cfg, boot, open, running, cancelled, closing>>

\* Mutant of mayStop: only the context is looked at.
mayStopByContext == cancelled
mayStop == cancelled \/ closed

(* ... and the goroutine returns when the context or the server is done.   *)
RefreshStops ==
  /\ "refresh" \in running /\ ~fetching /\ mayStop
  /\ running' = running \ {"refresh"}
  /\ UNCHANGED <<cfg, boot, open, cancelled, closing, decoy>>

-----------------------------------------------------------------------------
(* serveUnauthenticated and Decoy.serveStatus.                             *)
Arrive(q) ==
  /\ "h3" \in open /\ requests[q].at = "new"
  /\ requests' = [requests EXCEPT ![q].at = "arrived", ![q].current = {snapshot.header.page}]
  /\ UNCHANGED <<cfg, boot, open, running, cancelled, closing, snapshot, fetching>>

\* Status, headers and body are taken together, under the read lock.
Copy(q) ==
  /\ requests[q].at = "arrived"
  /\ requests' = [requests EXCEPT ![q].at = "copied", ![q].copy = snapshot]
  /\ UNCHANGED <<cfg, boot, open, running, cancelled, closing, snapshot, fetching>>

\* The status of a CONNECT is replaced.  The method is of no account before.
WriteHeader(q) ==
  LET s == requests[q].copy IN
  /\ requests[q].at = "copied"
  /\ \E m \in {"GET", "HEAD", "CONNECT"} :
       requests' = [requests EXCEPT ![q].at = "header", ![q].method = m,
         ![q].response = [@ EXCEPT !.header = {s.header}, !.length = s.body.len,
                            !.status = IF m = "CONNECT" THEN 404 ELSE s.status]]
  /\ UNCHANGED <<cfg, boot, open, running, cancelled, closing, snapshot, fetching>>

\* Mutant of bodyFor: the body is taken from the cache when it is written.
bodyNow(q) == snapshot.body
bodyFor(q) == requests[q].copy.body

WriteBody(q) ==
  /\ requests[q].at = "header"
  /\ requests' = [requests EXCEPT ![q].at = "done", ![q].copy = BuiltIn,
       ![q].response.body = IF requests[q].method = "HEAD" THEN {} ELSE {bodyFor(q)}]
  /\ UNCHANGED <<cfg, boot, open, running, cancelled, closing, snapshot, fetching>>

-----------------------------------------------------------------------------
(* Server.Close.  The first caller runs the function of closeOnce, the     *)
(* others wait for it.                                                     *)
CallClose(c) ==
  /\ closers[c].at = "idle"
  /\ IF once = "new"
     THEN /\ closers' = [closers EXCEPT ![c].at = "do"]
          /\ once' = "h3" /\ closed' = TRUE
     ELSE closers' = [closers EXCEPT ![c].at = "wait"] /\ UNCHANGED <<once, closed>>
  /\ UNCHANGED <<cfg, boot, open, running, cancelled, closeErr, decoy>>

\* The owner calls it, once it was given the server; main never does.
OwnerCloses(c) == boot = "running" /\ cfg.by = "library" /\ CallClose(c)

afterClose(k) == CASE k = "h3" -> "listener" [] k = "listener" -> "packetConn" [] OTHER -> "done"

\* One close; the first error is kept.
CloseNext(c) ==
  /\ closers[c].at = "do" /\ once # "done"
  /\ open' = open \ {once}
  /\ once' = afterClose(once)
  /\ closeErr' \in {closeErr, IF closeErr = "none" THEN once ELSE closeErr}
  /\ UNCHANGED <<cfg, boot, running, cancelled, closed, closers, decoy>>

\* Mutant of mayReturn: a second caller does not wait.
mayReturnAtOnce(c) == closers[c].at = "wait" \/ once = "done"
mayReturn(c) == once = "done"

CloseReturns(c) ==
  /\ closers[c].at \in {"do", "wait"} /\ mayReturn(c)
  /\ closers' = [closers EXCEPT ![c] = [at |-> "returned", err |-> closeErr]]
  /\ running' = IF c = "watcher" THEN running \ {"watch"} ELSE running
  /\ UNCHANGED <<cfg, boot, open, cancelled, closed, once, closeErr, decoy>>

(* The watcher of the context.                                             *)
WatcherCloses == "watch" \in running /\ cancelled /\ CallClose("watcher")

WatcherExits ==
  /\ "watch" \in running /\ closed /\ closers["watcher"].at = "idle"
  /\ running' = running \ {"watch"}
  /\ UNCHANGED <<cfg, boot, open, cancelled, closing, decoy>>

(* ServeListener returns when its server or its listener is closed.        *)
ServeListenerReturns ==
  /\ "serve" \in running /\ ~({"h3", "listener"} \subseteq open)
  /\ running' = running \ {"serve"}
  /\ UNCHANGED <<cfg, boot, open, cancelled, closing, decoy>>

(* The owner cancels the context, at any time; that of main never is.      *)
Cancel ==
  /\ cfg.by = "library" /\ ~cancelled /\ cancelled' = TRUE
  /\ UNCHANGED <<cfg, boot, open, running, closing, decoy>>

-----------------------------------------------------------------------------
Boot ==
  \/ CheckFlags \/ realservListen \/ deriveServerAuthKeys \/ normalizeServerConfig
  \/ loadServerCertificate \/ NewAuthenticator \/ NewDecoy \/ net_ListenPacket \/ ListenEarly

serveStatus(q) == Copy(q) \/ WriteHeader(q) \/ WriteBody(q)

Close(c) == CloseNext(c) \/ CloseReturns(c)

Watcher == WatcherCloses \/ WatcherExits

Next ==
  \/ Boot \/ RefreshTick \/ RefreshEnds \/ RefreshStops
  \/ \E q \in Requests : Arrive(q) \/ serveStatus(q)
  \/ \E c \in Callers : OwnerCloses(c)
  \/ \E c \in Closers : Close(c)
  \/ Watcher \/ ServeListenerReturns \/ Cancel

(* Goroutines that can run are run, and a fetch has a timeout.  A select   *)
(* with several ready cases picks one at random, so refreshDecoy does not  *)
(* choose its ticker for ever: its way out is strongly fair.               *)
Fairness ==
  /\ WF_vars(Boot) /\ WF_vars(RefreshEnds) /\ SF_vars(RefreshStops)
  /\ WF_vars(Watcher) /\ WF_vars(ServeListenerReturns)
  /\ \A c \in Closers : WF_vars(Close(c))

Spec == Init /\ [][Next]_vars /\ Fairness

-----------------------------------------------------------------------------
(* A start that fails leaves nothing behind: no socket open and no         *)
(* goroutine running (server.go:39-72).  And main reaches its accept loop  *)
(* only with every carrier it was configured for (main.go:124-169).        *)
StartAllOrNothing ==
  /\ boot = "failed" => open = {} /\ running = {}
  /\ boot = "running" /\ cfg.by = "main" =>
       open = {"tcp"} \cup IF cfg.quic THEN {"packetConn", "listener", "h3"} ELSE {}

(* Whoever calls Close, the watcher included, gets its answer only when    *)
(* everything is closed, and all get the same first error                  *)
(* (server.go:120-143).                                                    *)
CloseComplete ==
  \A c \in Closers : closers[c].at = "returned" => open = {} /\ closers[c].err = closeErr

(* A response is made of one page, built in or fetched, that was current   *)
(* while the request was served: its headers, its announced length and its *)
(* body belong together, whatever refreshes come between.  Only listed     *)
(* headers and at most maxDecoyBody bytes get out, the status is 2xx for a *)
(* fetched page and 404 for the built-in one and for every CONNECT         *)
(* (decoy.go:67-105, 128-147).                                             *)
ResponseWhole ==
  \A q \in Requests : requests[q].at \in {"header", "done"} =>
    LET r == requests[q].response IN
    \E page \in requests[q].current, h \in r.header :
      /\ h.page = page
      /\ \A b \in r.body : b.page = page /\ b.len = r.length
      /\ page # 0 => h.names \subseteq SafeHeaders /\ r.length <= maxDecoyBody
      /\ IF page = 0 \/ requests[q].method = "CONNECT" THEN r.status = 404 ELSE r.status \in 200..299

(* Once the server is closed or its context is done, also when that comes  *)
(* during the start, every socket is closed and every goroutine ends       *)
(* (server.go:99-110, 196-211).                                            *)
EverythingEnds == (cancelled \/ closed) ~> (boot \in {"running", "failed"} /\ open = {} /\ running = {})
=============================================================================
