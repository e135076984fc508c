--------------------------- MODULE ServerLifeProofs ---------------------------
(***************************************************************************)
(* Proofs about ServerLife, for any number of callers of Close, requests   *)
(* in flight and size of the decoy's body: a start is all or nothing,      *)
(* Close is complete when it returns, a response is of one page, and there *)
(* always is a way to the end.                                             *)
(*                                                                         *)
(* The invariant is in three parts: what is open in each state of the      *)
(* start and of Close, what the numbers of the configuration are, and what *)
(* each request has of the page it answers with.                           *)
(***************************************************************************)
EXTENDS ServerLife, TLAPS

Wrongs == MainRequires \cup Required \cup {"psk", "key length"}
Errors == {"none", "h3", "listener", "packetConn"}

Config ==
  [by : {"library", "main"}, quic : BOOLEAN, wrong : SUBSET Wrongs, pair : SUBSET Pair,
   EnableUDPRelay : BOOLEAN, number : [Fields -> -1..1]]

\* What the function of closeOnce has not closed yet.
Remaining ==
  CASE once = "listener" -> {"listener", "packetConn"}
    [] once = "packetConn" -> {"packetConn"}
    [] once = "done" -> {}
    [] OTHER -> {"h3", "listener", "packetConn"}

TCP == IF cfg.by = "main" THEN {"tcp"} ELSE {}

Starting == {"config", "certificate", "authenticator", "decoy", "packetConn"}

States == Starting \cup {"flags", "tcp", "psk", "listener", "running", "failed"}

\* What is open in each state of the start, and after it.
OpenInv ==
  /\ boot \in {"flags", "tcp"} => cfg.by = "main" /\ open = {}
  /\ boot = "psk" => cfg.by = "main" /\ cfg.quic /\ open = {"tcp"}
  /\ boot \in Starting => cfg.quic /\ open = TCP
  /\ boot = "listener" => cfg.quic /\ open = TCP \cup {"packetConn"}
  /\ boot = "running" => open = TCP \cup IF cfg.quic THEN Remaining ELSE {}
  /\ boot = "failed" => open = {}

\* Nobody closes the server before it runs, nor that of main.
CloseInv ==
  /\ boot # "running" \/ ~cfg.quic => running = {}
  /\ once = "new" => \A c \in Closers : closers[c].at = "idle"
  /\ once # "new" => boot = "running" /\ cfg.by = "library"
  /\ cfg.by = "main" => ~cancelled
  /\ cfg.by = "library" => cfg.quic
  /\ \A c \in Closers : closers[c].at = "returned" => once = "done" /\ closers[c].err = closeErr

\* The fields that have their defaults, from normalizeServerConfig on and from
\* NewLimiter on.
NumberInv ==
  /\ boot \in (Starting \ {"config"}) \cup {"listener"} =>
       \A f \in defaulted(cfg) : cfg.number[f] > 0
  /\ running # {} => \A f \in LimitFields \cup defaulted(cfg) : cfg.number[f] > 0

StartInv ==
  /\ cfg \in Config
  /\ boot \in States
  /\ running \subseteq {"serve", "refresh", "watch"}
  /\ cancelled \in BOOLEAN /\ closed \in BOOLEAN
  /\ once \in {"new", "h3", "listener", "packetConn", "done"}
  /\ closeErr \in Errors
  /\ closers \in [Closers -> [at : {"idle", "do", "wait", "returned"}, err : Errors]]
  /\ OpenInv /\ CloseInv /\ NumberInv

-----------------------------------------------------------------------------
Snapshots == {BuiltIn} \cup {sanitizeDecoySnapshot(fetched(p)) : p \in Pages}

Answer == [status : Nat, header : SUBSET {s.header : s \in Snapshots}, length : Nat,
           body : SUBSET {s.body : s \in Snapshots}]
Request ==
  [at : {"new", "arrived", "copied", "header", "done"}, method : {"GET", "HEAD", "CONNECT"},
   copy : Snapshots, response : Answer, current : SUBSET (0..2)]

\* What ResponseWhole says of one request.
Whole(r) ==
  \E page \in r.current, h \in r.response.header :
    /\ h.page = page
    /\ \A b \in r.response.body : b.page = page /\ b.len = r.response.length
    /\ page # 0 => h.names \subseteq SafeHeaders /\ r.response.length <= maxDecoyBody
    /\ IF page = 0 \/ r.method = "CONNECT" THEN r.response.status = 404
       ELSE r.response.status \in 200..299

\* The copy of a request is of a page that is or was current, and its response
\* is made from the copy.
Served(r, s) ==
  /\ r \in Request
  /\ r.at \in {"arrived", "copied", "header"} => s.header.page \in r.current
  /\ r.at \in {"copied", "header"} => r.copy.header.page \in r.current
  /\ r.at # "done" => r.response.body = {}
  /\ r.at = "header" =>
       /\ r.response.status = IF r.method = "CONNECT" THEN 404 ELSE r.copy.status
       /\ r.response.header = {r.copy.header} /\ r.response.length = r.copy.body.len
  /\ r.at = "done" => Whole(r)

DecoyInv ==
  /\ fetching \in BOOLEAN /\ snapshot \in Snapshots
  /\ requests \in [Requests -> Request]
  /\ \A q \in Requests : Served(requests[q], snapshot)

IInv == StartInv /\ DecoyInv

-----------------------------------------------------------------------------
\* A step of the start opens or fails, and does nothing else.
LEMMA BootMoves ==
  ASSUME StartInv, boot # "running", UNCHANGED <<running, cancelled, closing>>,
         cfg' \in Config, cfg'.by = cfg.by, cfg'.quic = cfg.quic,
         boot' \in States, OpenInv',
         boot' \in (Starting \ {"config"}) \cup {"listener"} =>
           \A f \in defaulted(cfg') : cfg'.number[f] > 0
  PROVE  StartInv'
<1>1. running = {} /\ once = "new"
  BY DEF StartInv, CloseInv
<1>2. UNCHANGED <<running, cancelled, closed, once, closeErr, closers>>
  BY DEF closing
<1>3. CloseInv'
  BY <1>1, <1>2 DEF StartInv, CloseInv
<1>4. NumberInv'
  BY <1>1, <1>2 DEF NumberInv, defaulted
<1> QED
  BY <1>2, <1>3, <1>4 DEF StartInv

\* A start that fails leaves nothing open: main exits, and another caller had
\* nothing open yet.
LEMMA BootFails ==
  ASSUME StartInv, boot # "running", UNCHANGED <<running, cancelled, closing>>,
         cfg' \in Config, cfg'.by = cfg.by, cfg'.quic = cfg.quic,
         NEW left, left = {} \/ cfg.by = "main", Fails(left)
  PROVE  StartInv'
<1>1. boot' = "failed" /\ open' = {}
  BY DEF Fails
<1>2. boot' \in States /\ boot' \notin Starting \cup {"listener"}
  BY <1>1 DEF States, Starting
<1>3. OpenInv'
  BY <1>1, <1>2 DEF OpenInv
<1> QED
  BY <1>2, <1>3, BootMoves

\* CheckFlags, realservListen and deriveServerAuthKeys of main.
LEMMA MainKeeps ==
  ASSUME StartInv, CheckFlags \/ realservListen \/ deriveServerAuthKeys
  PROVE  StartInv'
<1>1. UNCHANGED <<cfg, running, cancelled, closing>> /\ cfg \in Config
  BY DEF StartInv, CheckFlags, realservListen, deriveServerAuthKeys, BootStep
<1>2. boot \in {"flags", "tcp", "psk"} /\ cfg.by = "main"
  BY DEF StartInv, OpenInv, CheckFlags, realservListen, deriveServerAuthKeys, BootStep
<1>3. CASE Fails(open)
  BY <1>1, <1>2, <1>3, BootFails
<1>4. CASE ~Fails(open)
  <2>1. \/ boot = "flags" /\ boot' = "tcp" /\ open' = open
        \/ boot = "tcp" /\ boot' = (IF cfg.quic THEN "psk" ELSE "running") /\ open' = open \cup {"tcp"}
        \/ boot = "psk" /\ boot' = "config" /\ open' = open
    BY <1>4 DEF CheckFlags, realservListen, deriveServerAuthKeys, BootStep
  <2>2. OpenInv'
    BY <1>1, <1>2, <2>1 DEF StartInv, OpenInv, TCP, Starting
  <2>3. boot' \in States /\ boot' \notin (Starting \ {"config"}) \cup {"listener"}
    BY <2>1 DEF States, Starting
  <2> QED
    BY <1>1, <1>2, <2>2, <2>3, BootMoves
<1> QED
  BY <1>3, <1>4

\* The defaults of some fields: they are positive then, the others stay.
LEMMA DefaultsFacts ==
  ASSUME NEW c \in Config, NEW fs
  PROVE  LET d == WithDefaults(c, fs) IN
         /\ d \in Config /\ d.by = c.by /\ d.quic = c.quic /\ defaulted(d) = defaulted(c)
         /\ \A f \in Fields : d.number[f] = IF f \in fs /\ c.number[f] <= 0 THEN 1 ELSE c.number[f]
<1> DEFINE g == [f \in Fields |-> IF f \in fs /\ c.number[f] <= 0 THEN 1 ELSE c.number[f]]
           d == [c EXCEPT !.number = g]
<1>1. WithDefaults(c, fs) = d
  BY DEF WithDefaults, Config
<1>2. c.number \in [Fields -> -1..1]
  BY DEF Config
<1>3. g \in [Fields -> -1..1]
  BY <1>2
<1>4. \A f \in Fields : g[f] = IF f \in fs /\ c.number[f] <= 0 THEN 1 ELSE c.number[f]
  OBVIOUS
<1> HIDE DEF g
<1>5. d \in Config /\ d.by = c.by /\ d.quic = c.quic /\ d.EnableUDPRelay = c.EnableUDPRelay /\ d.number = g
  BY <1>3 DEF Config
<1> HIDE DEF d
<1> QED
  BY <1>1, <1>4, <1>5 DEF defaulted

\* A library's start has nothing open before it listens, and main exits.
LEMMA StartingFails ==
  ASSUME StartInv, boot \in Starting
  PROVE  (open = {} \/ cfg.by = "main") /\ boot # "running" /\ cfg \in Config /\ cfg.quic /\ open = TCP
BY DEF StartInv, OpenInv, TCP, Starting, Config

\* normalizeServerConfig (config.go:59-122).
LEMMA NormalizeKeeps ==
  ASSUME StartInv, normalizeServerConfig
  PROVE  StartInv'
<1> DEFINE d == WithDefaults(cfg, defaulted(cfg))
<1>1. boot = "config" /\ UNCHANGED <<running, cancelled, closing>> /\ cfg' = d
  BY DEF normalizeServerConfig, BootStep
<1>2. (open = {} \/ cfg.by = "main") /\ boot # "running" /\ cfg \in Config /\ cfg.quic /\ open = TCP
  BY <1>1, StartingFails DEF Starting
<1>3. defaulted(cfg) \subseteq Fields
  BY DEF defaulted, Fields
<1>4. /\ d \in Config /\ d.by = cfg.by /\ d.quic = cfg.quic /\ defaulted(d) = defaulted(cfg)
      /\ \A f \in Fields :
           d.number[f] = IF f \in defaulted(cfg) /\ cfg.number[f] <= 0 THEN 1 ELSE cfg.number[f]
  BY <1>2, DefaultsFacts
<1>5. \A f \in defaulted(d) : d.number[f] > 0
  <2>1. cfg.number \in [Fields -> -1..1]
    BY <1>2 DEF Config
  <2> QED
    BY <1>3, <1>4, <2>1
<1> HIDE DEF d
<1>6. CASE Fails(open)
  BY <1>1, <1>2, <1>4, <1>6, BootFails
<1>7. CASE ~Fails(open)
  <2>1. boot' = "certificate" /\ open' = open
    BY <1>7 DEF normalizeServerConfig, BootStep
  <2>2. boot' \in States /\ OpenInv'
    BY <1>1, <1>2, <1>4, <2>1 DEF OpenInv, TCP, States, Starting
  <2> QED
    BY <1>1, <1>2, <1>4, <1>5, <2>2, BootMoves
<1> QED
  BY <1>6, <1>7

\* The steps between, up to the socket: loadServerCertificate, NewAuthenticator
\* and NewDecoy.
LEMMA PrepareKeeps ==
  ASSUME StartInv, loadServerCertificate \/ NewAuthenticator \/ NewDecoy
  PROVE  StartInv'
<1>1. /\ boot \in {"certificate", "authenticator", "decoy"}
      /\ UNCHANGED <<running, cancelled, closing>>
      /\ cfg' = cfg \/ cfg' = [cfg EXCEPT !.pair = {}]
  BY DEF loadServerCertificate, NewAuthenticator, NewDecoy, BootStep
<1>2. (open = {} \/ cfg.by = "main") /\ boot # "running" /\ cfg \in Config /\ cfg.quic /\ open = TCP
  BY <1>1, StartingFails DEF Starting
<1>3. /\ cfg' \in Config /\ cfg'.by = cfg.by /\ cfg'.quic = cfg.quic
      /\ cfg'.EnableUDPRelay = cfg.EnableUDPRelay /\ cfg'.number = cfg.number
  BY <1>1, <1>2 DEF Config
<1>4. \A f \in defaulted(cfg') : cfg'.number[f] > 0
  BY <1>1, <1>3 DEF StartInv, NumberInv, Starting, defaulted
<1>5. CASE Fails(open)
  BY <1>1, <1>2, <1>3, <1>5, BootFails
<1>6. CASE ~Fails(open)
  <2>1. boot' \in {"authenticator", "decoy", "packetConn"} /\ open' = open
    BY <1>6 DEF loadServerCertificate, NewAuthenticator, NewDecoy, BootStep
  <2>2. boot' \in States /\ OpenInv'
    BY <1>1, <1>2, <1>3, <2>1 DEF OpenInv, TCP, States, Starting
  <2> QED
    BY <1>1, <1>2, <1>3, <1>4, <2>2, BootMoves
<1> QED
  BY <1>5, <1>6

\* net.ListenPacket (server.go:63-66).
LEMMA ListenPacketKeeps ==
  ASSUME StartInv, net_ListenPacket
  PROVE  StartInv'
<1>1. boot = "packetConn" /\ UNCHANGED <<cfg, running, cancelled, closing>>
  BY DEF net_ListenPacket
<1>2. (open = {} \/ cfg.by = "main") /\ boot # "running" /\ cfg \in Config /\ cfg.quic /\ open = TCP
  BY <1>1, StartingFails DEF Starting
<1>3. CASE Fails(open)
  BY <1>1, <1>2, <1>3, BootFails
<1>4. CASE ~Fails(open)
  <2>1. boot' = "listener" /\ open' = open \cup {"packetConn"}
    BY <1>4 DEF net_ListenPacket
  <2>2. boot' \in States /\ OpenInv'
    BY <1>1, <1>2, <2>1 DEF OpenInv, TCP, States, Starting
  <2>3. \A f \in defaulted(cfg') : cfg'.number[f] > 0
    BY <1>1 DEF StartInv, NumberInv, Starting
  <2> QED
    BY <1>1, <1>2, <2>2, <2>3, BootMoves
<1> QED
  BY <1>3, <1>4

\* ListenEarly: the socket is closed again when it fails; else the goroutines
\* start, with all numbers positive (server.go:67-111).
LEMMA ListenEarlyKeeps ==
  ASSUME StartInv, ListenEarly
  PROVE  StartInv'
<1>1. boot = "listener" /\ UNCHANGED <<cancelled, closing>>
  BY DEF ListenEarly
<1>2. cfg \in Config /\ cfg.quic /\ open = TCP \cup {"packetConn"} /\ once = "new" /\ running = {}
  BY <1>1 DEF StartInv, OpenInv, CloseInv
<1>3. CASE Fails(afterListenEarly) /\ UNCHANGED <<cfg, running>>
  <2>1. afterListenEarly = {} \/ cfg.by = "main"
    BY <1>2 DEF afterListenEarly, TCP
  <2> QED
    BY <1>1, <1>2, <1>3, <2>1, BootFails
<1>4. CASE /\ boot' = "running" /\ open' = open \cup {"listener", "h3"}
           /\ running' = {"serve", "refresh", "watch"} /\ cfg' = NewLimiter(cfg)
  <2> DEFINE d == WithDefaults(cfg, LimitFields)
  <2>1. cfg' = d
    BY <1>4 DEF NewLimiter
  <2>2. /\ d \in Config /\ d.by = cfg.by /\ d.quic = cfg.quic /\ defaulted(d) = defaulted(cfg)
        /\ \A f \in Fields :
             d.number[f] = IF f \in LimitFields /\ cfg.number[f] <= 0 THEN 1 ELSE cfg.number[f]
    BY <1>2, DefaultsFacts
  <2> HIDE DEF d
  <2>3. \A f \in defaulted(cfg) : f \in Fields /\ cfg.number[f] > 0
    BY <1>1 DEF StartInv, NumberInv, defaulted, Fields
  <2>4. LimitFields \subseteq Fields
    BY DEF Fields
  <2>5. \A f \in LimitFields \cup defaulted(d) : d.number[f] > 0
    <3>1. cfg.number \in [Fields -> -1..1]
      BY <1>2 DEF Config
    <3> QED
      BY <2>2, <2>3, <2>4, <3>1
  <2>6. UNCHANGED <<cancelled, closed, once, closeErr, closers>>
    BY <1>1 DEF closing
  <2>7. NumberInv'
    BY <1>4, <2>1, <2>5 DEF NumberInv, Starting
  <2>8. CloseInv'
    BY <1>2, <1>4, <2>1, <2>2, <2>6 DEF StartInv, CloseInv
  <2>9. OpenInv'
    BY <1>2, <1>4, <2>1, <2>2, <2>6 DEF OpenInv, TCP, Remaining, Starting
  <2>10. boot' \in States /\ running' \subseteq {"serve", "refresh", "watch"}
    BY <1>4 DEF States
  <2> QED
    BY <2>1, <2>2, <2>6, <2>7, <2>8, <2>9, <2>10 DEF StartInv
<1> QED
  BY <1>3, <1>4 DEF ListenEarly

-----------------------------------------------------------------------------
\* A step that only touches the decoy and its requests.
LEMMA StartRests ==
  ASSUME StartInv, UNCHANGED <<cfg, boot, open, running, cancelled, closing>>
  PROVE  StartInv'
<1>1. UNCHANGED <<cfg, boot, open, running, cancelled, closed, once, closeErr, closers>>
  BY DEF closing
<1>2. OpenInv' /\ CloseInv' /\ NumberInv'
  BY <1>1 DEF StartInv, OpenInv, CloseInv, NumberInv, Remaining, TCP, defaulted
<1> QED
  BY <1>1, <1>2 DEF StartInv

\* A goroutine of the server ends: refreshDecoy, the watcher, ServeListener.
LEMMA GoroutineEnds ==
  ASSUME StartInv, running' \subseteq running, UNCHANGED <<cfg, boot, open, cancelled, closing>>
  PROVE  StartInv'
<1>1. UNCHANGED <<cfg, boot, open, cancelled, closed, once, closeErr, closers>>
  BY DEF closing
<1>2. OpenInv' /\ CloseInv' /\ NumberInv'
  BY <1>1 DEF StartInv, OpenInv, CloseInv, NumberInv, Remaining, TCP, defaulted
<1> QED
  BY <1>1, <1>2 DEF StartInv

\* The owner of the context cancels it.
LEMMA CancelKeeps ==
  ASSUME StartInv, Cancel
  PROVE  StartInv'
<1>1. /\ cfg.by = "library" /\ cancelled' = TRUE
      /\ UNCHANGED <<cfg, boot, open, running, closed, once, closeErr, closers>>
  BY DEF Cancel, closing
<1>2. OpenInv' /\ CloseInv' /\ NumberInv'
  BY <1>1 DEF StartInv, OpenInv, CloseInv, NumberInv, Remaining, TCP, defaulted
<1> QED
  BY <1>1, <1>2 DEF StartInv

\* A call of Close of a running server that is not main's: the first caller
\* takes the once, the others wait (server.go:120-125).
LEMMA CallCloseKeeps ==
  ASSUME StartInv, NEW c \in Closers, boot = "running", cfg.by = "library", CallClose(c)
  PROVE  StartInv'
<1>1. /\ UNCHANGED <<cfg, boot, open, running, cancelled, closeErr>>
      /\ closers \in [Closers -> [at : {"idle", "do", "wait", "returned"}, err : Errors]]
      /\ closers[c].at = "idle"
  BY DEF CallClose, StartInv
<1>2. PICK to \in {"do", "wait"} :
        /\ closers' = [closers EXCEPT ![c].at = to]
        /\ \/ once = "new" /\ once' = "h3" /\ closed' = TRUE
           \/ once # "new" /\ UNCHANGED <<once, closed>>
  BY <1>1 DEF CallClose
<1>3. closers' \in [Closers -> [at : {"idle", "do", "wait", "returned"}, err : Errors]]
  BY <1>1, <1>2
<1>4. \A k \in Closers : closers'[k].at = "returned" => closers'[k] = closers[k]
  BY <1>1, <1>2
<1>5. CloseInv'
  <2>1. \A k \in Closers : closers[k].at = "returned" => once = "done" /\ closers[k].err = closeErr
    BY DEF StartInv, CloseInv
  <2>2. \A k \in Closers : closers'[k].at = "returned" => once' = "done" /\ closers'[k].err = closeErr'
    BY <1>1, <1>2, <1>4, <2>1
  <2>3. once' # "new"
    BY <1>2
  <2> QED
    BY <1>1, <2>2, <2>3 DEF StartInv, CloseInv
<1>6. OpenInv'
  <2>1. Remaining' = Remaining
    BY <1>2 DEF Remaining
  <2> QED
    BY <1>1, <2>1 DEF StartInv, OpenInv, TCP
<1>7. NumberInv'
  BY <1>1 DEF StartInv, NumberInv, defaulted
<1>8. closed' \in BOOLEAN /\ once' \in {"new", "h3", "listener", "packetConn", "done"}
  BY <1>2 DEF StartInv
<1> QED
  BY <1>1, <1>3, <1>5, <1>6, <1>7, <1>8 DEF StartInv

\* One close of the function of closeOnce (server.go:126-140).
LEMMA CloseNextKeeps ==
  ASSUME StartInv, NEW c \in Closers, CloseNext(c)
  PROVE  StartInv'
<1>1. /\ UNCHANGED <<cfg, boot, running, cancelled, closed, closers>>
      /\ closers[c].at = "do" /\ once # "done"
      /\ open' = open \ {once} /\ once' = afterClose(once)
      /\ closeErr' \in {closeErr, once}
  BY DEF CloseNext
<1>2. once \in {"h3", "listener", "packetConn"} /\ boot = "running" /\ cfg.by = "library" /\ cfg.quic
  BY <1>1 DEF StartInv, CloseInv
<1>3. once' \in {"listener", "packetConn", "done"} /\ once' # "new"
  BY <1>1, <1>2 DEF afterClose
<1>4. open' = Remaining' /\ TCP' = {}
  BY <1>1, <1>2 DEF StartInv, OpenInv, TCP, Remaining, afterClose
<1>5. OpenInv'
  BY <1>1, <1>2, <1>4 DEF OpenInv, Starting
<1>6. CloseInv'
  BY <1>1, <1>2, <1>3 DEF StartInv, CloseInv
<1>7. NumberInv'
  BY <1>1 DEF StartInv, NumberInv, defaulted
<1>8. closeErr' \in Errors
  BY <1>1, <1>2 DEF StartInv, Errors
<1> QED
  BY <1>1, <1>3, <1>5, <1>6, <1>7, <1>8 DEF StartInv

\* Close returns, when its function is done (server.go:141-143).
LEMMA CloseReturnsKeeps ==
  ASSUME StartInv, NEW c \in Closers, CloseReturns(c)
  PROVE  StartInv'
<1>1. /\ UNCHANGED <<cfg, boot, open, cancelled, closed, once, closeErr>>
      /\ once = "done" /\ running' \subseteq running
      /\ closers' = [closers EXCEPT ![c] = [at |-> "returned", err |-> closeErr]]
  BY DEF CloseReturns, mayReturn
<1>2. /\ closers \in [Closers -> [at : {"idle", "do", "wait", "returned"}, err : Errors]]
      /\ closeErr \in Errors
  BY DEF StartInv
<1>3. closers' \in [Closers -> [at : {"idle", "do", "wait", "returned"}, err : Errors]]
  BY <1>1, <1>2
<1>4. \A k \in Closers : closers'[k].at = "returned" => closers'[k].err = closeErr
  BY <1>1, <1>2 DEF StartInv, CloseInv
<1>5. CloseInv'
  BY <1>1, <1>4 DEF StartInv, CloseInv
<1>6. OpenInv' /\ NumberInv'
  BY <1>1 DEF StartInv, OpenInv, NumberInv, Remaining, TCP, defaulted
<1> QED
  BY <1>1, <1>3, <1>5, <1>6 DEF StartInv

\* Every step keeps the part of the invariant that is about start and close.
LEMMA StartNext ==
  ASSUME StartInv, [Next]_vars
  PROVE  StartInv'
<1>1. CASE UNCHANGED vars
  BY <1>1, StartRests DEF vars, closing
<1>2. CASE Boot
  BY <1>2, MainKeeps, NormalizeKeeps, PrepareKeeps, ListenPacketKeeps, ListenEarlyKeeps DEF Boot
<1>3. CASE RefreshTick \/ RefreshEnds
  BY <1>3, StartRests DEF RefreshTick, RefreshEnds
<1>4. CASE RefreshStops \/ ServeListenerReturns \/ WatcherExits
  <2>1. running' \subseteq running /\ UNCHANGED <<cfg, boot, open, cancelled, closing>>
    BY <1>4 DEF RefreshStops, ServeListenerReturns, WatcherExits
  <2> QED
    BY <2>1, GoroutineEnds
<1>5. ASSUME NEW q \in Requests, Arrive(q) \/ serveStatus(q) PROVE StartInv'
  BY <1>5, StartRests DEF Arrive, serveStatus, Copy, WriteHeader, WriteBody
<1>6. ASSUME NEW c \in Callers, OwnerCloses(c) PROVE StartInv'
  BY <1>6, CallCloseKeeps DEF OwnerCloses, Closers
<1>7. ASSUME NEW c \in Closers, Close(c) PROVE StartInv'
  BY <1>7, CloseNextKeeps, CloseReturnsKeeps DEF Close
<1>8. CASE WatcherCloses
  <2>1. cancelled /\ running # {} /\ CallClose("watcher") /\ "watcher" \in Closers
    BY <1>8 DEF WatcherCloses, Closers
  <2>2. boot = "running" /\ cfg.by = "library"
    BY <2>1 DEF StartInv, CloseInv, Config
  <2> QED
    BY <2>1, <2>2, CallCloseKeeps
<1>9. CASE Cancel
  BY <1>9, CancelKeeps
<1> QED
  BY <1>1, <1>2, <1>3, <1>4, <1>5, <1>6, <1>7, <1>8, <1>9 DEF Next, Watcher

-----------------------------------------------------------------------------
\* A snapshot, built in or sanitised, is of one page, and what was fetched is
\* sanitised (decoy.go:56-64, 107-147).
LEMMA SnapshotFacts ==
  ASSUME NEW s \in Snapshots
  PROVE  /\ s.header.page \in 0..2 /\ s.body.page = s.header.page
         /\ s.status \in Nat /\ s.body.len \in Nat
         /\ s.header.page = 0 => s.status = 404
         /\ s.header.page # 0 => /\ s.status \in 200..299
                                 /\ s.header.names \subseteq SafeHeaders
                                 /\ s.body.len <= maxDecoyBody
<1>1. CASE s = BuiltIn
  BY <1>1 DEF BuiltIn
<1>2. ASSUME NEW p \in Pages, s = sanitizeDecoySnapshot(fetched(p))
      PROVE  /\ s.header.page = p.page /\ s.body.page = p.page
             /\ s.header.names = p.header \cap SafeHeaders
             /\ s.body.len = atMost(atMost(p.len, maxDecoyBody + 1), maxDecoyBody)
             /\ s.status = IF p.status \in 200..299 THEN p.status ELSE 200
  BY <1>2 DEF sanitizeDecoySnapshot, fetched
<1>3. ASSUME NEW p \in Pages
      PROVE  /\ p.page \in 1..2 /\ p.status \in Nat
             /\ atMost(atMost(p.len, maxDecoyBody + 1), maxDecoyBody) \in 0..maxDecoyBody
  <2>1. CASE p = [page |-> 1, status |-> 204, header |-> {"ETag"}, len |-> 0]
    BY <2>1, LifeAssumption DEF atMost
  <2>2. CASE p = [page |-> 2, status |-> 503, header |-> {"ETag", "Set-Cookie", "Vary: a CR LF b"},
                  len |-> maxDecoyBody + 2]
    <3>1. p.page = 2 /\ p.status = 503 /\ p.len = maxDecoyBody + 2
      BY <2>2
    <3>2. atMost(maxDecoyBody + 2, maxDecoyBody + 1) = maxDecoyBody + 1
      BY LifeAssumption DEF atMost
    <3>3. atMost(maxDecoyBody + 1, maxDecoyBody) = maxDecoyBody
      BY LifeAssumption DEF atMost
    <3> QED
      BY <3>1, <3>2, <3>3, LifeAssumption
  <2> QED
    BY <2>1, <2>2, Zenon DEF Pages
<1>4. CASE \E p \in Pages : s = sanitizeDecoySnapshot(fetched(p))
  <2>1. PICK p \in Pages : s = sanitizeDecoySnapshot(fetched(p))
    BY <1>4
  <2> QED
    BY <1>2, <1>3, <2>1, LifeAssumption
<1> QED
  BY <1>1, <1>4 DEF Snapshots

\* A refresh adds its page to those that are current for the requests that are
\* being served, and changes nothing else of them (decoy.go:67-77).
LEMMA RefreshServes ==
  ASSUME NEW r, NEW s \in Snapshots, NEW t \in Snapshots, Served(r, s)
  PROVE  Served(IF r.at \in {"new", "done"} THEN r
                ELSE [r EXCEPT !.current = r.current \cup {t.header.page}], t)
<1> DEFINE d == [r EXCEPT !.current = r.current \cup {t.header.page}]
<1>1. CASE r.at \in {"new", "done"}
  BY <1>1 DEF Served
<1>2. CASE r.at \notin {"new", "done"}
  <2>1. r \in Request /\ t.header.page \in 0..2
    BY SnapshotFacts DEF Served
  <2>2. /\ d \in Request /\ d.at = r.at /\ d.method = r.method /\ d.copy = r.copy
        /\ d.response = r.response /\ d.current = r.current \cup {t.header.page}
    BY <2>1 DEF Request
  <2> HIDE DEF d
  <2>3. Served(d, t)
    BY <1>2, <2>2 DEF Served
  <2> QED
    BY <1>2, <2>3 DEF d
<1> QED
  BY <1>1, <1>2

\* A request takes its copy of the page that is current (decoy.go:84-90).
LEMMA CopyServes ==
  ASSUME NEW r, NEW s \in Snapshots, Served(r, s), r.at = "arrived"
  PROVE  Served([r EXCEPT !.at = "copied", !.copy = s], s)
<1> DEFINE d == [r EXCEPT !.at = "copied", !.copy = s]
<1>1. r \in Request /\ s.header.page \in r.current /\ r.response.body = {}
  BY DEF Served
<1>2. /\ d \in Request /\ d.at = "copied" /\ d.copy = s
      /\ d.response = r.response /\ d.current = r.current
  BY <1>1 DEF Request
<1> HIDE DEF d
<1>3. Served(d, s)
  BY <1>1, <1>2 DEF Served
<1> QED
  BY <1>3 DEF d

\* A request arrives while some page is current.
LEMMA ArriveServes ==
  ASSUME NEW r, NEW s \in Snapshots, Served(r, s), r.at = "new"
  PROVE  Served([r EXCEPT !.at = "arrived", !.current = {s.header.page}], s)
<1> DEFINE d == [r EXCEPT !.at = "arrived", !.current = {s.header.page}]
<1>1. r \in Request /\ s.header.page \in 0..2 /\ r.response.body = {}
  BY SnapshotFacts DEF Served
<1>2. /\ d \in Request /\ d.at = "arrived"
      /\ d.response = r.response /\ d.current = {s.header.page}
  BY <1>1 DEF Request
<1> HIDE DEF d
<1>3. Served(d, s)
  BY <1>1, <1>2 DEF Served
<1> QED
  BY <1>3 DEF d

\* A request after its WriteHeader.
Announced(r, m) ==
  [r EXCEPT !.at = "header", !.method = m,
     !.response = [r.response EXCEPT !.header = {r.copy.header}, !.length = r.copy.body.len,
                                     !.status = IF m = "CONNECT" THEN 404 ELSE r.copy.status]]

\* Headers, announced length and status come from the copy (decoy.go:91-101).
LEMMA HeaderServes ==
  ASSUME NEW r, NEW s \in Snapshots, Served(r, s), r.at = "copied",
         NEW m \in {"GET", "HEAD", "CONNECT"}
  PROVE  Served(Announced(r, m), s)
<1> DEFINE a == [r.response EXCEPT !.header = {r.copy.header}, !.length = r.copy.body.len,
                                   !.status = IF m = "CONNECT" THEN 404 ELSE r.copy.status]
           d == [r EXCEPT !.at = "header", !.method = m, !.response = a]
<1>1. /\ r \in Request /\ s.header.page \in r.current /\ r.copy.header.page \in r.current
      /\ r.response.body = {}
  BY DEF Served
<1>2. r.copy \in Snapshots /\ r.response \in Answer
  BY <1>1 DEF Request
<1>3. r.copy.status \in Nat /\ r.copy.body.len \in Nat
  BY <1>2, SnapshotFacts
<1>4. /\ a \in Answer /\ a.body = {} /\ a.header = {r.copy.header} /\ a.length = r.copy.body.len
      /\ a.status = IF m = "CONNECT" THEN 404 ELSE r.copy.status
  <2> DEFINE st == IF m = "CONNECT" THEN 404 ELSE r.copy.status
             hs == {r.copy.header}
             n == r.copy.body.len
  <2>1. st \in Nat /\ hs \in SUBSET {x.header : x \in Snapshots} /\ n \in Nat
    BY <1>2, <1>3
  <2> HIDE DEF st, hs, n
  <2>2. [r.response EXCEPT !.header = hs, !.length = n, !.status = st] \in Answer
    BY <1>2, <2>1 DEF Answer
  <2>3. /\ a.header = {r.copy.header} /\ a.length = r.copy.body.len /\ a.body = {}
        /\ a.status = IF m = "CONNECT" THEN 404 ELSE r.copy.status
    BY <1>1, <1>2 DEF Answer
  <2> QED
    BY <2>2, <2>3 DEF st, hs, n
<1> HIDE DEF a
<1>5. /\ d \in Request /\ d.at = "header" /\ d.method = m /\ d.copy = r.copy
      /\ d.response = a /\ d.current = r.current
  <2>1. a \in Answer
    BY <1>4
  <2>2. d \in Request
    BY <1>1, <2>1 DEF Request
  <2> QED
    BY <1>1, <2>2 DEF Request
<1> HIDE DEF d
<1>6. Served(d, s)
  BY <1>1, <1>4, <1>5 DEF Served
<1> QED
  BY <1>6 DEF d, a, Announced

\* What is announced is of one page.
LEMMA HeaderWhole ==
  ASSUME NEW r, NEW s \in Snapshots, Served(r, s), r.at = "header"
  PROVE  Whole(r)
<1> DEFINE page == r.copy.header.page
           h == r.copy.header
<1>1. r \in Request /\ r.copy \in Snapshots /\ page \in r.current /\ r.response.body = {}
  BY DEF Served, Request
<1>2. /\ r.response.status = (IF r.method = "CONNECT" THEN 404 ELSE r.copy.status)
      /\ r.response.header = {h} /\ r.response.length = r.copy.body.len
  BY DEF Served
<1>3. page # 0 => h.names \subseteq SafeHeaders /\ r.response.length <= maxDecoyBody
  BY <1>1, <1>2, SnapshotFacts
<1>4. (page = 0 => r.copy.status = 404) /\ (page # 0 => r.copy.status \in 200..299)
  BY <1>1, SnapshotFacts
<1>5. IF page = 0 \/ r.method = "CONNECT" THEN r.response.status = 404
      ELSE r.response.status \in 200..299
  BY <1>2, <1>4
<1>6. page \in r.current /\ h \in r.response.header /\ h.page = page
  BY <1>1, <1>2
<1> HIDE DEF page, h
<1>7. \A b \in r.response.body : b.page = page /\ b.len = r.response.length
  BY <1>1, Zenon
<1> QED
  BY <1>3, <1>5, <1>6, <1>7, Zenon DEF Whole

\* The body comes from the copy too, so that the response is of one page
\* (decoy.go:102-104).
LEMMA BodyServes ==
  ASSUME NEW r, NEW s \in Snapshots, Served(r, s), r.at = "header", NEW b,
         b = {} \/ b = {r.copy.body}
  PROVE  Served([r EXCEPT !.at = "done", !.copy = BuiltIn, !.response.body = b], s)
<1> DEFINE a == [r.response EXCEPT !.body = b]
           d == [r EXCEPT !.at = "done", !.copy = BuiltIn, !.response = a]
<1>1. /\ r \in Request /\ r.copy.header.page \in r.current /\ r.copy \in Snapshots
      /\ r.response \in Answer /\ BuiltIn \in Snapshots
  BY DEF Served, Request, Snapshots
<1>2. /\ r.response.status = (IF r.method = "CONNECT" THEN 404 ELSE r.copy.status)
      /\ r.response.header = {r.copy.header} /\ r.response.length = r.copy.body.len
  BY DEF Served
<1>3. /\ a \in Answer /\ a.status = r.response.status /\ a.header = r.response.header
      /\ a.length = r.response.length /\ a.body = b
  BY <1>1 DEF Answer
<1>4. [r EXCEPT !.at = "done", !.copy = BuiltIn, !.response.body = b] = d
  BY <1>1 DEF Request
<1> HIDE DEF a
<1>5. /\ d \in Request /\ d.at = "done" /\ d.method = r.method
      /\ d.response = a /\ d.current = r.current
  BY <1>1, <1>3 DEF Request
<1> HIDE DEF d
<1>6. Whole(d)
  <2> DEFINE page == r.copy.header.page
             h == r.copy.header
  <2>1. page \in d.current /\ h \in d.response.header /\ h.page = page
    BY <1>1, <1>2, <1>3, <1>5
  <2>2. \A x \in d.response.body : x.page = page /\ x.len = d.response.length
    BY <1>1, <1>2, <1>3, <1>5, SnapshotFacts
  <2>3. page # 0 => h.names \subseteq SafeHeaders /\ d.response.length <= maxDecoyBody
    BY <1>1, <1>2, <1>3, <1>5, SnapshotFacts
  <2>4. IF page = 0 \/ d.method = "CONNECT" THEN d.response.status = 404
        ELSE d.response.status \in 200..299
    <3>1. CASE r.method = "CONNECT"
      <4>1. d.method = "CONNECT" /\ d.response.status = 404
        BY <1>2, <1>3, <1>5, <3>1
      <4> QED
        BY <4>1
    <3>2. CASE r.method # "CONNECT"
      <4>1. d.method # "CONNECT" /\ d.response.status = r.copy.status
        BY <1>2, <1>3, <1>5, <3>2
      <4>2. (page = 0 => r.copy.status = 404) /\ (page # 0 => r.copy.status \in 200..299)
        BY <1>1, SnapshotFacts
      <4> HIDE DEF page
      <4> QED
        BY <4>1, <4>2
    <3> QED
      BY <3>1, <3>2
  <2> HIDE DEF page, h
  <2> QED
    BY <2>1, <2>2, <2>3, <2>4 DEF Whole
<1>7. Served(d, s)
  BY <1>5, <1>6 DEF Served
<1> QED
  BY <1>4, <1>7

\* Decoy.Refresh serves every request that is in flight (decoy.go:67-77).
LEMMA RefreshKeeps ==
  ASSUME DecoyInv, Refresh, fetching' \in BOOLEAN
  PROVE  DecoyInv'
<1>1. CASE UNCHANGED <<snapshot, requests>>
  BY <1>1 DEF DecoyInv
<1>2. ASSUME NEW t \in Snapshots, RefreshWith(t) PROVE DecoyInv'
  <2>1. snapshot' = t /\ snapshot \in Snapshots /\ requests \in [Requests -> Request]
    BY <1>2 DEF RefreshWith, DecoyInv
  <2>2. ASSUME NEW q \in Requests PROVE Served(requests'[q], t) /\ requests'[q] \in Request
    <3> DEFINE r == requests[q]
    <3>1. requests'[q] = IF r.at \in {"new", "done"} THEN r
                         ELSE [r EXCEPT !.current = r.current \cup {t.header.page}]
      BY <1>2 DEF RefreshWith
    <3>2. Served(r, snapshot)
      BY DEF DecoyInv
    <3>3. Served(requests'[q], t)
      BY <2>1, <3>1, <3>2, RefreshServes
    <3> QED
      BY <3>3 DEF Served
  <2>3. requests' \in [Requests -> Request]
    <3>1. DOMAIN requests' = Requests /\ requests' = [q \in Requests |-> requests'[q]]
      BY <1>2 DEF RefreshWith
    <3> QED
      BY <2>2, <3>1
  <2> QED
    BY <2>1, <2>2, <2>3 DEF DecoyInv
<1>3. \A p \in Pages : sanitizeDecoySnapshot(fetched(p)) \in Snapshots
  BY DEF Snapshots
<1> QED
  BY <1>1, <1>2, <1>3 DEF Refresh

\* A step of one request.
LEMMA OneRequest ==
  ASSUME DecoyInv, NEW q \in Requests, NEW d, requests' = [requests EXCEPT ![q] = d],
         Served(d, snapshot), UNCHANGED <<snapshot, fetching>>
  PROVE  DecoyInv'
<1>1. d \in Request
  BY DEF Served
<1>2. requests' \in [Requests -> Request]
  BY <1>1 DEF DecoyInv
<1>3. \A k \in Requests : requests'[k] = IF k = q THEN d ELSE requests[k]
  BY DEF DecoyInv
<1>4. \A k \in Requests : Served(requests'[k], snapshot)
  BY <1>3 DEF DecoyInv
<1> QED
  BY <1>2, <1>4 DEF DecoyInv

\* Every step of a request keeps its response of one page.
LEMMA RequestKeeps ==
  ASSUME DecoyInv, NEW q \in Requests, Arrive(q) \/ serveStatus(q)
  PROVE  DecoyInv'
<1> DEFINE r == requests[q]
<1>1. /\ snapshot \in Snapshots /\ Served(r, snapshot) /\ requests \in [Requests -> Request]
      /\ r \in Request
  BY DEF DecoyInv
<1>2. CASE Arrive(q)
  <2>1. /\ r.at = "new" /\ UNCHANGED <<snapshot, fetching>>
        /\ requests' = [requests EXCEPT ![q] =
                          [r EXCEPT !.at = "arrived", !.current = {snapshot.header.page}]]
    BY <1>1, <1>2 DEF Arrive
  <2>2. Served([r EXCEPT !.at = "arrived", !.current = {snapshot.header.page}], snapshot)
    BY <1>1, <2>1, ArriveServes
  <2> QED
    BY <2>1, <2>2, OneRequest
<1>3. CASE Copy(q)
  <2>1. /\ r.at = "arrived" /\ UNCHANGED <<snapshot, fetching>>
        /\ requests' = [requests EXCEPT ![q] = [r EXCEPT !.at = "copied", !.copy = snapshot]]
    BY <1>1, <1>3 DEF Copy
  <2>2. Served([r EXCEPT !.at = "copied", !.copy = snapshot], snapshot)
    BY <1>1, <2>1, CopyServes
  <2> QED
    BY <2>1, <2>2, OneRequest
<1>4. CASE WriteHeader(q)
  <2>1. r.at = "copied" /\ UNCHANGED <<snapshot, fetching>>
    BY <1>4 DEF WriteHeader
  <2>2. PICK m \in {"GET", "HEAD", "CONNECT"} :
          requests' = [requests EXCEPT ![q].at = "header", ![q].method = m,
            ![q].response = [@ EXCEPT !.header = {r.copy.header}, !.length = r.copy.body.len,
                               !.status = IF m = "CONNECT" THEN 404 ELSE r.copy.status]]
    BY <1>4, Zenon DEF WriteHeader
  <2>3. requests' = [requests EXCEPT ![q] = Announced(r, m)]
    <3> DEFINE hs == {r.copy.header}
               n == r.copy.body.len
               st == IF m = "CONNECT" THEN 404 ELSE r.copy.status
    <3>1. requests' = [requests EXCEPT ![q].at = "header", ![q].method = m,
            ![q].response = [@ EXCEPT !.header = hs, !.length = n, !.status = st]]
      BY <2>2
    <3>2. Announced(r, m) =
            [r EXCEPT !.at = "header", !.method = m,
               !.response = [r.response EXCEPT !.header = hs, !.length = n, !.status = st]]
      BY DEF Announced
    <3> HIDE DEF hs, n, st
    <3> QED
      BY <1>1, <3>1, <3>2
  <2>4. Served(Announced(r, m), snapshot)
    BY <1>1, <2>1, HeaderServes
  <2> QED
    BY <2>1, <2>3, <2>4, OneRequest
<1>5. CASE WriteBody(q)
  <2> DEFINE b == IF r.method = "HEAD" THEN {} ELSE {r.copy.body}
  <2>1. /\ r.at = "header" /\ UNCHANGED <<snapshot, fetching>>
        /\ requests' = [requests EXCEPT ![q] =
                          [r EXCEPT !.at = "done", !.copy = BuiltIn, !.response.body = b]]
    BY <1>1, <1>5 DEF WriteBody, bodyFor
  <2>2. b = {} \/ b = {r.copy.body}
    OBVIOUS
  <2> HIDE DEF b
  <2>3. Served([r EXCEPT !.at = "done", !.copy = BuiltIn, !.response.body = b], snapshot)
    BY <1>1, <2>1, <2>2, BodyServes
  <2> QED
    BY <2>1, <2>3, OneRequest
<1> QED
  BY <1>2, <1>3, <1>4, <1>5 DEF serveStatus

\* Every step keeps the part of the invariant that is about the decoy.
LEMMA DecoyNext ==
  ASSUME DecoyInv, [Next]_vars
  PROVE  DecoyInv'
<1>1. CASE UNCHANGED <<snapshot, fetching, requests>>
  BY <1>1 DEF DecoyInv
<1>2. CASE NewDecoy \/ RefreshEnds
  <2>1. Refresh /\ fetching' \in BOOLEAN
    BY <1>2 DEF NewDecoy, RefreshEnds, DecoyInv
  <2> QED
    BY <2>1, RefreshKeeps
<1>3. CASE RefreshTick
  BY <1>3 DEF RefreshTick, DecoyInv
<1>4. CASE \E q \in Requests : Arrive(q) \/ serveStatus(q)
  BY <1>4, RequestKeeps
<1>5. \/ UNCHANGED decoy \/ NewDecoy \/ RefreshEnds \/ RefreshTick \/ UNCHANGED vars
      \/ \E q \in Requests : Arrive(q) \/ serveStatus(q)
  <2>1. Boot => NewDecoy \/ UNCHANGED decoy
    BY DEF Boot, CheckFlags, realservListen, deriveServerAuthKeys, normalizeServerConfig,
       loadServerCertificate, NewAuthenticator, net_ListenPacket, ListenEarly, BootStep
  <2>2. RefreshStops \/ Watcher \/ ServeListenerReturns \/ Cancel => UNCHANGED decoy
    BY DEF RefreshStops, Watcher, WatcherCloses, WatcherExits, CallClose, ServeListenerReturns, Cancel
  <2>3. (\E c \in Callers : OwnerCloses(c)) => UNCHANGED decoy
    BY DEF OwnerCloses, CallClose
  <2>4. (\E c \in Closers : Close(c)) => UNCHANGED decoy
    BY DEF Close, CloseNext, CloseReturns
  <2> QED
    BY <2>1, <2>2, <2>3, <2>4 DEF Next
<1> QED
  BY <1>1, <1>2, <1>3, <1>4, <1>5 DEF decoy, vars

-----------------------------------------------------------------------------
\* The configurations that a server may be started with.
LEMMA RawFacts ==
  ASSUME NEW c \in RawConfigs
  PROVE  c \in Config /\ (c.by = "library" => c.quic)
<1>1. \A w \in AtMostOne(Required \cup {"key length"}) : w \in SUBSET Wrongs
  BY DEF AtMostOne, Wrongs
<1>2. \A w \in AtMostOne(MainRequires \cup {"psk", "ListenAddr", "DecoyTarget"}) : w \in SUBSET Wrongs
  BY DEF AtMostOne, Wrongs, Required
<1>3. \A n \in -1..1 : [f \in Fields |-> n] \in [Fields -> -1..1]
  OBVIOUS
<1>4. \A g \in {[f \in Fields |-> n] : n \in {-1, 1}} \cup {[f \in Fields |-> 0]} :
        g \in [Fields -> -1..1]
  BY <1>3
<1> QED
  BY <1>1, <1>2, <1>4 DEF RawConfigs, Config

\* A fresh server.
LEMMA InitHolds ==
  ASSUME Init
  PROVE  IInv
<1>1. cfg \in Config /\ (cfg.by = "library" => cfg.quic) /\ cfg.by \in {"library", "main"}
  BY RawFacts DEF Init, Config
<1>2. boot = (IF cfg.by = "main" THEN "flags" ELSE "config") /\ open = {} /\ running = {}
  BY DEF Init
<1>3. /\ closers \in [Closers -> [at : {"idle", "do", "wait", "returned"}, err : Errors]]
      /\ \A c \in Closers : closers[c].at = "idle"
  BY DEF Init, Errors
<1>4. boot \in States /\ OpenInv
  BY <1>1, <1>2 DEF OpenInv, States, Starting, TCP
<1>5. CloseInv
  BY <1>1, <1>2, <1>3 DEF Init, CloseInv
<1>6. NumberInv
  BY <1>2 DEF NumberInv, Starting
<1>7. StartInv
  BY <1>1, <1>2, <1>3, <1>4, <1>5, <1>6 DEF Init, StartInv, Errors
<1>8. DecoyInv
  <2> DEFINE r == [at |-> "new", method |-> "GET", copy |-> BuiltIn, response |-> NoResponse,
                   current |-> {}]
  <2>1. BuiltIn \in Snapshots
    BY DEF Snapshots
  <2>2. NoResponse \in Answer /\ NoResponse.body = {}
    BY DEF NoResponse, Answer
  <2>3. r \in Request /\ r.at = "new" /\ r.response.body = {}
    BY <2>1, <2>2, Zenon DEF Request
  <2> HIDE DEF r
  <2>4. Served(r, BuiltIn)
    BY <2>3 DEF Served
  <2>5. requests = [q \in Requests |-> r] /\ snapshot = BuiltIn /\ fetching = FALSE
    BY DEF Init, r
  <2> QED
    BY <2>1, <2>3, <2>4, <2>5 DEF DecoyInv
<1> QED
  BY <1>7, <1>8 DEF IInv

\* The invariant holds of every state that the server can reach.
THEOREM Invariance == Spec => []IInv
<1>1. ASSUME IInv, [Next]_vars PROVE IInv'
  BY <1>1, StartNext, DecoyNext DEF IInv
<1> QED
  BY <1>1, InitHolds, PTL DEF Spec

\* Type correctness, and the numbers that a running server uses are positive, so
\* that no ticker panics and no relay is without room (config.go:83-106,
\* limiter.go:34-46).
THEOREM TypeCorrect == Spec => []TypeOK
<1>1. ASSUME IInv PROVE TypeOK
  <2>1. open \subseteq {"tcp", "packetConn", "listener", "h3"}
    BY <1>1 DEF IInv, StartInv, OpenInv, TCP, Remaining, States, Starting
  <2>2. /\ cfg.number \in [Fields -> -1..1]
        /\ boot \in {"flags", "tcp", "psk", "config", "certificate", "authenticator", "decoy",
                     "packetConn", "listener", "running", "failed"}
        /\ running \subseteq {"serve", "refresh", "watch"}
        /\ {cancelled, closed, fetching} \subseteq BOOLEAN
        /\ once \in {"new", "h3", "listener", "packetConn", "done"}
        /\ closeErr \in {"none", "h3", "listener", "packetConn"}
    BY <1>1 DEF IInv, StartInv, DecoyInv, Config, States, Starting, Errors
  <2>3. \A c \in Closers : closers[c].at \in {"idle", "do", "wait", "returned"}
    BY <1>1 DEF IInv, StartInv
  <2>4. snapshot \in {BuiltIn} \cup {sanitizeDecoySnapshot(fetched(p)) : p \in Pages}
    BY <1>1 DEF IInv, DecoyInv, Snapshots
  <2>5. \A q \in Requests : /\ requests[q].at \in {"new", "arrived", "copied", "header", "done"}
                            /\ requests[q].current \subseteq 0..2
    BY <1>1 DEF IInv, DecoyInv, Request
  <2>6. running # {} =>
          \A f \in Fields : f \notin UDPFields \/ cfg.EnableUDPRelay => cfg.number[f] > 0
    BY <1>1 DEF IInv, StartInv, NumberInv, defaulted, Fields
  <2> QED
    BY <2>1, <2>2, <2>3, <2>4, <2>5, <2>6 DEF TypeOK
<1> QED
  BY <1>1, Invariance, PTL

\* A start is all or nothing, whichever of its steps fails (server.go:39-72,
\* main.go:124-169).
THEOREM StartsWhole == Spec => []StartAllOrNothing
<1>1. ASSUME IInv PROVE StartAllOrNothing
  <2>1. boot = "failed" => open = {} /\ running = {}
    BY <1>1 DEF IInv, StartInv, OpenInv, CloseInv
  <2>2. boot = "running" /\ cfg.by = "main" => once = "new"
    BY <1>1 DEF IInv, StartInv, CloseInv
  <2>3. boot = "running" /\ cfg.by = "main" =>
          open = {"tcp"} \cup IF cfg.quic THEN {"packetConn", "listener", "h3"} ELSE {}
    BY <1>1, <2>2 DEF IInv, StartInv, OpenInv, TCP, Remaining
  <2> QED
    BY <2>1, <2>3 DEF StartAllOrNothing
<1> QED
  BY <1>1, Invariance, PTL

\* However many callers Close has, each returns only when everything is closed,
\* and all with the same first error (server.go:120-143).
THEOREM ClosesWhole == Spec => []CloseComplete
<1>1. ASSUME IInv, NEW c \in Closers, closers[c].at = "returned"
      PROVE  open = {} /\ closers[c].err = closeErr
  <2>1. once = "done" /\ closers[c].err = closeErr /\ boot = "running" /\ cfg.by = "library"
    BY <1>1 DEF IInv, StartInv, CloseInv
  <2>2. Remaining = {} /\ TCP = {}
    BY <2>1 DEF Remaining, TCP
  <2> QED
    BY <1>1, <2>1, <2>2 DEF IInv, StartInv, OpenInv
<1>2. IInv => CloseComplete
  BY <1>1 DEF CloseComplete
<1> QED
  BY <1>2, Invariance, PTL

\* Every response is of one page that was current while its request was served,
\* for any number of requests and refreshes between their steps
\* (decoy.go:67-105, 128-147).
THEOREM AnswersWhole == Spec => []ResponseWhole
<1>1. ASSUME IInv, NEW q \in Requests, requests[q].at \in {"header", "done"}
      PROVE  Whole(requests[q])
  <2> DEFINE r == requests[q]
  <2>1. Served(r, snapshot)
    BY <1>1 DEF IInv, DecoyInv
  <2>2. CASE r.at = "done"
    BY <2>1, <2>2 DEF Served
  <2>3. CASE r.at = "header"
    BY <1>1, <2>1, <2>3, HeaderWhole DEF IInv, DecoyInv
  <2> QED
    BY <1>1, <2>2, <2>3
<1>2. IInv => ResponseWhole
  BY <1>1 DEF ResponseWhole, Whole
<1> QED
  BY <1>2, Invariance, PTL

-----------------------------------------------------------------------------
(* The way to the end.  A server that is not closed has its watcher; one   *)
(* that is being closed has a caller that runs the function of closeOnce,  *)
(* so nobody waits for nobody; one that is closed keeps no goroutine from  *)
(* its way out.                                                            *)
Watched ==
  /\ closed <=> once # "new"
  /\ once \notin {"new", "done"} => \E c \in Closers : closers[c].at = "do"
  /\ boot = "running" /\ cfg.quic /\ once = "new" => "watch" \in running
  /\ "watch" \in running => closers["watcher"].at # "returned"

WayOut ==
  /\ boot = "running" /\ cfg.quic /\ ~closed => "watch" \in running /\ closers["watcher"].at = "idle"
  /\ \A c \in Closers : closers[c].at \in {"do", "wait"} =>
       closed /\ (mayReturn(c) \/ \E d \in Closers : closers[d].at = "do")
  /\ once = "done" =>
       /\ open = {} /\ mayStop
       /\ "watch" \in running => closers["watcher"].at # "returned"

\* The steps of the start end with the watcher, or with no HTTP/3 server
\* (server.go:83-110, main.go:124-169).
LEMMA BootWatched ==
  ASSUME StartInv, Watched, Boot
  PROVE  Watched'
<1>1. UNCHANGED <<closed, once, closers>>
  BY DEF Boot, CheckFlags, realservListen, deriveServerAuthKeys, normalizeServerConfig,
     loadServerCertificate, NewAuthenticator, NewDecoy, net_ListenPacket, ListenEarly, BootStep,
     closing
<1>2. boot # "running" /\ once = "new" /\ closers["watcher"].at = "idle"
  <2>1. boot # "running"
    BY DEF Boot, CheckFlags, realservListen, deriveServerAuthKeys, normalizeServerConfig,
       loadServerCertificate, NewAuthenticator, NewDecoy, net_ListenPacket, ListenEarly, BootStep
  <2> QED
    BY <2>1 DEF StartInv, CloseInv, Closers
<1>3. boot' = "running" /\ cfg'.quic => "watch" \in running'
  <2>1. CASE realservListen
    BY <2>1 DEF realservListen, Fails
  <2>2. CASE ListenEarly
    BY <2>2 DEF ListenEarly, Fails
  <2>3. CASE ~realservListen /\ ~ListenEarly
    BY <2>3 DEF Boot, CheckFlags, deriveServerAuthKeys, normalizeServerConfig,
       loadServerCertificate, NewAuthenticator, NewDecoy, net_ListenPacket, BootStep, Fails
  <2> QED
    BY <2>1, <2>2, <2>3
<1> QED
  BY <1>1, <1>2, <1>3 DEF Watched

\* A call of Close: the first caller runs the function (server.go:120-125).
LEMMA CallCloseWatched ==
  ASSUME StartInv, Watched, NEW c \in Closers, CallClose(c)
  PROVE  Watched'
<1>1. /\ closers \in [Closers -> [at : {"idle", "do", "wait", "returned"}, err : Errors]]
      /\ "watcher" \in Closers /\ closers[c].at = "idle" /\ UNCHANGED <<cfg, boot, running>>
  BY DEF StartInv, Closers, CallClose
<1>2. CASE once = "new"
  <2>1. closers' = [closers EXCEPT ![c].at = "do"] /\ once' = "h3" /\ closed' = TRUE
    BY <1>2 DEF CallClose
  <2>2. closers'[c].at = "do" /\ closers'["watcher"].at \in {"do", closers["watcher"].at}
    BY <1>1, <2>1
  <2> QED
    BY <1>1, <2>1, <2>2 DEF Watched
<1>3. CASE once # "new"
  <2>1. closers' = [closers EXCEPT ![c].at = "wait"] /\ UNCHANGED <<once, closed>>
    BY <1>3 DEF CallClose
  <2>2. /\ closers'["watcher"].at \in {"wait", closers["watcher"].at}
        /\ \A d \in Closers : closers[d].at = "do" => closers'[d].at = "do"
    BY <1>1, <2>1
  <2> QED
    BY <1>1, <1>3, <2>1, <2>2 DEF Watched
<1> QED
  BY <1>2, <1>3

\* The function goes on, and its caller with it; Close returns when it is done,
\* and the watcher returns with its Close (server.go:99-105, 126-143).
LEMMA CloseWatched ==
  ASSUME StartInv, Watched, NEW c \in Closers, Close(c)
  PROVE  Watched'
<1>1. CASE CloseNext(c)
  <2>1. /\ closers[c].at = "do" /\ once # "done" /\ once' = afterClose(once)
        /\ UNCHANGED <<cfg, boot, running, closed, closers>>
    BY <1>1 DEF CloseNext
  <2>2. once # "new" /\ once' # "new"
    BY <2>1 DEF StartInv, CloseInv, afterClose
  <2> QED
    BY <2>1, <2>2 DEF Watched
<1>2. CASE CloseReturns(c)
  <2>1. /\ once = "done" /\ closers' = [closers EXCEPT ![c] = [at |-> "returned", err |-> closeErr]]
        /\ running' = (IF c = "watcher" THEN running \ {"watch"} ELSE running)
        /\ UNCHANGED <<cfg, boot, closed, once>>
    BY <1>2 DEF CloseReturns, mayReturn
  <2>2. c # "watcher" => closers'["watcher"] = closers["watcher"]
    BY <2>1 DEF StartInv, Closers
  <2> QED
    BY <2>1, <2>2 DEF Watched
<1> QED
  BY <1>1, <1>2 DEF Close

\* Every step keeps the way to the end.
LEMMA NextWatched ==
  ASSUME StartInv, Watched, [Next]_vars
  PROVE  Watched'
<1>1. ASSUME UNCHANGED <<cfg, boot, closed, once, closers>>, running' \subseteq running,
             "watch" \in running => "watch" \in running' \/ once # "new"
      PROVE  Watched'
  BY <1>1 DEF Watched
<1>2. CASE UNCHANGED vars \/ RefreshTick \/ RefreshEnds \/ Cancel
  BY <1>1, <1>2 DEF vars, RefreshTick, RefreshEnds, Cancel, closing
<1>3. CASE RefreshStops \/ ServeListenerReturns
  BY <1>1, <1>3 DEF RefreshStops, ServeListenerReturns, closing
<1>4. CASE WatcherExits
  <2>1. once # "new"
    BY <1>4 DEF WatcherExits, Watched
  <2> QED
    BY <1>1, <1>4, <2>1 DEF WatcherExits, closing
<1>5. ASSUME NEW q \in Requests, Arrive(q) \/ serveStatus(q) PROVE Watched'
  BY <1>1, <1>5 DEF Arrive, serveStatus, Copy, WriteHeader, WriteBody, closing
<1>6. ASSUME NEW c \in Callers, OwnerCloses(c) PROVE Watched'
  BY <1>6, CallCloseWatched DEF OwnerCloses, Closers
<1>7. CASE WatcherCloses
  BY <1>7, CallCloseWatched DEF WatcherCloses, Closers
<1> QED
  BY <1>2, <1>3, <1>4, <1>5, <1>6, <1>7, BootWatched, CloseWatched DEF Next, Watcher

\* The server can always come to its end: an open one has its watcher, which sees
\* the context; whoever is in Close either may return or has a caller that closes
\* the next thing; after that nothing is open and no goroutine is kept.  It is
\* the safety half of EverythingEnds (server.go:99-143, 196-211).
THEOREM AlwaysAWayOut == Spec => []WayOut
<1>1. Init => Watched
  BY DEF Init, Watched
<1>2. IInv => StartInv
  BY DEF IInv
<1>3. ASSUME StartInv, Watched PROVE WayOut
  <2>1. boot = "running" /\ cfg.quic /\ ~closed => "watch" \in running /\ closers["watcher"].at = "idle"
    BY <1>3 DEF StartInv, CloseInv, Watched, Closers
  <2>2. ASSUME NEW c \in Closers, closers[c].at \in {"do", "wait"}
        PROVE  closed /\ (mayReturn(c) \/ \E d \in Closers : closers[d].at = "do")
    <3>1. once # "new"
      BY <1>3, <2>2 DEF StartInv, CloseInv
    <3> QED
      BY <1>3, <3>1 DEF Watched, mayReturn
  <2>3. ASSUME once = "done" PROVE open = {} /\ closed
    <3>1. boot = "running" /\ cfg.by = "library" /\ closed
      BY <1>3, <2>3 DEF StartInv, CloseInv, Watched
    <3>2. Remaining = {} /\ TCP = {}
      BY <2>3, <3>1 DEF Remaining, TCP
    <3> QED
      BY <1>3, <3>1, <3>2 DEF StartInv, OpenInv
  <2>4. "watch" \in running => closers["watcher"].at # "returned"
    BY <1>3 DEF Watched
  <2> QED
    BY <2>1, <2>2, <2>3, <2>4 DEF WayOut, mayStop
<1> QED
  BY <1>1, <1>2, <1>3, NextWatched, Invariance, PTL DEF Spec
=============================================================================
