# Chimera: a TLA+ model of the carriers, the server and the client

Chimera is a proxy with two carriers between its client and its server: TCP
disguised by REALITY, with a padding stream on top, and QUIC with HTTP/3 CONNECT,
authenticated by HMAC tokens, with UDP in HTTP Datagrams. These modules model the
parts of it where goroutines, clocks, limits, lost packets or crashes meet. TLC
checks them on small instances, and TLAPS proves their safety for every instance: the
replay cache, the limiter, the HTTP/3 request handling with its target guard, the UDP codec
and associations, the padding stream, the tunnel of a SOCKS connection, the start and
shutdown of the server with its decoy, and the certificate store.

## Inventory

| Part | Source | State | What makes it hard |
|---|---|---|---|
| request authenticator | `internal/quicx/auth.go` | keys, replay list and map | clock read before the lock, wall against monotonic clock, eviction at capacity |
| limiter | `internal/quicx/limiter.go` | semaphore, token buckets | clock read before the lock, eviction, one slot per path |
| UDP fragment codec | `internal/quicx/udp_codec.go` | next sequence, pending assemblies | loss, reordering, duplicates, expiry, eviction, last sequence number |
| UDP relay session | `internal/quicx/udp.go` | slots, socket, channels, timer | timer against activity, exit of two goroutines, order of deferred calls |
| HTTP/3 requests | `internal/quicx/server.go`, `internal/chimera/guard.go` | slots, tunnels | every path gives its slot back, addresses that change between lookups, one direction ending |
| padding stream | `internal/padstream/padstream.go` | read stage, buffers, write lock | a reader that writes, full buffers |
| client and TCP session | `cmd/chimera-client`, `cmd/chimera-server`, `internal/chimera/chimera.go`, `internal/quicx/client.go`, `internal/realclient` | connections of one tunnel | fallback, early returns, teardown across two processes, the selection timeout |
| certificate | `internal/quicx/cert.go` | a file and its temporary files | kill and loss of power between system calls, starts that overlap |
| UDP association | `internal/quicx/udp_client.go`, `internal/quicx/client.go` | deadlines, context, stream | deadline changed during a read, failed dials, `Close` against the session of the server |
| start and shutdown | `internal/quicx/server.go`, `internal/quicx/config.go`, `cmd/chimera-server` | sockets, goroutines, `closeOnce` | failures half way, `Close` by several callers, a context that ends during the start |
| decoy cache | `internal/quicx/decoy.go` | a snapshot | refresh against readers, failing refresh |
| key generation, installer | `cmd/chimera-server`, `install.sh` | files | little: sequential checks and a script |

A SOCKS connection is accepted by the client, which selects a carrier and dials the
server; the server authenticates the request (`auth`), admits it (`limiter`), vets
the target (`guard`), dials it and copies in both directions. A UDP association
passes its packets through the codec on both sides. The hazards of each part, with
the source line where they bite and the properties that would show them, are listed
in `PROJECT.json`.

## Modules

| Module | Models | Uses |
|---|---|---|
| `ReplayAuth` | `Sign`, `Validate`, `replayCache.Add` | |
| `Slots` | abstract: a semaphore and who holds its slots | |
| `Limiter` | `Allow`, the buckets, `release` | implements `Slots` |
| `Guard` | `IsForbiddenIP`, and the ranges it is meant to refuse | |
| `H3Server` | `ServeHTTP`, `ResolveAndValidateAuthority`, `relayH3Stream` | `Guard`; implements `Slots`; the authenticator gives any answer, the UDP session lasts any time |
| `DatagramService` | abstract: a packet is handed over at most once, whole | |
| `UdpCodec` | `Encode`, `Decode`, the network between | implements `DatagramService` |
| `UdpSession` | the steps of `serveUDPSession` | |
| `UdpAssociation` | `DialUDP` and `UDPConn`, together with the session of the server | `UdpSession` |
| `Pipe` | abstract: bytes come out in order, none missing and none twice | |
| `PadStream` | `Conn.Write`, `Conn.Read`, `maybeKeepAlive` of two peers | implements `Pipe`, once per direction |
| `Tunnel` | `handleSocks5` ... `Relay` of the client, `handleConn` of the server | QUIC server as a peer that answers, refuses or leaves |
| `ServerLife` | `main`, `ListenServerWithConfig`, `normalizeServerConfig`, `refreshDecoy`, `Close`, the decoy | certificate as a step that succeeds or fails |
| `CertStore` | `loadServerCertificate`, `loadOrCreateCertificate`, `writeFileAtomic` | file system external |
| `...Proofs` | theorems about the module of that name; those about `Guard` are in `H3ServerProofs`, those about `UdpAssociation` in `TunnelProofs` | TLAPS |
| `MC...` | values of the constants for TLC, symmetry, the edges of `Guard` | |

The parts meet in two places. `Slots` is the contract of the semaphore: `Limiter`
implements it from the side that grants and `H3Server` from the side that returns, so
`H3Server` need not contain the buckets. `UdpAssociation` runs the steps of
`UdpSession` with a client that dials, reads, writes, closes or vanishes. `H3Server`
assumes nothing of the authenticator: `Validate` may accept or refuse any CONNECT. How
often a token passes is the subject of `ReplayAuth` alone.

How state and actions correspond to the code:

- **ReplayAuth.** `order` is the list of the cache (the map is its index). `Validate`
  is everything up to `replay.Add` with the clock value read in `ServeHTTP`, and puts
  a call into `calls`; `Add` is the critical section. Between the two, time passes
  and other calls run. A Go time has a wall-clock and a monotonic reading: the skew
  check compares wall clocks, because `time.Unix` has no other, and the cache compares
  monotonic ones; `offset` is their difference, and `StepWallClock` changes it. A MAC
  is the pair of a key and the canonical input. `accepted`, `reaccepted`, `evicted`
  and `maxOffset` are history variables.
- **Limiter.** `Acquire` is the select on the semaphore, `ReadClock` the call of
  `now`, `Decide` the section under the lock, `Release` the returned function. Tokens
  are counted in parts of `1/PerIPWindow`, which makes the refill exact where the code
  uses a float. `admitted` and `created` are history variables.
- **UdpCodec.** A byte is a pair of its packet and its position, so that a wrongly
  assembled packet shows. `Receive` reads the clock and `Decode` is the section under
  the lock. Frames in `net` may be lost, reordered and, with `Duplicates`, delivered
  again. `Stray` holds frames that no encoder of the project makes.
- **UdpSession, UdpAssociation.** One record per session: the handler, both
  goroutines, the buffers of `done` and `activity`, the timer and its channel. The
  timer may fire before or after any other event. One record per association: where
  `DialUDP` is, the stream, the context, the deadline and the one a blocked `ReadFrom`
  took. `readContext` reads the deadline once; `Close` cancels the context and then the
  stream. A stream cancelled by one side ends the context of the other. `others` counts
  the slots that sessions of other clients hold.
- **Guard.** An address is a sequence of octets; `contains` compares the bits of a
  prefix octet by octet. `Reserved` is an independent table of first and last
  addresses.
- **H3Server.** One record per request: its handler's place, the two goroutines of
  `relayH3Stream`, its target. `Allow` takes the slot and `Bucket` decides with the slot
  held, as the code does. A lookup gives any sequence of up to two addresses, in either
  form. An `io.Copy` is in a Read, in a Write or done: one that is in a Write does not see
  that its source has ended.
- **PadStream.** A direction of the connection is a bounded sequence of items (header,
  padding, payload); each write of the code appends one item and blocks when there is
  no room. A payload is a sequence of byte positions, a Write is cut into frames, and a
  Read takes as much as its buffer holds and leaves the rest. The writer and the reader
  of a peer share the write lock.
- **Tunnel.** `conn` has the six connections of a tunnel, four of the client and two
  of the server; `Closing` is what `Close` and the deferred calls do to them. An action
  is a dialer's or a handler's way from one blocking call to the next; `Dial` of
  `realclient` has two, the dial and the handshake, and the raw connection is open between
  them. The copying goroutines are in a Read, in a Write or done, as in `H3Server`. A
  peer that goes away ends the Read; whether a Write to an application or a target
  fails is not decided by that, since they may have ended their sending only. Connections
  of different tunnels share no state, so one is enough.
- **ServerLife.** `boot` is the place of the start, one action per call that can fail;
  `open` has the sockets and servers, `running` the goroutines. `Close` is the function
  of `closeOnce` in its three steps and the callers that wait for it. A page of the
  decoy is known by a number that its headers and its body carry, so a response made
  of two pages shows. A configuration has at most one field that is wrong.
- **CertStore.** A run is one call of `loadOrCreateCertificate`, by the installer or
  by a start of the server; each system call is an action, and `Kill` and `PowerLoss`
  may come between any two. Renames are not durable before `Flush`. `overlapped`
  records that two runs were at work at once, `forgotten` that a loss of power undid a
  rename.

## Runs

| Run | Instance | Shows |
|---|---|---|
| `replay_cache` | 2 handlers, 3 nonces, capacity 2, a client and a foreign key, 6 ticks, a wall clock that is set forward and back | cache bounded; no token accepted twice without eviction or a late clock value; only accepted tokens cached |
| `limiter` | 3 requests, 2 addresses, 1 tracked, 2 slots | tracking bounded, rate bound, no stretch of time refills twice; the semaphore implements `Slots` |
| `codec_service` | 5 packets (one empty, one too big), 2 readers, 2 sequence numbers | the codec implements `DatagramService`; own frames never fail; a complete packet is never dropped silently |
| `codec_decoder` | 2 packets, 2 readers, unlimited duplicates, frames of other shapes | what is returned was sent, unchanged; the decoder stays bounded and its bookkeeping exact |
| `udp_association` | 1 association with 1 packet each way, 1 slot that another client may hold | slots bound the open sockets; a `UDPConn` only where the server has a socket, no stream left by a failed dial; the session ends when its client is gone or nothing passes; a blocked `ReadFrom` returns |
| `h3_requests` | 3 requests, 1 slot, a public address and a private one in mapped form | vetted targets; the handlers implement `Slots`; every request is answered, also while a tunnel holds the slot; a tunnel of which one direction ends, or whose server is closed, ends on both sides; and the guard agrees with its table around every bound |
| `padstream` | 3 bytes one way and 1 back, frames of 2, buffers of 2 items | frames never mix; each direction implements `Pipe`; everything is read |
| `padstream_idle` | same, **violation** | the keep-alive condition fails on an idle reader |
| `tunnel` | one connection, three modes, public, forbidden and empty target, any peer may leave | one honest answer, no leak, lazy TCP; the answer and the teardown come, and a handler of the server does not outlive its client, each under the premise stated below |
| `auto_budget` | same, **violation** | the QUIC attempt outlasts `-auto-quic-timeout` |
| `certificate` | 3 starts that may overlap, 2 server names, the operator's pair, kills, 1 loss of power | never a torn certificate; temporary files removed; one fingerprint where starts did not overlap and no rename was undone |
| `server_life` | `main` or another owner, every configuration with one wrong field, 1 request, 1 caller of `Close` and the watcher | a failed start leaves nothing; answers come from one page; `Close` is complete for every caller; all sockets and goroutines end |

Every property of a passing run has a mutant in its module: a version of one mapped
definition with a plausible bug, under which TLC finds the property violated.

**Bounds.** Each instance is the smallest in which the case its properties are about
happens: one nonce more than the cache holds (eviction), a window shorter than
`MaxTime` (expiry), one tracked address for two addresses, two assemblies for the
frames of two packets and of strays, the last sequence number within reach, fewer
slots than requests, buffers that hold less than one frame, a Write longer than a frame, a third start after
two that were killed, an address one past the end of a private range. In `h3_requests` the requests have nothing in
common but the slots, so one slot shows a request that gets it, one that is refused and one
that gets it later; its safety is proved for any number. `udp_association`
has one association in full; other clients are seen only through the slots they hold,
and its safety is proved for any number. `MaxTime`, `MaxPackets`, `OpenerBytes`,
`OtherBytes`, `MaxElapsed`, `MaxPowerLosses` and `MaxDelivered` bound counters that the
code does not bound. Handlers, nonces and requests are symmetric in `replay_cache` and
`limiter`, which check no liveness. `codec_decoder` identifies states that
differ only in the history variables no property of it reads (`DecoderView`).

**Deadlock** is checked for `limiter`, whose requests come for ever. The others may
stop: a session ends, packets are used up, time reaches its bound.

**Fairness.** Every goroutine that can take a step takes one, which the Go scheduler
gives. An armed timer fires; for the idle timer of a UDP session that is assumed only
when no packet is under way, because packets may reset it for ever. A select takes a
ready case at random, so a way out that stays ready is taken in the end: strong
fairness for the loops of `serveUDPSession` and `refreshDecoy`. quic-go tells one side
that the other cancelled the stream, or gives the connection up.

Of calls that wait for somebody else, those end that the code or the system bounds: the QUIC
handshake (`HandshakeIdleTimeout`), the opening of the stream in the auto mode (the context
of the selection), the dials of targets (`dialTimeout`, the 10 s of `handleConn`), lookups
(the resolver's timeout), the TCP dial of the client (the operating system's). A QUIC connection
whose peer is gone ends by its idle timeout, a TCP connection by the runtime's
keep-alive. The following have no bound, and no fairness is assumed of them
(`ClientMustStep`, `CopyMustEnd` and `MustStep` leave them out):

- the REALITY handshake, which runs under `context.Background` (`client.go:133` of
  `realclient`, `main.go:126` of the client);
- the wait for the CONNECT response, and in the quic mode the opening of the stream: the peer
  answers a keep-alive every 20 s, so the idle timeout of 60 s never comes (`config.go:147`);
- a Write of a relay to an application, a target or a QUIC stream whose reader has stopped
  reading. `Relay` sets no deadline, `relayH3Stream` none before the first direction has ended.

Where an eventuality depends on one of these, the property says so itself, as a premise
`[]<>...` in front of it:

| Property | Premise | Without it |
|---|---|---|
| `Answered` | no connected server keeps silent for ever (`ServerSilent`) | the application waits with the dialer |
| `TornDown` | no Write to an application, a target or a QUIC stream stays blocked (`PeersRead`) | a live target that stops reading blocks the copiers towards it, and nobody sees that the application has left |
| `OrphanReturns` | the server's Write to the target does not stay blocked; nothing is needed in the handshake | the handler stays in `Relay` after its client has gone |
| `TunnelEnds`, closed server | `target.Write` does not stay blocked; nothing is needed once one direction has ended | the handler stays, with its slot |

Each premise is needed: TLC finds the property violated without it. `AlwaysAnswered` is
the counterpart for the server as a whole. A tunnel may hold its slot for ever, and
whoever comes meanwhile is refused at once.

A Write to the TCP carrier is read by a goroutine of the project in the other process, which
takes the bytes when it is in its Read, again and again (`CarrierTakes`, strong fairness).
That the padding stream in between delivers them is `AllRead` of `PadStream`, where the
consumers of both peers are assumed to keep reading. That assumption matters too. A keep-alive is
written by the reading goroutine, so with a consumer that stops reading, one direction can
hold up the other.

`EverythingEnds` takes the `Close` of the HTTP/3 library, which is external, as a step that
returns. If a version of it waited for its handlers, a tunnel that is stalled at its target
would hold it up.

## Proofs

The theorems hold for every value of the constants that satisfies the assumption named
in the module that declares them; TLC evaluates the assumptions in the runs. A proof
about a state machine has one lemma per action, each about an inductive invariant
`IInv`; the theorems follow from `Invariance`.

| Module | Theorems |
|---|---|
| `ReplayAuthProofs` | `TypeCorrect`, `Bounded` (`CacheBounded`), `ReplayRefused` (`NoReplay`), `CacheEarned` (`OnlyAcceptedCached`) |
| `LimiterProofs` | `TypeCorrect`, `RateAlwaysBounded`, `NeverRefilledTwice`, `SlotsImplemented` (`ImplementsSlots`) |
| `H3ServerProofs` | `GuardExact`: `IsForbiddenIP` refuses exactly the reserved IPv4 addresses; `MappedAlike`: and their mapped forms; `TypeCorrect`, `TargetsAlwaysVetted`, `SlotsImplemented`, `TunnelsAlwaysSettle` |
| `UdpCodecProofs` | `DecoderIsBounded` (`DecoderBounded`), `SentIsIntact` (`Integrity`), `NoneDroppedSilently` (`NoSilentDrop`), `CodecIsService` (`ImplementsService`) |
| `TunnelProofs`, UDP | `SocketsAlwaysBounded` (`SlotsBoundSockets`), `AssociationsAlwaysHonest`, `NobodyIsStranded` |
| `TunnelProofs`, TCP | `TunnelTyped` (`TypeOK`), `TunnelHonest` (`OneHonestReply`), `TunnelLeavesNothing` (`NothingLeaked`), `TunnelLazy` (`LazyTCP`), `TunnelGuarded`, `TunnelNoMutualWait`, `TunnelWaitEnds`, `TunnelNeverSilent`, `TunnelNeverReopens` |
| `PadStreamProofs` | `TypeCorrect`, `FramesNeverMix` (`Framed`), `StreamIsPipe` (`ImplementsPipe`), `KeepAlivesNeverBlock` |
| `ServerLifeProofs` | `TypeCorrect`, `StartsWhole` (`StartAllOrNothing`), `ClosesWhole` (`CloseComplete`), `AnswersWhole` (`ResponseWhole`), `AlwaysAWayOut` |
| `CertStoreProofs` | `PathNeverTorn`, `TempsAlwaysRemoved`, `PinAlwaysStable` |

**Replay cache.** `NoReplay` speaks of what has happened and is not inductive. The
inductive invariant `IInv` adds why it cannot happen next. `AcceptedGuarded` says that the nonce of an
accepted token was evicted, or is *remembered* by an entry that outlives the token's
freshness, or the token is *dead*: any request that could still pass the skew check
with it works with a clock value a second behind. `CallsChecked` says what is known of
the requests between the check and the lock. An entry is appended with the window
`2 * maxSkew + Second`, which is what makes it remember its token long enough
(`NewEntryFacts`); an entry that is pruned no longer protects a live token
(`PrunedIsDead`), even though the list is not sorted, because the pruner's clock is
never ahead of the server's; eviction removes a prefix and is recorded
(`GuardSurvives`). `Add` is split into its refusing and its accepting outcome
(`RefuseIInv`, `AcceptIInv`).

**Limiter.** `IInv` is the type, the exact count of the slots and `RateBound`, which is
inductive because it relates what was admitted, what is left and the bucket's own
clock. `RefillBounded` says that a refill adds no more than the time it moves that
clock forward, whatever clock value the request brings; `TrackingKeeps` that eviction
keeps the table within its limit and the other entries as they were; `BucketSum` is the
arithmetic. The same step facts show that every step is a `Take`, a `Give` or a stutter
of `Slots`.

**Guard.** Each prefix is reduced to bounds on the octets (`PrefixLengths`), and so is
each range of the table; the two then say the same. No octet is enumerated.

**HTTP/3 server.** `IInv` adds to the properties what a handler has behind it at each
place (`Sound`): authentication before a lookup, an acceptable lookup before a dial, and
in `done` exactly what its goroutines have sent and it has not received. `StepKeeps` does
the counting once for all actions and yields the step of `Slots`. `TargetsAlwaysVetted` uses
`GuardExact`. `TunnelsAlwaysSettle` says that a handler waiting on `done` has an element
there or a goroutine that is yet to send one, after the first element under expired deadlines,
and that a handler that returns leaves neither goroutine nor target; it adds to `IInv` that
the goroutines are started before the first wait (`Started`).

**UDP associations.** `SlotsBoundSockets` is not inductive: the deferred close of the
socket must come before the slot is freed, so `IInv` says that an open socket belongs to
a handler that will still close it. Sessions and clients need no more typing than the
fields the invariant reads (`Shape`). `NobodyIsStranded` has an invariant of its own,
`EndInv`: `done` never holds more errors than goroutines have exited, so a goroutine that
fails finds room; the loop runs only with a timer; and behind the deferred calls both things
that a goroutine may read from are closed.

**Tunnel.** The theorems hold for every `-auto-quic-timeout` and every bound on the count of
time. None of the properties is inductive. `OneHonestReply` is about what the client tells the application, and the reason
it is true lies in another process: a success may be reported because the server dialled the
target before it wrote the status that is now on its way. The inductive invariant
`TunnelInv` therefore fixes where the two handshakes can be together and which message is
under way between them (`Agreed`, and `InFlight` for a client that has left), what each side
has opened where it is (`Opened`, `Carried`), and what the application was told (`Told`).
The raw connection makes the one distinction between the two: the client has it before the
server does, and a failed handshake leaves it closed without a handler. `Running` is about
the copying goroutines. There is one lemma per action; the ways out of the
client's handler share `ClientReturns`, those of the server's `ServerGivesUp`.
`TunnelNoMutualWait` matters because neither read of the handshake has a deadline:
whoever waits there waits for a peer that has a step to take. `TunnelWaitEnds` says the same
of the second wait of `Relay`: a goroutine it waits for has both its source and its sink
closed, so that neither a Read nor a Write can keep it.
`TunnelNeverSilent` and `TunnelNeverReopens` are action properties. `TunnelProofs` extends
both `Tunnel` and `UdpAssociation`, which is why the initial states, steps and specification
of `Tunnel` are named `TunInit`, `TunNext` and `TunSpec`.

**Certificate.** `Files` says that what the path leads to, on disk and in memory, was
synced before it was renamed and is never written again; `Pinned` that without overlap
and without an undone rename all reports are of the file at the path, and that nobody
makes a certificate while one is there.

**UDP codec.** `IInv` has two parts. `TypeInv` holds whatever frames arrive: every
assembly is `Exact`, so `received` and `total` are the number and the bytes of its parts,
and `DecoderBounded` follows. The second part is about origin. The packet of a sequence
number is written down nowhere in the state, so the invariant says that there is a
function `src` from the used numbers to the packets (`Numbered`), such that every frame
under way, held or decoded is a fragment of the packet of its number and every part of an
assembly is the chunk at its place (`Coded`). Then a full assembly is the packet
(`WholePieced`, `JoinedChunks`). Three hypotheses limit the theorems, each to what they
need:

- `SentIsIntact` holds in every state in which no frame from elsewhere has a number the
  encoder has used (`Apart`). Otherwise the two can meet in one assembly, and no checksum
  would tell; in a session all frames come from one encoder over an authenticated
  connection. Every state of `codec_decoder` satisfies `Apart`.
- `NoneDroppedSilently` is about frames of the encoder only and a decoder that takes
  packets as long as the encoder's (`OwnFramesFit`); frames may be duplicated. `Kept`
  says where a decoded frame went: into its assembly, into a packet that was returned, or
  lost with an assembly that expired or was evicted.
- `CodecIsService` is about frames of the encoder only and no duplicates
  (`OwnFramesOnce`), because a duplicate of all frames of a packet makes it come out
  again. `OnePlace` says that a frame is in flight, with one reader or decoded, and
  `Spent` that a returned packet has no frame left.

`StrayAssumption` says that a byte of a frame from elsewhere is not a byte of a packet;
this is how the model tells origins apart, and no step compares bytes. What `joined`
computes is proved by induction. The induction theorems of the library cannot be
instantiated by the provers, so it is done on sets: `Least` takes a least element from
the well-foundedness of `<`, `NatSet` makes an induction of it, and `Joined` gives the
partial results of the copy loop, from which come the length (`JoinedLength`), the
effect of storing one part (`JoinedStore`) and the inverse of cutting a packet
(`JoinedChunks`).

**Padding stream.** `Framed` speaks of the next item only. `IInv` says of the whole
content of a direction that a reader that went on would find each item it expects, and
would then expect what the holder of the write lock writes next: `Direction` is the
existence of such a `Run`, from `Reading` of one peer to `Writing` of the other. A write
appends to a run (`RunAppend`) and a read takes its first item (`RunTail`). The fourth
component of an expectation counts the payload bytes, which gives `ImplementsPipe`
without induction over the stream. `Locked` keeps the keep-alive of the reading goroutine
out of a frame of the writer, and `InOrder` relates the buffered rest to what was
delivered.

`KeepAlivesNeverBlock` shows that the two readers never both wait for room to write a
keep-alive, which would stop both directions for good. The buffers do not prevent it; the
guard at line 162 does. A reader may write a keep-alive when the last header it read had two
zero lengths, and only a keep-alive without padding is such a header. So there is one turn on
a connection, with a reader or on its way in a header, and a keep-alive hands it over or
uses it up; a data frame ends it. `TurnInv` says that there is one at most (`OneTurn`), and that
whoever is about to write a keep-alive has it (`Staged`). At the start the guard holds for
both readers, but `maybeKeepAlive` does nothing before the first frame was sent, and the
server sends its first frame only after it has read one with data; so the first turn is the
client's.

**Start and shutdown.** `OpenInv` says exactly what is open at each place of the start
and of `Close`, `CloseInv` who may be closing, `NumberInv` from where on the defaults
hold. `Served` follows a request of the decoy: its copy is of a page that is or was
current, and its response is made from the copy alone. `AlwaysAWayOut` adds who brings the
end about (`Watched`): the watcher as long as nobody has called `Close`, and then a caller
that is inside it.

**Only model-checked** is liveness, because the prover has no fairness. Each eventuality
but one has a safety half, that no reachable state is one in which the awaited step can never
come again, and this half is proved:

| Eventuality | Safety half |
|---|---|
| `SessionEnds`, `ReadReturns` | `NobodyIsStranded` |
| `TunnelEnds` | `TunnelsAlwaysSettle` |
| `AlwaysAnswered` | none: `Allow` is enabled in every state, and waits for nobody |
| `AllRead` | `KeepAlivesNeverBlock` |
| `Answered`, `OrphanReturns` | `TunnelNoMutualWait` |
| `TornDown` | `TunnelWaitEnds` |
| `EverythingEnds` | `AlwaysAWayOut` |

## Where documents and code differ

- `docs/superpowers/specs/2026-08-30-chimera-v0.5-h3-transport-design.md:85` gives
  forbidden targets the response of an unauthenticated request; `server.go:166`
  answers 502 (`Resolve` of `H3Server`).
- The comment at `padstream.go:156` has an idle reader emit a keep-alive at times;
  `readPayloadLen` and `readPadLen` are not reset after a frame, so the condition at
  162 is false after a frame that is not empty, until a keep-alive without padding has
  come (`padstream_idle`). The connection depends on it: with the condition that the
  comment describes, both readers may write keep-alives into full buffers, and `AllRead`
  fails (its mutant `idleAtHeader`). A repair would have to keep the reader from blocking.
- `README.md:78` bounds the QUIC attempt of the auto mode by `auto-quic-timeout`;
  `client.go:147` waits for the response outside the context (`auto_budget`).
- Line 116 of the design document named first says "Target dial, authentication read, response
  write, and relay idle deadlines are explicit." There is no relay idle deadline:
  `relayH3Stream` sets deadlines only after one direction has ended (`server.go:256-258`) and
  `Relay` none at all. `TunnelEnds`, `TornDown` and `OrphanReturns` state what holds
  instead, with the premises above.
- The comment at `udp_codec.go:102` says that `Decode` returns nil for a duplicate
  fragment. That is so while the packet is incomplete. After completion nothing is
  remembered of it, and when all its fragments come again so does the packet; this is why
  `ImplementsService` is about a network that does not duplicate.

## Not modelled

- The cryptography of REALITY, TLS and HMAC: a MAC cannot be made without its key, and
  a REALITY handshake succeeds or fails.
- The return of `handleConn` for a command other than `CmdConnect`: the client sends no
  other.
- A tick of the idle timer from before a reset: the timers of the Go version in `go.mod`
  do not leave one behind.
- IPv6 targets other than the mapped form of IPv4: `Guard` has their prefixes, but the
  table it is compared with, and the addresses of `H3Server`, are IPv4.
- `guardedHTTPClient`, which fetches the decoy: a fetch gives a page or fails.
- `normalizeClientConfig`, `normalizeNetworkHooks`, the flags of the client, key
  generation and the unit file: they compute values and keep no state.
- `install.sh`: a sequential script of calls of other programs; its use of the
  certificate is a run of `CertStore`.
- The write deadline of `UDPConn`: it makes `WriteTo` fail early, and has no effect on
  datagrams that are sent.
- quic-go, the HTTP/3 library, the operating system: external, by how the code uses
  them.
- Byte layouts that no property tells apart.

`PinStable` makes two exceptions. After a loss of power a new certificate may be
forgotten, because the directory is not synced after the rename; and two first starts
that overlap each make one, and the later rename wins. No document promises otherwise.

Two observations have no property, because there is no sequence of steps to explore:
`-quic-cert-info` without `-quic-cert` uses `quic-v5-cert.pem` (`main.go:93`) where the server
uses `quic-cert.pem` (`config.go:77`), and the accept loop retries at once after every
error (`main.go:172`).

## What could come next

- IPv6 ranges in the table of `Guard`, and lookups of both families in `H3Server`.
- Two associations in full in `udp_association`, should their interaction become more
  than the slots they share.
