------------------------------- MODULE H3Server -------------------------------
(***************************************************************************)
(* The requests of the HTTP/3 server (ServeHTTP and relayH3Stream in       *)
(* internal/quicx/server.go, ResolveAndValidateAuthority in                *)
(* internal/chimera/guard.go): authentication, limits, the choice between  *)
(* decoy, UDP relay and TCP tunnel, the resolution and the dial of the     *)
(* target, and the two copying goroutines of a tunnel.                     *)
(*                                                                         *)
(* The limiter appears here by what Limiter shows of it: its slots are     *)
(* those of the module Slots.  Validate, which is in ReplayAuth, may give  *)
(* any answer, and a UDP session, which is in UdpSession, may last for     *)
(* ever.  A name may resolve to other addresses every time it is looked up.*)
(***************************************************************************)
EXTENDS Guard, FiniteSets

CONSTANTS
  Requests,        \* request goroutines
  IPs,             \* addresses of targets
  MaxConcurrent    \* capacity of the semaphore of the limiter

ASSUME ServerAssumption ==
  /\ IsFiniteSet(Requests) /\ IsFiniteSet(IPs)
  /\ \A ip \in IPs : unmap(ip) \in IPv4       \* IPv4, in either form
  /\ MaxConcurrent \in Nat \ {0}

VARIABLES
  closed,     \* Close was called
  sem,        \* slots of the limiter in use
  reqs        \* per request: its handler, its goroutines and its target

vars == <<closed, sem, reqs>>

None == <<>>               \* no address

\* What a lookup gives: nothing, or one or more addresses.
Answers == {<<>>} \cup {<<i>> : i \in IPs} \cup {<<i, j>> : i, j \in IPs}

\* Where a handler holds a slot of the limiter, in the order it gets there.
Holding == {"bucket", "route", "resolve", "dial", "udp", "session", "wait1", "wait2", "closeTarget", "release"}

Request ==
  [at : Holding \cup {"idle", "allow", "returned"},
   method : {"CONNECT", "GET"}, authenticated : BOOLEAN,
   status : {"none", "200", "502", "404 decoy", "decoy", "429"},
   addr : IPs \cup {None},                       \* the address that is dialled
   target : {"none", "open", "closed"},
   toTarget : {"none", "read", "write", "done"},    \* what io.Copy is blocked in
   toClient : {"none", "read", "write", "done"},
   done : 0..2,                                 \* elements in the channel done
   expired : BOOLEAN]                           \* the deadlines were set to now

TypeOK ==
  /\ closed \in BOOLEAN
  /\ sem \in 0..MaxConcurrent
  /\ reqs \in [Requests -> Request]

Init ==
  /\ closed = FALSE /\ sem = 0
  /\ reqs = [r \in Requests |->
               [at |-> "idle", method |-> "GET",
                authenticated |-> FALSE, status |-> "none", addr |-> None, target |-> "none",
                toTarget |-> "none", toClient |-> "none", done |-> 0, expired |-> FALSE]]

-----------------------------------------------------------------------------
(* A request arrives.  Only CONNECT consults the authenticator; valid is   *)
(* what that answers.                                                      *)
Authenticate(r, method, valid) ==
  /\ reqs[r].at = "idle" /\ ~closed
  /\ reqs' = [reqs EXCEPT ![r].at = "allow", ![r].method = method,
                          ![r].authenticated = method = "CONNECT" /\ valid]
  /\ UNCHANGED <<closed, sem>>

Answer(r, status) == [reqs EXCEPT ![r].at = "release", ![r].status = status]

\* Mutant: a request waits for a slot.
AllowWaits(r) ==
  /\ reqs[r].at = "allow" /\ sem < MaxConcurrent
  /\ sem' = sem + 1
  /\ reqs' = [reqs EXCEPT ![r].at = IF reqs[r].authenticated THEN "route" ELSE "bucket"]
  /\ UNCHANGED closed
(* Allow, the semaphore.  A request that is refused here holds nothing.    *)
Allow(r) ==
  /\ reqs[r].at = "allow"
  /\ IF sem < MaxConcurrent
     THEN /\ sem' = sem + 1
          /\ reqs' = [reqs EXCEPT ![r].at = IF reqs[r].authenticated THEN "route" ELSE "bucket"]
     ELSE /\ reqs' = [reqs EXCEPT ![r].at = "returned", ![r].status = "429"]
          /\ UNCHANGED sem
  /\ UNCHANGED closed

(* Allow, the bucket of the address, which may be empty.  The slot is held *)
(* meanwhile, and others may be refused for want of it.                    *)
Bucket(r) ==
  /\ reqs[r].at = "bucket"
  /\ \/ reqs' = [reqs EXCEPT ![r].at = "route"]
     \/ reqs' = Answer(r, "429")
  /\ UNCHANGED <<closed, sem>>

(* The branches of ServeHTTP once the slot is granted; kind is what the    *)
(* header Connect-Protocol asks for, which only an authenticated request   *)
(* is asked.                                                               *)
Route(r, kind) ==
  LET q == reqs[r] IN
  /\ q.at = "route"
  /\ reqs' = IF q.authenticated
             THEN [reqs EXCEPT ![r].at = IF kind = "udp" THEN "udp" ELSE "resolve"]
             ELSE Answer(r, IF q.method = "CONNECT" THEN "404 decoy" ELSE "decoy")
  /\ UNCHANGED <<closed, sem>>

(* serveUDPSession: a refusal, or a session, which has its detail in       *)
(* UdpSession and goes on for as long as packets pass.                     *)
ServeUDP(r) ==
  /\ \/ /\ reqs[r].at = "udp"
        /\ \/ \E status \in {"429", "502"} : reqs' = Answer(r, status)
           \/ reqs' = [reqs EXCEPT ![r].at = "session", ![r].status = "200"]
     \/ reqs[r].at = "session" /\ reqs' = [reqs EXCEPT ![r].at = "release"]
  /\ UNCHANGED <<closed, sem>>

-----------------------------------------------------------------------------
\* Mutant of acceptable: one good address is enough.
acceptableIfAny(ips) == \E i \in DOMAIN ips : ~IsForbiddenIP(ips[i])
\* ResolveAndValidateAuthority refuses a failed lookup, and every answer when
\* one of the addresses is forbidden.
acceptable(ips) == ips # <<>> /\ \A i \in DOMAIN ips : ~IsForbiddenIP(ips[i])

\* The address literal that is dialled, never the name.
validatedTarget(ips) == ips[1]

(* The lookup and its validation.                                          *)
Resolve(r, ips) ==
  /\ reqs[r].at = "resolve"
  /\ reqs' = IF acceptable(ips)
             THEN [reqs EXCEPT ![r].at = "dial", ![r].addr = validatedTarget(ips)]
             ELSE Answer(r, "502")
  /\ UNCHANGED <<closed, sem>>

(* DialContext fails, is cancelled or takes longer than dialTimeout, or    *)
(* it succeeds; then the response is 200 and the goroutines start.  With   *)
(* no streamer the target is closed again.                                 *)
Dial(r) ==
  /\ reqs[r].at = "dial"
  /\ \/ reqs' = Answer(r, "502")
     \/ reqs' = [reqs EXCEPT ![r].at = "closeTarget", ![r].target = "open", ![r].status = "502"]
     \/ reqs' = [reqs EXCEPT ![r].at = "wait1", ![r].target = "open", ![r].status = "200",
                             ![r].toTarget = "read", ![r].toClient = "read"]
  /\ UNCHANGED <<closed, sem>>

\* io.Copy alternates between a Read of its source and a Write to the other
\* side; a goroutine that is done sends on done, which has room for both.
ToTarget(r, at) ==
  [reqs EXCEPT ![r].toTarget = at, ![r].done = IF at = "done" THEN @ + 1 ELSE @]
ToClient(r, at) ==
  [reqs EXCEPT ![r].toClient = at, ![r].done = IF at = "done" THEN @ + 1 ELSE @]

(* Bytes arrive, from the stream as long as that is open.                  *)
CopyReads(r) ==
  /\ ~reqs[r].expired
  /\ \/ reqs[r].toTarget = "read" /\ ~closed /\ reqs' = ToTarget(r, "write")
     \/ reqs[r].toClient = "read" /\ reqs' = ToClient(r, "write")
  /\ UNCHANGED <<closed, sem>>

(* The other side takes them.  Until then the Write is blocked, and io.Copy*)
(* sees nothing of its source.                                             *)
CopyWrites(r) ==
  /\ ~reqs[r].expired
  /\ \/ reqs[r].toTarget = "write" /\ reqs' = ToTarget(r, "read")
     \/ reqs[r].toClient = "write" /\ ~closed /\ reqs' = ToClient(r, "read")
  /\ UNCHANGED <<closed, sem>>

(* io.Copy returns because its source ended or one side failed.            *)
CopyEnds(r) ==
  /\ \/ reqs[r].toTarget \in {"read", "write"} /\ reqs' = ToTarget(r, "done")
     \/ reqs[r].toClient \in {"read", "write"} /\ reqs' = ToClient(r, "done")
  /\ UNCHANGED <<closed, sem>>

\* What makes io.Copy return by itself: past deadlines, wherever it is; and the
\* end of the server, in a Read or a Write of the stream, but not at the target.
CopyMustEnd(r) ==
  /\ \/ /\ \/ reqs[r].expired /\ reqs[r].toTarget = "write"
           \/ (reqs[r].expired \/ closed) /\ reqs[r].toTarget = "read"
        /\ reqs' = ToTarget(r, "done")
     \/ /\ \/ reqs[r].expired /\ reqs[r].toClient = "read"
           \/ (reqs[r].expired \/ closed) /\ reqs[r].toClient = "write"
        /\ reqs' = ToClient(r, "done")
  /\ UNCHANGED <<closed, sem>>

\* Mutant of deadlinesSet: the other direction is left to end by itself.
deadlinesLeft == FALSE
deadlinesSet == TRUE

(* relayH3Stream: wait for one direction, make the other one end, wait for *)
(* it; then the deferred target.Close.                                     *)
Relay(r) ==
  /\ \/ /\ reqs[r].at = "wait1" /\ reqs[r].done > 0
        /\ reqs' = [reqs EXCEPT ![r].at = "wait2", ![r].done = @ - 1,
                                ![r].expired = deadlinesSet]
     \/ /\ reqs[r].at = "wait2" /\ reqs[r].done > 0
        /\ reqs' = [reqs EXCEPT ![r].at = "closeTarget", ![r].done = @ - 1]
     \/ /\ reqs[r].at = "closeTarget"
        /\ reqs' = [reqs EXCEPT ![r].at = "release", ![r].target = "closed"]
  /\ UNCHANGED <<closed, sem>>

\* Mutants of released: the slot is kept; it is given back twice.
releasedNever(n) == n
releasedTwice(n) == n - 2
released(n) == n - 1

(* The deferred release, the last thing a handler does.                    *)
Release(r) ==
  /\ reqs[r].at = "release"
  /\ sem' = released(sem)
  /\ reqs' = [reqs EXCEPT ![r].at = "returned"]
  /\ UNCHANGED closed

(* Close: the HTTP/3 server, the listener and the socket go; no request    *)
(* arrives after that.                                                     *)
Close ==
  /\ ~closed /\ closed' = TRUE
  /\ UNCHANGED <<sem, reqs>>

Handler(r) ==
  \/ Allow(r) \/ Bucket(r) \/ ServeUDP(r) \/ Dial(r) \/ Relay(r) \/ Release(r)
  \/ \E kind \in {"tcp", "udp"} : Route(r, kind)
  \/ \E ips \in Answers : Resolve(r, ips)

Next ==
  \/ Close
  \/ \E r \in Requests :
       \/ \E method \in {"CONNECT", "GET"}, valid \in BOOLEAN : Authenticate(r, method, valid)
       \/ Handler(r) \/ CopyReads(r) \/ CopyWrites(r) \/ CopyEnds(r)

\* A handler that has not answered, or that has a tunnel, does its next step:
\* lookups and dials end by their timeouts.  A response to a client that does
\* not read it, and a UDP session, may last.
MustStep(r) == (reqs[r].status = "none" \/ reqs[r].target # "none") /\ Handler(r)

(* Handlers run, and io.Copy notices a deadline and a closed stream.       *)
(* Nothing makes a client or a target send, read or end.                   *)
Fairness == \A r \in Requests : WF_vars(MustStep(r)) /\ WF_vars(CopyMustEnd(r))

Spec == Init /\ [][Next]_vars /\ Fairness

-----------------------------------------------------------------------------
\* The requests that got a slot and have not returned.
Holders == {r \in Requests : reqs[r].at \in Holding}

(* From the side of the handlers the semaphore is a Slots: every path      *)
(* through ServeHTTP, refusals and failures included, gives back once what *)
(* it took, and nobody is served without a slot (server.go:147-152).       *)
Semaphore == INSTANCE Slots WITH
  Users <- Requests, Capacity <- MaxConcurrent, used <- sem, holders <- Holders
ImplementsSlots == Semaphore!Spec

(* A connection to a target exists only for an authenticated CONNECT that  *)
(* holds a slot, and leads to a public address, whatever mixture of        *)
(* addresses, in whatever form, a lookup gives (server.go:165-177,         *)
(* guard.go:49-67, 94-99).                                                 *)
TargetsVetted ==
  \A r \in Requests :
    reqs[r].target = "open" =>
      /\ reqs[r].authenticated /\ reqs[r].method = "CONNECT"
      /\ reqs[r].at \in Holding
      /\ ~Reserved(unmap(reqs[r].addr))

(* Every request is answered, also while tunnels and UDP sessions that do  *)
(* not end hold every slot: Allow refuses and never waits, and no handler  *)
(* waits for another (server.go:147-151, limiter.go:57).                   *)
AlwaysAnswered == \A r \in Requests : reqs[r].at = "allow" ~> reqs[r].status # "none"

\* The handler of a tunnel returned; its target and its goroutines are gone.
Settled(r) ==
  /\ reqs[r].at = "returned" /\ reqs[r].target = "closed"
  /\ reqs[r].toTarget = "done" /\ reqs[r].toClient = "done"

(* When one direction of a tunnel has ended the other ends too, whatever   *)
(* client and target do, by the deadlines (server.go:256-259).  When the   *)
(* server is closed its tunnels end as well, but only if their targets do  *)
(* not leave a Write blocked for ever: there is no deadline before the     *)
(* first direction has ended, and a goroutine in target.Write does not see *)
(* that its stream was closed (server.go:246-256).                         *)
TunnelEnds ==
  \A r \in Requests :
    /\ (reqs[r].at = "wait1" /\ (reqs[r].toTarget = "done" \/ reqs[r].toClient = "done"))
         ~> Settled(r)
    /\ []<>(reqs[r].toTarget # "write") => (reqs[r].at = "wait1" /\ closed) ~> Settled(r)
=============================================================================
