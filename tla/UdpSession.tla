------------------------------ MODULE UdpSession ------------------------------
(***************************************************************************)
(* The UDP relay sessions of the server (serveUDPSession in                *)
(* internal/quicx/udp.go): a handler that waits in a select loop, and two  *)
(* goroutines that carry packets to and from the target, per session; the  *)
(* sessions share the slots of s.udpSlots.  The module has the steps of a  *)
(* session; UdpAssociation puts them together with its client.             *)
(*                                                                         *)
(* The idle timer fires at any time after it was armed: what matters is    *)
(* the order of its firing and of the other events, not the duration.      *)
(***************************************************************************)
EXTENDS Integers, FiniteSets

CONSTANTS
  Sessions,       \* UDP CONNECT requests that passed authentication
  MaxSessions,    \* capacity of udpSlots
  MaxPackets      \* bound on the packets that arrive per session and direction

ASSUME SessionAssumption ==
  IsFiniteSet(Sessions) /\ MaxSessions \in Nat \ {0} /\ MaxPackets \in Nat

VARIABLES
  slots,          \* number of elements in udpSlots
  ses             \* per session: its handler, goroutines, channels and resources

session == <<slots, ses>>

\* Where the handler holds its slot, in the order it gets there.
Holding == {"setup", "loop", "closeStream", "cancel", "closeSocket", "freeSlot"}

Session ==
  [main : Holding \cup {"request", "refused", "returned"},
   reqDone : BOOLEAN,                          \* r.Context() is done
   ctxDone : BOOLEAN,                          \* ctx is done
   stream : {"open", "closed"}, pc : {"none", "open", "closed"},
   up : {"none", "receive", "write", "fail", "exited"},     \* client to target
   down : {"none", "read", "send", "fail", "exited"},       \* target to client
   done : 0..2, activity : 0..1,               \* elements in the channels
   timer : {"stopped", "armed", "fired"},      \* fired: timer.C is ready
   fromClient : 0..MaxPackets, fromTarget : 0..MaxPackets]  \* packets under way

NewSession ==
  [main |-> "request", reqDone |-> FALSE, ctxDone |-> FALSE, stream |-> "open",
   pc |-> "none", up |-> "none", down |-> "none", done |-> 0, activity |-> 0,
   timer |-> "stopped", fromClient |-> 0, fromTarget |-> 0]

-----------------------------------------------------------------------------
(* The slot is taken without blocking, or the request is rate-limited.     *)
TakeSlot(s) ==
  /\ ses[s].main = "request"
  /\ IF slots < MaxSessions
     THEN slots' = slots + 1 /\ ses' = [ses EXCEPT ![s].main = "setup"]
     ELSE ses' = [ses EXCEPT ![s].main = "refused"] /\ UNCHANGED slots

(* No streamer, a target that is not allowed or does not resolve, or no    *)
(* socket: the handler answers 502 and only gives its slot back.           *)
SetupFails(s) ==
  /\ ses[s].main = "setup"
  /\ ses' = [ses EXCEPT ![s].main = "freeSlot"]
  /\ UNCHANGED slots

(* The socket is there: both goroutines start and the timer is armed.      *)
Start(s) ==
  /\ ses[s].main = "setup"
  /\ ses' = [ses EXCEPT ![s].main = "loop", ![s].pc = "open", ![s].ctxDone = ses[s].reqDone,
                        ![s].up = "receive", ![s].down = "read", ![s].timer = "armed"]
  /\ UNCHANGED slots

-----------------------------------------------------------------------------
(* Client to target: a datagram arrives, and Decode gives a packet, nothing *)
(* yet, or an error.                                                       *)
UpReceive(s) ==
  /\ ses[s].up = "receive" /\ ses[s].fromClient > 0
  /\ \E next \in {"write", "receive", "fail"} :
       ses' = [ses EXCEPT ![s].fromClient = @ - 1, ![s].up = next]
  /\ UNCHANGED slots

(* ReceiveDatagram fails once its context is done or the read side of the  *)
(* stream is cancelled.                                                    *)
UpCancelled(s) ==
  /\ ses[s].up = "receive"
  /\ ses[s].ctxDone \/ ses[s].stream = "closed"
  /\ ses' = [ses EXCEPT ![s].up = "fail"]
  /\ UNCHANGED slots

(* pc.WriteTo, and signal: a non-blocking send on a channel of capacity 1. *)
UpWrite(s) ==
  /\ ses[s].up = "write"
  /\ \/ ses[s].pc = "open" /\ ses' = [ses EXCEPT ![s].up = "receive", ![s].activity = 1]
     \/ ses' = [ses EXCEPT ![s].up = "fail"]
  /\ UNCHANGED slots

(* Target to client: a packet arrives.  An empty or overlong one and one of *)
(* another source are skipped; ReadFrom may fail, and so may Encode when    *)
(* the sequence numbers are used up.                                       *)
DownRead(s) ==
  /\ ses[s].down = "read" /\ ses[s].pc = "open" /\ ses[s].fromTarget > 0
  /\ \E next \in {"send", "read", "fail"} :
       ses' = [ses EXCEPT ![s].fromTarget = @ - 1, ![s].down = next]
  /\ UNCHANGED slots

(* ReadFrom fails once the socket is closed.                               *)
DownClosed(s) ==
  /\ ses[s].down = "read" /\ ses[s].pc = "closed"
  /\ ses' = [ses EXCEPT ![s].down = "fail"]
  /\ UNCHANGED slots

(* SendDatagram of the frames, and signal.                                 *)
DownSend(s) ==
  /\ ses[s].down = "send"
  /\ \/ ses[s].stream = "open" /\ ses' = [ses EXCEPT ![s].down = "read", ![s].activity = 1]
     \/ ses' = [ses EXCEPT ![s].down = "fail"]
  /\ UNCHANGED slots

(* done <- err blocks while the channel is full; then the goroutine ends,  *)
(* and nobody waits for the packets under way.                             *)
UpExit(s) ==
  /\ ses[s].up = "fail" /\ ses[s].done < 2
  /\ ses' = [ses EXCEPT ![s].done = @ + 1, ![s].up = "exited", ![s].fromClient = 0]
  /\ UNCHANGED slots

DownExit(s) ==
  /\ ses[s].down = "fail" /\ ses[s].done < 2
  /\ ses' = [ses EXCEPT ![s].done = @ + 1, ![s].down = "exited", ![s].fromTarget = 0]
  /\ UNCHANGED slots

-----------------------------------------------------------------------------
\* resetTimer: stop, drain a value that is there already, and arm again.
\* Timers of Go 1.23 and later leave no tick of before a Stop or a Reset.
afterReset == "armed"

(* The select loop: of the cases that are ready, Go takes any.             *)
Select(s) ==
  /\ ses[s].main = "loop"
  /\ \/ ses[s].reqDone /\ ses' = [ses EXCEPT ![s].main = "closeStream"]
     \/ ses[s].done > 0 /\ ses' = [ses EXCEPT ![s].main = "closeStream", ![s].done = @ - 1]
     \/ ses[s].activity > 0 /\ ses' = [ses EXCEPT ![s].activity = 0, ![s].timer = afterReset]
     \/ /\ ses[s].timer = "fired"
        /\ ses' = [ses EXCEPT ![s].main = "closeStream", ![s].timer = "stopped"]
  /\ UNCHANGED slots

\* Mutant of socketAfterClose: the socket is left to the garbage collector.
socketLeftOpen == "open"
socketAfterClose == "closed"

(* The way out: closeUDPSessionStream, then the deferred calls, the last   *)
(* one deferred first; the slot was deferred first.                        *)
WayOut(s) ==
  \/ /\ ses[s].main = "closeStream"
     /\ ses' = [ses EXCEPT ![s].main = "cancel", ![s].stream = "closed", ![s].timer = "stopped"]
     /\ UNCHANGED slots
  \/ /\ ses[s].main = "cancel"
     /\ ses' = [ses EXCEPT ![s].main = "closeSocket", ![s].ctxDone = TRUE]
     /\ UNCHANGED slots
  \/ /\ ses[s].main = "closeSocket"
     /\ ses' = [ses EXCEPT ![s].main = "freeSlot", ![s].pc = socketAfterClose,
                           ![s].fromTarget = 0]
     /\ UNCHANGED slots

(* When the handler has returned the server ends the request's context,    *)
(* and nobody receives from activity any more.                             *)
FreeSlot(s) ==
  /\ ses[s].main = "freeSlot"
  /\ slots' = slots - 1
  /\ ses' = [ses EXCEPT ![s].main = "returned", ![s].reqDone = TRUE, ![s].ctxDone = TRUE,
                        ![s].activity = 0]

-----------------------------------------------------------------------------
(* The client goes away or the server closes; ctx is derived from the      *)
(* context of the request.                                                 *)
RequestDone(s) ==
  /\ ses[s].main # "returned" /\ ~ses[s].reqDone
  /\ ses' = [ses EXCEPT ![s].reqDone = TRUE, ![s].ctxDone = TRUE]
  /\ UNCHANGED slots

TimerFires(s) ==
  /\ ses[s].timer = "armed"
  /\ ses' = [ses EXCEPT ![s].timer = "fired"]
  /\ UNCHANGED slots

\* The steps of the handler, and those of its goroutines that wait for nobody.
Handler(s) == TakeSlot(s) \/ SetupFails(s) \/ Start(s) \/ Select(s) \/ WayOut(s) \/ FreeSlot(s)
Up(s) == UpCancelled(s) \/ UpWrite(s) \/ UpExit(s)
Down(s) == DownClosed(s) \/ DownSend(s) \/ DownExit(s)
=============================================================================
