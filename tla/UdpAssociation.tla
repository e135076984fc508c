---------------------------- MODULE UdpAssociation ----------------------------
(***************************************************************************)
(* A UDP association from end to end: DialUDP of internal/quicx/client.go  *)
(* and the UDPConn of internal/quicx/udp_client.go, composed with the      *)
(* session of the server (UdpSession).                                     *)
(*                                                                         *)
(* The two sides see each other through quic-go, which is external: a      *)
(* stream cancelled by one side ends the context of the other, datagrams   *)
(* may be lost, and the connection may go away under both.  The bytes of a *)
(* packet are in UdpCodec: here a datagram completes a packet or not.      *)
(***************************************************************************)
EXTENDS UdpSession

VARIABLES
  others,     \* slots held by sessions of other clients
  cli         \* per association: the state of its client

vars == <<slots, ses, others, cli>>

Client ==
  [at : {"idle", "request", "conn", "failed"},       \* DialUDP, and then the UDPConn
   stream : {"none", "open", "cancelled"},
   ctxDone : BOOLEAN,                                \* UDPConn.ctx
   close : {"open", "cancelled", "returned"},        \* what Close has done
   readDeadline : {"none", "set"},
   reader : {"idle", "receive"},                     \* ReadFrom ...
   readBy : {"none", "set"},                         \* ... and the deadline of its context
   arrived : 0..MaxPackets,                          \* datagrams that wait for it
   lost : BOOLEAN]                                   \* the connection is gone

Init ==
  /\ others \in 0..MaxSessions /\ slots = others
  /\ ses = [s \in Sessions |-> NewSession]
  /\ cli = [s \in Sessions |->
       [at |-> "idle", stream |-> "none", ctxDone |-> FALSE, close |-> "open",
        readDeadline |-> "none", reader |-> "idle", readBy |-> "none", arrived |-> 0, lost |-> FALSE]]

-----------------------------------------------------------------------------
(* DialUDP.                                                                *)
ServerAnswers(s) == ses[s].pc # "none"            \* 200 follows ListenPacket
ServerRefuses(s) == ses[s].pc = "none" /\ ses[s].main \in {"refused", "freeSlot", "returned"}

(* OpenRequestStream, which may fail, and SendRequestHeader; when that     *)
(* fails the stream is cancelled.                                          *)
OpenRequestStream(s) ==
  /\ cli[s].at = "idle"
  /\ \/ ~cli[s].lost /\ cli' = [cli EXCEPT ![s].at = "request", ![s].stream = "open"]
     \/ cli' = [cli EXCEPT ![s].at = "failed"]
     \/ cli' = [cli EXCEPT ![s].at = "failed", ![s].stream = "cancelled"]
  /\ UNCHANGED <<session, others>>

\* Mutant of afterRejection: the stream is left to the server.
afterRejectionOpen == "open"
\* cancelStream
afterRejection == "cancelled"

(* ReadResponse, and newUDPConn when the status is 2xx.                    *)
ReadResponse(s) ==
  /\ cli[s].at = "request"
  /\ \/ /\ ServerAnswers(s)
        /\ cli' = [cli EXCEPT ![s].at = "conn"]
     \/ /\ ServerRefuses(s) \/ ses[s].stream = "closed" \/ cli[s].lost
        /\ cli' = [cli EXCEPT ![s].at = "failed", ![s].stream = afterRejection]
  /\ UNCHANGED <<session, others>>

-----------------------------------------------------------------------------
\* Mutant of watched: ReadFrom waits without the context of the connection.
watchedDeadline(c) == c.readBy = "set"
(* What ends ReceiveDatagram: the context made by readContext, cancelled   *)
(* or at its deadline, which passes at any time.                           *)
watched(c) == c.ctxDone \/ c.readBy = "set"

(* ReadFrom: readContext takes the deadline that is set now.               *)
ReadFrom(s) ==
  /\ cli[s].at = "conn" /\ cli[s].reader = "idle"
  /\ cli' = [cli EXCEPT ![s].reader = "receive", ![s].readBy = cli[s].readDeadline]
  /\ UNCHANGED <<session, others>>

(* A datagram: Decode gives a packet or fails, or it gives nothing yet and *)
(* the loop goes on.                                                       *)
ReadReceives(s) ==
  /\ cli[s].reader = "receive" /\ cli[s].arrived > 0
  /\ \/ cli' = [cli EXCEPT ![s].arrived = @ - 1, ![s].reader = "idle", ![s].readBy = "none"]
     \/ cli' = [cli EXCEPT ![s].arrived = @ - 1]
  /\ UNCHANGED <<session, others>>

ReadEnds(s) ==
  /\ cli[s].reader = "receive" /\ watched(cli[s])
  /\ cli' = [cli EXCEPT ![s].reader = "idle", ![s].readBy = "none"]
  /\ UNCHANGED <<session, others>>

(* WriteTo: its frames are sent, and may be lost.  A write deadline that   *)
(* has passed, a packet of a wrong size or a cancelled stream makes it     *)
(* fail with nothing changed, and what nobody receives is not counted.     *)
WriteTo(s) ==
  /\ cli[s].at = "conn" /\ cli[s].stream = "open"
  /\ ses[s].fromClient < MaxPackets /\ ses[s].up # "exited"
  /\ ses' = [ses EXCEPT ![s].fromClient = @ + 1]
  /\ UNCHANGED <<slots, others, cli>>

(* SetReadDeadline, and SetDeadline as far as ReadFrom is concerned.  A    *)
(* deadline in the past is one that passes at once.                        *)
SetReadDeadline(s) ==
  /\ cli[s].at = "conn"
  /\ \E d \in {"none", "set"} : cli' = [cli EXCEPT ![s].readDeadline = d]
  /\ UNCHANGED <<session, others>>

\* Mutant of afterCancel: the write side stays open.
afterCancelRead == "open"
afterCancel == "cancelled"

(* Close: the context, then both directions of the stream.  closeOnce lets *)
(* a second call wait for the first.                                       *)
CloseCancels(s) ==
  /\ cli[s].at = "conn" /\ cli[s].close = "open"
  /\ cli' = [cli EXCEPT ![s].close = "cancelled", ![s].ctxDone = TRUE]
  /\ UNCHANGED <<session, others>>

CloseReturns(s) ==
  /\ cli[s].close = "cancelled"
  /\ cli' = [cli EXCEPT ![s].close = "returned", ![s].stream = afterCancel]
  /\ UNCHANGED <<session, others>>

-----------------------------------------------------------------------------
(* quic-go between the two sides, and time.                                *)

\* The connection breaks, or one of its ends closes it.
Break(s) ==
  /\ ~cli[s].lost
  /\ cli' = [cli EXCEPT ![s].lost = TRUE]
  /\ UNCHANGED <<session, others>>

\* The server learns that the client cancelled the stream or is gone.
PeerGone(s) == (cli[s].stream = "cancelled" \/ cli[s].lost) /\ RequestDone(s)

\* The client learns that the server cancelled the stream or is gone.
StreamEnds(s) ==
  /\ cli[s].at = "conn" /\ ~cli[s].ctxDone
  /\ ses[s].stream = "closed" \/ cli[s].lost
  /\ cli' = [cli EXCEPT ![s].ctxDone = TRUE]
  /\ UNCHANGED <<session, others>>

Lose(s) ==
  /\ ses[s].fromClient > 0
  /\ ses' = [ses EXCEPT ![s].fromClient = @ - 1]
  /\ UNCHANGED <<slots, others, cli>>

TargetSends(s) ==
  /\ ses[s].pc = "open" /\ ses[s].fromTarget < MaxPackets /\ ses[s].down # "exited"
  /\ ses' = [ses EXCEPT ![s].fromTarget = @ + 1]
  /\ UNCHANGED <<slots, others, cli>>

\* The session of another client ends.
OtherFrees == others > 0 /\ slots' = slots - 1 /\ others' = others - 1 /\ UNCHANGED <<ses, cli>>

-----------------------------------------------------------------------------
(* The session's steps.  It begins with the request of the client, and     *)
(* what it sends arrives at the client or is lost.                         *)
Serve(s) == cli[s].stream # "none" /\ Handler(s) /\ UNCHANGED <<others, cli>>

\* The select loop is left.
Leave(s) == Select(s) /\ ses'[s].main # "loop" /\ UNCHANGED <<others, cli>>

Upward(s) == Up(s) /\ UNCHANGED <<others, cli>>

Downward(s) ==
  /\ Down(s)
  /\ \/ UNCHANGED cli
     \/ /\ ses'[s].down = "read" /\ cli[s].arrived < MaxPackets /\ ~cli[s].lost
        /\ cli' = [cli EXCEPT ![s].arrived = @ + 1]
  /\ UNCHANGED others

Outside(s) ==
  (UpReceive(s) \/ DownRead(s) \/ PeerGone(s) \/ TimerFires(s)) /\ UNCHANGED <<others, cli>>

DialUDP(s) == OpenRequestStream(s) \/ ReadResponse(s)

Next ==
  \/ \E s \in Sessions :
       \/ DialUDP(s) \/ ReadFrom(s) \/ ReadReceives(s) \/ ReadEnds(s) \/ WriteTo(s)
       \/ SetReadDeadline(s) \/ CloseCancels(s) \/ CloseReturns(s)
       \/ Break(s) \/ StreamEnds(s) \/ Lose(s) \/ TargetSends(s)
       \/ Serve(s) \/ Upward(s) \/ Downward(s) \/ Outside(s)
  \/ OtherFrees

\* No packet is under way.
Quiet(s) == ses[s].fromClient = 0 /\ ses[s].fromTarget = 0

(* Every goroutine that can run is run, and each side learns that the      *)
(* other has cancelled the stream or is gone: quic-go delivers the frame   *)
(* or gives the connection up.  The idle timer fires if no more packets    *)
(* pass; packets that keep coming may reset it for ever.  A select         *)
(* picks among its ready cases at random, so packets that never stop do    *)
(* not keep the loop from a way out that stays open.  Nothing is assumed   *)
(* of the application, the target and the other clients.                   *)
Fairness ==
  \A s \in Sessions :
    /\ WF_vars(Serve(s)) /\ SF_vars(Leave(s)) /\ WF_vars(Upward(s)) /\ WF_vars(Downward(s))
    /\ WF_vars(Quiet(s) /\ TimerFires(s) /\ UNCHANGED <<others, cli>>)
    /\ WF_vars(PeerGone(s) /\ UNCHANGED <<others, cli>>)
    /\ WF_vars(ReadResponse(s)) /\ WF_vars(ReadEnds(s)) /\ WF_vars(CloseReturns(s))
    /\ WF_vars(StreamEnds(s))

Spec == Init /\ [][Next]_vars /\ Fairness

-----------------------------------------------------------------------------
(* The slots in use are those of the handlers between taking and freeing   *)
(* one, and a socket is open only while its session holds a slot: slots    *)
(* bound the sockets, because the deferred calls run in the right order    *)
(* (udp.go:25-31, 52).                                                     *)
SlotsBoundSockets ==
  /\ slots = others + Cardinality({s \in Sessions : ses[s].main \in Holding})
  /\ slots <= MaxSessions
  /\ \A s \in Sessions : ses[s].pc = "open" => ses[s].main \in Holding

(* A client has a UDPConn only if the server had a socket for it, and a    *)
(* DialUDP that fails leaves no stream open on which the server would go   *)
(* on serving nobody (client.go:73-119).                                   *)
AssociationHonest ==
  \A s \in Sessions :
    /\ cli[s].at = "conn" => ses[s].pc # "none"
    /\ cli[s].at = "failed" => cli[s].stream # "open"

(* A session ends, with both its goroutines and its slot, once its client  *)
(* has closed the association, has failed to open it or is gone, however   *)
(* many packets the target still sends; and once no more packets pass,     *)
(* whatever the order of the timer and the last of them                    *)
(* (udp.go:66-142).                                                        *)
Gone(s) == cli[s].at = "failed" \/ cli[s].close # "open" \/ cli[s].lost
Ended(s) == ses[s].main = "returned" /\ {ses[s].up, ses[s].down} \subseteq {"none", "exited"}
SessionEnds ==
  \A s \in Sessions :
    /\ (ses[s].main \in Holding /\ Gone(s)) ~> Ended(s)
    /\ <>[]Quiet(s) => [](ses[s].main \in Holding => <>Ended(s))

(* A blocked ReadFrom returns once the association is closed by either     *)
(* side or broken, and at the latest at the deadline that was set when it  *)
(* began; a deadline set later does not reach it (udp_client.go:61-85,     *)
(* 165-173).                                                               *)
ReadReturns ==
  \A s \in Sessions :
    (cli[s].reader = "receive" /\ (\/ cli[s].close # "open" \/ ses[s].stream = "closed"
                                  \/ cli[s].lost \/ cli[s].readBy # "none"))
      ~> (cli[s].reader = "idle")
=============================================================================
