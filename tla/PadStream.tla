------------------------------ MODULE PadStream ------------------------------
(***************************************************************************)
(* The padding frames of the TCP carrier (internal/padstream): two peers,  *)
(* each with a goroutine in Write and one in Read, over a byte stream with *)
(* bounded buffers.  Read may write a keep-alive frame of its own, under   *)
(* the lock that Write holds for all its chunks.                           *)
(*                                                                         *)
(* The stream is a sequence of items as they are written: a header, the    *)
(* padding it announces, the payload it announces.  A byte of payload is   *)
(* its position in what the peer wrote.  The type byte of a frame is never *)
(* read and left out.                                                      *)
(***************************************************************************)
EXTENDS Integers, Sequences

CONSTANTS
  Opener, Other,      \* the peers: the client, which writes first, and the server
  MaxPadding, InitialFrames, InitialMax,   \* Policy
  MaxFrame,           \* payload bytes of one frame, 65535 in the code
  Capacity,           \* items the buffers of one direction hold
  OpenerBytes, OtherBytes   \* bounds on the bytes each peer writes

ASSUME PadAssumption ==
  /\ Opener # Other
  /\ {MaxPadding, OpenerBytes, OtherBytes} \subseteq Nat
  /\ {InitialFrames, InitialMax, MaxFrame, Capacity} \subseteq Nat \ {0}

Peers == {Opener, Other}
peer(p) == IF p = Opener THEN Other ELSE Opener
MaxBytes(p) == IF p = Opener THEN OpenerBytes ELSE OtherBytes

VARIABLES
  pipe,       \* per peer: the items it wrote that were not read yet
  conns,      \* per peer: its Conn, and where its two goroutines are
  closed      \* the raw connection was closed

vars == <<pipe, conns, closed>>

Bytes == Seq(Nat \ {0})
Item ==
  [kind : {"header"}, payloadLen : 0..MaxFrame, padLen : Nat]
    \cup [kind : {"padding"}, len : Nat]
    \cup [kind : {"payload"}, bytes : Bytes]

Conn ==
  [writeMu : {"free", "writer", "reader"},
   writer : {"idle", "header", "padding", "payload", "failed"},
   left : Nat,                   \* bytes of the current Write to go
   padLen : Nat,                         \* padding of the current frame
   written : Nat,
   framesSent : Nat,
   reader : {"top", "lock", "header", "padding", "read", "failed"},
   readStage : 0..2, readPayloadLen : 0..MaxFrame, readPadLen : Nat,
   readBuf : Bytes,
   delivered : Bytes]                    \* what Read returned

TypeOK ==
  /\ pipe \in [Peers -> Seq(Item)] /\ \A p \in Peers : Len(pipe[p]) <= Capacity
  /\ conns \in [Peers -> Conn]
  /\ closed \in BOOLEAN

Init ==
  /\ pipe = [p \in Peers |-> <<>>]
  /\ conns = [p \in Peers |->
                [writeMu |-> "free", writer |-> "idle", left |-> 0, padLen |-> 0, written |-> 0,
                 framesSent |-> 0, reader |-> "top", readStage |-> 0, readPayloadLen |-> 0,
                 readPadLen |-> 0, readBuf |-> <<>>, delivered |-> <<>>]]
  /\ closed = FALSE

-----------------------------------------------------------------------------
\* raw.Write of one item; it blocks while the buffers are full.
Send(p, item) ==
  /\ ~closed /\ Len(pipe[p]) < Capacity
  /\ pipe' = [pipe EXCEPT ![p] = Append(@, item)]

\* The largest padding of the next data frame.
maxPad(c) == IF c.framesSent < InitialFrames THEN InitialMax ELSE MaxPadding

(* Write takes the lock for n bytes.  The server answers what it read.     *)
Write(p, n) ==
  /\ conns[p].writer = "idle" /\ conns[p].writeMu = "free"
  /\ n <= MaxBytes(p) - conns[p].written
  /\ p = Other => conns[p].delivered # <<>>
  /\ conns' = [conns EXCEPT ![p].writer = "header", ![p].writeMu = "writer", ![p].left = n]
  /\ UNCHANGED <<pipe, closed>>

\* Mutant of chunk: the frame starts again at the first byte of the Write.
chunkNotAdvanced(c) == [i \in 1..(IF c.left > MaxFrame THEN MaxFrame ELSE c.left) |-> i]
\* The bytes of the next frame: at most MaxFrame of what is left.
chunk(c) == [i \in 1..(IF c.left > MaxFrame THEN MaxFrame ELSE c.left) |-> c.written + i]

WriteHeader(p) ==
  /\ conns[p].writer = "header"
  /\ \E pad \in 0..maxPad(conns[p]) :
       /\ Send(p, [kind |-> "header", payloadLen |-> Len(chunk(conns[p])), padLen |-> pad])
       /\ conns' = [conns EXCEPT ![p].writer = IF pad > 0 THEN "padding" ELSE "payload",
                                 ![p].padLen = pad]
  /\ UNCHANGED closed

WritePadding(p) ==
  /\ conns[p].writer = "padding"
  /\ Send(p, [kind |-> "padding", len |-> conns[p].padLen])
  /\ conns' = [conns EXCEPT ![p].writer = "payload", ![p].padLen = 0]
  /\ UNCHANGED closed

WritePayload(p) ==
  LET c == conns[p]
      rest == c.left - Len(chunk(c)) IN
  /\ c.writer = "payload"
  /\ Send(p, [kind |-> "payload", bytes |-> chunk(c)])
  /\ conns' = [conns EXCEPT ![p].written = @ + Len(chunk(c)), ![p].framesSent = @ + 1,
                            ![p].left = rest,
                            ![p].writer = IF rest > 0 THEN "header" ELSE "idle",
                            ![p].writeMu = IF rest > 0 THEN "writer" ELSE "free"]
  /\ UNCHANGED closed

-----------------------------------------------------------------------------
\* Mutant of idle: the lengths of the last header do not count, as the comment
\* in Read has it.
idleAtHeader(c) == c.readStage = 0 /\ c.readBuf = <<>>
\* The guard of the keep-alive.  The lengths are those of the last header, so
\* after a frame of any other length than (0, 0) it is false.
idle(c) ==
  c.readStage = 0 /\ c.readBuf = <<>> /\ c.readPayloadLen = 0 /\ c.readPadLen = 0

(* The top of the loop of Read.  The client reads only after it wrote; the *)
(* dice decide on a keep-alive.                                            *)
ReadTop(p) ==
  LET c == conns[p] IN
  /\ c.reader = "top"
  /\ p = Opener => c.framesSent > 0
  /\ \/ conns' = [conns EXCEPT ![p].reader = "read"]
     \/ idle(c) /\ conns' = [conns EXCEPT ![p].reader = "lock"]
  /\ UNCHANGED <<pipe, closed>>

\* Mutant of mayLock: the keep-alive is written without the lock.
mayLockAnyway(c) == TRUE
mayLock(c) == c.writeMu = "free"

(* maybeKeepAlive: no keep-alive before the first frame.                   *)
KeepAliveLock(p) ==
  /\ conns[p].reader = "lock" /\ mayLock(conns[p])
  /\ conns' = IF conns[p].framesSent = 0
              THEN [conns EXCEPT ![p].reader = "read"]
              ELSE [conns EXCEPT ![p].reader = "header", ![p].writeMu = "reader"]
  /\ UNCHANGED <<pipe, closed>>

KeepAliveHeader(p) ==
  /\ conns[p].reader = "header"
  /\ \E pad \in 0..MaxPadding :
       /\ Send(p, [kind |-> "header", payloadLen |-> 0, padLen |-> pad])
       /\ conns' = IF pad > 0
                   THEN [conns EXCEPT ![p].reader = "padding", ![p].padLen = pad]
                   ELSE [conns EXCEPT ![p].reader = "read", ![p].writeMu = "free"]
  /\ UNCHANGED closed

KeepAlivePadding(p) ==
  /\ conns[p].reader = "padding"
  /\ Send(p, [kind |-> "padding", len |-> conns[p].padLen])
  /\ conns' = [conns EXCEPT ![p].reader = "read", ![p].writeMu = "free", ![p].padLen = 0]
  /\ UNCHANGED closed

\* readBuf[n:]
leftover(buf, n) == SubSeq(buf, n + 1, Len(buf))

(* Buffered payload is returned, as much as the caller's buffer takes.     *)
ReadBuffered(p) ==
  LET buf == conns[p].readBuf IN
  /\ conns[p].reader = "read" /\ buf # <<>>
  /\ \E n \in 1..Len(buf) :
       conns' = [conns EXCEPT ![p].reader = "top", ![p].readBuf = leftover(buf, n),
                              ![p].delivered = @ \o SubSeq(buf, 1, n)]
  /\ UNCHANGED <<pipe, closed>>

\* Mutant of afterPadding: the stage counts on past the payload.
afterPaddingCounts(c) == IF c.readPayloadLen > 0 THEN 2 ELSE 3
afterPadding(c) == IF c.readPayloadLen > 0 THEN 2 ELSE 0

\* The Conn after io.ReadFull of what its stage asks for.
Consume(c, item) ==
  CASE c.readStage = 0 ->
         [c EXCEPT !.readPayloadLen = item.payloadLen, !.readPadLen = item.padLen,
                   !.readStage = IF item.padLen > 0 THEN 1
                                 ELSE IF item.payloadLen > 0 THEN 2 ELSE 0]
    [] c.readStage = 1 -> [c EXCEPT !.readStage = afterPadding(c)]
    [] c.readStage = 2 -> [c EXCEPT !.readBuf = item.bytes, !.readStage = 0]

\* What io.ReadFull takes is what the stage of the reader is for: the kind of
\* item it expects, of the length the last header announced.  Anything else
\* would be taken for something it is not; Framed says that this never happens.
InFrame(p) ==
  pipe[peer(p)] # <<>> =>
    LET item == Head(pipe[peer(p)])
        c == conns[p] IN
    CASE c.readStage = 0 -> item.kind = "header"
      [] c.readStage = 1 -> item.kind = "padding" /\ item.len = c.readPadLen
      [] c.readStage = 2 -> item.kind = "payload" /\ Len(item.bytes) = c.readPayloadLen

ReadItem(p) ==
  /\ conns[p].reader = "read" /\ conns[p].readBuf = <<>>
  /\ pipe[peer(p)] # <<>> /\ InFrame(p)
  /\ pipe' = [pipe EXCEPT ![peer(p)] = Tail(@)]
  /\ conns' = [conns EXCEPT ![p] = [Consume(@, Head(pipe[peer(p)])) EXCEPT !.reader = "top"]]
  /\ UNCHANGED closed

-----------------------------------------------------------------------------
(* Either peer closes, or the connection breaks: Write gives up and gives  *)
(* the lock back, a keep-alive ignores the error, Read fails.              *)
Close == ~closed /\ closed' = TRUE /\ UNCHANGED <<pipe, conns>>

WriteFails(p) ==
  /\ closed /\ conns[p].writer \notin {"idle", "failed"}
  /\ conns' = [conns EXCEPT ![p].writer = "failed", ![p].writeMu = "free"]
  /\ UNCHANGED <<pipe, closed>>

ReadFails(p) ==
  /\ closed
  /\ \/ /\ conns[p].reader \in {"header", "padding"}
        /\ conns' = [conns EXCEPT ![p].reader = "read", ![p].writeMu = "free"]
     \/ /\ conns[p].reader = "read" /\ conns[p].readBuf = <<>>
        /\ conns' = [conns EXCEPT ![p].reader = "failed"]
  /\ UNCHANGED <<pipe, closed>>

Writer(p) == WriteHeader(p) \/ WritePadding(p) \/ WritePayload(p) \/ WriteFails(p)
Reader(p) ==
  \/ ReadTop(p) \/ KeepAliveLock(p) \/ KeepAliveHeader(p) \/ KeepAlivePadding(p)
  \/ ReadBuffered(p) \/ ReadItem(p) \/ ReadFails(p)

Next ==
  \/ Close
  \/ \E p \in Peers : Writer(p) \/ Reader(p) \/ \E n \in 1..MaxBytes(p) : Write(p, n)

(* Goroutines that can run are run, and both peers keep reading.           *)
Fairness == \A p \in Peers : WF_vars(Writer(p)) /\ WF_vars(Reader(p))

Spec == Init /\ [][Next]_vars /\ Fairness

-----------------------------------------------------------------------------
(* A reader always finds at the front of the stream what its stage expects *)
(* to read, so keep-alives never fall inside a frame of Write and lengths  *)
(* are never taken from padding or payload (padstream.go:81-152, 170-203). *)
Framed == \A p \in Peers : InFrame(p)

(* Each direction is a Pipe: whatever the padding, the sizes of the writes *)
(* and of the callers' buffers, Read returns the bytes the peer wrote from *)
(* their start, in order and without a gap (padstream.go:81-129, 154-205). *)
Up == INSTANCE Pipe WITH
  written <- conns[Opener].written, delivered <- conns[Other].delivered
Down == INSTANCE Pipe WITH
  written <- conns[Other].written, delivered <- conns[Opener].delivered
ImplementsPipe == Up!Spec /\ Down!Spec

(* Keep-alives of the two readers never block each other: on a connection  *)
(* that stays open, every byte that was written is read in the end         *)
(* (padstream.go:131-163).                                                 *)
AllRead ==
  \A p \in Peers : \A n \in 1..MaxBytes(p) :
    (conns[p].written >= n) ~> (closed \/ Len(conns[peer(p)].delivered) >= n)

(* The comment on the keep-alive (padstream.go:156-161) says that an idle  *)
(* reader has a chance to emit one before it blocks on the next header.    *)
KeepAliveWhenIdle ==
  \A p \in Peers :
    conns[p].reader = "top" /\ conns[p].readStage = 0 /\ conns[p].readBuf = <<>> => idle(conns[p])
=============================================================================
