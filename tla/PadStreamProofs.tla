--------------------------- MODULE PadStreamProofs ---------------------------
(***************************************************************************)
(* Proofs about PadStream, for every policy, frame size, buffer size and   *)
(* length of the writes: frames never mix, each direction is a Pipe, and   *)
(* keep-alives never block each other.                                     *)
(*                                                                         *)
(* The idea: a reader that went on reading what is in the stream would     *)
(* find every item it expects, and at the end of the stream it would       *)
(* expect what the holder of the write lock writes next.                   *)
(***************************************************************************)
EXTENDS PadStream, TLAPS

\* What a reader expects next: the stage, the announced lengths of payload and
\* padding that are still to come, and how many bytes of payload came before.
Expectation == (0..2) \X Nat \X Nat \X Nat

\* The item is the one expected; the bytes of a payload follow on.
Fits(e, item) ==
  \/ e[1] = 0 /\ item.kind = "header"
  \/ e[1] = 1 /\ item.kind = "padding" /\ item.len = e[3]
  \/ e[1] = 2 /\ item.kind = "payload" /\ item.bytes = [k \in 1..e[2] |-> e[4] + k]

\* What is expected after the item.
After(e, item) ==
  IF e[1] = 0 /\ item.padLen > 0 THEN <<1, item.payloadLen, item.padLen, e[4]>>
  ELSE IF e[1] = 0 /\ item.payloadLen > 0 THEN <<2, item.payloadLen, 0, e[4]>>
  ELSE IF e[1] = 1 /\ e[2] > 0 THEN <<2, e[2], 0, e[4]>>
  ELSE <<0, 0, 0, IF e[1] = 2 THEN e[4] + e[2] ELSE e[4]>>

\* What the reader of a Conn expects, and what its writer, or its keep-alive,
\* is about to write.
Reading(c) ==
  LET off == Len(c.delivered) + Len(c.readBuf) IN
  IF c.readStage = 0 THEN <<0, 0, 0, off>>
  ELSE IF c.readStage = 1 THEN <<1, c.readPayloadLen, c.readPadLen, off>>
  ELSE <<2, c.readPayloadLen, 0, off>>

Writing(c) ==
  IF c.writer = "padding" THEN <<1, Len(chunk(c)), c.padLen, c.written>>
  ELSE IF c.writer = "payload" THEN <<2, Len(chunk(c)), 0, c.written>>
  ELSE IF c.reader = "padding" THEN <<1, 0, c.padLen, c.written>>
  ELSE <<0, 0, 0, c.written>>

\* run has what a reader expects before each item of s and after the last.
Run(s, run, written) ==
  /\ run \in [1..(Len(s) + 1) -> Expectation]
  /\ \A i \in 1..Len(s) : Fits(run[i], s[i]) /\ run[i + 1] = After(run[i], s[i])
  /\ \A i \in 1..(Len(s) + 1) : run[i][4] <= written

\* What p wrote and its peer has not read is a run from what the peer expects
\* to what p is about to write.  On a closed connection p writes no more.
Direction(p) ==
  \E run :
    /\ Run(pipe[p], run, conns[p].written)
    /\ run[1] = Reading(conns[peer(p)])
    /\ ~closed => run[Len(pipe[p]) + 1] = Writing(conns[p])

\* One goroutine at a time is inside a frame.
Locked(c) ==
  /\ c.writeMu = "writer" <=> c.writer \in {"header", "padding", "payload"}
  /\ c.writeMu = "reader" <=> c.reader \in {"header", "padding"}
  /\ c.writer \in {"header", "padding", "payload"} => c.left > 0

\* What was delivered and what is buffered are the first bytes of the peer.
InOrder(c) ==
  /\ \A i \in 1..Len(c.delivered) : c.delivered[i] = i
  /\ \A i \in 1..Len(c.readBuf) : c.readBuf[i] = Len(c.delivered) + i

Orderly(c) == Locked(c) /\ InOrder(c)

IInv == TypeOK /\ \A p \in Peers : Direction(p) /\ Orderly(conns[p])

-----------------------------------------------------------------------------
\* A run goes on over an item that is appended.
LEMMA RunAppend ==
  ASSUME NEW s \in Seq(Item), NEW item \in Item, NEW run, NEW n \in Nat, NEW m \in Nat, n <= m,
         Run(s, run, n), Fits(run[Len(s) + 1], item),
         After(run[Len(s) + 1], item) \in Expectation,
         After(run[Len(s) + 1], item)[4] <= m
  PROVE  \E r : /\ Run(Append(s, item), r, m)
                /\ r[1] = run[1]
                /\ r[Len(Append(s, item)) + 1] = After(run[Len(s) + 1], item)
<1> DEFINE k == Len(s)
           r == [i \in 1..(k + 2) |-> IF i = k + 2 THEN After(run[k + 1], item) ELSE run[i]]
<1>1. /\ k \in Nat /\ Len(Append(s, item)) = k + 1
      /\ \A i \in 1..k : Append(s, item)[i] = s[i]
      /\ Append(s, item)[k + 1] = item
  OBVIOUS
<1>2. /\ run \in [1..(k + 1) -> Expectation]
      /\ \A i \in 1..k : Fits(run[i], s[i]) /\ run[i + 1] = After(run[i], s[i])
      /\ \A i \in 1..(k + 1) : run[i][4] <= n /\ run[i][4] \in Nat
  BY DEF Run, Expectation
<1> HIDE DEF k
<1>3. r \in [1..(k + 2) -> Expectation]
  BY <1>1, <1>2 DEF k
<1>4. ASSUME NEW i \in 1..(k + 1)
      PROVE  Fits(r[i], Append(s, item)[i]) /\ r[i + 1] = After(r[i], Append(s, item)[i])
  BY <1>1, <1>2 DEF k
<1>5. \A i \in 1..(k + 2) : r[i][4] <= m
  BY <1>1, <1>2 DEF k
<1>6. r[1] = run[1] /\ r[k + 2] = After(run[k + 1], item)
  BY <1>1
<1> HIDE DEF r
<1>7. Run(Append(s, item), r, m)
  BY <1>1, <1>3, <1>4, <1>5 DEF Run
<1> QED
  BY <1>1, <1>6, <1>7 DEF k

\* A run goes on without its first item.
LEMMA RunTail ==
  ASSUME NEW s \in Seq(Item), s # <<>>, NEW run, NEW n \in Nat, Run(s, run, n)
  PROVE  \E r : /\ Run(Tail(s), r, n)
                /\ r[1] = After(run[1], Head(s))
                /\ r[Len(Tail(s)) + 1] = run[Len(s) + 1]
<1> DEFINE k == Len(s)
           r == [i \in 1..k |-> run[i + 1]]
<1>1. /\ k \in Nat \ {0} /\ Len(Tail(s)) = k - 1 /\ Head(s) = s[1]
      /\ \A i \in 1..(k - 1) : Tail(s)[i] = s[i + 1]
  OBVIOUS
<1>2. /\ run \in [1..(k + 1) -> Expectation]
      /\ \A i \in 1..k : Fits(run[i], s[i]) /\ run[i + 1] = After(run[i], s[i])
      /\ \A i \in 1..(k + 1) : run[i][4] <= n
  BY DEF Run
<1> HIDE DEF k
<1>3. r \in [1..k -> Expectation]
  BY <1>1, <1>2
<1>4. ASSUME NEW i \in 1..(k - 1)
      PROVE  Fits(r[i], Tail(s)[i]) /\ r[i + 1] = After(r[i], Tail(s)[i])
  BY <1>1, <1>2
<1>5. \A i \in 1..k : r[i][4] <= n
  BY <1>1, <1>2
<1>6. r[1] = After(run[1], Head(s)) /\ r[k] = run[k + 1]
  BY <1>1, <1>2
<1> HIDE DEF r
<1>7. Run(Tail(s), r, n)
  BY <1>1, <1>3, <1>4, <1>5 DEF Run
<1> QED
  BY <1>1, <1>6, <1>7 DEF k

-----------------------------------------------------------------------------
\* The two peers are each other's peer, and there are no more.
LEMMA PeerFacts ==
  \A p \in Peers : peer(p) \in Peers /\ peer(p) # p /\ peer(peer(p)) = p
                   /\ \A q \in Peers : q = p \/ q = peer(p)
BY PadAssumption DEF Peers, peer

\* Nothing that a direction depends on changes.
LEMMA DirectionRests ==
  ASSUME NEW p \in Peers, Direction(p), pipe'[p] = pipe[p],
         conns'[p].written = conns[p].written,
         Reading(conns'[peer(p)]) = Reading(conns[peer(p)]),
         closed' \/ (~closed /\ Writing(conns'[p]) = Writing(conns[p]))
  PROVE  Direction(p)'
BY DEF Direction

\* An item is written that fits, and what is written next follows it.
LEMMA DirectionSends ==
  ASSUME NEW p \in Peers, TypeOK, Direction(p), ~closed, NEW item \in Item,
         pipe'[p] = Append(pipe[p], item),
         Fits(Writing(conns[p]), item),
         After(Writing(conns[p]), item) \in Expectation,
         Writing(conns'[p]) = After(Writing(conns[p]), item),
         conns'[p].written \in Nat, conns[p].written <= conns'[p].written,
         Writing(conns'[p])[4] <= conns'[p].written,
         Reading(conns'[peer(p)]) = Reading(conns[peer(p)])
  PROVE  Direction(p)'
<1>1. PICK run : /\ Run(pipe[p], run, conns[p].written)
                 /\ run[1] = Reading(conns[peer(p)])
                 /\ run[Len(pipe[p]) + 1] = Writing(conns[p])
  BY DEF Direction
<1>2. pipe[p] \in Seq(Item) /\ conns[p].written \in Nat
  BY DEF TypeOK, Conn
<1>3. \E r : /\ Run(Append(pipe[p], item), r, conns'[p].written)
             /\ r[1] = run[1]
             /\ r[Len(Append(pipe[p], item)) + 1] = Writing(conns'[p])
  <2> DEFINE s == pipe[p]
             n == conns[p].written
             m == conns'[p].written
             e == run[Len(pipe[p]) + 1]
  <2>1. s \in Seq(Item) /\ n \in Nat /\ m \in Nat /\ n <= m /\ Run(s, run, n)
    BY <1>1, <1>2
  <2>2. /\ Fits(e, item) /\ After(e, item) \in Expectation /\ After(e, item)[4] <= m
        /\ After(e, item) = Writing(conns'[p])
    BY <1>1
  <2>3. e = run[Len(s) + 1]
    OBVIOUS
  <2> HIDE DEF s, n, m, e
  <2>4. \E r : Run(Append(s, item), r, m) /\ r[1] = run[1] /\ r[Len(Append(s, item)) + 1] = After(e, item)
    BY <2>1, <2>2, <2>3, RunAppend
  <2> QED
    BY <2>2, <2>4 DEF s, m
<1> QED
  BY <1>1, <1>3 DEF Direction

\* The first item is read, and what is expected next follows it.
LEMMA DirectionReads ==
  ASSUME NEW p \in Peers, TypeOK, Direction(p), pipe[p] # <<>>,
         pipe'[p] = Tail(pipe[p]),
         Reading(conns'[peer(p)]) = After(Reading(conns[peer(p)]), Head(pipe[p])),
         conns'[p] = conns[p], closed' = closed
  PROVE  Direction(p)'
<1>1. PICK run : /\ Run(pipe[p], run, conns[p].written)
                 /\ run[1] = Reading(conns[peer(p)])
                 /\ ~closed => run[Len(pipe[p]) + 1] = Writing(conns[p])
  BY DEF Direction
<1>2. pipe[p] \in Seq(Item) /\ conns[p].written \in Nat
  BY DEF TypeOK, Conn
<1>3. \E r : /\ Run(Tail(pipe[p]), r, conns[p].written)
             /\ r[1] = After(run[1], Head(pipe[p]))
             /\ r[Len(Tail(pipe[p])) + 1] = run[Len(pipe[p]) + 1]
  BY <1>1, <1>2, RunTail
<1> QED
  BY <1>1, <1>3 DEF Direction

\* A step of one peer.
LEMMA OnePeer ==
  ASSUME IInv, NEW p \in Peers, TypeOK',
         conns'[peer(p)] = conns[peer(p)], Orderly(conns'[p]),
         Direction(p)', Direction(peer(p))'
  PROVE  IInv'
<1>1. \A q \in Peers : q = p \/ q = peer(p)
  BY PeerFacts
<1>2. \A q \in Peers : Direction(q)'
  BY <1>1
<1>3. \A q \in Peers : Orderly(conns'[q])
  BY <1>1 DEF IInv
<1> QED
  BY <1>2, <1>3 DEF IInv

\* A step of one peer that neither reads nor writes the stream, and is not
\* about what it reads or writes next.
LEMMA QuietStep ==
  ASSUME IInv, NEW p \in Peers, TypeOK', UNCHANGED <<pipe, closed>>,
         conns'[peer(p)] = conns[peer(p)], Orderly(conns'[p]),
         conns'[p].written = conns[p].written,
         Reading(conns'[p]) = Reading(conns[p]),
         closed \/ Writing(conns'[p]) = Writing(conns[p])
  PROVE  IInv'
<1>1. peer(p) \in Peers /\ peer(peer(p)) = p /\ Direction(p) /\ Direction(peer(p))
  BY PeerFacts DEF IInv
<1>2. Direction(p)'
  BY <1>1, DirectionRests
<1>3. Direction(peer(p))'
  BY <1>1, DirectionRests
<1> QED
  BY <1>2, <1>3, OnePeer

\* A step of one peer that gives its Conn the value d.
LEMMA ConnStep ==
  ASSUME IInv, NEW p \in Peers, NEW d \in Conn, conns' = [conns EXCEPT ![p] = d],
         UNCHANGED <<pipe, closed>>, Orderly(d),
         d.written = conns[p].written, Reading(d) = Reading(conns[p]),
         closed \/ Writing(d) = Writing(conns[p])
  PROVE  IInv'
<1>1. conns'[p] = d /\ conns'[peer(p)] = conns[peer(p)] /\ TypeOK'
  BY PeerFacts DEF IInv, TypeOK
<1> QED
  BY <1>1, QuietStep

-----------------------------------------------------------------------------
\* Write takes the lock before its first frame: nothing is on its way yet
\* (padstream.go:81-83).
LEMMA WriteKeeps ==
  ASSUME IInv, NEW p \in Peers, NEW n \in 1..MaxBytes(p), Write(p, n)
  PROVE  IInv'
<1> DEFINE c == conns[p]
           d == [c EXCEPT !.writer = "header", !.writeMu = "writer", !.left = n]
<1>1. c \in Conn /\ Orderly(c) /\ conns \in [Peers -> Conn] /\ n \in Nat /\ n > 0
  BY PadAssumption DEF IInv, TypeOK, MaxBytes
<1>2. c.writer = "idle" /\ c.writeMu = "free" /\ UNCHANGED <<pipe, closed>>
  BY DEF Write
<1>3. conns' = [conns EXCEPT ![p] = d]
  BY <1>1 DEF Write
<1>4. d \in Conn /\ d.written = c.written
  BY <1>1 DEF Conn
<1>5. Orderly(d)
  BY <1>1, <1>2 DEF Orderly, Locked, InOrder, Conn
<1>6. Reading(d) = Reading(c) /\ Writing(d) = Writing(c)
  BY <1>1, <1>2 DEF Reading, Writing, Conn
<1> QED
  BY <1>2, <1>3, <1>4, <1>5, <1>6, ConnStep

\* The top of the loop of Read decides on a keep-alive and touches nothing else
\* (padstream.go:154-163).
LEMMA ReadTopKeeps ==
  ASSUME IInv, NEW p \in Peers, ReadTop(p)
  PROVE  IInv'
<1> DEFINE c == conns[p]
<1>1. c \in Conn /\ Orderly(c) /\ conns \in [Peers -> Conn]
  BY DEF IInv, TypeOK
<1>2. PICK to \in {"read", "lock"} : conns' = [conns EXCEPT ![p] = [c EXCEPT !.reader = to]]
  BY <1>1 DEF ReadTop
<1> DEFINE d == [c EXCEPT !.reader = to]
<1>3. c.reader = "top" /\ UNCHANGED <<pipe, closed>>
  BY DEF ReadTop
<1>4. d \in Conn /\ d.written = c.written
  BY <1>1 DEF Conn
<1>5. Orderly(d)
  BY <1>1, <1>3 DEF Orderly, Locked, InOrder, Conn
<1>6. Reading(d) = Reading(c) /\ Writing(d) = Writing(c)
  BY <1>1, <1>3 DEF Reading, Writing, Conn, chunk
<1> QED
  BY <1>2, <1>3, <1>4, <1>5, <1>6, ConnStep

\* A keep-alive takes the lock only when no Write holds it, so only between
\* frames (padstream.go:131-139).
LEMMA KeepAliveLockKeeps ==
  ASSUME IInv, NEW p \in Peers, KeepAliveLock(p)
  PROVE  IInv'
<1> DEFINE c == conns[p]
           d == IF c.framesSent = 0 THEN [c EXCEPT !.reader = "read"]
                ELSE [c EXCEPT !.reader = "header", !.writeMu = "reader"]
<1>1. c \in Conn /\ Orderly(c) /\ conns \in [Peers -> Conn]
  BY DEF IInv, TypeOK
<1>2. conns' = [conns EXCEPT ![p] = d]
  BY <1>1 DEF KeepAliveLock
<1>3. c.reader = "lock" /\ c.writeMu = "free" /\ UNCHANGED <<pipe, closed>>
  BY DEF KeepAliveLock, mayLock
<1>4. d \in Conn /\ d.written = c.written
  BY <1>1 DEF Conn
<1>5. Orderly(d)
  BY <1>1, <1>3 DEF Orderly, Locked, InOrder, Conn
<1>6. Reading(d) = Reading(c)
  BY <1>1 DEF Reading, Conn
<1>7. Writing(d) = Writing(c)
  <2>1. chunk(d) = chunk(c) /\ d.writer = c.writer /\ d.reader # "padding" /\ d.padLen = c.padLen
    BY <1>1 DEF Conn, chunk
  <2> HIDE DEF d
  <2> QED
    BY <1>3, <1>4, <2>1 DEF Writing
<1> QED
  BY <1>2, <1>3, <1>4, <1>5, <1>6, <1>7, ConnStep

\* A Write that fails gives the lock back; on a closed connection it does not
\* matter that its frame is cut off (padstream.go:83, 108-122).
LEMMA WriteFailsKeeps ==
  ASSUME IInv, NEW p \in Peers, WriteFails(p)
  PROVE  IInv'
<1> DEFINE c == conns[p]
           d == [c EXCEPT !.writer = "failed", !.writeMu = "free"]
<1>1. c \in Conn /\ Orderly(c) /\ conns \in [Peers -> Conn]
  BY DEF IInv, TypeOK
<1>2. conns' = [conns EXCEPT ![p] = d]
  BY <1>1 DEF WriteFails
<1>3. closed /\ c.writer \notin {"idle", "failed"} /\ UNCHANGED <<pipe, closed>>
  BY DEF WriteFails
<1>4. d \in Conn /\ d.written = c.written
  BY <1>1 DEF Conn
<1>5. Orderly(d)
  BY <1>1, <1>3 DEF Orderly, Locked, InOrder, Conn
<1>6. Reading(d) = Reading(c)
  BY <1>1 DEF Reading, Conn
<1> QED
  BY <1>2, <1>3, <1>4, <1>5, <1>6, ConnStep

\* A Read that fails, or a keep-alive that fails and is given up
\* (padstream.go:145-150, 170-203).
LEMMA ReadFailsKeeps ==
  ASSUME IInv, NEW p \in Peers, ReadFails(p)
  PROVE  IInv'
<1> DEFINE c == conns[p]
           d == IF c.reader = "read" THEN [c EXCEPT !.reader = "failed"]
                ELSE [c EXCEPT !.reader = "read", !.writeMu = "free"]
<1>1. c \in Conn /\ Orderly(c) /\ conns \in [Peers -> Conn]
  BY DEF IInv, TypeOK
<1>2. conns' = [conns EXCEPT ![p] = d]
  BY <1>1 DEF ReadFails
<1>3. closed /\ c.reader \in {"header", "padding", "read"} /\ UNCHANGED <<pipe, closed>>
  BY DEF ReadFails
<1>4. d \in Conn /\ d.written = c.written
  BY <1>1 DEF Conn
<1>5. Orderly(d)
  BY <1>1, <1>3 DEF Orderly, Locked, InOrder, Conn
<1>6. Reading(d) = Reading(c)
  BY <1>1 DEF Reading, Conn
<1> QED
  BY <1>2, <1>3, <1>4, <1>5, <1>6, ConnStep

\* After Close what is in the stream can still be read in order.
LEMMA CloseKeeps ==
  ASSUME IInv, Close
  PROVE  IInv'
<1>1. ASSUME NEW p \in Peers PROVE Direction(p)'
  BY DirectionRests DEF IInv, Close
<1>2. TypeOK' /\ \A p \in Peers : Orderly(conns'[p])
  BY DEF IInv, TypeOK, Close
<1> QED
  BY <1>1, <1>2 DEF IInv

\* The first n bytes of a buffer move to the end of what was delivered.
LEMMA MoveBytes ==
  ASSUME NEW a \in Bytes, NEW b \in Bytes, NEW n \in 1..Len(b)
  PROVE  /\ leftover(b, n) \in Bytes /\ a \o SubSeq(b, 1, n) \in Bytes
         /\ Len(leftover(b, n)) = Len(b) - n /\ Len(a \o SubSeq(b, 1, n)) = Len(a) + n
         /\ \A i \in 1..(Len(b) - n) : leftover(b, n)[i] = b[i + n]
         /\ \A i \in 1..(Len(a) + n) :
              (a \o SubSeq(b, 1, n))[i] = IF i <= Len(a) THEN a[i] ELSE b[i - Len(a)]
<1>1. Len(a) \in Nat /\ Len(b) \in Nat /\ n \in 1..Len(b)
  BY DEF Bytes
<1>2. SubSeq(b, n + 1, Len(b)) \in Bytes /\ SubSeq(b, 1, n) \in Bytes
  BY <1>1 DEF Bytes
<1>3. Len(SubSeq(b, n + 1, Len(b))) = Len(b) - n /\ Len(SubSeq(b, 1, n)) = n
  BY <1>1 DEF Bytes
<1>4. \A i \in 1..(Len(b) - n) : SubSeq(b, n + 1, Len(b))[i] = b[i + n]
  BY <1>1, <1>3 DEF Bytes
<1>5. \A i \in 1..n : SubSeq(b, 1, n)[i] = b[i]
  BY <1>1, <1>3 DEF Bytes
<1>6. \A i \in 1..(Len(a) + n) :
         (a \o SubSeq(b, 1, n))[i] = IF i <= Len(a) THEN a[i] ELSE b[i - Len(a)]
  <2> DEFINE t == SubSeq(b, 1, n)
  <2>1. t \in Bytes /\ Len(t) = n /\ \A i \in 1..n : t[i] = b[i]
    BY <1>2, <1>3, <1>5
  <2> HIDE DEF t
  <2>2. \A i \in 1..(Len(a) + n) : (a \o t)[i] = IF i <= Len(a) THEN a[i] ELSE t[i - Len(a)]
    BY <1>1, <2>1 DEF Bytes
  <2>3. \A i \in 1..(Len(a) + n) : i <= Len(a) \/ t[i - Len(a)] = b[i - Len(a)]
    BY <1>1, <2>1
  <2>4. \A i \in 1..(Len(a) + n) : (a \o t)[i] = IF i <= Len(a) THEN a[i] ELSE b[i - Len(a)]
    BY <2>2, <2>3
  <2> QED
    BY <2>4 DEF t
<1>7. a \o SubSeq(b, 1, n) \in Bytes /\ Len(a \o SubSeq(b, 1, n)) = Len(a) + n
  BY <1>1, <1>2, <1>3 DEF Bytes
<1> QED
  BY <1>2, <1>3, <1>4, <1>6, <1>7 DEF leftover

\* So they stay the first bytes of the peer, in order.
LEMMA MoveInOrder ==
  ASSUME NEW a \in Bytes, NEW b \in Bytes, NEW n \in 1..Len(b),
         \A i \in 1..Len(a) : a[i] = i, \A i \in 1..Len(b) : b[i] = Len(a) + i
  PROVE  LET rest == leftover(b, n)
             got == a \o SubSeq(b, 1, n) IN
         /\ rest \in Bytes /\ got \in Bytes
         /\ Len(rest) \in Nat /\ Len(got) \in Nat
         /\ Len(got) + Len(rest) = Len(a) + Len(b)
         /\ \A i \in 1..Len(rest) : rest[i] = Len(got) + i
         /\ \A i \in 1..Len(got) : got[i] = i
<1> DEFINE rest == leftover(b, n)
           got == a \o SubSeq(b, 1, n)
<1>1. Len(a) \in Nat /\ Len(b) \in Nat /\ n \in 1..Len(b)
  BY DEF Bytes
<1>2. /\ rest \in Bytes /\ got \in Bytes
      /\ Len(rest) = Len(b) - n /\ Len(got) = Len(a) + n
      /\ \A i \in 1..(Len(b) - n) : rest[i] = b[i + n]
      /\ \A i \in 1..(Len(a) + n) : got[i] = IF i <= Len(a) THEN a[i] ELSE b[i - Len(a)]
  BY MoveBytes
<1> HIDE DEF rest, got
<1>3. ASSUME NEW i \in 1..Len(rest) PROVE rest[i] = Len(got) + i
  <2>1. i + n \in 1..Len(b) /\ rest[i] = b[i + n]
    BY <1>1, <1>2
  <2>2. b[i + n] = Len(a) + (i + n)
    BY <2>1
  <2> QED
    BY <1>1, <1>2, <2>1, <2>2
<1>4. ASSUME NEW i \in 1..Len(got) PROVE got[i] = i
  <2>1. CASE i <= Len(a)
    BY <1>1, <1>2, <2>1
  <2>2. CASE ~(i <= Len(a))
    <3>1. i - Len(a) \in 1..Len(b) /\ got[i] = b[i - Len(a)]
      BY <1>1, <1>2, <2>2
    <3>2. b[i - Len(a)] = Len(a) + (i - Len(a))
      BY <3>1
    <3> QED
      BY <1>1, <1>2, <3>1, <3>2
  <2> QED
    BY <2>1, <2>2
<1>5. Len(rest) \in Nat /\ Len(got) \in Nat /\ Len(got) + Len(rest) = Len(a) + Len(b)
  BY <1>1, <1>2
<1> QED
  BY <1>2, <1>3, <1>4, <1>5 DEF rest, got

\* Read returns a part of its buffer and keeps the rest (padstream.go:165-169).
LEMMA ReadBufferedKeeps ==
  ASSUME IInv, NEW p \in Peers, ReadBuffered(p)
  PROVE  IInv'
<1> DEFINE c == conns[p]
<1>1. /\ c \in Conn /\ Orderly(c) /\ conns \in [Peers -> Conn]
      /\ c.readBuf \in Bytes /\ c.delivered \in Bytes
  BY DEF IInv, TypeOK, Conn
<1>2. PICK n \in 1..Len(c.readBuf) :
        conns' = [conns EXCEPT ![p] =
                    [c EXCEPT !.reader = "top", !.readBuf = leftover(c.readBuf, n),
                              !.delivered = c.delivered \o SubSeq(c.readBuf, 1, n)]]
  BY <1>1 DEF ReadBuffered
<1>3. c.reader = "read" /\ UNCHANGED <<pipe, closed>>
  BY DEF ReadBuffered
<1> DEFINE rest == leftover(c.readBuf, n)
           got == c.delivered \o SubSeq(c.readBuf, 1, n)
           d == [c EXCEPT !.reader = "top", !.readBuf = rest, !.delivered = got]
<1>4. /\ \A i \in 1..Len(c.delivered) : c.delivered[i] = i
      /\ \A i \in 1..Len(c.readBuf) : c.readBuf[i] = Len(c.delivered) + i
  BY <1>1 DEF Orderly, InOrder
<1>5. /\ rest \in Bytes /\ got \in Bytes
      /\ Len(rest) \in Nat /\ Len(got) \in Nat
      /\ Len(got) + Len(rest) = Len(c.delivered) + Len(c.readBuf)
      /\ \A i \in 1..Len(rest) : rest[i] = Len(got) + i
      /\ \A i \in 1..Len(got) : got[i] = i
  BY <1>1, <1>4, MoveInOrder
<1> HIDE DEF rest, got
<1>6. d \in Conn /\ d.written = c.written
  BY <1>1, <1>5 DEF Conn
<1>7. Orderly(d)
  BY <1>1, <1>3, <1>5 DEF Orderly, Locked, InOrder, Conn
<1>8. Reading(d) = Reading(c) /\ Writing(d) = Writing(c)
  BY <1>1, <1>3, <1>5 DEF Reading, Writing, Conn, chunk
<1> QED
  BY <1>2, <1>3, <1>6, <1>7, <1>8, ConnStep DEF rest, got

\* A step of one peer that writes an item and gives its Conn the value d.
LEMMA SendStep ==
  ASSUME IInv, NEW p \in Peers, NEW d \in Conn, NEW item \in Item, Send(p, item),
         conns' = [conns EXCEPT ![p] = d], UNCHANGED closed, Orderly(d),
         Reading(d) = Reading(conns[p]),
         Fits(Writing(conns[p]), item), Writing(d) = After(Writing(conns[p]), item),
         Writing(d) \in Expectation, Writing(d)[4] <= d.written, conns[p].written <= d.written
  PROVE  IInv'
<1>1. TypeOK /\ Direction(p) /\ Direction(peer(p)) /\ peer(p) \in Peers /\ peer(p) # p /\ peer(peer(p)) = p
  BY PeerFacts DEF IInv
<1>2. ~closed /\ pipe' = [pipe EXCEPT ![p] = Append(pipe[p], item)] /\ Len(pipe[p]) < Capacity
  BY <1>1 DEF Send, TypeOK
<1>3. conns'[p] = d /\ conns'[peer(p)] = conns[peer(p)] /\ conns' \in [Peers -> Conn]
  BY <1>1 DEF TypeOK
<1>4. pipe'[p] = Append(pipe[p], item) /\ pipe'[peer(p)] = pipe[peer(p)]
  BY <1>1, <1>2 DEF TypeOK
<1>5. TypeOK'
  <2>1. pipe[p] \in Seq(Item) /\ pipe \in [Peers -> Seq(Item)] /\ Capacity \in Nat
    BY <1>1, PadAssumption DEF TypeOK
  <2>2. Append(pipe[p], item) \in Seq(Item) /\ Len(Append(pipe[p], item)) <= Capacity
    BY <2>1, <1>2
  <2>3. pipe' \in [Peers -> Seq(Item)] /\ \A q \in Peers : Len(pipe'[q]) <= Capacity
    BY <2>1, <2>2, <1>1, <1>2 DEF TypeOK
  <2> QED
    BY <2>3, <1>1, <1>3 DEF TypeOK
<1>6. Direction(p)'
  <2>1. d.written \in Nat
    BY DEF Conn
  <2> QED
    BY <2>1, <1>1, <1>2, <1>3, <1>4, DirectionSends
<1>7. Direction(peer(p))'
  BY <1>1, <1>2, <1>3, <1>4, DirectionRests
<1> QED
  BY <1>3, <1>5, <1>6, <1>7, OnePeer

\* The bytes of the next frame: some of what is left, and no more than fit.
LEMMA ChunkFacts ==
  ASSUME NEW c \in Conn, c.left > 0
  PROVE  /\ Len(chunk(c)) \in 1..MaxFrame /\ Len(chunk(c)) <= c.left
         /\ chunk(c) \in Bytes
         /\ chunk(c) = [k \in 1..Len(chunk(c)) |-> c.written + k]
<1> DEFINE m == IF c.left > MaxFrame THEN MaxFrame ELSE c.left
<1>1. m \in 1..MaxFrame /\ m <= c.left /\ c.written \in Nat
  BY PadAssumption DEF Conn
<1> HIDE DEF m
<1>2. chunk(c) = [k \in 1..m |-> c.written + k]
  BY DEF chunk, m
<1>3. [k \in 1..m |-> c.written + k] \in Seq(Nat \ {0}) /\ Len([k \in 1..m |-> c.written + k]) = m
  BY <1>1
<1> QED
  BY <1>1, <1>2, <1>3 DEF Bytes

\* The header of a data frame announces the padding and the payload that its
\* writer goes on to write (padstream.go:86-110).
LEMMA WriteHeaderKeeps ==
  ASSUME IInv, NEW p \in Peers, WriteHeader(p)
  PROVE  IInv'
<1> DEFINE c == conns[p]
<1>1. c \in Conn /\ Orderly(c) /\ conns \in [Peers -> Conn] /\ maxPad(c) \in Nat
  BY PadAssumption DEF IInv, TypeOK, maxPad
<1>2. PICK pad \in 0..maxPad(c) :
        /\ Send(p, [kind |-> "header", payloadLen |-> Len(chunk(c)), padLen |-> pad])
        /\ conns' = [conns EXCEPT ![p] = [c EXCEPT !.writer = IF pad > 0 THEN "padding" ELSE "payload",
                                                   !.padLen = pad]]
  BY <1>1 DEF WriteHeader
<1> DEFINE d == [c EXCEPT !.writer = IF pad > 0 THEN "padding" ELSE "payload", !.padLen = pad]
           item == [kind |-> "header", payloadLen |-> Len(chunk(c)), padLen |-> pad]
<1>3. c.writer = "header" /\ UNCHANGED closed /\ pad \in Nat
  BY <1>1 DEF WriteHeader
<1>4. c.writeMu = "writer" /\ c.left > 0 /\ c.reader # "padding"
  BY <1>1, <1>3 DEF Orderly, Locked
<1>5. d \in Conn
  BY <1>1, <1>3 DEF Conn
<1>6. Orderly(d)
  BY <1>1, <1>3, <1>4 DEF Orderly, Locked, InOrder, Conn
<1>7. Len(chunk(c)) \in 1..MaxFrame /\ chunk(d) = chunk(c) /\ d.written = c.written /\ c.written \in Nat
  BY <1>1, <1>4, ChunkFacts DEF chunk, Conn
<1>8. item \in Item
  BY <1>3, <1>7, PadAssumption DEF Item
<1>9. Reading(d) = Reading(c)
  BY <1>1 DEF Reading, Conn
<1>10. Writing(c) = <<0, 0, 0, c.written>>
  BY <1>3, <1>4 DEF Writing
<1>11. Writing(d) = IF pad > 0 THEN <<1, Len(chunk(c)), pad, c.written>>
                    ELSE <<2, Len(chunk(c)), 0, c.written>>
  BY <1>1, <1>3, <1>4, <1>7 DEF Writing, Conn
<1>12. Fits(Writing(c), item)
  BY <1>10 DEF Fits
<1>13. Writing(d) = After(Writing(c), item)
  <2>1. Len(chunk(c)) > 0
    BY <1>7, PadAssumption
  <2>2. After(Writing(c), item) = IF pad > 0 THEN <<1, Len(chunk(c)), pad, c.written>>
                                  ELSE <<2, Len(chunk(c)), 0, c.written>>
    BY <2>1, <1>10 DEF After
  <2> QED BY <1>11, <2>2
<1>14. Writing(d) \in Expectation /\ Writing(d)[4] <= d.written /\ c.written <= d.written
  <2>0. Len(chunk(c)) \in Nat
    BY <1>7, PadAssumption
  <2>1. Len(chunk(c)) \in Nat /\ Writing(d)[4] = c.written
    BY <1>11, <2>0
  <2>2. Writing(d) \in Expectation
    BY <1>3, <1>7, <1>11, <2>1 DEF Expectation
  <2> QED
    BY <1>7, <2>1, <2>2
<1> HIDE DEF d, item
<1> QED
  BY <1>2, <1>3, <1>5, <1>6, <1>8, <1>9, <1>12, <1>13, <1>14, SendStep DEF d, item

\* The padding that the header announced (padstream.go:111-117).
LEMMA WritePaddingKeeps ==
  ASSUME IInv, NEW p \in Peers, WritePadding(p)
  PROVE  IInv'
<1> DEFINE c == conns[p]
           d == [c EXCEPT !.writer = "payload", !.padLen = 0]
           item == [kind |-> "padding", len |-> c.padLen]
<1>1. c \in Conn /\ Orderly(c) /\ conns \in [Peers -> Conn]
  BY DEF IInv, TypeOK
<1>2. c.writer = "padding" /\ Send(p, item) /\ UNCHANGED closed /\ conns' = [conns EXCEPT ![p] = d]
  BY <1>1 DEF WritePadding
<1>3. c.left > 0 /\ c.padLen \in Nat
  BY <1>1, <1>2 DEF Orderly, Locked, Conn
<1>4. d \in Conn /\ item \in Item
  BY <1>1, <1>3 DEF Conn, Item
<1>5. Orderly(d)
  BY <1>1, <1>2 DEF Orderly, Locked, InOrder, Conn
<1>6. Len(chunk(c)) \in 1..MaxFrame /\ chunk(d) = chunk(c) /\ d.written = c.written /\ c.written \in Nat
  BY <1>1, <1>3, ChunkFacts DEF chunk, Conn
<1>7. Reading(d) = Reading(c)
  BY <1>1 DEF Reading, Conn
<1>8. /\ Writing(c) = <<1, Len(chunk(c)), c.padLen, c.written>>
      /\ Writing(d) = <<2, Len(chunk(c)), 0, c.written>>
  BY <1>1, <1>2, <1>6 DEF Writing, Conn
<1>9. Fits(Writing(c), item) /\ Writing(d) = After(Writing(c), item)
  <2>1. Len(chunk(c)) > 0
    BY <1>6, PadAssumption
  <2>2. Fits(Writing(c), item)
    BY <1>8 DEF Fits
  <2>3. Writing(d) = After(Writing(c), item)
    BY <1>8, <2>1 DEF After
  <2> QED
    BY <2>2, <2>3
<1>10. Writing(d) \in Expectation /\ Writing(d)[4] <= d.written /\ c.written <= d.written
  <2>1. Len(chunk(c)) \in Nat /\ Writing(d)[4] = c.written
    BY <1>6, <1>8, PadAssumption
  <2>2. Writing(d) \in Expectation
    BY <1>6, <1>8, <2>1 DEF Expectation
  <2> QED
    BY <1>6, <2>1, <2>2
<1> HIDE DEF d, item
<1> QED
  BY <1>2, <1>4, <1>5, <1>7, <1>9, <1>10, SendStep

\* The payload that the header announced; the next frame follows on, and the
\* lock is held until the last one (padstream.go:118-127).
LEMMA WritePayloadKeeps ==
  ASSUME IInv, NEW p \in Peers, WritePayload(p)
  PROVE  IInv' /\ \E n \in Nat \ {0} : conns'[p].written = conns[p].written + n
<1> DEFINE c == conns[p]
           n == Len(chunk(c))
           rest == c.left - n
           d == [c EXCEPT !.written = c.written + n, !.framesSent = c.framesSent + 1, !.left = rest,
                          !.writer = IF rest > 0 THEN "header" ELSE "idle",
                          !.writeMu = IF rest > 0 THEN "writer" ELSE "free"]
           item == [kind |-> "payload", bytes |-> chunk(c)]
<1>1. c \in Conn /\ Orderly(c) /\ conns \in [Peers -> Conn]
  BY DEF IInv, TypeOK
<1>2. c.writer = "payload" /\ Send(p, item) /\ UNCHANGED closed /\ conns' = [conns EXCEPT ![p] = d]
  BY <1>1 DEF WritePayload
<1>3. c.left > 0 /\ c.written \in Nat /\ c.reader # "padding" /\ c.left \in Nat
  BY <1>1, <1>2 DEF Orderly, Locked, Conn
<1>4. /\ n \in 1..MaxFrame /\ n <= c.left /\ chunk(c) \in Bytes
      /\ chunk(c) = [k \in 1..n |-> c.written + k]
  BY <1>1, <1>3, ChunkFacts
<1>5. n \in Nat \ {0} /\ rest \in Nat
  BY <1>3, <1>4, PadAssumption
<1> HIDE DEF n, rest
<1>6. d \in Conn /\ item \in Item
  <2>1. c.written + n \in Nat /\ c.framesSent + 1 \in Nat
    BY <1>1, <1>5 DEF Conn
  <2>2. d \in Conn
    BY <1>1, <1>5, <2>1 DEF Conn
  <2>3. item \in Item
    BY <1>4 DEF Item
  <2> QED
    BY <2>2, <2>3
<1>7. Orderly(d)
  BY <1>1, <1>2, <1>5 DEF Orderly, Locked, InOrder, Conn
<1>8. d.written = c.written + n /\ Reading(d) = Reading(c)
  BY <1>1 DEF Reading, Conn
<1>9. Writing(c) = <<2, n, 0, c.written>> /\ Writing(d) = <<0, 0, 0, c.written + n>>
  BY <1>1, <1>2, <1>3 DEF Writing, Conn, n
<1>10. Fits(Writing(c), item) /\ Writing(d) = After(Writing(c), item)
  BY <1>4, <1>5, <1>9 DEF Fits, After
<1>11. Writing(d) \in Expectation /\ Writing(d)[4] <= d.written /\ c.written <= d.written
  BY <1>3, <1>5, <1>8, <1>9 DEF Expectation
<1>12. conns'[p].written = c.written + n
  BY <1>1, <1>2, <1>8
<1> HIDE DEF d, item
<1> QED
  BY <1>2, <1>5, <1>6, <1>7, <1>8, <1>10, <1>11, <1>12, SendStep

\* The header of a keep-alive announces no payload (padstream.go:140-145).
LEMMA KeepAliveHeaderKeeps ==
  ASSUME IInv, NEW p \in Peers, KeepAliveHeader(p)
  PROVE  IInv'
<1> DEFINE c == conns[p]
<1>1. c \in Conn /\ Orderly(c) /\ conns \in [Peers -> Conn] /\ MaxPadding \in Nat
  BY PadAssumption DEF IInv, TypeOK
<1>2. PICK pad \in 0..MaxPadding :
        /\ Send(p, [kind |-> "header", payloadLen |-> 0, padLen |-> pad])
        /\ conns' = [conns EXCEPT ![p] = IF pad > 0 THEN [c EXCEPT !.reader = "padding", !.padLen = pad]
                                         ELSE [c EXCEPT !.reader = "read", !.writeMu = "free"]]
  BY <1>1 DEF KeepAliveHeader
<1> DEFINE d == IF pad > 0 THEN [c EXCEPT !.reader = "padding", !.padLen = pad]
                ELSE [c EXCEPT !.reader = "read", !.writeMu = "free"]
           item == [kind |-> "header", payloadLen |-> 0, padLen |-> pad]
<1>3. c.reader = "header" /\ UNCHANGED closed /\ pad \in Nat
  BY <1>1 DEF KeepAliveHeader
<1>4. c.writeMu = "reader" /\ c.writer \notin {"header", "padding", "payload"}
  BY <1>1, <1>3 DEF Orderly, Locked
<1>5. d \in Conn /\ d.written = c.written /\ c.written \in Nat
  BY <1>1, <1>3 DEF Conn
<1>6. Orderly(d)
  BY <1>1, <1>3, <1>4 DEF Orderly, Locked, InOrder, Conn
<1>7. item \in Item
  BY <1>3, PadAssumption DEF Item
<1>8. Reading(d) = Reading(c)
  BY <1>1 DEF Reading, Conn
<1>9. Writing(c) = <<0, 0, 0, c.written>>
  BY <1>3, <1>4 DEF Writing
<1>10. Writing(d) = IF pad > 0 THEN <<1, 0, pad, c.written>> ELSE <<0, 0, 0, c.written>>
  BY <1>1, <1>3, <1>4 DEF Writing, Conn
<1>11. Fits(Writing(c), item)
  BY <1>9 DEF Fits
<1>12. Writing(d) = After(Writing(c), item)
  BY <1>3, <1>9, <1>10 DEF After
<1>13. Writing(d) \in Expectation /\ Writing(d)[4] <= d.written /\ c.written <= d.written
  BY <1>3, <1>5, <1>10 DEF Expectation
<1> HIDE DEF d, item
<1> QED
  BY <1>2, <1>3, <1>5, <1>6, <1>7, <1>8, <1>11, <1>12, <1>13, SendStep DEF d, item

\* The padding of a keep-alive, after which the lock is given back
\* (padstream.go:146-150).
LEMMA KeepAlivePaddingKeeps ==
  ASSUME IInv, NEW p \in Peers, KeepAlivePadding(p)
  PROVE  IInv'
<1> DEFINE c == conns[p]
           d == [c EXCEPT !.reader = "read", !.writeMu = "free", !.padLen = 0]
           item == [kind |-> "padding", len |-> c.padLen]
<1>1. c \in Conn /\ Orderly(c) /\ conns \in [Peers -> Conn]
  BY DEF IInv, TypeOK
<1>2. c.reader = "padding" /\ Send(p, item) /\ UNCHANGED closed /\ conns' = [conns EXCEPT ![p] = d]
  BY <1>1 DEF KeepAlivePadding
<1>3. c.writer \notin {"header", "padding", "payload"}
  BY <1>1, <1>2 DEF Orderly, Locked
<1>4. c.padLen \in Nat /\ d.written = c.written /\ c.written \in Nat
  BY <1>1 DEF Conn
<1>5. d \in Conn /\ item \in Item
  BY <1>1, <1>4 DEF Conn, Item
<1>6. Orderly(d)
  BY <1>1, <1>2, <1>3 DEF Orderly, Locked, InOrder, Conn
<1>7. Reading(d) = Reading(c)
  BY <1>1 DEF Reading, Conn
<1>8. Writing(c) = <<1, 0, c.padLen, c.written>> /\ Writing(d) = <<0, 0, 0, c.written>>
  BY <1>1, <1>2, <1>3 DEF Writing, Conn
<1>9. Fits(Writing(c), item)
  BY <1>8 DEF Fits
<1>10. Writing(d) = After(Writing(c), item)
  BY <1>8 DEF After
<1>11. Writing(d) \in Expectation /\ Writing(d)[4] <= d.written /\ c.written <= d.written
  BY <1>4, <1>8 DEF Expectation
<1> HIDE DEF d, item
<1> QED
  BY <1>2, <1>5, <1>6, <1>7, <1>9, <1>10, <1>11, SendStep

-----------------------------------------------------------------------------
\* The item that a reader finds is the one it expects.
LEMMA FrontFits ==
  ASSUME IInv, NEW p \in Peers, pipe[peer(p)] # <<>>
  PROVE  Head(pipe[peer(p)]) \in Item /\ Fits(Reading(conns[p]), Head(pipe[peer(p)]))
<1>1. peer(p) \in Peers /\ peer(peer(p)) = p /\ Direction(peer(p)) /\ pipe[peer(p)] \in Seq(Item)
  BY PeerFacts DEF IInv, TypeOK
<1> DEFINE s == pipe[peer(p)]
<1>2. PICK run : Run(s, run, conns[peer(p)].written) /\ run[1] = Reading(conns[p])
  BY <1>1 DEF Direction
<1>3. 1 \in 1..Len(s) /\ Head(s) = s[1] /\ s[1] \in Item
  BY <1>1
<1> QED
  BY <1>2, <1>3 DEF Run

\* A Conn that read a payload into its buffer is a Conn.
LEMMA BufferTyped ==
  ASSUME NEW c \in Conn, NEW b \in Bytes
  PROVE  [c EXCEPT !.readBuf = b, !.readStage = 0] \in Conn
<1>1. \A st \in 0..2 : [c EXCEPT !.readBuf = b, !.readStage = st] \in Conn
  BY DEF Conn
<1> QED
  BY <1>1

\* Reading an item of the kind and length that is expected leads to what is
\* expected after it, and keeps the bytes in order.
LEMMA ConsumeFollows ==
  ASSUME NEW c \in Conn, c.readBuf = <<>>, InOrder(c), NEW item \in Item, Fits(Reading(c), item)
  PROVE  LET d == Consume(c, item) IN
         /\ d \in Conn /\ InOrder(d) /\ Reading(d) = After(Reading(c), item)
         /\ d.reader = c.reader /\ d.writer = c.writer /\ d.writeMu = c.writeMu
         /\ d.left = c.left /\ d.padLen = c.padLen /\ d.written = c.written
         /\ d.delivered = c.delivered
<1> DEFINE off == Len(c.delivered)
<1>1. off \in Nat /\ Len(c.readBuf) = 0 /\ off + Len(c.readBuf) = off
  BY DEF Conn, Bytes
<1>2. CASE c.readStage = 0
  <2>1. Reading(c) = <<0, 0, 0, off>>
    BY <1>1, <1>2 DEF Reading
  <2>2. item.kind = "header" /\ item.payloadLen \in 0..MaxFrame /\ item.padLen \in Nat
    BY <2>1 DEF Fits, Item
  <2> DEFINE d == [c EXCEPT !.readPayloadLen = item.payloadLen, !.readPadLen = item.padLen,
                            !.readStage = IF item.padLen > 0 THEN 1
                                          ELSE IF item.payloadLen > 0 THEN 2 ELSE 0]
  <2>3. Consume(c, item) = d
    BY <1>2 DEF Consume
  <2>4. d \in Conn
    <3> DEFINE st == IF item.padLen > 0 THEN 1 ELSE IF item.payloadLen > 0 THEN 2 ELSE 0
    <3>1. st \in 0..2
      OBVIOUS
    <3> HIDE DEF st
    <3>2. [c EXCEPT !.readPayloadLen = item.payloadLen, !.readPadLen = item.padLen,
                    !.readStage = st] \in Conn
      BY <2>2, <3>1 DEF Conn
    <3> QED
      BY <3>2 DEF st
  <2>5. /\ d.readPayloadLen = item.payloadLen /\ d.readPadLen = item.padLen
        /\ d.readStage = IF item.padLen > 0 THEN 1 ELSE IF item.payloadLen > 0 THEN 2 ELSE 0
        /\ d.delivered = c.delivered /\ d.readBuf = c.readBuf
        /\ d.reader = c.reader /\ d.writer = c.writer /\ d.writeMu = c.writeMu
        /\ d.left = c.left /\ d.padLen = c.padLen /\ d.written = c.written
    BY DEF Conn
  <2> HIDE DEF d
  <2>6. InOrder(d)
    BY <2>5 DEF InOrder
  <2>7. Reading(d) = After(Reading(c), item)
    <3>1. After(Reading(c), item) =
            IF item.padLen > 0 THEN <<1, item.payloadLen, item.padLen, off>>
            ELSE IF item.payloadLen > 0 THEN <<2, item.payloadLen, 0, off>>
            ELSE <<0, 0, 0, off>>
      BY <2>1 DEF After
    <3>2. Len(d.delivered) + Len(d.readBuf) = off
      BY <1>1, <2>5
    <3>3. Reading(d) = IF d.readStage = 0 THEN <<0, 0, 0, off>>
                       ELSE IF d.readStage = 1 THEN <<1, item.payloadLen, item.padLen, off>>
                       ELSE <<2, item.payloadLen, 0, off>>
      BY <2>5, <3>2 DEF Reading
    <3> HIDE DEF off
    <3> QED
      BY <2>5, <3>1, <3>3
  <2> QED
    BY <2>3, <2>4, <2>5, <2>6, <2>7
<1>3. CASE c.readStage = 1
  <2>1. Reading(c) = <<1, c.readPayloadLen, c.readPadLen, off>>
    BY <1>1, <1>3 DEF Reading
  <2> DEFINE d == [c EXCEPT !.readStage = afterPadding(c)]
  <2>2. Consume(c, item) = d
    BY <1>3 DEF Consume
  <2>3. d \in Conn
    BY DEF Conn, afterPadding
  <2>4. /\ d.readPayloadLen = c.readPayloadLen
        /\ d.readStage = IF c.readPayloadLen > 0 THEN 2 ELSE 0
        /\ d.delivered = c.delivered /\ d.readBuf = c.readBuf
        /\ d.reader = c.reader /\ d.writer = c.writer /\ d.writeMu = c.writeMu
        /\ d.left = c.left /\ d.padLen = c.padLen /\ d.written = c.written
    BY DEF Conn, afterPadding
  <2> HIDE DEF d
  <2>5. InOrder(d)
    BY <2>4 DEF InOrder
  <2>6. Reading(d) = After(Reading(c), item)
    <3>1. After(Reading(c), item) =
            IF c.readPayloadLen > 0 THEN <<2, c.readPayloadLen, 0, off>> ELSE <<0, 0, 0, off>>
      BY <2>1 DEF After
    <3>2. Len(d.delivered) + Len(d.readBuf) = off
      BY <1>1, <2>4
    <3>3. Reading(d) = IF d.readStage = 0 THEN <<0, 0, 0, off>> ELSE <<2, c.readPayloadLen, 0, off>>
      BY <2>4, <3>2 DEF Reading
    <3> HIDE DEF off
    <3> QED
      BY <2>4, <3>1, <3>3
  <2> QED
    BY <2>2, <2>3, <2>4, <2>5, <2>6
<1>4. CASE c.readStage = 2
  <2> DEFINE m == c.readPayloadLen
             d == [c EXCEPT !.readBuf = item.bytes, !.readStage = 0]
  <2>1. Reading(c) = <<2, m, 0, off>> /\ m \in Nat
    BY <1>1, <1>4, PadAssumption DEF Reading, Conn
  <2>2. item.kind = "payload" /\ item.bytes \in Bytes /\ item.bytes = [k \in 1..m |-> off + k]
    BY <2>1 DEF Fits, Item
  <2>3. Len(item.bytes) = m /\ \A k \in 1..m : item.bytes[k] = off + k
    BY <2>1, <2>2
  <2>4. Consume(c, item) = d
    BY <1>4 DEF Consume
  <2>5. d \in Conn
    BY <2>2, BufferTyped
  <2>6. /\ d.readStage = 0 /\ d.delivered = c.delivered /\ d.readBuf = item.bytes
        /\ d.reader = c.reader /\ d.writer = c.writer /\ d.writeMu = c.writeMu
        /\ d.left = c.left /\ d.padLen = c.padLen /\ d.written = c.written
    BY DEF Conn
  <2> HIDE DEF d, m
  <2>7. InOrder(d)
    BY <2>3, <2>6 DEF InOrder
  <2>8. Reading(d) = After(Reading(c), item)
    <3>1. Reading(d) = <<0, 0, 0, off + m>>
      BY <2>3, <2>6 DEF Reading
    <3>2. After(Reading(c), item) = <<0, 0, 0, off + m>>
      BY <2>1 DEF After
    <3> QED
      BY <3>1, <3>2
  <2> QED
    BY <2>4, <2>5, <2>6, <2>7, <2>8
<1>5. c.readStage = 0 \/ c.readStage = 1 \/ c.readStage = 2
  BY DEF Conn
<1> QED
  BY <1>2, <1>3, <1>4, <1>5, Zenon

\* Read takes the next header, padding or payload (padstream.go:170-203).
LEMMA ReadItemKeeps ==
  ASSUME IInv, NEW p \in Peers, ReadItem(p)
  PROVE  IInv'
<1> DEFINE c == conns[p]
           q == peer(p)
           item == Head(pipe[q])
           e == Consume(c, item)
           d == [e EXCEPT !.reader = "top"]
<1>1. c \in Conn /\ Orderly(c) /\ conns \in [Peers -> Conn] /\ pipe \in [Peers -> Seq(Item)]
  BY DEF IInv, TypeOK
<1>2. /\ c.reader = "read" /\ c.readBuf = <<>> /\ pipe[q] # <<>> /\ UNCHANGED closed
      /\ pipe' = [pipe EXCEPT ![q] = Tail(pipe[q])] /\ conns' = [conns EXCEPT ![p] = d]
  BY <1>1 DEF ReadItem
<1>3. q \in Peers /\ q # p /\ peer(q) = p /\ Direction(p) /\ Direction(q) /\ TypeOK
  BY PeerFacts DEF IInv
<1>4. item \in Item /\ Fits(Reading(c), item)
  BY <1>2, FrontFits
<1>5. /\ e \in Conn /\ InOrder(e) /\ Reading(e) = After(Reading(c), item)
      /\ e.reader = c.reader /\ e.writer = c.writer /\ e.writeMu = c.writeMu
      /\ e.left = c.left /\ e.padLen = c.padLen /\ e.written = c.written
      /\ e.delivered = c.delivered
  BY <1>1, <1>2, <1>4, ConsumeFollows DEF Orderly
<1> HIDE DEF e, q
<1>6. d \in Conn /\ d.written = c.written
  BY <1>5 DEF Conn
<1>7. Orderly(d)
  BY <1>1, <1>2, <1>5 DEF Orderly, Locked, InOrder, Conn
<1>8. Reading(d) = After(Reading(c), item)
  BY <1>5 DEF Reading, Conn
<1>9. Writing(d) = Writing(c)
  BY <1>2, <1>5 DEF Writing, Conn, chunk
<1> HIDE DEF d
<1>10. conns'[p] = d /\ conns'[q] = conns[q] /\ pipe'[q] = Tail(pipe[q]) /\ pipe'[p] = pipe[p]
  BY <1>1, <1>2, <1>3
<1>11. TypeOK'
  <2>1. pipe[q] \in Seq(Item) /\ Capacity \in Nat /\ Len(pipe[q]) <= Capacity
    BY <1>3, PadAssumption DEF TypeOK
  <2>2. Tail(pipe[q]) \in Seq(Item) /\ Len(Tail(pipe[q])) <= Capacity
    BY <2>1, <1>2
  <2>3. pipe' \in [Peers -> Seq(Item)] /\ \A r \in Peers : Len(pipe'[r]) <= Capacity
    BY <2>2, <1>2, <1>3 DEF TypeOK
  <2>4. conns' \in [Peers -> Conn]
    BY <1>1, <1>2, <1>6
  <2> QED
    BY <2>3, <2>4, <1>2, <1>3 DEF TypeOK
<1>12. Direction(q)'
  BY <1>2, <1>3, <1>8, <1>10, DirectionReads
<1>13. Direction(p)'
  BY <1>2, <1>3, <1>6, <1>9, <1>10, DirectionRests DEF q
<1> QED
  BY <1>7, <1>10, <1>11, <1>12, <1>13, OnePeer DEF q

\* A fresh connection: nothing is written and every reader expects a header.
LEMMA InitHolds ==
  ASSUME Init
  PROVE  IInv
<1> DEFINE c == [writeMu |-> "free", writer |-> "idle", left |-> 0, padLen |-> 0, written |-> 0,
                 framesSent |-> 0, reader |-> "top", readStage |-> 0, readPayloadLen |-> 0,
                 readPadLen |-> 0, readBuf |-> <<>>, delivered |-> <<>>]
<1>1. <<>> \in Bytes /\ 0 \in 0..MaxFrame /\ 0 \in 0..2
  BY PadAssumption DEF Bytes
<1>2. c \in Conn
  BY <1>1, Zenon DEF Conn
<1>3. \A p \in Peers : conns[p] = c /\ pipe[p] = <<>>
  BY DEF Init
<1>4. TypeOK
  <2>1. <<>> \in Seq(Item) /\ Len(<<>>) <= Capacity
    BY PadAssumption
  <2> QED
    BY <1>2, <2>1 DEF Init, TypeOK
<1>5. Orderly(c)
  BY DEF Orderly, Locked, InOrder
<1>6. Reading(c) = <<0, 0, 0, 0>> /\ Writing(c) = <<0, 0, 0, 0>> /\ c.written = 0
  BY DEF Reading, Writing
<1> HIDE DEF c
<1>7. ASSUME NEW p \in Peers PROVE Direction(p)
  <2> DEFINE r == [i \in 1..1 |-> <<0, 0, 0, 0>>]
  <2>1. Run(<<>>, r, 0)
    BY DEF Run, Expectation
  <2>2. r[1] = <<0, 0, 0, 0>> /\ Len(<<>>) + 1 = 1
    OBVIOUS
  <2>3. conns[p] = c /\ conns[peer(p)] = c /\ pipe[p] = <<>>
    BY <1>3, PeerFacts
  <2> HIDE DEF r
  <2> QED
    BY <1>6, <2>1, <2>2, <2>3 DEF Direction
<1> QED
  BY <1>3, <1>4, <1>5, <1>7 DEF IInv

\* Every step of the peers keeps the invariant.
LEMMA NextKeeps ==
  ASSUME IInv, [Next]_vars
  PROVE  IInv'
<1>1. CASE UNCHANGED vars
  <2>1. UNCHANGED <<pipe, conns, closed>>
    BY <1>1 DEF vars
  <2>2. ASSUME NEW p \in Peers PROVE Direction(p)'
    BY <2>1, DirectionRests DEF IInv
  <2>3. TypeOK' /\ \A p \in Peers : Orderly(conns'[p])
    BY <2>1 DEF IInv, TypeOK
  <2> QED
    BY <2>2, <2>3 DEF IInv
<1>2. CASE Close
  BY <1>2, CloseKeeps
<1>3. ASSUME NEW p \in Peers, Writer(p) PROVE IInv'
  BY <1>3, WriteHeaderKeeps, WritePaddingKeeps, WritePayloadKeeps, WriteFailsKeeps DEF Writer
<1>4. ASSUME NEW p \in Peers, Reader(p) PROVE IInv'
  BY <1>4, ReadTopKeeps, KeepAliveLockKeeps, KeepAliveHeaderKeeps, KeepAlivePaddingKeeps,
     ReadBufferedKeeps, ReadItemKeeps, ReadFailsKeeps DEF Reader
<1>5. ASSUME NEW p \in Peers, NEW n \in 1..MaxBytes(p), Write(p, n) PROVE IInv'
  BY <1>5, WriteKeeps
<1> QED
  BY <1>1, <1>2, <1>3, <1>4, <1>5 DEF Next

\* The invariant holds of every state that the peers can reach.
THEOREM Invariance == Spec => []IInv
BY InitHolds, NextKeeps, PTL DEF Spec

\* Type correctness, and the buffers of a direction never hold more than their
\* capacity (padstream.go:25-50).
THEOREM TypeCorrect == Spec => []TypeOK
<1>1. IInv => TypeOK
  BY DEF IInv
<1> QED
  BY <1>1, Invariance, PTL

\* Frames never mix: with any sizes of frames, padding and buffers, and any
\* interleaving of Write, Read and its keep-alives on both sides, a reader finds
\* at the front of the stream what its stage expects (padstream.go:81-152, 170-203).
THEOREM FramesNeverMix == Spec => []Framed
<1>1. ASSUME IInv, NEW p \in Peers, pipe[peer(p)] # <<>>
      PROVE  InFrame(p)
  <2> DEFINE item == Head(pipe[peer(p)])
             c == conns[p]
  <2>1. item \in Item /\ Fits(Reading(c), item) /\ c \in Conn
    BY <1>1, FrontFits DEF IInv, TypeOK
  <2>2. CASE c.readStage = 0
    BY <2>1, <2>2 DEF InFrame, Reading, Fits
  <2>3. CASE c.readStage = 1
    BY <2>1, <2>3 DEF InFrame, Reading, Fits
  <2>4. CASE c.readStage = 2
    <3>1. item.kind = "payload" /\ item.bytes = [k \in 1..c.readPayloadLen |-> Reading(c)[4] + k]
      <4>1. PICK e : e = Reading(c)
        OBVIOUS
      <4>2. e[1] = 2 /\ e[2] = c.readPayloadLen
        BY <2>4, <4>1 DEF Reading
      <4>3. Fits(e, item)
        BY <2>1, <4>1
      <4>4. item.kind = "payload" /\ item.bytes = [k \in 1..e[2] |-> e[4] + k]
        BY <4>2, <4>3 DEF Fits
      <4> QED BY <4>1, <4>2, <4>4
    <3>2. c.readPayloadLen \in Nat
      BY <2>1, PadAssumption DEF Conn
    <3>3. Len(item.bytes) = c.readPayloadLen
      BY <3>1, <3>2
    <3> QED
      BY <2>4, <3>1, <3>3 DEF InFrame
  <2>5. c.readStage \in 0..2
    BY <2>1 DEF Conn
  <2> QED
    BY <2>2, <2>3, <2>4, <2>5
<1>2. IInv => Framed
  BY <1>1 DEF Framed, InFrame
<1> QED
  BY <1>2, Invariance, PTL

-----------------------------------------------------------------------------
\* What a step does to one direction: nothing that its users see, or a Write
\* or a Read of the Pipe.
SeenWrite(p) ==
  /\ conns'[p].written \in Nat /\ conns'[p].written > conns[p].written
  /\ conns'[peer(p)].delivered = conns[peer(p)].delivered
SeenRead(p) ==
  LET got == conns[peer(p)].delivered IN
  /\ \E n \in 1..(conns[p].written - Len(got)) :
       conns'[peer(p)].delivered = got \o [i \in 1..n |-> Len(got) + i]
  /\ conns'[p].written = conns[p].written
SeenStep(p) ==
  \/ conns'[p].written = conns[p].written /\ conns'[peer(p)].delivered = conns[peer(p)].delivered
  \/ SeenWrite(p) \/ SeenRead(p)

\* No reader was given, or holds in its buffer, more than its peer wrote.
LEMMA NoneMadeUp ==
  ASSUME IInv, NEW p \in Peers
  PROVE  Len(conns[p].delivered) + Len(conns[p].readBuf) <= conns[peer(p)].written
<1>1. peer(p) \in Peers /\ peer(peer(p)) = p /\ Direction(peer(p)) /\ pipe[peer(p)] \in Seq(Item)
  BY PeerFacts DEF IInv, TypeOK
<1>2. PICK run : Run(pipe[peer(p)], run, conns[peer(p)].written) /\ run[1] = Reading(conns[p])
  BY <1>1 DEF Direction
<1>3. run[1][4] <= conns[peer(p)].written
  BY <1>1, <1>2 DEF Run
<1>4. Reading(conns[p])[4] = Len(conns[p].delivered) + Len(conns[p].readBuf)
  BY DEF Reading
<1> QED
  BY <1>2, <1>3, <1>4

\* A read from the buffer is a Read of the Pipe of the other peer's bytes.
LEMMA ReadBufferedSeen ==
  ASSUME IInv, NEW p \in Peers, ReadBuffered(p)
  PROVE  SeenRead(peer(p)) /\ conns'[peer(p)] = conns[peer(p)] /\ conns'[p].written = conns[p].written
<1> DEFINE c == conns[p]
           a == c.delivered
           b == c.readBuf
<1>1. /\ conns \in [Peers -> Conn] /\ c \in Conn /\ a \in Bytes /\ b \in Bytes
      /\ conns[peer(p)].written \in Nat /\ peer(p) \in Peers /\ peer(p) # p /\ peer(peer(p)) = p
  BY PeerFacts DEF IInv, TypeOK, Conn
<1>2. PICK n \in 1..Len(b) :
        conns' = [conns EXCEPT ![p] = [c EXCEPT !.reader = "top", !.readBuf = leftover(b, n),
                                                !.delivered = a \o SubSeq(b, 1, n)]]
  BY <1>1 DEF ReadBuffered
<1>3. Len(a) \in Nat /\ Len(b) \in Nat /\ Len(a) + Len(b) <= conns[peer(p)].written
  <2>1. Len(a) \in Nat /\ Len(b) \in Nat
    BY <1>1 DEF Bytes
  <2>2. Len(a) + Len(b) <= conns[peer(p)].written
    BY NoneMadeUp
  <2> QED
    BY <2>1, <2>2
<1>4. n \in 1..(conns[peer(p)].written - Len(a))
  <2> DEFINE w == conns[peer(p)].written
             la == Len(a)
             lb == Len(b)
  <2>1. w \in Nat /\ la \in Nat /\ lb \in Nat /\ la + lb <= w /\ n \in 1..lb
    BY <1>1, <1>3
  <2> HIDE DEF w, la, lb
  <2>2. n \in 1..(w - la)
    BY <2>1
  <2> QED
    BY <2>2 DEF w, la
<1>5. SubSeq(b, 1, n) = [i \in 1..n |-> Len(a) + i]
  <2>1. \A i \in 1..Len(b) : b[i] = Len(a) + i
    BY DEF IInv, Orderly, InOrder
  <2> HIDE DEF a, b
  <2> QED
    BY <1>1, <1>3, <2>1 DEF Bytes
<1>6. conns'[p].delivered = a \o SubSeq(b, 1, n) /\ conns'[p].written = c.written
  BY <1>1, <1>2 DEF Conn
<1>7. conns'[peer(p)] = conns[peer(p)]
  BY <1>1, <1>2
<1>8. conns'[p].delivered = a \o [i \in 1..n |-> Len(a) + i]
  BY <1>5, <1>6
<1> QED
  BY <1>1, <1>4, <1>6, <1>7, <1>8 DEF SeenRead

\* A step that changes neither the counts nor the deliveries is not seen.
LEMMA UnseenStep ==
  ASSUME NEW p \in Peers,
         \A q \in Peers : conns'[q].written = conns[q].written /\ conns'[q].delivered = conns[q].delivered
  PROVE  SeenStep(p)
BY PeerFacts DEF SeenStep

\* The steps of a peer other than the writing of a payload and the reading from
\* the buffer are not seen.
LEMMA PeerUnseen ==
  ASSUME TypeOK, NEW q \in Peers,
         \/ WriteHeader(q) \/ WritePadding(q) \/ WriteFails(q)
         \/ ReadTop(q) \/ KeepAliveLock(q) \/ KeepAliveHeader(q) \/ KeepAlivePadding(q)
         \/ ReadItem(q) \/ ReadFails(q) \/ \E n \in 1..MaxBytes(q) : Write(q, n)
  PROVE  \A r \in Peers :
           conns'[r].written = conns[r].written /\ conns'[r].delivered = conns[r].delivered
<1>1. conns \in [Peers -> Conn] /\ conns[q] \in Conn
  BY DEF TypeOK
<1>2. CASE WriteHeader(q)
  <2>1. PICK pad : conns' = [conns EXCEPT ![q].writer = IF pad > 0 THEN "padding" ELSE "payload",
                                          ![q].padLen = pad]
    BY <1>2 DEF WriteHeader
  <2> QED
    BY <1>1, <2>1 DEF Conn
<1>3. CASE WritePadding(q)
  BY <1>1, <1>3 DEF WritePadding, Conn
<1>4. CASE WriteFails(q)
  BY <1>1, <1>4 DEF WriteFails, Conn
<1>5. CASE ReadTop(q)
  BY <1>1, <1>5 DEF ReadTop, Conn
<1>6. CASE KeepAliveLock(q)
  BY <1>1, <1>6 DEF KeepAliveLock, Conn
<1>7. CASE KeepAliveHeader(q)
  <2>1. PICK pad : conns' = IF pad > 0
                            THEN [conns EXCEPT ![q].reader = "padding", ![q].padLen = pad]
                            ELSE [conns EXCEPT ![q].reader = "read", ![q].writeMu = "free"]
    BY <1>7 DEF KeepAliveHeader
  <2> QED
    BY <1>1, <2>1 DEF Conn
<1>8. CASE KeepAlivePadding(q)
  BY <1>1, <1>8 DEF KeepAlivePadding, Conn
<1>9. CASE ReadItem(q)
  <2> DEFINE c == conns[q]
             e == Consume(c, Head(pipe[peer(q)]))
  <2>1. conns' = [conns EXCEPT ![q] = [e EXCEPT !.reader = "top"]]
    BY <1>1, <1>9 DEF ReadItem
  <2>2. c.readStage \in 0..2
    BY <1>1 DEF Conn
  <2>3. /\ {"written", "delivered"} \subseteq DOMAIN e
        /\ e.written = c.written /\ e.delivered = c.delivered
    BY <1>1, <2>2 DEF Consume, Conn
  <2> HIDE DEF e
  <2> QED
    BY <1>1, <2>1, <2>3
<1>10. CASE ReadFails(q)
  <2>1. \/ conns' = [conns EXCEPT ![q].reader = "read", ![q].writeMu = "free"]
        \/ conns' = [conns EXCEPT ![q].reader = "failed"]
    BY <1>10 DEF ReadFails
  <2> QED
    BY <1>1, <2>1 DEF Conn
<1>11. CASE \E n \in 1..MaxBytes(q) : Write(q, n)
  <2>1. PICK n : conns' = [conns EXCEPT ![q].writer = "header", ![q].writeMu = "writer", ![q].left = n]
    BY <1>11 DEF Write
  <2> QED
    BY <1>1, <2>1 DEF Conn
<1> QED
  BY <1>2, <1>3, <1>4, <1>5, <1>6, <1>7, <1>8, <1>9, <1>10, <1>11

\* The writing of a payload is a Write of the Pipe.
LEMMA WritePayloadSeen ==
  ASSUME IInv, NEW p \in Peers, WritePayload(p)
  PROVE  /\ SeenWrite(p) /\ conns'[peer(p)] = conns[peer(p)]
         /\ conns'[p].delivered = conns[p].delivered
<1>1. /\ conns \in [Peers -> Conn] /\ conns[p] \in Conn /\ conns[p].written \in Nat
      /\ peer(p) \in Peers /\ peer(p) # p
  BY PeerFacts DEF IInv, TypeOK, Conn
<1>2. PICK n \in Nat \ {0} : conns'[p].written = conns[p].written + n
  BY WritePayloadKeeps
<1>3. conns'[peer(p)] = conns[peer(p)] /\ conns'[p].delivered = conns[p].delivered
  BY <1>1 DEF WritePayload, Conn
<1> QED
  BY <1>1, <1>2, <1>3 DEF SeenWrite

\* Every step is, for each direction, a step of the Pipe or is not seen there.
LEMMA NextSeen ==
  ASSUME IInv, [Next]_vars, NEW p \in Peers
  PROVE  SeenStep(p)
<1>1. CASE UNCHANGED vars
  BY <1>1, UnseenStep DEF vars
<1>2. CASE Close
  BY <1>2, UnseenStep DEF Close
<1>3. ASSUME NEW q \in Peers, WritePayload(q) PROVE SeenStep(p)
  <2>1. p = q \/ (p = peer(q) /\ peer(p) = q)
    BY PeerFacts
  <2> QED
    BY <1>3, <2>1, WritePayloadSeen DEF SeenStep
<1>4. ASSUME NEW q \in Peers, ReadBuffered(q) PROVE SeenStep(p)
  <2>1. p = peer(q) \/ (p = q /\ peer(q) \in Peers)
    BY PeerFacts
  <2> QED
    BY <1>4, <2>1, ReadBufferedSeen DEF SeenStep
<1>5. ASSUME NEW q \in Peers, Writer(q), ~WritePayload(q) PROVE SeenStep(p)
  <2>1. TypeOK
    BY DEF IInv
  <2> QED
    BY <1>5, <2>1, PeerUnseen, UnseenStep DEF Writer
<1>6. ASSUME NEW q \in Peers, Reader(q), ~ReadBuffered(q) PROVE SeenStep(p)
  <2>1. TypeOK
    BY DEF IInv
  <2> QED
    BY <1>6, <2>1, PeerUnseen, UnseenStep DEF Reader
<1>7. ASSUME NEW q \in Peers, NEW n \in 1..MaxBytes(q), Write(q, n) PROVE SeenStep(p)
  <2>1. TypeOK
    BY DEF IInv
  <2> QED
    BY <1>7, <2>1, PeerUnseen, UnseenStep
<1> QED
  BY <1>1, <1>2, <1>3, <1>4, <1>5, <1>6, <1>7 DEF Next

\* Each direction is a Pipe: for every policy, frame size, buffer size and
\* interleaving, Read returns the bytes the peer wrote, from their start, in
\* order and without a gap (padstream.go:81-129, 154-205).
THEOREM StreamIsPipe == Spec => ImplementsPipe
<1>1. Opener \in Peers /\ Other \in Peers /\ peer(Opener) = Other /\ peer(Other) = Opener
  BY PadAssumption DEF Peers, peer
<1>2. ASSUME Init PROVE Up!Init /\ Down!Init
  BY <1>1, <1>2 DEF Init, Up!Init, Down!Init
<1>3. ASSUME IInv, [Next]_vars
      PROVE  [Up!Next]_<<conns[Opener].written, conns[Other].delivered>>
  <2>1. SeenStep(Opener)
    BY <1>1, <1>3, NextSeen
  <2> QED
    BY <1>1, <2>1 DEF SeenStep, SeenWrite, SeenRead, Up!Next, Up!Write, Up!Read
<1>4. ASSUME IInv, [Next]_vars
      PROVE  [Down!Next]_<<conns[Other].written, conns[Opener].delivered>>
  <2>1. SeenStep(Other)
    BY <1>1, <1>4, NextSeen
  <2> QED
    BY <1>1, <2>1 DEF SeenStep, SeenWrite, SeenRead, Down!Next, Down!Write, Down!Read
<1> QED
  BY <1>2, <1>3, <1>4, Invariance, PTL DEF Spec, ImplementsPipe, Up!Spec, Down!Spec

-----------------------------------------------------------------------------
(* Who may write a keep-alive.  The guard of the keep-alive (idle) is only *)
(* met again by the header of a frame with neither payload nor padding,    *)
(* and only keep-alives are such frames: there is one turn on the whole    *)
(* connection.  The client has it first; the reader that has it can hand   *)
(* it to its peer, or lose it.                                             *)

Empty(item) == item.kind = "header" /\ item.payloadLen = 0 /\ item.padLen = 0

\* The reader of p can still write a keep-alive before it reads on.  The server
\* cannot before it has something to answer.
HasTurn(p, c) ==
  /\ c.reader \in {"top", "lock", "header", "padding"} /\ idle(c)
  /\ p = Other => c.delivered # <<>>

\* The turn is with the reader of p, or on its way to its peer.
Turn(p, i) ==
  IF i = 0 THEN HasTurn(p, conns[p]) ELSE i \in 1..Len(pipe[p]) /\ Empty(pipe[p][i])

OneTurn ==
  \A p, q \in Peers : \A i, j \in Nat : Turn(p, i) /\ Turn(q, j) => p = q /\ i = j

\* A keep-alive is written by an idle reader, after the first frame; the lengths
\* of the last header stay until the next one; the server answers what it read.
Staged(p, c) ==
  /\ c.reader \in {"lock", "header", "padding"} => idle(c)
  /\ c.reader \in {"header", "padding"} => c.framesSent > 0
  /\ c.readBuf # <<>> => c.readPayloadLen > 0
  /\ c.readStage = 1 => c.readPadLen > 0
  /\ c.readStage = 2 => c.readPayloadLen > 0
  /\ p = Other /\ (c.framesSent > 0 \/ c.writer \in {"header", "padding", "payload"})
       => c.delivered # <<>>

TurnInv == OneTurn /\ \A p \in Peers : Staged(p, conns[p])

\* The reader of p does not read: it writes a keep-alive, or waits for the lock
\* that its own Write holds.
HeldUp(p) ==
  \/ conns[p].reader \in {"header", "padding"}
  \/ conns[p].reader = "lock" /\ ~mayLock(conns[p])

\* One of the two readers always reads, so that the peer's writes go on.
OneReads == \E p \in Peers : ~HeldUp(p)

\* A step of one peer that adds nothing to the stream that hands over the turn,
\* and does not give that peer the turn.
LEMMA TurnRests ==
  ASSUME TypeOK, TurnInv, NEW p \in Peers, NEW d \in Conn,
         conns' = [conns EXCEPT ![p] = d], Staged(p, d), HasTurn(p, d) => HasTurn(p, conns[p]),
         \/ pipe' = pipe
         \/ \E item : ~Empty(item) /\ pipe' = [pipe EXCEPT ![p] = Append(@, item)]
  PROVE  TurnInv'
<1>1. /\ conns'[p] = d /\ \A q \in Peers : q # p => conns'[q] = conns[q]
      /\ \A q \in Peers : pipe[q] \in Seq(Item)
  BY DEF TypeOK
<1>2. \A q \in Peers : Staged(q, conns'[q])
  BY <1>1 DEF TurnInv
<1>3. ASSUME NEW q \in Peers, NEW i \in Nat, Turn(q, i)' PROVE Turn(q, i)
  <2>1. CASE i = 0
    BY <1>1, <1>3, <2>1 DEF Turn
  <2>2. CASE i # 0 /\ pipe'[q] = pipe[q]
    BY <1>3, <2>2 DEF Turn
  <2>3. ASSUME i # 0, NEW item, ~Empty(item), pipe'[q] = Append(pipe[q], item) PROVE Turn(q, i)
    <3>1. i \in 1..Len(Append(pipe[q], item)) /\ Empty(Append(pipe[q], item)[i])
      BY <1>3, <2>3 DEF Turn
    <3>2. i \in 1..(Len(pipe[q]) + 1) /\ Len(pipe[q]) \in Nat
      BY <1>1, <3>1
    <3>3. i # Len(pipe[q]) + 1
      BY <1>1, <2>3, <3>1
    <3>4. i \in 1..Len(pipe[q]) /\ Append(pipe[q], item)[i] = pipe[q][i]
      BY <1>1, <3>2, <3>3
    <3> QED
      BY <2>3, <3>1, <3>4 DEF Turn
  <2>4. pipe'[q] = pipe[q] \/ \E item : ~Empty(item) /\ pipe'[q] = Append(pipe[q], item)
    BY DEF TypeOK
  <2> QED
    BY <2>1, <2>2, <2>3, <2>4
<1>4. OneTurn'
  BY <1>3 DEF OneTurn, TurnInv
<1> QED
  BY <1>2, <1>4 DEF TurnInv

\* What Write changes has no part in the turn.
LEMMA WriterTurns ==
  ASSUME NEW p \in Peers, NEW c \in Conn, NEW d \in Conn, Staged(p, c),
         d.reader = c.reader, d.readStage = c.readStage, d.readBuf = c.readBuf,
         d.readPayloadLen = c.readPayloadLen, d.readPadLen = c.readPadLen,
         d.delivered = c.delivered, d.framesSent >= c.framesSent,
         p = Other /\ (d.framesSent > 0 \/ d.writer \in {"header", "padding", "payload"})
           => c.delivered # <<>>
  PROVE  Staged(p, d) /\ (HasTurn(p, d) => HasTurn(p, c))
<1>1. d.framesSent \in Nat /\ c.framesSent \in Nat
  BY DEF Conn
<1> QED
  BY <1>1 DEF Staged, HasTurn, idle

\* Write, which the server calls when it has something to answer
\* (padstream.go:81-129).
LEMMA WriterTurn ==
  ASSUME IInv, TurnInv, NEW p \in Peers,
         Writer(p) \/ \E n \in 1..MaxBytes(p) : Write(p, n)
  PROVE  TurnInv'
<1> DEFINE c == conns[p]
<1>1. TypeOK /\ conns \in [Peers -> Conn] /\ c \in Conn /\ Orderly(c) /\ Staged(p, c)
  BY DEF IInv, TypeOK, TurnInv
<1>2. c.framesSent \in Nat /\ c.left \in Nat /\ c.written \in Nat /\ c.padLen \in Nat
  BY <1>1 DEF Conn
<1>3. ASSUME NEW n \in 1..MaxBytes(p), Write(p, n) PROVE TurnInv'
  <2> DEFINE d == [c EXCEPT !.writer = "header", !.writeMu = "writer", !.left = n]
  <2>1. conns' = [conns EXCEPT ![p] = d] /\ pipe' = pipe /\ (p = Other => c.delivered # <<>>)
    BY <1>1, <1>3 DEF Write
  <2>2. n \in Nat
    BY <1>3, PadAssumption DEF MaxBytes
  <2>3. d \in Conn
    BY <1>1, <2>2 DEF Conn
  <2>4. /\ d.reader = c.reader /\ d.readStage = c.readStage /\ d.readBuf = c.readBuf
        /\ d.readPayloadLen = c.readPayloadLen /\ d.readPadLen = c.readPadLen
        /\ d.delivered = c.delivered /\ d.framesSent >= c.framesSent
    BY <1>1, <1>2 DEF Conn
  <2> HIDE DEF d
  <2>5. Staged(p, d) /\ (HasTurn(p, d) => HasTurn(p, c))
    BY <1>1, <2>1, <2>3, <2>4, WriterTurns
  <2> QED
    BY <1>1, <2>1, <2>3, <2>5, TurnRests
<1>4. CASE WriteHeader(p)
  <2>1. PICK pad \in 0..maxPad(c) :
          /\ Send(p, [kind |-> "header", payloadLen |-> Len(chunk(c)), padLen |-> pad])
          /\ conns' = [conns EXCEPT ![p] = [c EXCEPT !.writer = IF pad > 0 THEN "padding" ELSE "payload",
                                                     !.padLen = pad]]
    BY <1>1, <1>4 DEF WriteHeader
  <2> DEFINE d == [c EXCEPT !.writer = IF pad > 0 THEN "padding" ELSE "payload", !.padLen = pad]
             item == [kind |-> "header", payloadLen |-> Len(chunk(c)), padLen |-> pad]
  <2>2. c.writer = "header" /\ pad \in Nat
    BY <1>4, PadAssumption DEF WriteHeader, maxPad
  <2>3. d \in Conn
    BY <1>1, <2>2 DEF Conn
  <2>4. /\ d.reader = c.reader /\ d.readStage = c.readStage /\ d.readBuf = c.readBuf
        /\ d.readPayloadLen = c.readPayloadLen /\ d.readPadLen = c.readPadLen
        /\ d.delivered = c.delivered /\ d.framesSent >= c.framesSent
    BY <1>1, <1>2 DEF Conn
  <2>5. c.left > 0 /\ Len(chunk(c)) \in 1..MaxFrame
    BY <1>1, <2>2, ChunkFacts DEF Orderly, Locked
  <2>6. ~Empty(item)
    BY <2>5, PadAssumption DEF Empty
  <2>7. pipe' = [pipe EXCEPT ![p] = Append(@, item)]
    BY <2>1 DEF Send
  <2> HIDE DEF d, item
  <2>8. p = Other => c.delivered # <<>>
    BY <1>1, <2>2 DEF Staged
  <2>9. Staged(p, d) /\ (HasTurn(p, d) => HasTurn(p, c))
    BY <1>1, <2>3, <2>4, <2>8, WriterTurns
  <2> QED
    BY <1>1, <2>1, <2>3, <2>6, <2>7, <2>9, TurnRests DEF d
<1>5. CASE WritePadding(p)
  <2> DEFINE d == [c EXCEPT !.writer = "payload", !.padLen = 0]
             item == [kind |-> "padding", len |-> c.padLen]
  <2>1. c.writer = "padding" /\ conns' = [conns EXCEPT ![p] = d]
    BY <1>1, <1>5 DEF WritePadding
  <2>2. d \in Conn
    BY <1>1 DEF Conn
  <2>3. /\ d.reader = c.reader /\ d.readStage = c.readStage /\ d.readBuf = c.readBuf
        /\ d.readPayloadLen = c.readPayloadLen /\ d.readPadLen = c.readPadLen
        /\ d.delivered = c.delivered /\ d.framesSent >= c.framesSent
    BY <1>1, <1>2 DEF Conn
  <2>4. ~Empty(item) /\ pipe' = [pipe EXCEPT ![p] = Append(@, item)]
    BY <1>5 DEF WritePadding, Send, Empty
  <2> HIDE DEF d, item
  <2>5. p = Other => c.delivered # <<>>
    BY <1>1, <2>1 DEF Staged
  <2>6. Staged(p, d) /\ (HasTurn(p, d) => HasTurn(p, c))
    BY <1>1, <2>2, <2>3, <2>5, WriterTurns
  <2> QED
    BY <1>1, <2>1, <2>2, <2>4, <2>6, TurnRests
<1>6. CASE WritePayload(p)
  <2> DEFINE rest == c.left - Len(chunk(c))
             d == [c EXCEPT !.written = @ + Len(chunk(c)), !.framesSent = @ + 1, !.left = rest,
                            !.writer = IF rest > 0 THEN "header" ELSE "idle",
                            !.writeMu = IF rest > 0 THEN "writer" ELSE "free"]
             item == [kind |-> "payload", bytes |-> chunk(c)]
  <2>1. c.writer = "payload" /\ conns' = [conns EXCEPT ![p] = d]
    BY <1>1, <1>6 DEF WritePayload
  <2>2. c.left > 0 /\ Len(chunk(c)) \in Nat /\ Len(chunk(c)) <= c.left
    BY <1>1, <2>1, ChunkFacts, PadAssumption DEF Orderly, Locked
  <2>3. rest \in Nat /\ c.written + Len(chunk(c)) \in Nat /\ c.framesSent + 1 \in Nat
    BY <1>2, <2>2
  <2>4. d \in Conn
    BY <1>1, <2>3 DEF Conn
  <2>5. /\ d.reader = c.reader /\ d.readStage = c.readStage /\ d.readBuf = c.readBuf
        /\ d.readPayloadLen = c.readPayloadLen /\ d.readPadLen = c.readPadLen
        /\ d.delivered = c.delivered /\ d.framesSent >= c.framesSent
    BY <1>1, <1>2 DEF Conn
  <2>6. ~Empty(item) /\ pipe' = [pipe EXCEPT ![p] = Append(@, item)]
    BY <1>6 DEF WritePayload, Send, Empty
  <2> HIDE DEF d, item, rest
  <2>7. p = Other => c.delivered # <<>>
    BY <1>1, <2>1 DEF Staged
  <2>8. Staged(p, d) /\ (HasTurn(p, d) => HasTurn(p, c))
    BY <1>1, <2>4, <2>5, <2>7, WriterTurns
  <2> QED
    BY <1>1, <2>1, <2>4, <2>6, <2>8, TurnRests
<1>7. CASE WriteFails(p)
  <2> DEFINE d == [c EXCEPT !.writer = "failed", !.writeMu = "free"]
  <2>1. conns' = [conns EXCEPT ![p] = d] /\ pipe' = pipe
    BY <1>1, <1>7 DEF WriteFails
  <2>2. d \in Conn /\ d.writer = "failed" /\ d.framesSent = c.framesSent
    BY <1>1 DEF Conn
  <2>3. /\ d.reader = c.reader /\ d.readStage = c.readStage /\ d.readBuf = c.readBuf
        /\ d.readPayloadLen = c.readPayloadLen /\ d.readPadLen = c.readPadLen
        /\ d.delivered = c.delivered /\ d.framesSent >= c.framesSent
    BY <1>1, <1>2 DEF Conn
  <2> HIDE DEF d
  <2>4. p = Other /\ (d.framesSent > 0 \/ d.writer \in {"header", "padding", "payload"}) => c.delivered # <<>>
    BY <1>1, <2>2 DEF Staged
  <2>5. Staged(p, d) /\ (HasTurn(p, d) => HasTurn(p, c))
    BY <1>1, <2>2, <2>3, <2>4, WriterTurns
  <2> QED
    BY <1>1, <2>1, <2>2, <2>5, TurnRests
<1> QED
  BY <1>3, <1>4, <1>5, <1>6, <1>7 DEF Writer

\* The steps of Read that write no header and take nothing from the stream: the
\* keep-alive needs the turn, and buffered payload is none
\* (padstream.go:131-152, 154-169).
LEMMA ReaderTurn ==
  ASSUME IInv, TurnInv, NEW p \in Peers,
         \/ ReadTop(p) \/ KeepAliveLock(p) \/ KeepAlivePadding(p)
         \/ ReadBuffered(p) \/ ReadFails(p)
  PROVE  TurnInv'
<1> DEFINE c == conns[p]
<1>1. TypeOK /\ conns \in [Peers -> Conn] /\ c \in Conn /\ Staged(p, c)
  BY DEF IInv, TypeOK, TurnInv
<1>2. CASE ReadTop(p)
  <2>1. PICK r \in {"read", "lock"} :
          /\ conns' = [conns EXCEPT ![p] = [c EXCEPT !.reader = r]]
          /\ r = "lock" => idle(c)
    BY <1>1, <1>2 DEF ReadTop
  <2> DEFINE d == [c EXCEPT !.reader = r]
  <2>2. c.reader = "top" /\ pipe' = pipe
    BY <1>2 DEF ReadTop
  <2>3. d \in Conn
    BY <1>1, <2>1 DEF Conn
  <2>4. Staged(p, d) /\ (HasTurn(p, d) => HasTurn(p, c))
    BY <1>1, <2>1, <2>2 DEF Staged, HasTurn, idle, Conn
  <2> HIDE DEF d
  <2> QED
    BY <1>1, <2>1, <2>2, <2>3, <2>4, TurnRests DEF d
<1>3. CASE KeepAliveLock(p) /\ c.framesSent = 0
  <2> DEFINE d == [c EXCEPT !.reader = "read"]
  <2>1. conns' = [conns EXCEPT ![p] = d] /\ pipe' = pipe
    BY <1>1, <1>3 DEF KeepAliveLock
  <2>2. d \in Conn
    BY <1>1 DEF Conn
  <2>3. Staged(p, d) /\ ~HasTurn(p, d)
    BY <1>1 DEF Staged, HasTurn, idle, Conn
  <2> HIDE DEF d
  <2> QED
    BY <1>1, <2>1, <2>2, <2>3, TurnRests
<1>4. CASE KeepAliveLock(p) /\ c.framesSent # 0
  <2> DEFINE d == [c EXCEPT !.reader = "header", !.writeMu = "reader"]
  <2>1. conns' = [conns EXCEPT ![p] = d] /\ pipe' = pipe /\ c.reader = "lock"
    BY <1>1, <1>4 DEF KeepAliveLock
  <2>2. d \in Conn /\ c.framesSent > 0
    <3>1. d \in Conn
      BY <1>1 DEF Conn
    <3>2. c.framesSent \in Nat
      BY <1>1 DEF Conn
    <3> QED
      BY <1>4, <3>1, <3>2
  <2>3. Staged(p, d) /\ (HasTurn(p, d) => HasTurn(p, c))
    BY <1>1, <2>1, <2>2 DEF Staged, HasTurn, idle, Conn
  <2> HIDE DEF d
  <2> QED
    BY <1>1, <2>1, <2>2, <2>3, TurnRests
<1>5. CASE KeepAlivePadding(p)
  <2> DEFINE d == [c EXCEPT !.reader = "read", !.writeMu = "free", !.padLen = 0]
             item == [kind |-> "padding", len |-> c.padLen]
  <2>1. conns' = [conns EXCEPT ![p] = d]
    BY <1>1, <1>5 DEF KeepAlivePadding
  <2>2. d \in Conn
    BY <1>1 DEF Conn
  <2>3. Staged(p, d) /\ ~HasTurn(p, d)
    BY <1>1 DEF Staged, HasTurn, idle, Conn
  <2>4. ~Empty(item) /\ pipe' = [pipe EXCEPT ![p] = Append(@, item)]
    BY <1>5 DEF KeepAlivePadding, Send, Empty
  <2> HIDE DEF d, item
  <2> QED
    BY <1>1, <2>1, <2>2, <2>3, <2>4, TurnRests
<1>6. CASE ReadBuffered(p)
  <2> DEFINE a == c.delivered
             b == c.readBuf
  <2>1. PICK n \in 1..Len(b) :
          conns' = [conns EXCEPT ![p] = [c EXCEPT !.reader = "top", !.readBuf = leftover(b, n),
                                                  !.delivered = a \o SubSeq(b, 1, n)]]
    BY <1>1, <1>6 DEF ReadBuffered
  <2> DEFINE got == a \o SubSeq(b, 1, n)
             d == [c EXCEPT !.reader = "top", !.readBuf = leftover(b, n), !.delivered = got]
  <2>2. a \in Bytes /\ b \in Bytes /\ b # <<>> /\ pipe' = pipe
    BY <1>1, <1>6 DEF ReadBuffered, Conn
  <2>3. leftover(b, n) \in Bytes /\ got \in Bytes /\ got # <<>>
    <3>1. SubSeq(b, 1, n) \in Bytes /\ Len(SubSeq(b, 1, n)) = n /\ n > 0
      BY <2>2 DEF Bytes
    <3>2. leftover(b, n) \in Bytes
      BY <2>2 DEF leftover, Bytes
    <3> DEFINE s == SubSeq(b, 1, n)
    <3> HIDE DEF a, s
    <3>3. a \o s \in Bytes /\ Len(a \o s) = Len(a) + Len(s) /\ Len(a) \in Nat
      BY <2>2, <3>1 DEF Bytes, s
    <3>4. a \o s # <<>>
      BY <3>1, <3>3 DEF s
    <3> QED
      BY <3>2, <3>3, <3>4 DEF s
  <2>4. c.readPayloadLen > 0 /\ c.readPayloadLen \in Nat
    <3>1. c.readPayloadLen > 0
      BY <1>1, <2>2, Zenon DEF Staged
    <3>2. c.readPayloadLen \in 0..MaxFrame
      BY <1>1 DEF Conn
    <3> QED
      BY <3>1, <3>2, PadAssumption
  <2> HIDE DEF a, b, got
  <2>5. d \in Conn
    BY <1>1, <2>3 DEF Conn
  <2>6. Staged(p, d) /\ ~HasTurn(p, d)
    BY <1>1, <2>3, <2>4 DEF Staged, HasTurn, idle, Conn
  <2>7. conns' = [conns EXCEPT ![p] = d]
    BY <2>1 DEF got
  <2> HIDE DEF d
  <2> QED
    BY <1>1, <2>2, <2>5, <2>6, <2>7, TurnRests
<1>7. CASE ReadFails(p)
  <2>1. PICK d \in {[c EXCEPT !.reader = "read", !.writeMu = "free"], [c EXCEPT !.reader = "failed"]} :
          conns' = [conns EXCEPT ![p] = d]
    BY <1>1, <1>7 DEF ReadFails
  <2>2. ASSUME d = [c EXCEPT !.reader = "read", !.writeMu = "free"]
        PROVE  d \in Conn /\ Staged(p, d) /\ ~HasTurn(p, d)
    <3>1. d \in Conn
      BY <1>1, <2>2 DEF Conn
    <3>2. Staged(p, d) /\ ~HasTurn(p, d)
      BY <1>1, <2>2 DEF Staged, HasTurn, idle, Conn
    <3> QED BY <3>1, <3>2
  <2>3. ASSUME d = [c EXCEPT !.reader = "failed"]
        PROVE  d \in Conn /\ Staged(p, d) /\ ~HasTurn(p, d)
    <3>1. d \in Conn
      BY <1>1, <2>3 DEF Conn
    <3>2. Staged(p, d) /\ ~HasTurn(p, d)
      BY <1>1, <2>3 DEF Staged, HasTurn, idle, Conn
    <3> QED BY <3>1, <3>2
  <2>4. pipe' = pipe
    BY <1>7 DEF ReadFails
  <2> QED
    BY <1>1, <2>1, <2>2, <2>3, <2>4, TurnRests
<1> QED
  BY <1>2, <1>3, <1>4, <1>5, <1>6, <1>7

\* The header of a keep-alive hands the turn over when no padding follows it; its
\* reader goes on to read and has the turn no more (padstream.go:131-152).
LEMMA KeepAliveTurn ==
  ASSUME IInv, TurnInv, NEW p \in Peers, KeepAliveHeader(p)
  PROVE  TurnInv'
<1> DEFINE c == conns[p]
<1>1. TypeOK /\ conns \in [Peers -> Conn] /\ c \in Conn /\ Staged(p, c) /\ c.reader = "header"
  BY DEF IInv, TypeOK, TurnInv, KeepAliveHeader
<1>2. PICK pad \in 0..MaxPadding :
        /\ Send(p, [kind |-> "header", payloadLen |-> 0, padLen |-> pad])
        /\ conns' = IF pad > 0
                    THEN [conns EXCEPT ![p] = [c EXCEPT !.reader = "padding", !.padLen = pad]]
                    ELSE [conns EXCEPT ![p] = [c EXCEPT !.reader = "read", !.writeMu = "free"]]
  BY <1>1 DEF KeepAliveHeader
<1> DEFINE item == [kind |-> "header", payloadLen |-> 0, padLen |-> pad]
<1>3. pipe' = [pipe EXCEPT ![p] = Append(@, item)] /\ pad \in Nat
  BY <1>2, PadAssumption DEF Send
<1>4. HasTurn(p, c)
  BY <1>1 DEF Staged, HasTurn
<1>5. CASE pad > 0
  <2> DEFINE d == [c EXCEPT !.reader = "padding", !.padLen = pad]
  <2>1. conns' = [conns EXCEPT ![p] = d]
    BY <1>2, <1>5
  <2>2. d \in Conn
    BY <1>1, <1>3 DEF Conn
  <2>3. Staged(p, d)
    BY <1>1 DEF Staged, idle, Conn
  <2>4. ~Empty(item)
    BY <1>3, <1>5 DEF Empty
  <2> HIDE DEF d, item
  <2> QED
    BY <1>1, <1>3, <1>4, <2>1, <2>2, <2>3, <2>4, TurnRests
<1>6. CASE ~(pad > 0)
  <2> DEFINE d == [c EXCEPT !.reader = "read", !.writeMu = "free"]
             n == Len(pipe[p]) + 1
  <2>1. conns' = [conns EXCEPT ![p] = d] /\ d.reader = "read"
    BY <1>1, <1>2, <1>6 DEF Conn
  <2>2. Staged(p, d) /\ ~HasTurn(p, d)
    BY <1>1 DEF Staged, HasTurn, idle, Conn
  <2> HIDE DEF d, item
  <2>3. /\ conns'[p] = d /\ \A q \in Peers : q # p => conns'[q] = conns[q]
        /\ \A q \in Peers : pipe[q] \in Seq(Item) /\ (q # p => pipe'[q] = pipe[q])
        /\ pipe'[p] = Append(pipe[p], item)
    BY <1>1, <1>3, <2>1 DEF TypeOK
  <2>4. \A q \in Peers : Staged(q, conns'[q])
    BY <2>2, <2>3 DEF TurnInv
  <2>5. ~Turn(p, 0)' /\ Turn(p, 0)
    BY <1>4, <2>2, <2>3 DEF Turn
  <2>6. ASSUME NEW q \in Peers, NEW i \in Nat, Turn(q, i)', ~(q = p /\ i = n) PROVE Turn(q, i)
    <3>1. CASE i = 0
      BY <2>3, <2>5, <2>6, <3>1 DEF Turn
    <3>2. CASE i # 0 /\ q # p
      BY <2>3, <2>6, <3>2 DEF Turn
    <3>3. CASE i # 0 /\ q = p
      <4>1. i \in 1..Len(Append(pipe[q], item)) /\ Empty(Append(pipe[q], item)[i])
        BY <2>3, <2>6, <3>3 DEF Turn
      <4>2. i \in 1..Len(pipe[q])
        BY <2>3, <2>6, <3>3, <4>1
      <4>3. Append(pipe[q], item)[i] = pipe[q][i]
        BY <2>3, <4>2
      <4> QED
        BY <3>3, <4>1, <4>2, <4>3 DEF Turn
    <3> QED
      BY <3>1, <3>2, <3>3
  <2>7. \A q \in Peers : \A i \in Nat : Turn(q, i) => q = p /\ i = 0
    BY <2>5 DEF TurnInv, OneTurn
  <2>8. \A q \in Peers : \A i \in Nat : Turn(q, i)' => q = p /\ i = n
    BY <2>5, <2>6, <2>7
  <2>9. OneTurn'
    BY <2>8 DEF OneTurn
  <2> QED
    BY <2>4, <2>9 DEF TurnInv
<1> QED
  BY <1>5, <1>6

\* A reader has the turn after an item only when the item handed it over; the
\* announced lengths stay until the next header (padstream.go:170-203).
LEMMA ConsumeTurn ==
  ASSUME NEW p \in Peers, NEW c \in Conn, NEW item \in Item, NEW d \in Conn, Staged(p, c),
         c.reader = "read", c.readBuf = <<>>,
         c.readStage = 0 => item.kind = "header",
         c.readStage = 2 => item.kind = "payload",
         d = [Consume(c, item) EXCEPT !.reader = "top"]
  PROVE  Staged(p, d) /\ (HasTurn(p, d) => Empty(item) /\ (p = Other => c.delivered # <<>>))
<1>1. c.readStage \in 0..2 /\ c.readPayloadLen \in Nat /\ c.readPadLen \in Nat
  BY PadAssumption DEF Conn
<1>2. CASE c.readStage = 0
  <2>1. item.kind = "header" /\ item.payloadLen \in Nat /\ item.padLen \in Nat
    BY <1>2, PadAssumption DEF Item
  <2>2. d = [c EXCEPT !.readPayloadLen = item.payloadLen, !.readPadLen = item.padLen,
                      !.readStage = IF item.padLen > 0 THEN 1
                                    ELSE IF item.payloadLen > 0 THEN 2 ELSE 0,
                      !.reader = "top"]
    BY <1>2 DEF Consume, Conn
  <2>3. /\ d.reader = "top" /\ d.readBuf = <<>> /\ d.delivered = c.delivered
        /\ d.readPayloadLen = item.payloadLen /\ d.readPadLen = item.padLen
        /\ d.framesSent = c.framesSent /\ d.writer = c.writer
        /\ d.readStage = IF item.padLen > 0 THEN 1 ELSE IF item.payloadLen > 0 THEN 2 ELSE 0
    BY <2>2 DEF Conn
  <2> QED
    BY <2>1, <2>3 DEF Staged, HasTurn, idle, Empty
<1>3. CASE c.readStage = 1
  <2>1. d = [c EXCEPT !.readStage = afterPadding(c), !.reader = "top"]
    BY <1>3 DEF Consume, Conn
  <2>2. /\ d.reader = "top" /\ d.readBuf = <<>> /\ d.delivered = c.delivered
        /\ d.readPayloadLen = c.readPayloadLen /\ d.readPadLen = c.readPadLen
        /\ d.framesSent = c.framesSent /\ d.writer = c.writer
        /\ d.readStage = IF c.readPayloadLen > 0 THEN 2 ELSE 0
    BY <2>1 DEF Conn, afterPadding
  <2> QED
    BY <1>1, <1>3, <2>2 DEF Staged, HasTurn, idle
<1>4. CASE c.readStage = 2
  <2>1. d = [c EXCEPT !.readBuf = item.bytes, !.readStage = 0, !.reader = "top"]
    BY <1>4 DEF Consume, Conn
  <2>2. /\ d.reader = "top" /\ d.delivered = c.delivered
        /\ d.readPayloadLen = c.readPayloadLen /\ d.readPadLen = c.readPadLen
        /\ d.framesSent = c.framesSent /\ d.writer = c.writer
        /\ d.readStage = 0
    BY <2>1 DEF Conn
  <2> QED
    BY <1>1, <1>4, <2>2 DEF Staged, HasTurn, idle
<1> QED
  BY <1>1, <1>2, <1>3, <1>4

\* Read takes an item from the stream: what is behind it moves up, and the turn
\* is the reader's when the item handed it over (padstream.go:170-203).
LEMMA ReadItemTurn ==
  ASSUME IInv, TurnInv, NEW p \in Peers, ReadItem(p)
  PROVE  TurnInv'
<1> DEFINE c == conns[p]
           o == peer(p)
           s == pipe[o]
           d == [Consume(c, Head(s)) EXCEPT !.reader = "top"]
<1>1. /\ TypeOK /\ TypeOK' /\ conns \in [Peers -> Conn] /\ c \in Conn /\ Staged(p, c)
      /\ o \in Peers /\ o # p /\ \A q \in Peers : q = p \/ q = o
  BY ReadItemKeeps, PeerFacts DEF IInv, TypeOK, TurnInv
<1>2. /\ c.reader = "read" /\ c.readBuf = <<>> /\ s # <<>> /\ InFrame(p)
      /\ pipe' = [pipe EXCEPT ![o] = Tail(s)] /\ conns' = [conns EXCEPT ![p] = d]
  BY DEF ReadItem
<1>3. s \in Seq(Item) /\ Head(s) \in Item /\ pipe \in [Peers -> Seq(Item)]
  BY <1>1, <1>2 DEF TypeOK
<1>4. conns'[p] = d /\ conns'[o] = conns[o] /\ pipe'[o] = Tail(s) /\ pipe'[p] = pipe[p]
  BY <1>1, <1>2, <1>3
<1>5. d \in Conn
  <2>1. conns'[p] \in Conn
    BY <1>1 DEF TypeOK
  <2> HIDE DEF d
  <2> QED
    BY <1>4, <2>1
<1>6. /\ c.readStage = 0 => Head(s).kind = "header"
      /\ c.readStage = 2 => Head(s).kind = "payload"
  <2>1. CASE c.readStage = 0
    BY <1>2, <2>1 DEF InFrame
  <2>2. CASE c.readStage = 2
    BY <1>2, <2>2 DEF InFrame
  <2> QED
    BY <2>1, <2>2
<1> HIDE DEF s
<1>7. Staged(p, d) /\ (HasTurn(p, d) => Empty(Head(s)))
  BY <1>1, <1>2, <1>3, <1>5, <1>6, ConsumeTurn
<1> HIDE DEF d
<1>8. \A q \in Peers : Staged(q, conns'[q])
  BY <1>1, <1>4, <1>7 DEF TurnInv
<1>9. /\ Len(s) \in Nat \ {0} /\ Head(s) = s[1] /\ Len(Tail(s)) = Len(s) - 1
      /\ \A i \in 1..(Len(s) - 1) : Tail(s)[i] = s[i + 1]
  BY <1>2, <1>3
<1>10. Turn(p, 0)' => Turn(o, 1)
  BY <1>4, <1>7, <1>9 DEF Turn, s
<1>11. Turn(o, 0)' => Turn(o, 0)
  BY <1>4 DEF Turn
<1>12. ASSUME NEW i \in Nat, i # 0 PROVE (Turn(p, i)' => Turn(p, i)) /\ (Turn(o, i)' => Turn(o, i + 1))
  <2>1. Turn(p, i)' => Turn(p, i)
    BY <1>4, <1>12 DEF Turn
  <2>2. ASSUME Turn(o, i)' PROVE Turn(o, i + 1)
    <3>1. i \in 1..Len(Tail(s)) /\ Empty(Tail(s)[i])
      BY <1>4, <1>12, <2>2 DEF Turn
    <3>2. i \in 1..(Len(s) - 1) /\ i + 1 \in 1..Len(s) /\ i + 1 # 0 /\ Empty(s[i + 1])
      BY <1>9, <3>1
    <3> QED
      BY <3>2 DEF Turn, s
  <2> QED
    BY <2>1, <2>2
<1>13. OneTurn
  BY DEF TurnInv
<1>14. ASSUME NEW q \in Peers, NEW r \in Peers, NEW i \in Nat, NEW j \in Nat, Turn(q, i)', Turn(r, j)'
       PROVE  q = r /\ i = j
  <2>1. CASE q = p /\ r = p
    BY <1>1, <1>10, <1>12, <1>13, <1>14, <2>1 DEF OneTurn
  <2>2. CASE q = p /\ r = o
    BY <1>1, <1>10, <1>11, <1>12, <1>13, <1>14, <2>2 DEF OneTurn
  <2>3. CASE q = o /\ r = p
    BY <1>1, <1>10, <1>11, <1>12, <1>13, <1>14, <2>3 DEF OneTurn
  <2>4. CASE q = o /\ r = o
    BY <1>1, <1>11, <1>12, <1>13, <1>14, <2>4 DEF OneTurn
  <2> QED
    BY <1>1, <2>1, <2>2, <2>3, <2>4
<1>15. OneTurn'
  BY <1>14 DEF OneTurn
<1> QED
  BY <1>8, <1>15 DEF TurnInv

\* The client starts with the turn, the server without it.
LEMMA TurnInit ==
  ASSUME Init
  PROVE  TurnInv
<1>1. \A p \in Peers :
        /\ pipe[p] = <<>> /\ conns[p].reader = "top" /\ conns[p].writer = "idle"
        /\ conns[p].framesSent = 0 /\ conns[p].readStage = 0 /\ conns[p].readBuf = <<>>
        /\ conns[p].delivered = <<>>
  BY DEF Init
<1>2. \A p \in Peers : Staged(p, conns[p])
  BY <1>1 DEF Staged
<1>3. ASSUME NEW p \in Peers, NEW i \in Nat, Turn(p, i) PROVE p = Opener /\ i = 0
  <2>1. i = 0
    BY <1>1, <1>3 DEF Turn
  <2>2. p # Other
    BY <1>1, <1>3, <2>1 DEF Turn, HasTurn
  <2> QED
    BY <2>1, <2>2 DEF Peers
<1> QED
  BY <1>2, <1>3 DEF TurnInv, OneTurn

\* Every step keeps it at one turn.
LEMMA NextTurn ==
  ASSUME IInv, TurnInv, [Next]_vars
  PROVE  TurnInv'
<1>1. CASE UNCHANGED <<pipe, conns>>
  BY <1>1 DEF TurnInv, OneTurn, Turn
<1>2. CASE UNCHANGED vars \/ Close
  BY <1>1, <1>2 DEF vars, Close
<1>3. ASSUME NEW p \in Peers, Reader(p) PROVE TurnInv'
  BY <1>3, ReaderTurn, KeepAliveTurn, ReadItemTurn DEF Reader
<1>4. ASSUME NEW p \in Peers, Writer(p) \/ \E n \in 1..MaxBytes(p) : Write(p, n) PROVE TurnInv'
  BY <1>4, WriterTurn
<1> QED
  BY <1>2, <1>3, <1>4 DEF Next

\* Keep-alives never block each other, however small the buffers: whatever the
\* sizes and the interleaving, at most one of the two readers writes a keep-alive
\* or waits for its own Write to do so, and the other goes on reading.  It is the
\* safety half of AllRead (padstream.go:131-163).
THEOREM KeepAlivesNeverBlock == Spec => []OneReads
<1>1. ASSUME IInv, TurnInv, NEW p \in Peers, HeldUp(p) PROVE Turn(p, 0)
  <2>1. Staged(p, conns[p]) /\ Locked(conns[p]) /\ conns[p] \in Conn
    BY <1>1 DEF TurnInv, IInv, Orderly, TypeOK
  <2>2. conns[p].reader \in {"lock", "header", "padding"} /\ idle(conns[p])
    BY <1>1, <2>1 DEF HeldUp, Staged
  <2>3. p = Other => conns[p].delivered # <<>>
    <3>1. CASE conns[p].reader \in {"header", "padding"}
      BY <2>1, <3>1 DEF Staged
    <3>2. CASE conns[p].reader = "lock" /\ ~mayLock(conns[p])
      <4>1. conns[p].writeMu = "writer"
        BY <2>1, <3>2 DEF mayLock, Locked, Conn
      <4> QED
        BY <2>1, <4>1 DEF Staged, Locked
    <3> QED
      BY <1>1, <3>1, <3>2 DEF HeldUp
  <2> QED
    BY <2>2, <2>3 DEF Turn, HasTurn
<1>2. ASSUME IInv, TurnInv PROVE OneReads
  <2>1. Opener \in Peers /\ Other \in Peers /\ Opener # Other
    BY PadAssumption DEF Peers
  <2>2. ~(Turn(Opener, 0) /\ Turn(Other, 0))
    BY <1>2, <2>1 DEF TurnInv, OneTurn
  <2> QED
    BY <1>1, <1>2, <2>1, <2>2 DEF OneReads
<1> QED
  BY <1>2, TurnInit, NextTurn, Invariance, PTL DEF Spec
=============================================================================
