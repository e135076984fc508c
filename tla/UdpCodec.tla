------------------------------- MODULE UdpCodec -------------------------------
(***************************************************************************)
(* The fragmentation of UDP packets into HTTP Datagrams and their          *)
(* reassembly (internal/quicx/udp_codec.go), over the datagrams of one     *)
(* QUIC stream, which may be lost and reordered.                           *)
(*                                                                         *)
(* A byte is a pair of its packet and its position, so that a wrongly      *)
(* assembled packet shows.  Decode reads the clock before it takes the     *)
(* lock of the decoder; these are two steps, because UDPConn.ReadFrom may  *)
(* be called by several goroutines.                                        *)
(***************************************************************************)
EXTENDS Integers, FiniteSets, Sequences, Functions

CONSTANTS
  Packets,        \* names of the packets offered to Encode
  Size,           \* their lengths
  Readers,        \* goroutines that receive and decode
  EncoderMax, DecoderMax,     \* maxPacket of the encoder and of the decoder
  PayloadSize, MaxCount, MaxAssemblies, AssemblyTTL,   \* udpFragment constants
  MaxSeq,         \* the largest sequence number, 2^32 - 1 in the code
  Stray,          \* frames of another origin that reach the decoder
  Duplicates,     \* whether the network may deliver a datagram twice
  MaxTime         \* bound on the clock

ASSUME CodecAssumption ==
  /\ Size \in [Packets -> Nat]
  /\ {EncoderMax, DecoderMax, PayloadSize, MaxCount, MaxAssemblies, AssemblyTTL} \subseteq Nat \ {0}
  /\ MaxSeq \in Nat /\ MaxTime \in Nat /\ Duplicates \in BOOLEAN

VARIABLES
  clock,
  nextSeq, exhausted,   \* udpFragmentEncoder
  net,                  \* datagrams in flight
  readers,              \* per reader: the frame and the clock value it decodes with
  pending,              \* udpFragmentDecoder.pending
  sent,                 \* history: packets Encode accepted
  delivered,            \* history: packets Decode returned, in order
  failed,               \* history: whether Decode ever returned an error
  decoded, dropped      \* history: frames decoded; sequences that expired or were evicted

encoderVars == <<nextSeq, exhausted, sent>>
decoderVars == <<pending, delivered, failed, decoded, dropped>>
vars == <<clock, nextSeq, exhausted, net, readers, pending, sent, delivered, failed,
          decoded, dropped>>

bytes(p) == [i \in 1..Size[p] |-> <<p, i>>]
Data == {bytes(p) : p \in Packets}

\* What reaches the decoder from elsewhere is framed alike, and its bytes are
\* told apart from those of the packets.
StrayBytes == UNION {Range(f.payload) : f \in Stray}
ASSUME StrayAssumption ==
  /\ Stray \subseteq [version : Nat, seq : 0..MaxSeq, index : Nat, count : Nat,
                      payload : Seq(StrayBytes)]
  /\ \A b \in StrayBytes : b \notin Packets \X Nat

Version == 2
Nil == <<>>          \* a part not received yet; no payload is empty
Idle == <<>>         \* a reader waiting for a datagram

Init ==
  /\ clock = 0
  /\ nextSeq = 0 /\ exhausted = FALSE /\ sent = {}
  /\ net = Stray
  /\ readers = [r \in Readers |-> Idle]
  /\ pending = <<>> /\ delivered = <<>> /\ failed = FALSE
  /\ decoded = {} /\ dropped = {}

Tick ==
  /\ clock < MaxTime
  /\ clock' = clock + 1
  /\ UNCHANGED <<encoderVars, net, readers, decoderVars>>

-----------------------------------------------------------------------------
count(packet) == (Len(packet) + PayloadSize - 1) \div PayloadSize

\* Mutant of chunk: the offset runs against the index.
chunkBackwards(packet, i) ==
  LET j == count(packet) - 1 - i IN
  SubSeq(packet, j * PayloadSize + 1,
         IF (j + 1) * PayloadSize < Len(packet) THEN (j + 1) * PayloadSize ELSE Len(packet))
chunk(packet, i) ==
  SubSeq(packet, i * PayloadSize + 1,
         IF (i + 1) * PayloadSize < Len(packet) THEN (i + 1) * PayloadSize ELSE Len(packet))

frames(packet, sequence) ==
  {[version |-> Version, seq |-> sequence, index |-> i, count |-> count(packet),
    payload |-> chunk(packet, i)]
     : i \in 0..(count(packet) - 1)}

\* The sequence number taken under the lock of the encoder.
allocate ==
  IF nextSeq = MaxSeq
  THEN exhausted' = TRUE /\ UNCHANGED nextSeq
  ELSE nextSeq' = nextSeq + 1 /\ UNCHANGED exhausted

(* Encode, and the SendDatagram of every frame (UDPConn.WriteTo and        *)
(* serveUDPSession).  A frame that fails to be sent is a lost one.         *)
Encode(p) ==
  LET packet == bytes(p) IN
  /\ packet \notin sent
  /\ Len(packet) \in 1..EncoderMax
  /\ count(packet) <= MaxCount
  /\ ~exhausted
  /\ allocate
  /\ net' = net \cup frames(packet, nextSeq)
  /\ sent' = sent \cup {packet}
  /\ UNCHANGED <<clock, readers, decoderVars>>

(* The network loses a datagram; one that duplicates loses it by not       *)
(* delivering it again.                                                    *)
Lose(f) ==
  /\ ~Duplicates
  /\ net' = net \ {f}
  /\ UNCHANGED <<clock, encoderVars, readers, decoderVars>>

-----------------------------------------------------------------------------
wellFormed(f) ==
  /\ f.version = Version
  /\ f.count \in 1..MaxCount /\ f.index < f.count
  /\ Len(f.payload) \in 1..PayloadSize

(* ReceiveDatagram, the checks of Decode on the frame alone, and now.      *)
Receive(r, f) ==
  /\ readers[r] = Idle
  /\ net' = IF Duplicates THEN net ELSE net \ {f}
  /\ IF wellFormed(f)
     THEN readers' = [readers EXCEPT ![r] = [frame |-> f, now |-> clock]] /\ UNCHANGED failed
     ELSE failed' = TRUE /\ UNCHANGED readers
  /\ UNCHANGED <<clock, encoderVars, pending, delivered, decoded, dropped>>

pruneExpired(now) ==
  Restrict(pending, {s \in DOMAIN pending : pending[s].expiresAt > now})

\* Mutant of evictOldest: the table grows.
evictNothing(table) == {table}
\* The tables evictOldestLocked can leave: any of the entries that expire first.
evictOldest(table) ==
  {Restrict(table, DOMAIN table \ {s}) :
     s \in {s \in DOMAIN table : \A u \in DOMAIN table :
                                   table[s].expiresAt <= table[u].expiresAt}}

newAssembly(n, now) ==
  [count |-> n, parts |-> [i \in 1..n |-> Nil], received |-> 0, total |-> 0,
   expiresAt |-> now + AssemblyTTL]

\* The tables with an assembly for the frame's sequence.
Assembling(f, now) ==
  LET live == pruneExpired(now) IN
  IF f.seq \in DOMAIN live THEN {live}
  ELSE {[s \in DOMAIN t \cup {f.seq} |-> IF s = f.seq THEN newAssembly(f.count, now) ELSE t[s]]
          : t \in IF Cardinality(DOMAIN live) >= MaxAssemblies
                  THEN evictOldest(live) ELSE {live}}

without(table, s) == Restrict(table, DOMAIN table \ {s})

\* Mutants of store: the part is not counted; it goes to the position it
\* arrived at.
storeNotCounted(a, f) ==
  [a EXCEPT !.parts[f.index + 1] = f.payload, !.total = @ + Len(f.payload)]
storeInOrderOfArrival(a, f) ==
  [a EXCEPT !.parts[a.received + 1] = f.payload, !.received = @ + 1,
            !.total = @ + Len(f.payload)]
store(a, f) ==
  [a EXCEPT !.parts[f.index + 1] = f.payload, !.received = @ + 1,
            !.total = @ + Len(f.payload)]

\* The loop of Decode that appends the parts to the packet.
joined(parts) ==
  LET packet[i \in 0..Len(parts)] == IF i = 0 THEN <<>> ELSE packet[i - 1] \o parts[i]
  IN packet[Len(parts)]

(* Decode, the part under the lock of the decoder.                         *)
Decode(r) ==
  /\ readers[r] # Idle
  /\ readers' = [readers EXCEPT ![r] = Idle]
  /\ LET f == readers[r].frame IN
     /\ \E table \in Assembling(f, readers[r].now) :
          LET a == table[f.seq]
              b == store(a, f)
          IN
          /\ \/ /\ a.count # f.count
                /\ pending' = without(table, f.seq)
                /\ failed' = TRUE /\ UNCHANGED delivered
             \/ /\ a.count = f.count /\ a.parts[f.index + 1] # Nil
                /\ pending' = table
                /\ UNCHANGED <<failed, delivered>>
             \/ /\ a.count = f.count /\ a.parts[f.index + 1] = Nil
                /\ a.total + Len(f.payload) > DecoderMax
                /\ pending' = without(table, f.seq)
                /\ failed' = TRUE /\ UNCHANGED delivered
             \/ /\ a.count = f.count /\ a.parts[f.index + 1] = Nil
                /\ a.total + Len(f.payload) <= DecoderMax
                /\ IF b.received # b.count
                   THEN pending' = [table EXCEPT ![f.seq] = b] /\ UNCHANGED delivered
                   ELSE /\ pending' = without(table, f.seq)
                        /\ delivered' = Append(delivered, joined(b.parts))
                /\ UNCHANGED failed
          /\ dropped' = dropped \cup (DOMAIN pending \ DOMAIN table)
                                \cup (DOMAIN pending \ DOMAIN pruneExpired(readers[r].now))
     /\ decoded' = decoded \cup {f}
  /\ UNCHANGED <<clock, encoderVars, net>>

Next ==
  \/ Tick
  \/ \E p \in Packets : Encode(p)
  \/ \E f \in net : Lose(f) \/ \E r \in Readers : Receive(r, f)
  \/ \E r \in Readers : Decode(r)

Spec == Init /\ [][Next]_vars

-----------------------------------------------------------------------------
(* At most once, whole, unchanged: the codec implements DatagramService    *)
(* for every loss, reordering, expiry and eviction of fragments, down to   *)
(* the end of the sequence numbers (udp_codec.go:39-74, 104-159).          *)
Service == INSTANCE DatagramService WITH
  Data <- Data, sent <- sent, delivered <- delivered
ImplementsService == Service!Spec

(* With every duplication a network may make, and frames of another origin *)
(* in between, what Decode returns of a sent packet is still that packet,  *)
(* whole and unchanged (udp_codec.go:137, 150-156).                        *)
Integrity ==
  \A i \in 1..Len(delivered) : Range(delivered[i]) \cap UNION {Range(p) : p \in Data} # {}
                                 => delivered[i] \in sent

(* What an encoder with the same limits makes is decoded: its frames never *)
(* make Decode fail, which would end the session, and when all fragments   *)
(* of a packet have been decoded it was returned, unless its assembly      *)
(* expired or was evicted (udp_codec.go:121-126, 133-158, udp.go:74-78).   *)
NoSilentDrop ==
  ~failed /\ \A f \in decoded :
    (\A i \in 0..(f.count - 1) : \E g \in decoded : g.seq = f.seq /\ g.index = i)
      => \/ f.seq \in dropped
         \/ \E i \in 1..Len(delivered) : f.payload[1] \in Range(delivered[i])

(* The memory of a decoder is bounded whatever frames reach it, and its    *)
(* bookkeeping is exact: received counts the parts present, total their    *)
(* bytes, so that the check for a missing part at udp_codec.go:152 is      *)
(* never true and make() at 150 gets the right size.                       *)
DecoderBounded ==
  /\ Cardinality(DOMAIN pending) <= MaxAssemblies
  /\ \A s \in DOMAIN pending :
       LET a == pending[s] IN
       /\ a.received = Cardinality({i \in 1..a.count : a.parts[i] # Nil})
       /\ a.received < a.count
       /\ a.total = Len(joined(a.parts))
       /\ a.total <= DecoderMax
=============================================================================
