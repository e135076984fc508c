----------------------------- MODULE MCUdpCodec -----------------------------
(* Small instances of UdpCodec for TLC. *)
EXTENDS UdpCodec

\* "one" and "full" take one and two fragments; "big" exceeds the packet size
\* and "none" is empty, so Encode refuses them.
MCPackets == {"one", "full", "next", "none", "big"}
MCSize == [p \in Packets |-> CASE p = "one" -> 2 [] p = "full" -> 3 [] p = "next" -> 4
                                 [] p = "none" -> 0 [] p = "big" -> 5]
MCTwoPackets == {"full", "next"}

NoFrames == {}

\* Bound on how often duplicates are delivered.
MaxDelivered == 2
FewDelivered == Len(delivered) <= MaxDelivered

\* Without the history that Integrity and DecoderBounded do not look at.
DecoderView == <<clock, nextSeq, exhausted, net, readers, pending, sent, delivered>>

\* Frames of any shape: wrong version, empty, overlong, bad index or count,
\* and well-formed ones, of a sequence the encoder does not reach, that
\* contradict each other or add up to too much.
MCStray ==
  LET frame(v, i, c, n) == [version |-> v, seq |-> MaxSeq, index |-> i, count |-> c,
                            payload |-> [j \in 1..n |-> <<"stray", j>>]]
  IN {frame(1, 0, 1, 1), frame(2, 0, 1, 0), frame(2, 0, 1, 3), frame(2, 0, 0, 1),
      frame(2, 1, 1, 1), frame(2, 0, 4, 1),
      frame(2, 0, 2, 2), frame(2, 1, 2, 1), frame(2, 0, 3, 2), frame(2, 2, 3, 2)}
=============================================================================
