----------------------------- MODULE MCEfviUdp -----------------------------
(***************************************************************************)
(* EfviUdp and TcpSum, which share Checksum, for TLC: one or the other.    *)
(* Bytes have 16 values, so that a word has 256 and a sum 65536.           *)
(***************************************************************************)
EXTENDS EfviUdp, TcpSum

VARIABLE part

vars == <<part, udpVars, sumVars>>

\* Bytes of all sizes, and lengths that take each of copyAndSum's loops.
MCChunks == {[i \in 1 .. n |-> (5 * i + 9 * n) % Byte] : n \in {1, 2, 3, 5, 11}}

Init ==
  /\ UdpInit /\ SumInit
  /\ \/ part = "udp" /\ tcpsum = CHOOSE s \in TcpSums : TRUE
     \/ part = "tcp" /\ hdr = (CHOOSE s \in HeaderSums : TRUE) /\ is_x3 /\ reader = "eth"

Next ==
  \/ part = "udp" /\ UdpNext /\ UNCHANGED <<part, sumVars>>
  \/ part = "tcp" /\ SumNext /\ UNCHANGED <<part, udpVars>>

Spec == Init /\ [][Next]_vars

\* All checksums are right.
ChecksumsTrue == UdpChecksumTrue /\ TcpChecksumTrue
=============================================================================
