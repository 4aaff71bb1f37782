------------------------------ MODULE Checksum ------------------------------
(***************************************************************************)
(* The Internet checksum as pollnet computes it: struct CSum               *)
(* (src/efvitcp/Core.h), which TcpConn keeps for its segments, and the     *)
(* cached sum of EfviUdpSender (src/Efvi.h).  Unsigned integers of the     *)
(* code keep their widths: a byte has Byte values (256 in the code), a     *)
(* uint16_t Byte^2 and a uint32_t Byte^4.  A sum of words is right when it *)
(* is the sum the standard asks for, modulo Word - 1.                      *)
(***************************************************************************)
EXTENDS Integers

CONSTANT Byte

ASSUME ByteAssumption == Byte \in Nat /\ Byte >= 4

Word == Byte * Byte
U32 == Word * Word

High(s) == s \div Word
Low(s) == s % Word

\* ~a, as a uint16_t.
Not(a) == Word - 1 - Low(a)

-----------------------------------------------------------------------------
(* CSum. *)

\* Mutant: the carry of the first addition is dropped.
FoldOnce(sum) == Not(High(sum) + Low(sum))

Fold(sum) == LET res == High(sum) + Low(sum) IN Not(res + High(res))

Add16(sum, a) == (sum + a) % U32
Add32(sum, a) == (sum + High(a) + Low(a)) % U32
Sub16(sum, a) == (sum + Word - 1 - a) % U32

\* setVar<true> for a field of 16 bits.
SetVar(sum, var, val) == Add16(Sub16(sum, var), val)

-----------------------------------------------------------------------------
(* EfviUdpSender. *)

\* htons.
Swap(n) == (n % Byte) * Byte + ((n \div Byte) % Byte)

\* init: the sum of the header's words, its length and checksum zero.
IpSumCache(sum) == LET c == High(sum) + Low(sum) IN c + High(c)

\* update_udp_pkt, for an IP length in network order.
IpCheck(cache, iplen) == LET ipsum == cache + iplen IN Not(ipsum + High(ipsum))

-----------------------------------------------------------------------------
(* What they are compared with. *)

\* A receiver accepts the words whose sum is sum and the checksum check: the ones'
\* complement sum of them all is Word - 1.
Accepts(sum, check) == sum + check > 0 /\ (sum + check) % (Word - 1) = 0

\* The cached sum keeps a carry that update_udp_pkt counts again.
CacheCarries(sum) == High(sum) + Low(sum) >= Word
=============================================================================
