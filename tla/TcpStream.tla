----------------------------- MODULE TcpStream -----------------------------
(***************************************************************************)
(* TcpStream (src/TcpStream.h): one direction of a TCP connection rebuilt  *)
(* from captured packets.                                                  *)
(*                                                                         *)
(* The captured sender sends the bytes 1 .. StreamLen, byte b with the     *)
(* sequence number ISN + b, modulo 2^32.  It may send them in any packets, *)
(* again and again, and the capture may miss, repeat and reorder packets.  *)
(* Packets of another sender are captured too.  The content of a byte is   *)
(* its number, so that a byte out of place is visible; segs is indexed     *)
(* from 1 where the source counts from 0.                                  *)
(***************************************************************************)
EXTENDS Integers, Sequences, SequencesExt

CONSTANTS WaitForResend,   \* the values of the template argument, one or both
          BUFSIZE, MAX_SEG,
          Wrap,       \* 2^32
          StreamLen, ISN,
          MaxPayload,   \* longest payload of a packet
          Remains,      \* how much the handler leaves of what it is given
          LateSyn       \* whether a SYN may be captured after data

ASSUME TcpStreamAssumption ==
  /\ WaitForResend \subseteq BOOLEAN /\ LateSyn \in BOOLEAN
  /\ BUFSIZE \in Nat \ {0} /\ BUFSIZE % 2 = 0
  /\ MAX_SEG \in Nat \ {0, 1}
  /\ Wrap % 2 = 0 /\ StreamLen < Wrap \div 2 /\ BUFSIZE < Wrap \div 2
  /\ ISN \subseteq 0 .. Wrap - 1
  /\ Remains \subseteq Nat

VARIABLES wait_for_resend, init_stream, buf_seq, segs, recvbuf,
          isn,      \* of the captured sender
          origin,   \* history: the byte the stream was picked up at
          call,     \* history: the bytes of the last call of the handler
          got,      \* history: the bytes the handler has consumed
          newest    \* history: the last byte ever handed over

vars ==
  <<wait_for_resend, init_stream, buf_seq, segs, recvbuf, isn, origin, call, got, newest>>

Foreign == 0   \* a byte of the other sender

Packet ==
  [syn : BOOLEAN, pos : 0 .. StreamLen, len : 0 .. MaxPayload, ours : BOOLEAN]

\* A SYN precedes the first byte and carries none.
WellFormed(p) ==
  IF p.syn THEN p.pos = 0 /\ p.len = 0 ELSE p.pos >= 1 /\ p.pos + p.len <= StreamLen + 1

Init ==
  /\ wait_for_resend \in WaitForResend
  /\ init_stream = FALSE /\ buf_seq = 0 /\ segs = <<<<0, 0>>>>
  /\ recvbuf = [l \in 0 .. BUFSIZE - 1 |-> Foreign]
  /\ isn \in ISN
  /\ origin = 0 /\ call = <<>> /\ got = <<>> /\ newest = 0

-----------------------------------------------------------------------------
(* handlePacket. *)

Signed(x) == IF x >= Wrap \div 2 THEN x - Wrap ELSE x
Minimum(a, b) == IF a < b THEN a ELSE b
Maximum(a, b) == IF a > b THEN a ELSE b

Restarts(p) == p.syn \/ ~init_stream
SeqNum(p) == (isn + p.pos + (IF p.syn THEN 1 ELSE 0)) % Wrap
BufSeq(p) == IF Restarts(p) THEN SeqNum(p) ELSE buf_seq
OldSegs(p) == IF Restarts(p) THEN <<<<0, 0>>>> ELSE segs

\* Where the packet lies in the buffer; what is before the end of the first
\* segment is obsolete and skipped.
RawLoc(p) == (SeqNum(p) - BufSeq(p)) % Wrap
Skip(p) == Minimum(0, Signed((RawLoc(p) - OldSegs(p)[1][2]) % Wrap))
Loc(p) == (RawLoc(p) - Skip(p)) % Wrap
LocEnd(p) == (RawLoc(p) + p.len) % Wrap
NewSize(p) == p.len + Skip(p)

\* The bytes [lo, hi) of the buffer that the packet carries.
PacketByte(p, l) == IF p.ours THEN p.pos + (l - Loc(p)) - Skip(p) ELSE Foreign

\* Mutant: a gap is always waited for.
GapWaits(p) == OldSegs(p)

\* Without WaitForResend a gap is given up at once.
Gap(p) ==
  LET s == OldSegs(p)
  IN  IF ~wait_for_resend /\ Loc(p) > s[1][2] THEN [s EXCEPT ![1] = <<Loc(p), Loc(p)>>] ELSE s

\* The first segment that does not end before lo, and from there the first
\* that starts after hi.
SegFrom(s, lo) == Min({k \in 1 .. Len(s) + 1 : k = Len(s) + 1 \/ s[k][2] >= lo})
SegTo(s, lo, hi) ==
  Min({k \in SegFrom(s, lo) .. Len(s) + 1 : k = Len(s) + 1 \/ s[k][1] > hi})

IsIsland(p) == SegFrom(Gap(p), Loc(p)) = SegTo(Gap(p), Loc(p), LocEnd(p))

Rejected(p) ==
  \/ NewSize(p) <= 0
  \/ LocEnd(p) > BUFSIZE
  \/ IsIsland(p) /\ Len(Gap(p)) = MAX_SEG

Merged(p) ==
  LET s == Gap(p)
      i == SegFrom(s, Loc(p))
      j == SegTo(s, Loc(p), LocEnd(p))
  IN  IF i = j THEN InsertAt(s, i, <<Loc(p), LocEnd(p)>>)
      ELSE SubSeq(s, 1, i - 1)
             \o <<<<Minimum(s[i][1], Loc(p)), Maximum(s[j - 1][2], LocEnd(p))>>>>
             \o SubSeq(s, j, Len(s))

\* memcpy of the bytes the packet has for [lo, hi).
CopyIn(p, lo, hi) ==
  [l \in DOMAIN recvbuf |-> IF l \in lo .. hi - 1 THEN PacketByte(p, l) ELSE recvbuf[l]]

\* Mutant: the bytes stay where they were.
ShiftNoCopy(buf, s, first) == buf
\* The buffer after the bytes before first are dropped.
Shift(buf, s, first) ==
  [l \in DOMAIN buf |-> IF l < Last(s)[2] - first THEN buf[l + first] ELSE buf[l]]

\* The handler consumes all but remain bytes; once half of the buffer is
\* consumed the rest moves to its start.
Settle(p, buf, s, remain) ==
  LET first == s[1][2] - remain
      t     == [s EXCEPT ![1] = <<first, @[2]>>]
      moves == first >= BUFSIZE \div 2
  IN  /\ segs' = IF moves THEN [k \in DOMAIN t |-> <<t[k][1] - first, t[k][2] - first>>] ELSE t
      /\ recvbuf' = IF moves THEN Shift(buf, t, first) ELSE buf
      /\ buf_seq' = IF moves THEN (BufSeq(p) + first) % Wrap ELSE BufSeq(p)

\* A packet that is alone in the first segment is handed over without a copy,
\* and only what remains of it is stored.
Deliver(p) ==
  LET s        == Merged(p)
      zeroCopy == s[1] = <<Loc(p), LocEnd(p)>>
      stored   == CopyIn(p, Loc(p), LocEnd(p))
      size     == s[1][2] - s[1][1]
      given    == [k \in 1 .. size |-> IF zeroCopy THEN PacketByte(p, s[1][1] + k - 1)
                                       ELSE stored[s[1][1] + k - 1]]
  IN  \E remain \in {Minimum(r, size) : r \in Remains} :
        /\ Settle(p, IF zeroCopy THEN CopyIn(p, s[1][2] - remain, s[1][2]) ELSE stored, s, remain)
        /\ call' = given
        /\ got' = got \o SubSeq(given, 1, size - remain)
        /\ newest' = Maximum(newest, Last(given))

Store(p) ==
  /\ segs' = Merged(p) /\ recvbuf' = CopyIn(p, Loc(p), LocEnd(p)) /\ buf_seq' = BufSeq(p)
  /\ UNCHANGED <<call, got, newest>>

Reject(p) ==
  /\ segs' = OldSegs(p) /\ buf_seq' = BufSeq(p)
  /\ UNCHANGED <<recvbuf, call, got, newest>>

HandlePacket(p) ==
  /\ init_stream' = TRUE
  /\ origin' = IF init_stream THEN origin ELSE p.pos + (IF p.syn THEN 1 ELSE 0)
  /\ IF Rejected(p) THEN Reject(p)
     ELSE IF SegFrom(Gap(p), Loc(p)) = 1 THEN Deliver(p) ELSE Store(p)
  /\ UNCHANGED <<wait_for_resend, isn>>

\* Mutant: the addresses are not compared.
FilterAll(p) == TRUE
FilterPacket(p) == p.ours

\* A packet is captured, and handled as the example does: a filtered read.
Capture(p) ==
  /\ WellFormed(p)
  /\ (p.syn /\ p.ours /\ init_stream) => LateSyn
  /\ IF FilterPacket(p) THEN HandlePacket(p) ELSE UNCHANGED vars

Next == \E p \in Packet : Capture(p)

Spec == Init /\ [][Next]_vars

-----------------------------------------------------------------------------
(* Properties. *)

TypeOK ==
  /\ init_stream \in BOOLEAN
  /\ buf_seq \in 0 .. Wrap - 1
  /\ Len(segs) \in 1 .. MAX_SEG
  /\ \A k \in DOMAIN segs : segs[k] \in (0 .. BUFSIZE) \X (0 .. BUFSIZE)

\* "If set to true, use will get intact tcp stream" (README.md:176): the handler
\* consumes every byte once and in order, from the first packet on.  Without it
\* "segments could be missing between different calls", but what one call hands
\* over has no gap, and no byte is consumed twice or late.
Intact ==
  /\ wait_for_resend => \A k \in DOMAIN got : got[k] = origin + k - 1
  /\ \A k \in 2 .. Len(call) : call[k] = call[k - 1] + 1
  /\ \A k \in 2 .. Len(got) : got[k] > got[k - 1]

\* The buffer: segments in order and apart, and each place of them holds the
\* byte that its sequence number stands for.
BufferCorrect ==
  /\ \A k \in DOMAIN segs : segs[k][1] <= segs[k][2]
  /\ \A k \in 2 .. Len(segs) : segs[k - 1][2] < segs[k][1]
  /\ \A k \in DOMAIN segs : \A l \in segs[k][1] .. segs[k][2] - 1 :
       (isn + recvbuf[l]) % Wrap = (buf_seq + l) % Wrap

\* "new data is feed to user immediately" (README.md:176): a packet with bytes past
\* everything handed over so far is handed over, whatever was lost before it, as
\* long as it ends within the buffer (beyond it handlePacket drops the packet).
NewDataFed ==
  \A p \in Packet :
    ( /\ ~wait_for_resend /\ WellFormed(p) /\ p.ours /\ p.len > 0
      /\ p.pos + p.len > Maximum(newest + 1, origin) /\ LocEnd(p) <= BUFSIZE ) =>
      ~Rejected(p) /\ SegFrom(Gap(p), Loc(p)) = 1
=============================================================================
