------------------------------- MODULE TcpSum -------------------------------
(***************************************************************************)
(* The TCP checksum of a segment as TcpConn computes it                    *)
(* (src/efvitcp/TcpConn.h): the sum of the data grows with each send that  *)
(* appends to the segment (copyAndSum), sendBuf adds the sums of the       *)
(* header, and resendUna corrects the checksum for the fields it changes.  *)
(*                                                                         *)
(* The header is the sum of the words that stay (tcpsum and the sequence   *)
(* number) and one field that is set for each transmission, for the        *)
(* acknowledgment number, the window and the timestamps.                   *)
(***************************************************************************)
EXTENDS Checksum, Sequences, Functions

CONSTANTS Chunks,      \* the byte strings the user sends
          MaxData,     \* smss
          TcpSums, FieldValues

ASSUME TcpSumAssumption ==
  MaxData \in Nat /\ TcpSums \subseteq Nat /\ FieldValues \subseteq 0 .. Word - 1

VARIABLES data, data_sum, tcpsum, field, check, sent

sumVars == <<data, data_sum, tcpsum, field, check, sent>>

\* What a load of n bytes from src gives on a little-endian machine.
Load(src, n) ==
  LET load[i \in 0 .. n] == IF i = n THEN 0 ELSE src[i + 1] + Byte * load[i + 1] IN load[0]

Drop(src, n) == SubSeq(src, n + 1, Len(src))

\* The loops of copyAndSum from an even address: 8, 4, 2 bytes and 1 at a time.
\* SumFrom[k] is the sum of the last k bytes of src.
EvenSum(src) ==
  LET SumFrom[k \in 0 .. Len(src)] ==
        LET rest == Drop(src, Len(src) - k)
        IN  CASE k >= 8       -> Load(Drop(rest, 4), 4) + Load(rest, 4) + SumFrom[k - 8]
              [] k \in 4 .. 7 -> Load(rest, 4) + SumFrom[k - 4]
              [] k \in 2 .. 3 -> Load(rest, 2) + SumFrom[k - 2]
              [] k = 1        -> rest[1]
              [] OTHER        -> 0
  IN  SumFrom[Len(src)]

\* copyAndSum returns the sum of 64 bits as a CSum.
AsCSum(sum) == Add32(sum \div U32, sum % U32)

\* Mutant: the byte at an odd address is not moved to the high half of its word.
CopyAndSumUnaligned(odd, src) == AsCSum(EvenSum(src))

CopyAndSum(odd, src) ==
  AsCSum(IF odd THEN Byte * src[1] + EvenSum(Tail(src)) ELSE EvenSum(src))

\* setOptDataLen adds the length of the TCP part.
SumWithLen(sum, len) == Fold(Add16(sum, Swap(20 + len)))

-----------------------------------------------------------------------------
SumInit ==
  /\ data = <<>> /\ data_sum = 0 /\ tcpsum \in TcpSums
  /\ field = 0 /\ check = 0 /\ sent = FALSE

\* sendPartial appends to the segment that is not sent yet.
SendPartial ==
  /\ ~sent
  /\ \E c \in Chunks :
       /\ Len(data) + Len(c) <= MaxData
       /\ data' = data \o c
       /\ data_sum' = (data_sum + CopyAndSum(Len(data) % 2 = 1, c)) % U32
  /\ UNCHANGED <<tcpsum, field, check, sent>>

SendBuf ==
  /\ ~sent /\ sent' = TRUE
  /\ \E v \in FieldValues :
       /\ field' = v
       /\ check' = SumWithLen((Add16(data_sum, v) + tcpsum) % U32, Len(data))
  /\ UNCHANGED <<data, data_sum, tcpsum>>

\* Mutant: the old value of the field is not taken out.
ResendUnaAdds ==
  /\ sent
  /\ \E v \in FieldValues : field' = v /\ check' = Fold(Add16(Not(check), v))
  /\ UNCHANGED <<data, data_sum, tcpsum, sent>>

ResendUna ==
  /\ sent
  /\ \E v \in FieldValues : field' = v /\ check' = Fold(SetVar(Not(check), field, v))
  /\ UNCHANGED <<data, data_sum, tcpsum, sent>>

SumNext == SendPartial \/ SendBuf \/ ResendUna

-----------------------------------------------------------------------------
(* Properties. *)

\* The words of the data; an odd byte at the end is the low half of the last.
DataWords == [i \in 1 .. (Len(data) + 1) \div 2 |->
                data[2 * i - 1] + (IF 2 * i <= Len(data) THEN Byte * data[2 * i] ELSE 0)]

\* sendBuf, resendUna: whatever the pieces the data was sent in and however often it is
\* sent again, its checksum is right ("invalid tcp sum", Core.h:468).
TcpChecksumTrue ==
  sent => Accepts(FoldFunction(LAMBDA a, b : a + b, 0, DataWords) + tcpsum + field + Swap(20 + Len(data)),
                  check)
=============================================================================
