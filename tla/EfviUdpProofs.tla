--------------------------- MODULE EfviUdpProofs ---------------------------
(***************************************************************************)
(* Theorems on the checksums, for bytes of any size, and on the path of a  *)
(* datagram from write to a handler, for every number of buffers and of    *)
(* writes.                                                                 *)
(***************************************************************************)
EXTENDS EfviUdp, TLAPS

-----------------------------------------------------------------------------
(* Residues. *)

\* Euclidean division.
LEMMA DivMod ==
  ASSUME NEW N \in Nat \ {0}, NEW a \in Int
  PROVE  /\ a % N \in 0 .. N - 1
         /\ a \div N \in Int
         /\ a = N * (a \div N) + (a % N)
  OBVIOUS

\* A number is a multiple of N and its residue.
LEMMA ModOf ==
  ASSUME NEW N \in Nat \ {0}, NEW a \in Int
  PROVE  a % N \in 0 .. N - 1 /\ \E z \in Int : a = N * z + (a % N)
  BY DivMod, Zenon

\* Quotient and residue are unique.
LEMMA DivModUnique ==
  ASSUME NEW N \in Nat \ {0}, NEW a \in Int, NEW q \in Int, NEW r \in 0 .. N - 1,
         a = N * q + r
  PROVE  a % N = r /\ a \div N = q
  OBVIOUS

\* A residue is its own residue.
LEMMA ModSmall ==
  ASSUME NEW N \in Nat \ {0}, NEW r \in 0 .. N - 1
  PROVE  r % N = r
<1>1. r = N * 0 + r
  OBVIOUS
<1>2. QED
  BY <1>1, DivModUnique

\* Adding a multiple of N does not change the residue.
LEMMA ModAdd ==
  ASSUME NEW N \in Nat \ {0}, NEW a \in Int, NEW b \in Int, NEW q \in Int, b = a + N * q
  PROVE  b % N = a % N
<1> DEFINE p == (a \div N) + q
<1>1. a % N \in 0 .. N - 1 /\ p \in Int /\ b = N * p + (a % N)
  BY DivMod
<1> HIDE DEF p
<1>2. QED
  BY <1>1, DivModUnique, Zenon

-----------------------------------------------------------------------------
(* The checksums: modulo Word - 1 a sum is the sum of its two halves, and all of them
   rest on that. *)

WordValues == 0 .. Word - 1

\* A word has at least 16 values.
LEMMA WordIsNat == Word \in Nat /\ Word >= 16
  BY ByteAssumption DEF Word

\* A sum and its halves.
LEMMA Halves ==
  ASSUME NEW s \in Nat
  PROVE  High(s) \in Nat /\ Low(s) \in WordValues /\ s = Word * High(s) + Low(s)
<1>1. Low(s) \in WordValues /\ High(s) \in Int /\ s = Word * High(s) + Low(s)
  BY WordIsNat, DivMod DEF High, Low, WordValues
<1>2. ASSUME High(s) < 0 PROVE FALSE
  <2>1. Word * High(s) <= -Word
    BY <1>1, <1>2, WordIsNat
  <2>2. QED
    BY <1>1, <2>1, WordIsNat DEF WordValues
<1>3. QED
  BY <1>1, <1>2

\* The halves of a sum whose high half is known.
LEMMA HalvesAre ==
  ASSUME NEW s \in Nat, NEW h \in Nat, NEW l \in WordValues, s = Word * h + l
  PROVE  High(s) = h /\ Low(s) = l
  BY WordIsNat, DivModUnique DEF High, Low, WordValues

\* A multiple of Word - 1 that is not zero is what a receiver accepts.
LEMMA AcceptsMultiple ==
  ASSUME NEW s \in Nat, NEW check \in Nat, NEW k \in Int, s + check = (Word - 1) * k, s + check > 0
  PROVE  Accepts(s, check)
<1>1. PICK N \in Nat \ {0}, a \in Int : N = Word - 1 /\ a = s + check
  BY WordIsNat
<1>2. 0 \in 0 .. N - 1 /\ a = N * k + 0
  BY <1>1
<1>3. a % N = 0
  BY <1>2, DivModUnique
<1>4. QED
  BY <1>1, <1>3, Zenon DEF Accepts

\* And conversely.
LEMMA MultipleAccepted ==
  ASSUME NEW s \in Nat, NEW check \in Nat, Accepts(s, check)
  PROVE  \E k \in Int : s + check = (Word - 1) * k
<1>1. PICK N \in Nat \ {0}, a \in Int : N = Word - 1 /\ a = s + check
  BY WordIsNat
<1>2. a % N = 0
  BY <1>1, Zenon DEF Accepts
<1>3. a \div N \in Int /\ a = N * (a \div N)
  BY <1>2, DivMod
<1>4. QED
  BY <1>1, <1>3

\* The two additions of fold, for a sum of two halves less than two words.
LEMMA FoldSmall ==
  ASSUME NEW r \in 0 .. 2 * Word - 2
  PROVE  /\ r < Word => Not(r + High(r)) = Word - 1 - r
         /\ r >= Word => Not(r + High(r)) = 2 * Word - 2 - r
<1>1. ASSUME r < Word PROVE Not(r + High(r)) = Word - 1 - r
  <2>1. High(r) = 0
    BY <1>1, WordIsNat, HalvesAre, r = Word * 0 + r DEF WordValues
  <2>2. Low(r + High(r)) = r
    BY <1>1, <2>1, WordIsNat, HalvesAre, r = Word * 0 + r DEF WordValues
  <2>3. QED
    BY <2>2 DEF Not
<1>2. ASSUME r >= Word PROVE Not(r + High(r)) = 2 * Word - 2 - r
  <2>1. High(r) = 1
    BY <1>2, WordIsNat, HalvesAre, r = Word * 1 + (r - Word) DEF WordValues
  <2>2. Low(r + 1) = r + 1 - Word
    BY <1>2, WordIsNat, HalvesAre, r + 1 = Word * 1 + (r + 1 - Word) DEF WordValues
  <2>3. QED
    BY <2>1, <2>2, WordIsNat DEF Not
<1>3. QED
  BY <1>1, <1>2, WordIsNat

\* CSum::fold (Core.h): for every sum of 32 bits its two additions are enough, and a
\* receiver accepts the checksum.
THEOREM FoldExact ==
  ASSUME NEW sum \in 0 .. U32 - 1
  PROVE  Fold(sum) \in WordValues /\ Accepts(sum, Fold(sum))
<1>1. PICK h \in Nat, l \in WordValues : h = High(sum) /\ l = Low(sum) /\ sum = Word * h + l
  BY Halves
<1>2. h < Word
  <2>1. ASSUME h >= Word PROVE FALSE
    <3>1. Word * h >= Word * Word
      BY <2>1, WordIsNat
    <3>2. QED
      BY <1>1, <3>1, WordIsNat DEF U32, WordValues
  <2>2. QED
    BY <2>1, WordIsNat
<1>3. h + l \in 0 .. 2 * Word - 2
  BY <1>2, WordIsNat DEF WordValues
<1>4. Fold(sum) = Not(h + l + High(h + l))
  BY <1>1 DEF Fold
<1>5. CASE h + l < Word
  <2>1. Fold(sum) = Word - 1 - (h + l)
    BY <1>3, <1>4, <1>5, FoldSmall
  <2>2. sum + Fold(sum) = (Word - 1) * (h + 1)
    BY <1>1, <2>1, WordIsNat DEF WordValues
  <2>3. Fold(sum) \in WordValues /\ Fold(sum) \in Nat /\ sum \in Nat /\ h + 1 \in Int /\ sum + Fold(sum) > 0
    BY <1>1, <1>3, <1>5, <2>1, <2>2, WordIsNat DEF WordValues
  <2>4. QED
    BY <2>2, <2>3, AcceptsMultiple, Zenon
<1>6. CASE h + l >= Word
  <2>1. Fold(sum) = 2 * Word - 2 - (h + l)
    BY <1>3, <1>4, <1>6, FoldSmall
  <2>2. sum + Fold(sum) = (Word - 1) * (h + 2)
    BY <1>1, <2>1, WordIsNat DEF WordValues
  <2>3. Fold(sum) \in WordValues /\ Fold(sum) \in Nat /\ sum \in Nat /\ h + 2 \in Int /\ sum + Fold(sum) > 0
    BY <1>1, <1>3, <1>6, <2>1, <2>2, WordIsNat DEF WordValues
  <2>4. QED
    BY <2>2, <2>3, AcceptsMultiple, Zenon
<1>7. QED
  BY <1>3, <1>5, <1>6, WordIsNat

\* setVar<true> and fold, as resendUna uses them: a checksum that is right stays right
\* when a field changes.  The other words of a segment are not all zero.
THEOREM SetVarExact ==
  ASSUME NEW rest \in Nat \ {0}, NEW var \in WordValues, NEW val \in WordValues,
         NEW check \in WordValues, Accepts(rest + var, check)
  PROVE  Accepts(rest + val, Fold(SetVar(Not(check), var, val)))
<1> DEFINE s == SetVar(Not(check), var, val)
<1>1. Not(check) = Word - 1 - check
  BY WordIsNat, HalvesAre, check = Word * 0 + check DEF Not, WordValues
<1>2. \A x \in 0 .. U32 - 1 : x % U32 = x
  <2>1. U32 \in Nat \ {0}
    BY WordIsNat DEF U32
  <2>2. QED
    BY <2>1, ModSmall
<1>3. U32 \in Nat /\ U32 >= 3 * Word
  BY WordIsNat DEF U32
<1>4. s = 2 * (Word - 1) - check - var + val /\ s \in 0 .. U32 - 1
  <2>1. Sub16(Not(check), var) = 2 * (Word - 1) - check - var
    <3>1. 2 * (Word - 1) - check - var \in 0 .. U32 - 1
      BY <1>3, WordIsNat DEF WordValues
    <3>2. QED
      BY <1>1, <1>2, <3>1, WordIsNat DEF Sub16, WordValues
  <2>2. 2 * (Word - 1) - check - var + val \in 0 .. U32 - 1
    BY <1>3, WordIsNat DEF WordValues
  <2>3. QED
    BY <1>2, <2>1, <2>2 DEF SetVar, Add16
<1> HIDE DEF s
<1>5. PICK k \in Int : s + Fold(s) = (Word - 1) * k
  <2>1. Fold(s) \in WordValues /\ Accepts(s, Fold(s))
    BY <1>4, FoldExact
  <2>2. s \in Nat /\ Fold(s) \in Nat
    BY <1>3, <1>4, <2>1, WordIsNat DEF WordValues
  <2>3. QED
    BY <2>1, <2>2, MultipleAccepted, Zenon
<1>6. PICK m \in Int : rest + var + check = (Word - 1) * m
  BY MultipleAccepted, WordIsNat DEF WordValues
<1>7. Fold(s) \in Nat
  BY <1>4, FoldExact, WordIsNat DEF WordValues
<1>8. rest + val + Fold(s) = (Word - 1) * (m + k - 2)
  BY <1>4, <1>5, <1>6, <1>7, WordIsNat DEF WordValues
<1>9. rest + val \in Nat /\ m + k - 2 \in Int /\ rest + val + Fold(s) > 0
  BY <1>7, WordIsNat DEF WordValues
<1>10. Accepts(rest + val, Fold(s))
  BY <1>7, <1>8, <1>9, AcceptsMultiple, Zenon
<1>11. QED
  BY <1>10 DEF s

\* update_udp_pkt (Efvi.h): a datagram has a right checksum, whatever its length, when
\* the halves of the header's sum do not carry.
THEOREM CacheExact ==
  ASSUME NEW sum \in Nat, NEW iplen \in WordValues, sum > 0, ~CacheCarries(sum)
  PROVE  Accepts(sum + iplen, IpCheck(IpSumCache(sum), iplen))
<1>1. PICK h \in Nat, l \in WordValues : h = High(sum) /\ l = Low(sum) /\ sum = Word * h + l
  BY Halves
<1>2. h + l \in 0 .. Word - 1
  BY <1>1, WordIsNat DEF CacheCarries, WordValues
<1>3. IpSumCache(sum) = h + l
  <2>1. High(h + l) = 0
    BY <1>2, WordIsNat, HalvesAre, h + l = Word * 0 + (h + l) DEF WordValues
  <2>2. QED
    BY <1>1, <1>2, <2>1 DEF IpSumCache
<1> DEFINE r == h + l + iplen
           check == IpCheck(IpSumCache(sum), iplen)
<1>4. r \in 0 .. 2 * Word - 2 /\ check = Not(r + High(r))
  BY <1>2, <1>3, WordIsNat DEF IpCheck, WordValues
<1>5. CASE r < Word
  <2>1. check = Word - 1 - r
    BY <1>4, <1>5, FoldSmall
  <2>2. sum + iplen + check = (Word - 1) * (h + 1)
    BY <1>1, <2>1, WordIsNat DEF WordValues
  <2>3. check \in Nat /\ sum + iplen \in Nat /\ h + 1 \in Int /\ sum + iplen + check > 0
    BY <1>4, <1>5, <2>1, WordIsNat DEF WordValues
  <2>4. QED
    BY <2>2, <2>3, AcceptsMultiple, Zenon
<1>6. CASE r >= Word
  <2>1. check = 2 * Word - 2 - r
    BY <1>4, <1>6, FoldSmall
  <2>2. sum + iplen + check = (Word - 1) * (h + 2)
    BY <1>1, <2>1, WordIsNat DEF WordValues
  <2>3. check \in Nat /\ sum + iplen \in Nat /\ h + 2 \in Int /\ sum + iplen + check > 0
    BY <1>4, <1>6, <2>1, WordIsNat DEF WordValues
  <2>4. QED
    BY <2>2, <2>3, AcceptsMultiple, Zenon
<1>7. QED
  BY <1>4, <1>5, <1>6, WordIsNat

\* One less than a multiple of Word - 1 is not accepted.
LEMMA RejectsOneLess ==
  ASSUME NEW s \in Nat, NEW check \in Nat, NEW k \in Int, s + check = (Word - 1) * k - 1
  PROVE  ~Accepts(s, check)
<1>1. SUFFICES ASSUME Accepts(s, check) PROVE FALSE
  OBVIOUS
<1>2. PICK m \in Int : s + check = (Word - 1) * m
  BY <1>1, MultipleAccepted
<1>3. (Word - 1) * (k - m) = 1
  BY <1>2, WordIsNat
<1>4. CASE k - m <= 0
  BY <1>3, <1>4, WordIsNat
<1>5. CASE k - m >= 1
  BY <1>3, <1>5, WordIsNat
<1>6. QED
  BY <1>4, <1>5

\* And when they carry, the carry is counted twice: the checksum of every datagram is
\* wrong, but for one length, which is none that fits in a buffer.  A header has ten
\* words.
THEOREM CacheOffByOne ==
  ASSUME NEW sum \in 0 .. 10 * (Word - 1), NEW iplen \in WordValues, CacheCarries(sum),
         High(sum) + Low(sum) + iplen # 2 * Word - 2
  PROVE  ~Accepts(sum + iplen, IpCheck(IpSumCache(sum), iplen))
<1>1. PICK h \in Nat, l \in WordValues : h = High(sum) /\ l = Low(sum) /\ sum = Word * h + l
  BY Halves, WordIsNat
<1>2. h <= 9
  <2>1. ASSUME h >= 10 PROVE FALSE
    <3>1. Word * h >= Word * 10
      BY <2>1, WordIsNat
    <3>2. QED
      BY <1>1, <3>1, WordIsNat DEF WordValues
  <2>2. QED
    BY <2>1
<1>3. h + l \in Word .. Word + 8
  BY <1>1, <1>2, WordIsNat DEF CacheCarries, WordValues
<1>4. IpSumCache(sum) = h + l + 1
  <2>1. h + l - Word \in WordValues /\ h + l = Word * 1 + (h + l - Word)
    BY <1>3, WordIsNat DEF WordValues
  <2>2. High(h + l) = 1
    BY <1>3, <2>1, WordIsNat, HalvesAre
  <2>3. QED
    BY <1>1, <2>2 DEF IpSumCache
<1> DEFINE r == h + l + 1 + iplen
           check == IpCheck(IpSumCache(sum), iplen)
<1>5. r \in Word .. 2 * Word + 8 /\ r # 2 * Word - 1 /\ check = Not(r + High(r))
  BY <1>1, <1>3, <1>4, WordIsNat DEF IpCheck, WordValues
<1>6. CASE r < 2 * Word
  <2>1. r - Word \in WordValues /\ r = Word * 1 + (r - Word)
    BY <1>5, <1>6, WordIsNat DEF WordValues
  <2>2. High(r) = 1
    BY <1>5, <2>1, WordIsNat, HalvesAre
  <2>3. r + 1 - Word \in WordValues /\ r + 1 = Word * 1 + (r + 1 - Word)
    BY <1>5, <1>6, WordIsNat DEF WordValues
  <2>4. check = 2 * Word - 2 - r
    <3>1. Low(r + 1) = r + 1 - Word
      BY <1>5, <2>3, WordIsNat, HalvesAre
    <3>2. QED
      BY <1>5, <2>2, <3>1, WordIsNat DEF Not
  <2>5. sum + iplen + check = (Word - 1) * (h + 2) - 1
    BY <1>1, <2>4, WordIsNat DEF WordValues
  <2>6. check \in Nat /\ sum + iplen \in Nat /\ h + 2 \in Int
    BY <1>1, <1>5, <1>6, <2>4, WordIsNat DEF WordValues
  <2>7. QED
    BY <2>5, <2>6, RejectsOneLess, Zenon
<1>7. CASE r >= 2 * Word
  <2>1. r - 2 * Word \in WordValues /\ r = Word * 2 + (r - 2 * Word)
    BY <1>5, <1>7, WordIsNat DEF WordValues
  <2>2. High(r) = 2
    BY <1>5, <2>1, WordIsNat, HalvesAre
  <2>3. r + 2 - 2 * Word \in WordValues /\ r + 2 = Word * 2 + (r + 2 - 2 * Word)
    BY <1>5, <1>7, WordIsNat DEF WordValues
  <2>4. check = 3 * Word - 3 - r
    <3>1. Low(r + 2) = r + 2 - 2 * Word
      BY <1>5, <2>3, WordIsNat, HalvesAre
    <3>2. QED
      BY <1>5, <2>2, <3>1, WordIsNat DEF Not
  <2>5. sum + iplen + check = (Word - 1) * (h + 3) - 1
    BY <1>1, <2>4, WordIsNat DEF WordValues
  <2>6. check \in Nat /\ sum + iplen \in Nat /\ h + 3 \in Int
    BY <1>1, <1>5, <1>7, <2>4, WordIsNat DEF WordValues
  <2>7. QED
    BY <2>5, <2>6, RejectsOneLess, Zenon
<1>8. QED
  BY <1>5, <1>6, <1>7, WordIsNat

-----------------------------------------------------------------------------
(* The sender's ring.  TxIntact is not inductive: what protects a frame is that fewer
   than TxBufs writes have followed its own, for then none of them has come to its
   buffer.  Those writes are the frames behind it in the ring, which holds TxBufs - 1,
   and the writes that have failed. *)

Posted == [id : TxIds, seq : Nat \ {0}, done : BOOLEAN]

\* The frame e after w writes, at most n of them since its own, with the buffers b.
FrameSafe(e, n, w, b) ==
  /\ e.seq <= w /\ e.id = (e.seq - 1) % TxBufs
  /\ w - e.seq <= n
  /\ w - e.seq < TxBufs => b[e.id].seq = e.seq

\* The frames of a ring r, f writes having failed.
RingSafe(r, f, w, b) == \A i \in 1 .. Len(r) : FrameSafe(r[i], Len(r) - i + f, w, b)

\* The inductive invariant.
TxInv ==
  /\ is_x3 \in BOOLEAN /\ written \in Nat /\ fails \in Nat
  /\ buf_index \in TxIds /\ DOMAIN txbuf = TxIds
  /\ ring \in Seq(Posted) /\ Len(ring) < TxBufs
  /\ IF is_x3 THEN ring = <<>> ELSE buf_index = written % TxBufs
  /\ RingSafe(ring, fails, written, txbuf)

\* What it means for the buffers.
LEMMA InvImpliesIntact == TxInv => TxIntact
<1>1. SUFFICES ASSUME TxInv, fails <= 1, NEW i \in 1 .. Len(ring)
               PROVE  txbuf[ring[i].id].seq = ring[i].seq
  BY DEF TxIntact, TxInv
<1>2. ring[i] \in Posted /\ FrameSafe(ring[i], Len(ring) - i + fails, written, txbuf)
  BY <1>1 DEF TxInv, RingSafe
<1>3. written - ring[i].seq < TxBufs
  BY <1>1, <1>2, EfviUdpAssumption DEF TxInv, FrameSafe, Posted
<1>4. QED
  BY <1>2, <1>3 DEF FrameSafe

\* Initially nothing is posted.
LEMMA InitTxInv == UdpInit => TxInv
<1>1. SUFFICES ASSUME UdpInit PROVE TxInv
  OBVIOUS
<1>2. ring = <<>> /\ Len(ring) = 0 /\ ring \in Seq(Posted)
  BY <1>1 DEF UdpInit
<1>3. 0 \in TxIds /\ 0 % TxBufs = 0
  BY EfviUdpAssumption, ModSmall DEF TxIds
<1>4. QED
  BY <1>1, <1>2, <1>3, EfviUdpAssumption DEF UdpInit, TxInv, RingSafe

\* The buffer that write uses is none of a frame with fewer than TxBufs writes after it.
LEMMA OtherBuffer ==
  ASSUME NEW w \in Nat, NEW s \in Nat \ {0}, s <= w, (w + 1) - s < TxBufs
  PROVE  (s - 1) % TxBufs # w % TxBufs
<1>1. TxBufs \in Nat \ {0} /\ s - 1 \in Int /\ w \in Int
  BY EfviUdpAssumption
<1>2. SUFFICES ASSUME (s - 1) % TxBufs = w % TxBufs PROVE FALSE
  OBVIOUS
<1>3. PICK p \in Int, q \in Int, c \in Int : w = TxBufs * p + c /\ s - 1 = TxBufs * q + c
  <2>1. w % TxBufs \in 0 .. TxBufs - 1 /\ \E z \in Int : w = TxBufs * z + (w % TxBufs)
    BY <1>1, ModOf, Zenon
  <2>2. \E z \in Int : s - 1 = TxBufs * z + ((s - 1) % TxBufs)
    BY <1>1, ModOf, Zenon
  <2>3. w % TxBufs \in Int
    BY <1>1, <2>1
  <2>4. QED
    BY <1>2, <2>1, <2>2, <2>3, Zenon
<1>4. TxBufs * (p - q) = w - (s - 1)
  BY <1>1, <1>3
<1>5. CASE p - q <= 0
  <2>1. TxBufs * (p - q) <= 0
    BY <1>1, <1>5
  <2>2. QED
    BY <1>1, <1>4, <2>1
<1>6. CASE p - q >= 1
  <2>1. TxBufs * (p - q) >= TxBufs
    BY <1>1, <1>6
  <2>2. QED
    BY <1>1, <1>4, <2>1
<1>7. QED
  BY <1>5, <1>6

\* write.
LEMMA WriteTxInv == TxInv /\ Write => TxInv'
<1> SUFFICES ASSUME TxInv, Write PROVE TxInv'
  OBVIOUS
<1> DEFINE fits == Len(ring) < Capacity(TxQueue)
           new == [id |-> buf_index, seq |-> written + 1, done |-> FALSE]
           r == IF fits THEN Append(ring, new) ELSE ring
           f == IF fits THEN fails ELSE fails + 1
<1>1. /\ written \in Nat /\ fails \in Nat /\ buf_index \in TxIds /\ DOMAIN txbuf = TxIds
      /\ ring \in Seq(Posted) /\ Len(ring) \in Nat /\ Len(ring) < TxBufs
      /\ ~is_x3 /\ is_x3' = is_x3 /\ buf_index = written % TxBufs
      /\ TxBufs \in Nat \ {0}
  BY EfviUdpAssumption DEF TxInv, Write
<1>2. PICK size \in Sizes : txbuf' = [txbuf EXCEPT ![buf_index] = UdpPkt(written + 1, size)]
  BY Zenon DEF Write
<1>3. /\ DOMAIN txbuf' = TxIds /\ txbuf'[buf_index].seq = written + 1
      /\ \A b \in TxIds : b # buf_index => txbuf'[b] = txbuf[b]
  BY <1>1, <1>2 DEF UdpPkt
<1>4. r \in Seq(Posted) /\ Len(r) \in Nat /\ Len(r) < TxBufs /\ f \in Nat
  <2>1. new \in Posted
    BY <1>1 DEF Posted
  <2>2. CASE fits
    <3>1. Len(ring) < TxBufs - 1 /\ r = Append(ring, new) /\ f = fails
      BY <2>2 DEF Capacity, TxQueue
    <3> HIDE DEF r, f, new
    <3>2. QED
      BY <1>1, <2>1, <3>1
  <2>3. CASE ~fits
    BY <1>1, <2>3
  <2>4. QED
    BY <2>2, <2>3
<1>5. ASSUME NEW i \in 1 .. Len(ring)
      PROVE  FrameSafe(ring[i], Len(ring) - i + fails + 1, written + 1, txbuf')
  <2>1. ring[i] \in Posted /\ FrameSafe(ring[i], Len(ring) - i + fails, written, txbuf)
    BY <1>1, <1>5 DEF TxInv, RingSafe
  <2>2. ring[i].seq \in Nat \ {0} /\ ring[i].id \in TxIds
    BY <2>1 DEF Posted
  <2>3. ring[i].seq <= written /\ written - ring[i].seq <= Len(ring) - i + fails
    BY <2>1, Zenon DEF FrameSafe
  <2>4. ring[i].id = (ring[i].seq - 1) % TxBufs
    BY <2>1, Zenon DEF FrameSafe
  <2>5. written - ring[i].seq < TxBufs => txbuf[ring[i].id].seq = ring[i].seq
    BY <2>1, Zenon DEF FrameSafe
  <2>6. ring[i].seq <= written + 1 /\ (written + 1) - ring[i].seq <= Len(ring) - i + fails + 1
    BY <1>1, <2>2, <2>3
  <2>7. ASSUME (written + 1) - ring[i].seq < TxBufs PROVE txbuf'[ring[i].id].seq = ring[i].seq
    <3>1. (ring[i].seq - 1) % TxBufs # written % TxBufs
      BY <1>1, <2>2, <2>3, <2>7, OtherBuffer, Zenon
    <3>2. ring[i].id # buf_index
      BY <1>1, <2>4, <3>1, Zenon
    <3>3. written - ring[i].seq < TxBufs
      BY <1>1, <2>2, <2>7
    <3>4. QED
      BY <1>3, <2>2, <2>5, <3>2, <3>3, ZenonT(40)
  <2>8. QED
    BY <2>4, <2>6, <2>7, Zenon DEF FrameSafe
<1>6. ASSUME NEW i \in 1 .. Len(r) PROVE FrameSafe(r[i], Len(r) - i + f, written + 1, txbuf')
  <2>1. CASE fits /\ i = Len(ring) + 1
    <3>1. r[i] = new /\ Len(r) = Len(ring) + 1
      BY <1>1, <2>1
    <3>2. QED
      BY <1>1, <1>3, <2>1, <3>1 DEF FrameSafe
  <2>2. CASE i \in 1 .. Len(ring)
    <3>1. r[i] = ring[i] /\ Len(ring) - i + fails + 1 = Len(r) - i + f
      BY <1>1, <2>2
    <3> HIDE DEF r, f
    <3>2. QED
      BY <1>5, <2>2, <3>1, Zenon
  <2>3. QED
    BY <1>1, <2>1, <2>2
<1>7. /\ ring' \in Polled(r) /\ written' = written + 1
      /\ fails' = IF ring' = <<>> THEN 0 ELSE f
      /\ buf_index' = (buf_index + 1) % TxBufs
  BY DEF Write
<1> HIDE DEF r, f
<1>8. PICK k \in 0 .. Len(r) : ring' = SubSeq(r, k + 1, Len(r))
  BY <1>7 DEF Polled
<1>9. ring' \in Seq(Posted) /\ Len(ring') = Len(r) - k /\ RingSafe(ring', f, written + 1, txbuf')
  <2>1. k \in Nat /\ k <= Len(r)
    BY <1>4
  <2>2. ring' \in Seq(Posted) /\ Len(ring') = Len(r) - k /\ \A i \in 1 .. Len(r) - k : ring'[i] = r[k + i]
    BY <1>4, <1>8, <2>1
  <2>3. ASSUME NEW i \in 1 .. Len(ring') PROVE FrameSafe(ring'[i], Len(ring') - i + f, written + 1, txbuf')
    <3>1. k + i \in 1 .. Len(r) /\ ring'[i] = r[k + i] /\ Len(ring') - i = Len(r) - (k + i)
      BY <1>4, <2>1, <2>2
    <3>2. FrameSafe(r[k + i], Len(r) - (k + i) + f, written + 1, txbuf')
      BY <1>6, <3>1, Zenon
    <3>3. QED
      BY <3>1, <3>2, Zenon
  <2>4. QED
    BY <2>2, <2>3, Zenon DEF RingSafe
<1>10. RingSafe(ring', fails', written', txbuf')
  <2>1. CASE ring' = <<>>
    BY <2>1 DEF RingSafe
  <2>2. CASE ring' # <<>>
    BY <1>7, <1>9, <2>2, Zenon
  <2>3. QED
    BY <2>1, <2>2
<1>11. buf_index' \in TxIds /\ buf_index' = written' % TxBufs
  <2>1. PICK q \in Int : written = TxBufs * q + buf_index
    <3>1. written % TxBufs = buf_index /\ written \in Int /\ TxBufs \in Nat \ {0}
      BY <1>1
    <3>2. \E z \in Int : written = TxBufs * z + (written % TxBufs)
      BY <3>1, ModOf, Zenon
    <3>3. QED
      BY <3>1, <3>2, Zenon
  <2>2. written + 1 = (buf_index + 1) + TxBufs * q /\ buf_index + 1 \in Int /\ written + 1 \in Int
    BY <1>1, <2>1 DEF TxIds
  <2>3. (written + 1) % TxBufs = (buf_index + 1) % TxBufs
    BY <1>1, <2>1, <2>2, ModAdd, ZenonT(40)
  <2>4. (buf_index + 1) % TxBufs \in TxIds
    BY <1>1, <2>2, DivMod DEF TxIds
  <2>5. QED
    BY <1>7, <2>3, <2>4
<1>12. written' \in Nat /\ fails' \in Nat /\ Len(ring') < TxBufs
  BY <1>1, <1>4, <1>7, <1>9
<1>13. is_x3' \in BOOLEAN /\ ~is_x3'
  BY <1>1, Zenon DEF TxInv
<1>14. QED
  BY <1>3, <1>9, <1>10, <1>11, <1>12, <1>13, ZenonT(40) DEF TxInv, Posted, TxIds

\* The NIC sends a frame.
LEMMA TransmitTxInv == TxInv /\ Transmit => TxInv'
<1> SUFFICES ASSUME TxInv, Transmit PROVE TxInv'
  OBVIOUS
<1>1. PICK i \in DOMAIN ring : ring' = [ring EXCEPT ![i].done = TRUE]
  BY Zenon DEF Transmit
<1>2. ring \in Seq(Posted) /\ i \in 1 .. Len(ring)
  BY <1>1 DEF TxInv
<1>3. ring[i] \in Posted /\ [ring[i] EXCEPT !.done = TRUE] \in Posted
  <2>1. ring[i] \in Posted
    BY <1>2
  <2>2. QED
    BY <2>1, Zenon DEF Posted
<1>4. ring' \in Seq(Posted) /\ Len(ring') = Len(ring)
  BY <1>1, <1>2, <1>3
<1>5. ASSUME NEW j \in 1 .. Len(ring) PROVE ring'[j].seq = ring[j].seq /\ ring'[j].id = ring[j].id
  <2>1. ring[j] \in Posted
    BY <1>2
  <2>2. QED
    BY <1>1, <1>2, <2>1 DEF Posted
<1>6. UNCHANGED <<is_x3, buf_index, txbuf, written, fails>>
  BY DEF Transmit
<1>7. RingSafe(ring', fails', written', txbuf')
  BY <1>4, <1>5, <1>6, Zenon DEF TxInv, RingSafe, FrameSafe
<1>8. ring # <<>>
  BY <1>2
<1>9. QED
  BY <1>4, <1>6, <1>7, <1>8 DEF TxInv

\* The steps of the receivers.
Receiver ==
  \/ InitUdp \/ InitEth \/ InitCore \/ RxClose
  \/ ReadUdp \/ ReadNoCheck \/ ReadEth \/ PollNet \/ ReadEnd \/ PollNetEnd

\* They do not touch the sender.
LEMMA ReceiverSteps == Receiver \/ UNCHANGED udpVars => UNCHANGED txVars
  BY Zenon DEF Receiver, InitUdp, InitEth, InitCore, Open, RxClose, ReadUdp, ReadNoCheck,
               ReadEth, PollNet, Take, ReadEnd, PollNetEnd, udpVars

\* The steps that leave the ring alone.
LEMMA OtherTxInv == TxInv /\ (WriteX3 \/ Receiver \/ UNCHANGED udpVars) => TxInv'
<1> SUFFICES ASSUME TxInv, WriteX3 \/ Receiver \/ UNCHANGED udpVars PROVE TxInv'
  OBVIOUS
<1>1. CASE WriteX3
  <2>1. ring = <<>> /\ ring' = <<>> /\ Len(ring') = 0
    BY <1>1 DEF TxInv, WriteX3
  <2>2. UNCHANGED <<is_x3, ring, buf_index, txbuf, fails>> /\ written' \in Nat /\ is_x3
    BY <1>1 DEF TxInv, WriteX3
  <2>3. QED
    BY <2>1, <2>2 DEF TxInv, RingSafe
<1>2. CASE Receiver \/ UNCHANGED udpVars
  <2>1. UNCHANGED <<is_x3, ring, buf_index, txbuf, written, fails>>
    BY <1>2, ReceiverSteps DEF txVars
  <2>2. QED
    BY <2>1, Zenon DEF TxInv, RingSafe, FrameSafe, Posted, TxIds
<1>3. QED
  BY <1>1, <1>2

\* The invariant is inductive.
LEMMA StepTxInv == TxInv /\ [UdpNext]_udpVars => TxInv'
  BY WriteTxInv, TransmitTxInv, OtherTxInv, Zenon DEF UdpNext, Receiver

\* EfviUdpSender::write, for every N_BUF: as long as at most one write has failed since the
\* ring was last empty, no buffer is written while the NIC still has to send it.
THEOREM SenderIntact == UdpSpec => []TxIntact
  BY InitTxInv, InvImpliesIntact, StepTxInv, PTL DEF UdpSpec

-----------------------------------------------------------------------------
(* The datagrams: write fills them in from the cached sum, and nothing else writes them. *)

Frame == [seq : Nat, len : Nat, check : Nat]
Event == [id : RxIds, frame : Frame, rx : BOOLEAN]

\* The datagrams in the sender's buffers.
FrameInv ==
  /\ hdr \in HeaderSums /\ ipsum_cache = IpSumCache(hdr)
  /\ txbuf \in [TxIds -> Frame]
  /\ \A t \in TxIds : txbuf[t] # NoFrame =>
       txbuf[t].len \in WordValues /\ txbuf[t].check = IpCheck(IpSumCache(hdr), txbuf[t].len)

\* htons of a length is a word.
LEMMA SwapWord ==
  ASSUME NEW n \in Nat
  PROVE  Swap(n) \in WordValues
<1>1. Byte \in Nat \ {0}
  BY ByteAssumption
<1>2. n % Byte \in 0 .. Byte - 1 /\ n \div Byte \in Int
  BY <1>1, DivMod
<1>3. (n \div Byte) % Byte \in 0 .. Byte - 1
  BY <1>1, <1>2, DivMod
<1>4. PICK a \in 0 .. Byte - 1, b \in 0 .. Byte - 1 : a = n % Byte /\ b = (n \div Byte) % Byte
  BY <1>2, <1>3, Zenon
<1>5. a * Byte <= (Byte - 1) * Byte /\ a * Byte \in Nat
  BY <1>1
<1>6. a * Byte + b \in 0 .. Byte * Byte - 1
  BY <1>1, <1>5
<1>7. Swap(n) = a * Byte + b
  BY <1>4, Zenon DEF Swap
<1>8. QED
  BY <1>6, <1>7, Zenon DEF WordValues, Word

\* update_udp_pkt fills in a length and a checksum.
LEMMA UdpPktFrame ==
  ASSUME FrameInv, NEW seq \in Nat, NEW size \in Sizes
  PROVE  /\ UdpPkt(seq, size) \in Frame /\ UdpPkt(seq, size).seq = seq
         /\ UdpPkt(seq, size).len \in WordValues
         /\ UdpPkt(seq, size).check = IpCheck(IpSumCache(hdr), UdpPkt(seq, size).len)
<1>1. hdr \in Nat /\ 28 + size \in Nat /\ ipsum_cache = IpSumCache(hdr)
  BY EfviUdpAssumption DEF FrameInv
<1>2. PICK l \in WordValues : l = Swap(28 + size)
  BY <1>1, SwapWord, Zenon
<1>3. l \in Nat
  BY WordIsNat DEF WordValues
<1>4. IpSumCache(hdr) \in Nat
  <2>1. High(hdr) \in Nat /\ Low(hdr) \in Nat
    BY <1>1, Halves, WordIsNat DEF WordValues
  <2>2. High(High(hdr) + Low(hdr)) \in Nat
    BY <2>1, Halves
  <2>3. QED
    BY <2>1, <2>2 DEF IpSumCache
<1>5. IpCheck(ipsum_cache, l) \in Nat
  <2>1. PICK s \in Nat : s = ipsum_cache + l
    BY <1>1, <1>3, <1>4
  <2>2. High(s) \in Nat
    BY Halves
  <2>3. Low(s + High(s)) \in WordValues
    BY <2>2, Halves
  <2>4. Not(s + High(s)) \in Nat
    BY <2>3, WordIsNat DEF Not, WordValues
  <2>5. QED
    BY <2>1, <2>4 DEF IpCheck
<1>6. PICK c \in Nat : c = IpCheck(ipsum_cache, l)
  BY <1>5
<1>7. UdpPkt(seq, size) = [seq |-> seq, len |-> l, check |-> c]
  BY <1>2, <1>6, Zenon DEF UdpPkt
<1>8. PICK f : f = UdpPkt(seq, size)
  OBVIOUS
<1>9. f \in Frame /\ f.seq = seq /\ f.len = l /\ f.check = c
  BY <1>3, <1>7, <1>8 DEF Frame
<1>10. f.check = IpCheck(IpSumCache(hdr), f.len)
  BY <1>1, <1>6, <1>9, Zenon
<1>11. QED
  BY <1>8, <1>9, <1>10, Zenon

\* The datagrams of the initial state, and what a step makes of them.
LEMMA InitFrameInv == UdpInit => FrameInv
<1>1. SUFFICES ASSUME UdpInit PROVE FrameInv
  OBVIOUS
<1>2. NoFrame \in Frame
  BY DEF NoFrame, Frame
<1>3. txbuf \in [TxIds -> Frame] /\ \A t \in TxIds : txbuf[t] = NoFrame
  BY <1>1, <1>2, Zenon DEF UdpInit
<1>4. QED
  BY <1>1, <1>3, Zenon DEF UdpInit, FrameInv

\* Only write fills a buffer.
LEMMA StepFrameInv == FrameInv /\ TxInv /\ [UdpNext]_udpVars => FrameInv'
<1> SUFFICES ASSUME FrameInv, TxInv, [UdpNext]_udpVars PROVE FrameInv'
  OBVIOUS
<1>1. CASE Write
  <2>1. PICK size \in Sizes : txbuf' = [txbuf EXCEPT ![buf_index] = UdpPkt(written + 1, size)]
    BY <1>1, Zenon DEF Write
  <2>2. written + 1 \in Nat /\ buf_index \in TxIds
    BY DEF TxInv
  <2>3. PICK f : f = UdpPkt(written + 1, size)
    OBVIOUS
  <2>4. f \in Frame /\ f.len \in WordValues /\ f.check = IpCheck(IpSumCache(hdr), f.len)
    BY <2>2, <2>3, UdpPktFrame, Zenon
  <2>5. txbuf' \in [TxIds -> Frame] /\ \A t \in TxIds : txbuf'[t] = IF t = buf_index THEN f ELSE txbuf[t]
    <3>1. txbuf \in [TxIds -> Frame]
      BY Zenon DEF FrameInv
    <3>2. txbuf' = [txbuf EXCEPT ![buf_index] = f]
      BY <2>1, <2>3, Zenon
    <3>3. QED
      BY <2>2, <2>4, <3>1, <3>2
  <2>6. hdr' = hdr /\ ipsum_cache' = ipsum_cache
    BY <1>1, Zenon DEF Write
  <2>7. ASSUME NEW t \in TxIds, txbuf'[t] # NoFrame
        PROVE  txbuf'[t].len \in WordValues /\ txbuf'[t].check = IpCheck(IpSumCache(hdr), txbuf'[t].len)
    <3>1. CASE t = buf_index
      BY <2>4, <2>5, <3>1, Zenon
    <3>2. CASE t # buf_index
      BY <2>5, <2>7, <3>2, Zenon DEF FrameInv
    <3>3. QED
      BY <3>1, <3>2, Zenon
  <2>8. QED
    BY <2>5, <2>6, <2>7, Zenon DEF FrameInv, TxIds, Frame, WordValues
<1>2. CASE ~Write
  <2>1. UNCHANGED <<hdr, ipsum_cache, txbuf>>
    BY <1>2, ReceiverSteps DEF UdpNext, Receiver, Transmit, WriteX3, txVars, udpVars
  <2>2. QED
    BY <2>1, Zenon DEF FrameInv, TxIds, Frame, WordValues
<1>3. QED
  BY <1>1, <1>2, Zenon

\* What the invariant means for the checksums.
LEMMA FramesTrue == FrameInv => UdpChecksumTrue
<1>1. SUFFICES ASSUME FrameInv, NEW t \in TxIds, txbuf[t] # NoFrame, ~CacheCarries(hdr)
               PROVE  Accepts(hdr + txbuf[t].len, txbuf[t].check)
  BY Zenon DEF UdpChecksumTrue
<1>2. hdr \in Nat /\ hdr > 0
  <2>1. hdr \in HeaderSums
    BY <1>1, Zenon DEF FrameInv
  <2>2. QED
    BY <2>1, EfviUdpAssumption
<1>3. txbuf[t].len \in WordValues /\ txbuf[t].check = IpCheck(IpSumCache(hdr), txbuf[t].len)
  BY <1>1, Zenon DEF FrameInv
<1>4. QED
  BY <1>1, <1>2, <1>3, CacheExact, Zenon

\* update_udp_pkt, in every state the sender reaches: the checksum of each datagram in its
\* buffers is right, when the halves of the header's sum do not carry.
THEOREM SenderChecksumTrue == UdpSpec => []UdpChecksumTrue
  BY InitTxInv, StepTxInv, InitFrameInv, StepFrameInv, FramesTrue, PTL DEF UdpSpec

-----------------------------------------------------------------------------
(* The buffers of the receivers.  RxExact counts them all together; what is inductive is
   that each of the queues holds a buffer once and no two of them share one. *)

\* A queue holds nothing twice.
Inj(s) == \A j, k \in 1 .. Len(s) : s[j] = s[k] => j = k

\* The first buffer of a queue is taken.
LEMMA TailIds ==
  ASSUME NEW S, NEW s \in Seq(S), s # <<>>, Inj(s)
  PROVE  /\ Tail(s) \in Seq(S) /\ Len(Tail(s)) = Len(s) - 1 /\ Inj(Tail(s))
         /\ Head(s) \in S /\ Head(s) \in Range(s) /\ Range(Tail(s)) = Range(s) \ {Head(s)}
<1>1. Len(s) \in Nat /\ Len(s) > 0 /\ DOMAIN s = 1 .. Len(s)
  OBVIOUS
<1>2. PICK t : t = Tail(s)
  OBVIOUS
<1>3. /\ t \in Seq(S) /\ Len(t) = Len(s) - 1 /\ \A k \in 1 .. Len(t) : t[k] = s[k + 1]
      /\ DOMAIN t = 1 .. Len(t)
  BY <1>1, <1>2
<1>4. Head(s) = s[1] /\ s[1] \in S
  BY <1>1
<1>5. Inj(t)
  BY <1>1, <1>3 DEF Inj
<1>6. Range(t) = Range(s) \ {s[1]}
  <2>1. ASSUME NEW x \in Range(t) PROVE x \in Range(s) \ {s[1]}
    BY <1>1, <1>3 DEF Range, Inj
  <2>2. ASSUME NEW x \in Range(s), x # s[1] PROVE x \in Range(t)
    <3>1. PICK k \in 1 .. Len(s) : x = s[k]
      BY <1>1 DEF Range
    <3>2. k - 1 \in 1 .. Len(t) /\ t[k - 1] = x
      BY <1>1, <1>3, <2>2, <3>1
    <3>3. QED
      BY <1>3, <3>2 DEF Range
  <2>3. QED
    BY <2>1, <2>2
<1>7. s[1] \in Range(s)
  BY <1>1 DEF Range
<1>8. QED
  BY <1>2, <1>3, <1>4, <1>5, <1>6, <1>7

\* A buffer that is not in a queue joins it.
LEMMA AppendIds ==
  ASSUME NEW S, NEW s \in Seq(S), NEW x \in S, x \notin Range(s), Inj(s)
  PROVE  /\ Append(s, x) \in Seq(S) /\ Len(Append(s, x)) = Len(s) + 1 /\ Inj(Append(s, x))
         /\ Range(Append(s, x)) = Range(s) \cup {x}
<1>1. Len(s) \in Nat /\ DOMAIN s = 1 .. Len(s)
  OBVIOUS
<1>2. PICK t : t = Append(s, x)
  OBVIOUS
<1>3. /\ t \in Seq(S) /\ Len(t) = Len(s) + 1 /\ \A k \in 1 .. Len(s) : t[k] = s[k]
      /\ DOMAIN t = 1 .. Len(t) /\ t[Len(s) + 1] = x
  BY <1>1, <1>2
<1>4. \A k \in 1 .. Len(s) : s[k] # x
  BY <1>1 DEF Range
<1>5. Inj(t)
  BY <1>1, <1>3, <1>4 DEF Inj
<1>6. Range(t) = Range(s) \cup {x}
  BY <1>1, <1>3 DEF Range
<1>7. QED
  BY <1>2, <1>3, <1>5, <1>6

\* Two queues that share no buffer are joined.
LEMMA ConcatIds ==
  ASSUME NEW S, NEW s \in Seq(S), NEW t \in Seq(S), Range(s) \cap Range(t) = {}, Inj(s), Inj(t)
  PROVE  /\ s \o t \in Seq(S) /\ Len(s \o t) = Len(s) + Len(t) /\ Inj(s \o t)
         /\ Range(s \o t) = Range(s) \cup Range(t)
<1>1. Len(s) \in Nat /\ DOMAIN s = 1 .. Len(s) /\ Len(t) \in Nat /\ DOMAIN t = 1 .. Len(t)
  OBVIOUS
<1>2. PICK u : u = s \o t
  OBVIOUS
<1>3. /\ u \in Seq(S) /\ Len(u) = Len(s) + Len(t) /\ DOMAIN u = 1 .. Len(u)
      /\ \A k \in 1 .. Len(u) : u[k] = IF k <= Len(s) THEN s[k] ELSE t[k - Len(s)]
  BY <1>1, <1>2
<1>4. \A j \in 1 .. Len(s), k \in 1 .. Len(t) : s[j] # t[k]
  BY <1>1 DEF Range
<1>5. Inj(u)
  <2>1. SUFFICES ASSUME NEW j \in 1 .. Len(u), NEW k \in 1 .. Len(u), u[j] = u[k] PROVE j = k
    BY DEF Inj
  <2>2. CASE j <= Len(s) /\ k <= Len(s)
    BY <1>1, <1>3, <2>1, <2>2 DEF Inj
  <2>3. CASE j > Len(s) /\ k > Len(s)
    <3>1. j - Len(s) \in 1 .. Len(t) /\ k - Len(s) \in 1 .. Len(t) /\ t[j - Len(s)] = t[k - Len(s)]
      BY <1>1, <1>3, <2>1, <2>3
    <3>2. j - Len(s) = k - Len(s)
      BY <3>1 DEF Inj
    <3>3. QED
      BY <1>1, <1>3, <3>2
  <2>4. CASE j <= Len(s) /\ k > Len(s)
    <3>1. j \in 1 .. Len(s) /\ k - Len(s) \in 1 .. Len(t) /\ s[j] = t[k - Len(s)]
      BY <1>1, <1>3, <2>1, <2>4
    <3>2. QED
      BY <1>4, <3>1
  <2>5. CASE j > Len(s) /\ k <= Len(s)
    <3>1. k \in 1 .. Len(s) /\ j - Len(s) \in 1 .. Len(t) /\ s[k] = t[j - Len(s)]
      BY <1>1, <1>3, <2>1, <2>5
    <3>2. QED
      BY <1>4, <3>1
  <2>6. QED
    BY <1>1, <1>3, <2>2, <2>3, <2>4, <2>5
<1>6. Range(u) = Range(s) \cup Range(t)
  <2>1. ASSUME NEW x \in Range(u) PROVE x \in Range(s) \cup Range(t)
    <3>1. PICK k \in 1 .. Len(u) : x = u[k]
      BY <1>3 DEF Range
    <3>2. CASE k <= Len(s)
      BY <1>1, <1>3, <3>1, <3>2 DEF Range
    <3>3. CASE k > Len(s)
      <4>1. k - Len(s) \in DOMAIN t /\ x = t[k - Len(s)]
        BY <1>1, <1>3, <3>1, <3>3
      <4>2. QED
        BY <4>1 DEF Range
    <3>4. QED
      BY <1>1, <1>3, <3>2, <3>3
  <2>2. ASSUME NEW k \in DOMAIN s PROVE s[k] \in Range(u)
    <3>1. k \in DOMAIN u /\ u[k] = s[k]
      BY <1>1, <1>3
    <3>2. QED
      BY <3>1 DEF Range
  <2>3. ASSUME NEW k \in DOMAIN t PROVE t[k] \in Range(u)
    <3>1. k + Len(s) \in DOMAIN u /\ u[k + Len(s)] = t[k]
      BY <1>1, <1>3
    <3>2. QED
      BY <3>1 DEF Range
  <2>4. QED
    BY <2>1, <2>2, <2>3 DEF Range
<1>7. QED
  BY <1>2, <1>3, <1>5, <1>6

EventIds(e) == {e[k].id : k \in 1 .. Len(e)}
EventsInj(e) == \A j, k \in 1 .. Len(e) : e[j].id = e[k].id => j = k

\* The buffer the handler of h has, and how many that are.
Hand(h) == IF h = NoEvent THEN {} ELSE {h.id}
HandLen(h) == IF h = NoEvent THEN 0 ELSE 1

Apart(A, B, C, D) ==
  /\ A \cap B = {} /\ A \cap C = {} /\ A \cap D = {}
  /\ B \cap C = {} /\ B \cap D = {} /\ C \cap D = {}

\* Every buffer has one owner, and there are as many as places.
Owned(p, n, e, h) ==
  /\ Range(p) \cup Range(n) \cup EventIds(e) \cup Hand(h) = RxIds
  /\ Len(p) + Len(n) + Len(e) + HandLen(h) = RxBufs

\* The inductive invariant of the receivers.
RxInv ==
  /\ posted \in Seq(RxIds) /\ Inj(posted)
  /\ inited \in Seq(RxIds) /\ Inj(inited)
  /\ events \in Seq(Event) /\ EventsInj(events)
  /\ handling \in Event \cup {NoEvent}
  /\ Apart(Range(posted), Range(inited), EventIds(events), Hand(handling))
  /\ DOMAIN rxbuf = RxIds
  /\ \A k \in 1 .. Len(events) : rxbuf[events[k].id] = events[k].frame
  /\ handling # NoEvent => rxbuf[handling.id] = handling.frame
  /\ IF rx_state = "open" THEN Owned(posted, inited, events, handling)
     ELSE posted = <<>> /\ inited = <<>> /\ events = <<>> /\ handling = NoEvent
  /\ rx_state = "closed" => held = {}

\* An event taken.
LEMMA TailEvents ==
  ASSUME NEW e \in Seq(Event), e # <<>>, EventsInj(e)
  PROVE  /\ Tail(e) \in Seq(Event) /\ Len(Tail(e)) = Len(e) - 1 /\ EventsInj(Tail(e))
         /\ Head(e) = e[1] /\ e[1] \in Event /\ Head(e).id \in EventIds(e)
         /\ EventIds(Tail(e)) = EventIds(e) \ {Head(e).id}
         /\ \A k \in 1 .. Len(e) - 1 : Tail(e)[k] = e[k + 1]
<1>1. Len(e) \in Nat /\ Len(e) > 0
  OBVIOUS
<1>2. PICK t, h : t = Tail(e) /\ h = Head(e)
  OBVIOUS
<1>3. t \in Seq(Event) /\ Len(t) = Len(e) - 1 /\ \A k \in 1 .. Len(e) - 1 : t[k] = e[k + 1]
  BY <1>1, <1>2
<1>4. h = e[1] /\ e[1] \in Event
  BY <1>1, <1>2
<1>5. EventsInj(t)
  BY <1>1, <1>3 DEF EventsInj
<1>6. EventIds(t) = EventIds(e) \ {h.id}
  <2>1. ASSUME NEW k \in 1 .. Len(t) PROVE t[k].id \in EventIds(e) \ {h.id}
    <3>1. k + 1 \in 1 .. Len(e) /\ 1 \in 1 .. Len(e) /\ k + 1 # 1 /\ t[k] = e[k + 1]
      BY <1>1, <1>3
    <3>2. e[k + 1].id # e[1].id
      BY <3>1, Zenon DEF EventsInj
    <3>3. QED
      BY <1>4, <3>1, <3>2, Zenon DEF EventIds
  <2>2. ASSUME NEW k \in 1 .. Len(e), e[k].id # h.id PROVE e[k].id \in EventIds(t)
    <3>1. k # 1
      BY <1>4, <2>2
    <3>2. k - 1 \in 1 .. Len(t) /\ t[k - 1] = e[k]
      BY <1>1, <1>3, <3>1
    <3>3. QED
      BY <3>2, Zenon DEF EventIds
  <2>3. QED
    BY <2>1, <2>2, Zenon DEF EventIds
<1>7. h.id \in EventIds(e)
  <2>1. 1 \in 1 .. Len(e)
    BY <1>1
  <2>2. QED
    BY <1>4, <2>1, Zenon DEF EventIds
<1>8. QED
  BY <1>2, <1>3, <1>4, <1>5, <1>6, <1>7, Zenon

\* An event of a buffer that has none.
LEMMA AppendEvents ==
  ASSUME NEW e \in Seq(Event), NEW v \in Event, v.id \notin EventIds(e), EventsInj(e)
  PROVE  /\ Append(e, v) \in Seq(Event) /\ Len(Append(e, v)) = Len(e) + 1
         /\ EventsInj(Append(e, v)) /\ EventIds(Append(e, v)) = EventIds(e) \cup {v.id}
         /\ Append(e, v)[Len(e) + 1] = v
         /\ \A k \in 1 .. Len(e) : Append(e, v)[k] = e[k]
<1>1. Len(e) \in Nat
  OBVIOUS
<1>2. PICK t : t = Append(e, v)
  OBVIOUS
<1>3. /\ t \in Seq(Event) /\ Len(t) = Len(e) + 1 /\ \A k \in 1 .. Len(e) : t[k] = e[k]
      /\ t[Len(e) + 1] = v
  BY <1>1, <1>2
<1>4. \A k \in 1 .. Len(e) : e[k].id # v.id
  BY Zenon DEF EventIds
<1>5. \A k \in 1 .. Len(t) : k \in 1 .. Len(e) \/ k = Len(e) + 1
  BY <1>1, <1>3
<1>6. 1 .. Len(e) \subseteq 1 .. Len(t) /\ Len(e) + 1 \in 1 .. Len(t)
  BY <1>1, <1>3
<1>7. EventsInj(t)
  BY <1>3, <1>4, <1>5, Zenon DEF EventsInj
<1>8. EventIds(t) = EventIds(e) \cup {v.id}
  <2>1. ASSUME NEW k \in 1 .. Len(t) PROVE t[k].id \in EventIds(e) \cup {v.id}
    BY <1>3, <1>5, Zenon DEF EventIds
  <2>2. ASSUME NEW k \in 1 .. Len(e) PROVE e[k].id \in EventIds(t)
    <3>1. k \in 1 .. Len(t) /\ t[k] = e[k]
      BY <1>3, <1>6, Zenon
    <3>2. QED
      BY <3>1, Zenon DEF EventIds
  <2>3. v.id \in EventIds(t)
    BY <1>3, <1>6, Zenon DEF EventIds
  <2>4. EventIds(t) \subseteq EventIds(e) \cup {v.id}
    BY <2>1, Zenon DEF EventIds
  <2>5. EventIds(e) \subseteq EventIds(t)
    BY <2>2, Zenon DEF EventIds
  <2>6. QED
    BY <2>3, <2>4, <2>5, Zenon
<1>9. QED
  BY <1>2, <1>3, <1>7, <1>8, Zenon

\* A buffer that goes from the NIC to the events.
LEMMA MoveToEvents ==
  ASSUME NEW A, NEW B, NEW C, NEW D, NEW b, Apart(A, B, C, D), b \in A
  PROVE  /\ Apart(A \ {b}, B, C \cup {b}, D) /\ b \notin B /\ b \notin C /\ b \notin D
         /\ (A \ {b}) \cup B \cup (C \cup {b}) \cup D = A \cup B \cup C \cup D
  BY DEF Apart

\* What the handler has.
LEMMA HandIs ==
  ASSUME NEW h \in Event \cup {NoEvent}
  PROVE  /\ h = NoEvent => Hand(h) = {} /\ HandLen(h) = 0
         /\ h # NoEvent => h \in Event /\ Hand(h) = {h.id} /\ HandLen(h) = 1
  BY Zenon DEF Hand, HandLen

\* An event is of a buffer, and so not NoEvent.
LEMMA EventIs ==
  ASSUME NEW v \in Event
  PROVE  v.id \in RxIds /\ v.frame \in Frame /\ v.rx \in BOOLEAN /\ v # NoEvent
<1>1. v.id \in RxIds /\ v.frame \in Frame /\ v.rx \in BOOLEAN
  BY Zenon DEF Event
<1>2. NoEvent.id = -1
  BY DEF NoEvent
<1>3. v.id # -1
  BY <1>1, EfviUdpAssumption DEF RxIds
<1>4. QED
  BY <1>1, <1>2, <1>3, Zenon

\* The empty sequences.
LEMMA EmptyIds ==
  /\ <<>> \in Seq(RxIds) /\ Inj(<<>>) /\ Range(<<>>) = {} /\ Len(<<>>) = 0
  /\ <<>> \in Seq(Event) /\ EventsInj(<<>>) /\ EventIds(<<>>) = {}
  BY DEF Inj, Range, EventsInj, EventIds

\* The parts of the invariant that most steps leave alone.
LEMMA RxSame == RxInv /\ UNCHANGED rxVars => RxInv'
  BY DEF RxInv, rxVars

\* Initially the receiver is closed.
LEMMA InitRxInv == UdpInit => RxInv
<1>1. SUFFICES ASSUME UdpInit PROVE RxInv
  OBVIOUS
<1>2. /\ posted = <<>> /\ inited = <<>> /\ events = <<>> /\ handling = NoEvent
      /\ rx_state = "closed" /\ held = {} /\ DOMAIN rxbuf = RxIds
  BY <1>1 DEF UdpInit
<1>3. handling \in Event \cup {NoEvent} /\ Hand(handling) = {}
  BY <1>2, Zenon DEF Hand
<1>4. Apart(Range(posted), Range(inited), EventIds(events), Hand(handling))
  BY <1>2, <1>3, EmptyIds DEF Apart
<1>5. \A k \in 1 .. Len(events) : rxbuf[events[k].id] = events[k].frame
  BY <1>2
<1>6. rx_state # "open"
  BY <1>2
<1>7. QED
  BY <1>2, <1>3, <1>4, <1>5, <1>6, EmptyIds, Zenon DEF RxInv

\* A frame fills the oldest buffer posted.
LEMMA ArriveRx ==
  ASSUME RxInv, NEW f \in Frame, Arrive(f)
  PROVE  RxInv'
<1>1. CASE UNCHANGED rxVars
  BY <1>1, RxSame
<1>2. CASE ~UNCHANGED rxVars
  <2> DEFINE b == Head(posted)
             v == [id |-> b, frame |-> f, rx |-> Accepts(hdr + f.len, f.check)]
  <2>1. /\ rx_state = "open" /\ posted # <<>>
        /\ rxbuf' = [rxbuf EXCEPT ![b] = f]
        /\ events' = Append(events, v)
        /\ posted' = Tail(posted)
        /\ UNCHANGED <<rx_state, held, handling, inited>>
    BY <1>2, Zenon DEF Arrive
  <2>2. /\ posted \in Seq(RxIds) /\ Inj(posted) /\ inited \in Seq(RxIds) /\ Inj(inited)
        /\ events \in Seq(Event) /\ EventsInj(events) /\ handling \in Event \cup {NoEvent}
        /\ Apart(Range(posted), Range(inited), EventIds(events), Hand(handling))
    BY Zenon DEF RxInv
  <2>3. /\ posted' \in Seq(RxIds) /\ Len(posted') = Len(posted) - 1 /\ Inj(posted')
        /\ b \in RxIds /\ b \in Range(posted) /\ Range(posted') = Range(posted) \ {b}
    <3>1. /\ Tail(posted) \in Seq(RxIds) /\ Len(Tail(posted)) = Len(posted) - 1 /\ Inj(Tail(posted))
          /\ Head(posted) \in RxIds /\ Head(posted) \in Range(posted)
          /\ Range(Tail(posted)) = Range(posted) \ {Head(posted)}
      BY <2>1, <2>2, TailIds
    <3>2. QED
      BY <2>1, <3>1, Zenon
  <2> HIDE DEF b
  <2>4. b \notin Range(inited) /\ b \notin EventIds(events) /\ b \notin Hand(handling)
    BY <2>2, <2>3 DEF Apart
  <2>5. v \in Event /\ v.id = b /\ v.frame = f
    <3>1. Accepts(hdr + f.len, f.check) \in BOOLEAN
      BY DEF Accepts
    <3>2. QED
      BY <2>3, <3>1, Zenon DEF Event
  <2> HIDE DEF v
  <2>6. /\ events' \in Seq(Event) /\ Len(events') = Len(events) + 1 /\ EventsInj(events')
        /\ EventIds(events') = EventIds(events) \cup {b}
        /\ events'[Len(events) + 1] = v /\ \A k \in 1 .. Len(events) : events'[k] = events[k]
    BY <2>1, <2>2, <2>4, <2>5, AppendEvents, Zenon
  <2>7. DOMAIN rxbuf' = RxIds /\ rxbuf'[b] = f /\ \A c \in RxIds : c # b => rxbuf'[c] = rxbuf[c]
    <3>1. DOMAIN rxbuf = RxIds
      BY Zenon DEF RxInv
    <3>2. QED
      BY <2>1, <2>3, <3>1
  <2>8. ASSUME NEW k \in 1 .. Len(events') PROVE rxbuf'[events'[k].id] = events'[k].frame
    <3>1. k = Len(events) + 1 \/ k \in 1 .. Len(events)
      BY <2>2, <2>6
    <3>2. CASE k = Len(events) + 1
      BY <2>5, <2>6, <2>7, <3>2, Zenon
    <3>3. CASE k \in 1 .. Len(events)
      <4>1. events[k] \in Event
        BY <2>2, <3>3
      <4>2. events[k].id \in RxIds /\ events[k].id # b
        BY <2>4, <3>3, <4>1, EventIs, Zenon DEF EventIds
      <4>3. rxbuf[events[k].id] = events[k].frame
        BY <3>3, Zenon DEF RxInv
      <4>4. QED
        BY <2>6, <2>7, <3>3, <4>2, <4>3, Zenon
    <3>4. QED
      BY <3>1, <3>2, <3>3, Zenon
  <2>9. ASSUME handling # NoEvent PROVE rxbuf'[handling.id] = handling.frame
    <3>1. handling \in Event /\ handling.id \in RxIds /\ handling.id # b
      BY <2>2, <2>4, <2>9, HandIs, EventIs, Zenon
    <3>2. QED
      BY <2>7, <2>9, <3>1, Zenon DEF RxInv
  <2>10. Apart(Range(posted'), Range(inited), EventIds(events'), Hand(handling))
    <3>1. Apart(Range(posted) \ {b}, Range(inited), EventIds(events) \cup {b}, Hand(handling))
      BY <2>2, <2>3, MoveToEvents
    <3>2. QED
      BY <2>3, <2>6, <3>1, Zenon
  <2>11. Owned(posted', inited, events', handling)
    <3>1. Owned(posted, inited, events, handling)
      BY <2>1, Zenon DEF RxInv
    <3>2. Range(posted') \cup Range(inited) \cup EventIds(events') \cup Hand(handling) = RxIds
      <4>1. Range(posted) \cup Range(inited) \cup EventIds(events) \cup Hand(handling) = RxIds
        BY <3>1, Zenon DEF Owned
      <4>2. (Range(posted) \ {b}) \cup Range(inited) \cup (EventIds(events) \cup {b}) \cup Hand(handling) = RxIds
        BY <2>2, <2>3, <4>1, MoveToEvents
      <4>3. QED
        BY <2>3, <2>6, <4>2, Zenon
    <3>3. HandLen(handling) \in Nat /\ Len(inited) \in Nat /\ Len(events) \in Nat /\ Len(posted) \in Nat
      BY <2>2 DEF HandLen
    <3>4. Len(posted) + Len(inited) + Len(events) + HandLen(handling) = RxBufs
      BY <3>1, Zenon DEF Owned
    <3>5. Len(posted') + Len(inited) + Len(events') + HandLen(handling) = RxBufs
      BY <2>3, <2>6, <3>3, <3>4
    <3>6. QED
      BY <3>2, <3>5, Zenon DEF Owned
  <2>12. rx_state' = "open" /\ rx_state' # "closed"
    BY <2>1
  <2>13. QED
    BY <2>1, <2>2, <2>3, <2>6, <2>7, <2>8, <2>9, <2>10, <2>11, <2>12, ZenonT(40) DEF RxInv, RxIds
<1>3. QED
  BY <1>1, <1>2, Zenon

\* init: all buffers are posted.
LEMMA OpenRx ==
  ASSUME RxInv, NEW more, Open(more)
  PROVE  RxInv'
<1>1. /\ rx_state = "closed" /\ UNCHANGED <<rxbuf, events, handling, inited>>
      /\ \/ rx_state' = "open" /\ posted' = [k \in 1 .. RxBufs |-> k - 1]
         \/ rx_state' = "failed" /\ posted' = <<>>
  BY Zenon DEF Open
<1>2. posted = <<>> /\ inited = <<>> /\ events = <<>> /\ handling = NoEvent /\ DOMAIN rxbuf = RxIds
  <2>1. rx_state # "open"
    BY <1>1
  <2>2. QED
    BY <2>1, Zenon DEF RxInv
<1>3. Hand(handling) = {} /\ HandLen(handling) = 0 /\ handling \in Event \cup {NoEvent}
  BY <1>2, Zenon DEF Hand, HandLen
<1>4. RxBufs \in Nat
  BY EfviUdpAssumption
<1>5. PICK p : p = [k \in 1 .. RxBufs |-> k - 1]
  OBVIOUS
<1>6. p \in Seq(RxIds) /\ Len(p) = RxBufs /\ Inj(p) /\ Range(p) = RxIds
  <2>1. \A k \in 1 .. RxBufs : k - 1 \in RxIds
    BY <1>4 DEF RxIds
  <2>2. p \in Seq(RxIds) /\ Len(p) = RxBufs /\ DOMAIN p = 1 .. RxBufs
    BY <1>4, <1>5, <2>1
  <2>3. Inj(p)
    BY <1>4, <1>5, <2>2 DEF Inj
  <2>4. \A c \in RxIds : c + 1 \in 1 .. RxBufs /\ p[c + 1] = c
    BY <1>4, <1>5 DEF RxIds
  <2>5. \A k \in 1 .. RxBufs : p[k] \in RxIds
    BY <1>5, <2>1
  <2>6. QED
    BY <2>2, <2>3, <2>4, <2>5, Zenon DEF Range
<1>7. posted' \in Seq(RxIds) /\ Inj(posted')
  BY <1>1, <1>5, <1>6, EmptyIds, Zenon
<1>8. Apart(Range(posted'), Range(inited), EventIds(events), Hand(handling))
  BY <1>2, <1>3, EmptyIds DEF Apart
<1>9. ASSUME rx_state' = "open" PROVE Owned(posted', inited, events, handling)
  <2>1. posted' = p
    BY <1>1, <1>5, <1>9
  <2>2. RxIds \cup {} \cup {} \cup {} = RxIds /\ RxBufs + 0 + 0 + 0 = RxBufs
    BY <1>4
  <2>3. QED
    BY <1>2, <1>3, <1>6, <2>1, <2>2, EmptyIds, Zenon DEF Owned
<1>10. ASSUME rx_state' # "open" PROVE posted' = <<>>
  BY <1>1, <1>10
<1>11. rx_state' # "closed"
  BY <1>1
<1>12. \A k \in 1 .. Len(events) : rxbuf[events[k].id] = events[k].frame
  BY Zenon DEF RxInv
<1>13. QED
  BY <1>1, <1>2, <1>3, <1>7, <1>8, <1>9, <1>10, <1>11, <1>12, EmptyIds, ZenonT(40) DEF RxInv, RxIds

\* close: all buffers are given up.
LEMMA CloseRx ==
  ASSUME RxInv, RxClose
  PROVE  RxInv'
<1>1. /\ rx_state' = "closed" /\ held' = {} /\ posted' = <<>> /\ events' = <<>> /\ inited' = <<>>
      /\ handling' = NoEvent /\ rxbuf' = [k \in RxIds |-> NoFrame]
  BY DEF RxClose
<1>2. DOMAIN rxbuf' = RxIds /\ rx_state' # "open"
  BY <1>1
<1>3. handling' \in Event \cup {NoEvent} /\ Hand(handling') = {}
  BY <1>1, Zenon DEF Hand
<1>4. Apart(Range(posted'), Range(inited'), EventIds(events'), Hand(handling'))
  BY <1>1, <1>3, EmptyIds DEF Apart
<1>5. \A k \in 1 .. Len(events') : rxbuf'[events'[k].id] = events'[k].frame
  BY <1>1
<1>6. QED
  BY <1>1, <1>2, <1>3, <1>4, <1>5, EmptyIds, Zenon DEF RxInv, RxIds

\* An event goes to the handler.
LEMMA TakeRx ==
  ASSUME RxInv, NEW checked, Take(checked)
  PROVE  RxInv'
<1>1. /\ rx_state = "open" /\ handling = NoEvent /\ events # <<>>
      /\ handling' = Head(events) /\ events' = Tail(events)
      /\ UNCHANGED <<rx_state, held, rxbuf, posted, inited>>
  BY Zenon DEF Take
<1>2. /\ posted \in Seq(RxIds) /\ Inj(posted) /\ inited \in Seq(RxIds) /\ Inj(inited)
      /\ events \in Seq(Event) /\ EventsInj(events) /\ DOMAIN rxbuf = RxIds
      /\ Apart(Range(posted), Range(inited), EventIds(events), Hand(handling))
      /\ Owned(posted, inited, events, handling)
      /\ \A k \in 1 .. Len(events) : rxbuf[events[k].id] = events[k].frame
  BY <1>1, Zenon DEF RxInv
<1>3. PICK h, t : h = Head(events) /\ t = Tail(events)
  OBVIOUS
<1>4. /\ t \in Seq(Event) /\ Len(t) = Len(events) - 1 /\ EventsInj(t)
      /\ h = events[1] /\ h \in Event /\ h.id \in EventIds(events)
      /\ EventIds(t) = EventIds(events) \ {h.id}
      /\ \A k \in 1 .. Len(events) - 1 : t[k] = events[k + 1]
  BY <1>1, <1>2, <1>3, TailEvents, Zenon
<1>5. h # NoEvent /\ Hand(h) = {h.id} /\ HandLen(h) = 1 /\ Hand(handling) = {} /\ HandLen(handling) = 0
  BY <1>1, <1>4, EventIs, Zenon DEF Hand, HandLen
<1>6. Len(events) \in Nat /\ Len(events) > 0 /\ Len(posted) \in Nat /\ Len(inited) \in Nat
  BY <1>1, <1>2
<1>7. ASSUME NEW k \in 1 .. Len(t) PROVE rxbuf[t[k].id] = t[k].frame
  <2>1. k \in 1 .. Len(events) - 1 /\ k + 1 \in 1 .. Len(events)
    BY <1>4, <1>6
  <2>2. QED
    BY <1>2, <1>4, <2>1, Zenon
<1>8. rxbuf[h.id] = h.frame
  <2>1. 1 \in 1 .. Len(events)
    BY <1>6
  <2>2. QED
    BY <1>2, <1>4, <2>1, Zenon
<1>9. PICK A, B, C : A = Range(posted) /\ B = Range(inited) /\ C = EventIds(events)
  OBVIOUS
<1>10. Apart(A, B, C \ {h.id}, {h.id}) /\ A \cup B \cup (C \ {h.id}) \cup {h.id} = RxIds
  <2>1. Apart(A, B, C, {}) /\ h.id \in C
    BY <1>2, <1>4, <1>5, <1>9, Zenon
  <2>2. A \cup B \cup C \cup {} = RxIds
    BY <1>2, <1>5, <1>9, Zenon DEF Owned
  <2>3. QED
    BY <2>1, <2>2 DEF Apart
<1>11. Apart(Range(posted), Range(inited), EventIds(t), Hand(h))
  BY <1>4, <1>5, <1>9, <1>10, Zenon
<1>12. Owned(posted, inited, t, h)
  <2>1. Range(posted) \cup Range(inited) \cup EventIds(t) \cup Hand(h) = RxIds
    BY <1>4, <1>5, <1>9, <1>10, Zenon
  <2>2. Len(posted) + Len(inited) + Len(events) + HandLen(handling) = RxBufs
    BY <1>2, Zenon DEF Owned
  <2>3. Len(posted) + Len(inited) + Len(t) + HandLen(h) = RxBufs
    BY <1>4, <1>5, <1>6, <2>2
  <2>4. QED
    BY <2>1, <2>3, Zenon DEF Owned
<1>13. rx_state' # "closed"
  BY <1>1
<1>14. handling' = h /\ events' = t
  BY <1>1, <1>3, Zenon
<1>15. QED
  BY <1>1, <1>2, <1>4, <1>5, <1>7, <1>8, <1>11, <1>12, <1>13, <1>14, ZenonT(40) DEF RxInv, RxIds

\* The handler returns, and its buffer goes back.
LEMMA ReadEndRx ==
  ASSUME RxInv, ReadEnd
  PROVE  RxInv'
<1>1. /\ handling # NoEvent /\ handling' = NoEvent
      /\ \/ inited' = Append(inited, handling.id) /\ posted' = posted
         \/ posted' = Append(posted, handling.id) /\ inited' = inited
      /\ rxbuf' = [rxbuf EXCEPT ![handling.id] = NoFrame]
      /\ UNCHANGED <<rx_state, held, events>>
  BY Zenon DEF ReadEnd
<1>2. /\ posted \in Seq(RxIds) /\ Inj(posted) /\ inited \in Seq(RxIds) /\ Inj(inited)
      /\ events \in Seq(Event) /\ EventsInj(events) /\ handling \in Event
      /\ DOMAIN rxbuf = RxIds
      /\ Apart(Range(posted), Range(inited), EventIds(events), Hand(handling))
      /\ \A k \in 1 .. Len(events) : rxbuf[events[k].id] = events[k].frame
  BY <1>1, Zenon DEF RxInv
<1>3. rx_state = "open" /\ Owned(posted, inited, events, handling)
  BY <1>1, Zenon DEF RxInv
<1>4. PICK b : b = handling.id
  OBVIOUS
<1>5. Hand(handling) = {b} /\ HandLen(handling) = 1 /\ Hand(NoEvent) = {} /\ HandLen(NoEvent) = 0
  BY <1>1, <1>4, Zenon DEF Hand, HandLen
<1>6. PICK A, B, C : A = Range(posted) /\ B = Range(inited) /\ C = EventIds(events)
  OBVIOUS
<1>7. Apart(A, B, C, {b}) /\ A \cup B \cup C \cup {b} = RxIds
  BY <1>2, <1>3, <1>5, <1>6, Zenon DEF Owned
<1>8. b \in RxIds /\ b \notin A /\ b \notin B /\ b \notin C
  BY <1>7 DEF Apart
<1>9. DOMAIN rxbuf' = RxIds /\ \A c \in RxIds : c # b => rxbuf'[c] = rxbuf[c]
  BY <1>1, <1>2, <1>4
<1>10. ASSUME NEW k \in 1 .. Len(events) PROVE rxbuf'[events[k].id] = events[k].frame
  <2>1. events[k] \in Event
    BY <1>2
  <2>2. events[k].id \in RxIds /\ events[k].id # b
    BY <1>6, <1>8, <2>1, EventIs, Zenon DEF EventIds
  <2>3. QED
    BY <1>2, <1>9, <2>2, Zenon
<1>11. Len(posted) \in Nat /\ Len(inited) \in Nat /\ Len(events) \in Nat
  BY <1>2
<1>12. Len(posted) + Len(inited) + Len(events) + 1 = RxBufs
  BY <1>3, <1>5, Zenon DEF Owned
<1>13. /\ posted' \in Seq(RxIds) /\ Inj(posted') /\ inited' \in Seq(RxIds) /\ Inj(inited')
       /\ Apart(Range(posted'), Range(inited'), EventIds(events), Hand(NoEvent))
       /\ Owned(posted', inited', events, NoEvent)
  <2>1. CASE inited' = Append(inited, handling.id) /\ posted' = posted
    <3>1. /\ inited' \in Seq(RxIds) /\ Len(inited') = Len(inited) + 1 /\ Inj(inited')
          /\ Range(inited') = B \cup {b}
      <4>1. b \notin Range(inited)
        BY <1>6, <1>8, Zenon
      <4>2. /\ Append(inited, b) \in Seq(RxIds) /\ Len(Append(inited, b)) = Len(inited) + 1
            /\ Inj(Append(inited, b)) /\ Range(Append(inited, b)) = Range(inited) \cup {b}
        BY <1>2, <1>8, <4>1, AppendIds
      <4>3. QED
        BY <1>4, <1>6, <2>1, <4>2, Zenon
    <3>2. Apart(A, B \cup {b}, C, {}) /\ A \cup (B \cup {b}) \cup C \cup {} = RxIds
      BY <1>7 DEF Apart
    <3>3. Len(posted') + Len(inited') + Len(events) + 0 = RxBufs
      BY <1>11, <1>12, <2>1, <3>1
    <3>4. QED
      BY <1>2, <1>5, <1>6, <2>1, <3>1, <3>2, <3>3, Zenon DEF Owned
  <2>2. CASE posted' = Append(posted, handling.id) /\ inited' = inited
    <3>1. /\ posted' \in Seq(RxIds) /\ Len(posted') = Len(posted) + 1 /\ Inj(posted')
          /\ Range(posted') = A \cup {b}
      <4>1. b \notin Range(posted)
        BY <1>6, <1>8, Zenon
      <4>2. /\ Append(posted, b) \in Seq(RxIds) /\ Len(Append(posted, b)) = Len(posted) + 1
            /\ Inj(Append(posted, b)) /\ Range(Append(posted, b)) = Range(posted) \cup {b}
        BY <1>2, <1>8, <4>1, AppendIds
      <4>3. QED
        BY <1>4, <1>6, <2>2, <4>2, Zenon
    <3>2. Apart(A \cup {b}, B, C, {}) /\ (A \cup {b}) \cup B \cup C \cup {} = RxIds
      BY <1>7 DEF Apart
    <3>3. Len(posted') + Len(inited') + Len(events) + 0 = RxBufs
      BY <1>11, <1>12, <2>2, <3>1
    <3>4. QED
      BY <1>2, <1>5, <1>6, <2>2, <3>1, <3>2, <3>3, Zenon DEF Owned
  <2>3. QED
    BY <1>1, <2>1, <2>2, Zenon
<1>14. rx_state' # "closed"
  BY <1>1, <1>3
<1>15. QED
  BY <1>1, <1>2, <1>3, <1>9, <1>10, <1>13, <1>14, ZenonT(40) DEF RxInv, RxIds

\* pollNet ends: the buffers initialised are pushed.
LEMMA PollNetEndRx ==
  ASSUME RxInv, PollNetEnd
  PROVE  RxInv'
<1>1. /\ handling = NoEvent /\ inited # <<>> /\ posted' = posted \o inited /\ inited' = <<>>
      /\ UNCHANGED <<rx_state, held, rxbuf, events, handling>>
  BY Zenon DEF PollNetEnd
<1>2. /\ posted \in Seq(RxIds) /\ Inj(posted) /\ inited \in Seq(RxIds) /\ Inj(inited)
      /\ events \in Seq(Event) /\ EventsInj(events) /\ handling \in Event \cup {NoEvent}
      /\ DOMAIN rxbuf = RxIds
      /\ Apart(Range(posted), Range(inited), EventIds(events), Hand(handling))
      /\ \A k \in 1 .. Len(events) : rxbuf[events[k].id] = events[k].frame
  BY Zenon DEF RxInv
<1>3. rx_state = "open" /\ Owned(posted, inited, events, handling)
  BY <1>1, Zenon DEF RxInv
<1>4. PICK A, B, C, D : A = Range(posted) /\ B = Range(inited) /\ C = EventIds(events) /\ D = Hand(handling)
  OBVIOUS
<1>5. Apart(A, B, C, D) /\ A \cup B \cup C \cup D = RxIds
  BY <1>2, <1>3, <1>4, Zenon DEF Owned
<1>6. A \cap B = {} /\ Apart(A \cup B, {}, C, D) /\ (A \cup B) \cup {} \cup C \cup D = RxIds
  BY <1>5 DEF Apart
<1>7. /\ posted' \in Seq(RxIds) /\ Len(posted') = Len(posted) + Len(inited) /\ Inj(posted')
      /\ Range(posted') = A \cup B
  <2>1. Range(posted) \cap Range(inited) = {}
    BY <1>4, <1>6, Zenon
  <2>2. /\ posted \o inited \in Seq(RxIds) /\ Len(posted \o inited) = Len(posted) + Len(inited)
        /\ Inj(posted \o inited) /\ Range(posted \o inited) = Range(posted) \cup Range(inited)
    BY <1>2, <2>1, ConcatIds
  <2>3. QED
    BY <1>1, <1>4, <2>2, Zenon
<1>8. Apart(Range(posted'), Range(inited'), EventIds(events), Hand(handling))
  BY <1>1, <1>4, <1>6, <1>7, EmptyIds, Zenon
<1>9. Owned(posted', inited', events, handling)
  <2>1. Range(posted') \cup Range(inited') \cup EventIds(events) \cup Hand(handling) = RxIds
    BY <1>1, <1>4, <1>6, <1>7, EmptyIds, Zenon
  <2>2. Len(posted) + Len(inited) + Len(events) + HandLen(handling) = RxBufs
    BY <1>3, Zenon DEF Owned
  <2>3. Len(posted) \in Nat /\ Len(inited) \in Nat /\ Len(inited') = 0
    BY <1>1, <1>2
  <2>4. Len(posted') + Len(inited') = Len(posted) + Len(inited)
    BY <1>7, <2>3
  <2>5. QED
    BY <2>1, <2>2, <2>4, Zenon DEF Owned
<1>10. rx_state' # "closed"
  BY <1>1, <1>3
<1>11. QED
  BY <1>1, <1>2, <1>3, <1>7, <1>8, <1>9, <1>10, EmptyIds, ZenonT(40) DEF RxInv, RxIds

\* The frames the NIC takes from the sender.
LEMMA ArrivesFrame ==
  ASSUME FrameInv, TxInv
  PROVE  /\ \A i \in 1 .. Len(ring) : ring[i] \in Posted /\ txbuf[ring[i].id] \in Frame
         /\ \A size \in Sizes : UdpPkt(written + 1, size) \in Frame
<1>1. ring \in Seq(Posted) /\ written + 1 \in Nat
  BY DEF TxInv
<1>2. ASSUME NEW i \in 1 .. Len(ring) PROVE ring[i] \in Posted /\ txbuf[ring[i].id] \in Frame
  <2>1. ring[i] \in Posted
    BY <1>1
  <2>2. ring[i].id \in TxIds
    BY <2>1, Zenon DEF Posted
  <2>3. QED
    BY <2>1, <2>2, Zenon DEF FrameInv
<1>3. QED
  BY <1>1, <1>2, UdpPktFrame, Zenon

\* The invariant of the receivers is inductive.
LEMMA StepRxInv == FrameInv /\ TxInv /\ RxInv /\ [UdpNext]_udpVars => RxInv'
<1> SUFFICES ASSUME FrameInv, TxInv, RxInv, [UdpNext]_udpVars PROVE RxInv'
  OBVIOUS
<1>1. CASE Transmit
  <2>1. PICK i \in DOMAIN ring : Arrive(txbuf[ring[i].id])
    BY <1>1, Zenon DEF Transmit
  <2>2. i \in 1 .. Len(ring)
    BY <2>1 DEF TxInv
  <2>3. QED
    BY <2>1, <2>2, ArrivesFrame, ArriveRx, Zenon
<1>2. CASE WriteX3
  BY <1>2, ArrivesFrame, ArriveRx, Zenon DEF WriteX3
<1>3. CASE Write \/ UNCHANGED udpVars
  BY <1>3, RxSame DEF Write, udpVars
<1>4. CASE InitUdp \/ InitEth \/ InitCore
  BY <1>4, OpenRx, Zenon DEF InitUdp, InitEth, InitCore
<1>5. CASE RxClose
  BY <1>5, CloseRx
<1>6. CASE ReadUdp \/ ReadNoCheck \/ ReadEth \/ PollNet
  BY <1>6, TakeRx, Zenon DEF ReadUdp, ReadNoCheck, ReadEth, PollNet
<1>7. CASE ReadEnd
  BY <1>7, ReadEndRx
<1>8. CASE PollNetEnd
  BY <1>8, PollNetEndRx
<1>9. QED
  BY <1>1, <1>2, <1>3, <1>4, <1>5, <1>6, <1>7, <1>8, Zenon DEF UdpNext

\* What it means for the buffers.
LEMMA RxInvImpliesExact == RxInv => RxExact
<1> SUFFICES ASSUME RxInv PROVE RxExact
  OBVIOUS
<1> DEFINE taken == IF handling = NoEvent THEN events ELSE Append(events, handling)
           own == [i \in DOMAIN taken |-> taken[i].id]
           ids == posted \o inited \o own
<1>1. /\ posted \in Seq(RxIds) /\ Inj(posted) /\ inited \in Seq(RxIds) /\ Inj(inited)
      /\ events \in Seq(Event) /\ EventsInj(events) /\ handling \in Event \cup {NoEvent}
      /\ Apart(Range(posted), Range(inited), EventIds(events), Hand(handling))
      /\ \A k \in 1 .. Len(events) : rxbuf[events[k].id] = events[k].frame
      /\ handling # NoEvent => rxbuf[handling.id] = handling.frame
  BY Zenon DEF RxInv
<1>2. /\ taken \in Seq(Event) /\ EventsInj(taken) /\ Len(taken) = Len(events) + HandLen(handling)
      /\ EventIds(taken) = EventIds(events) \cup Hand(handling)
      /\ \A k \in 1 .. Len(taken) : rxbuf[taken[k].id] = taken[k].frame
  <2>1. CASE handling = NoEvent
    <3>1. Hand(handling) = {} /\ HandLen(handling) = 0 /\ taken = events
      BY <2>1, Zenon DEF Hand, HandLen
    <3>2. Len(events) + 0 = Len(events) /\ EventIds(events) \cup {} = EventIds(events)
      BY <1>1
    <3> HIDE DEF taken
    <3>3. QED
      BY <1>1, <3>1, <3>2, Zenon
  <2>2. CASE handling # NoEvent
    <3>1. handling \in Event /\ Hand(handling) = {handling.id} /\ HandLen(handling) = 1
      BY <1>1, <2>2, Zenon DEF Hand, HandLen
    <3>2. handling.id \notin EventIds(events)
      BY <1>1, <3>1 DEF Apart
    <3>3. taken = Append(events, handling)
      BY <2>2, Zenon
    <3> HIDE DEF taken
    <3>4. /\ taken \in Seq(Event) /\ Len(taken) = Len(events) + 1 /\ EventsInj(taken)
          /\ EventIds(taken) = EventIds(events) \cup {handling.id}
          /\ taken[Len(events) + 1] = handling
          /\ \A k \in 1 .. Len(events) : taken[k] = events[k]
      BY <1>1, <3>1, <3>2, <3>3, AppendEvents, Zenon
    <3>5. \A k \in 1 .. Len(taken) : k \in 1 .. Len(events) \/ k = Len(events) + 1
      BY <1>1, <3>4
    <3>6. \A k \in 1 .. Len(taken) : rxbuf[taken[k].id] = taken[k].frame
      BY <1>1, <2>2, <3>4, <3>5, Zenon
    <3>7. QED
      BY <3>1, <3>4, <3>6, Zenon
  <2>3. QED
    BY <2>1, <2>2, Zenon
<1> HIDE DEF taken
<1>3. own \in Seq(RxIds) /\ Len(own) = Len(taken) /\ Inj(own) /\ Range(own) = EventIds(taken)
  <2>1. Len(taken) \in Nat /\ DOMAIN taken = 1 .. Len(taken)
    BY <1>2
  <2>2. \A k \in 1 .. Len(taken) : taken[k] \in Event
    BY <1>2
  <2>3. \A k \in 1 .. Len(taken) : taken[k].id \in RxIds
    BY <2>2, EventIs, Zenon
  <2>4. PICK g : g = own
    OBVIOUS
  <2>5. g = [k \in 1 .. Len(taken) |-> taken[k].id]
    BY <2>1, <2>4, Zenon
  <2>6. g \in Seq(RxIds) /\ Len(g) = Len(taken) /\ DOMAIN g = 1 .. Len(taken)
    BY <2>1, <2>3, <2>5
  <2>7. \A k \in 1 .. Len(taken) : g[k] = taken[k].id
    BY <2>5, Zenon
  <2>8. Inj(g)
    BY <1>2, <2>6, <2>7, Zenon DEF Inj, EventsInj
  <2>9. Range(g) = EventIds(taken)
    BY <2>6, <2>7 DEF Range, EventIds
  <2>10. QED
    BY <2>4, <2>6, <2>8, <2>9, Zenon
<1> HIDE DEF own
<1>4. PICK A, B, C, D : A = Range(posted) /\ B = Range(inited) /\ C = EventIds(events) /\ D = Hand(handling)
  OBVIOUS
<1>5. A \cap B = {} /\ (A \cup B) \cap (C \cup D) = {}
  <2>1. Apart(A, B, C, D)
    BY <1>1, <1>4, Zenon
  <2>2. QED
    BY <2>1 DEF Apart
<1>6. PICK q : q = posted \o inited
  OBVIOUS
<1>7. q \in Seq(RxIds) /\ Len(q) = Len(posted) + Len(inited) /\ Inj(q) /\ Range(q) = A \cup B
  <2>1. Range(posted) \cap Range(inited) = {}
    BY <1>4, <1>5, Zenon
  <2>2. /\ posted \o inited \in Seq(RxIds) /\ Len(posted \o inited) = Len(posted) + Len(inited)
        /\ Inj(posted \o inited) /\ Range(posted \o inited) = Range(posted) \cup Range(inited)
    BY <1>1, <2>1, ConcatIds
  <2>3. QED
    BY <1>4, <1>6, <2>2, Zenon
<1>8. ids \in Seq(RxIds) /\ Len(ids) = Len(q) + Len(own) /\ Range(ids) = (A \cup B) \cup (C \cup D)
  <2>1. Range(own) = C \cup D
    BY <1>2, <1>3, <1>4, Zenon
  <2>2. Range(q) \cap Range(own) = {}
    BY <1>5, <1>7, <2>1, Zenon
  <2>3. q \o own \in Seq(RxIds) /\ Len(q \o own) = Len(q) + Len(own) /\ Range(q \o own) = Range(q) \cup Range(own)
    BY <1>3, <1>7, <2>2, ConcatIds
  <2>4. QED
    BY <1>6, <1>7, <2>1, <2>3, Zenon
<1> HIDE DEF ids
<1>9. Len(posted) \in Nat /\ Len(inited) \in Nat /\ Len(events) \in Nat
  BY <1>1
<1>10. ASSUME rx_state = "open" PROVE Len(ids) = RxBufs /\ Range(ids) = RxIds
  <2>1. Owned(posted, inited, events, handling)
    BY <1>10, Zenon DEF RxInv
  <2>2. A \cup B \cup C \cup D = RxIds /\ Len(posted) + Len(inited) + Len(events) + HandLen(handling) = RxBufs
    BY <1>4, <2>1, Zenon DEF Owned
  <2>3. Range(ids) = RxIds
    BY <1>8, <2>2
  <2>4. HandLen(handling) \in Nat
    BY DEF HandLen
  <2>5. Len(ids) = RxBufs
    BY <1>2, <1>3, <1>7, <1>8, <1>9, <2>2, <2>4
  <2>6. QED
    BY <2>3, <2>5
<1>11. ASSUME rx_state = "closed" PROVE held = {} /\ ids = <<>>
  <2>1. rx_state # "open"
    BY <1>11
  <2>2. held = {} /\ posted = <<>> /\ inited = <<>> /\ events = <<>> /\ handling = NoEvent
    BY <1>11, <2>1, Zenon DEF RxInv
  <2>3. HandLen(handling) = 0
    BY <2>2, Zenon DEF HandLen
  <2>4. Len(ids) = 0
    BY <1>2, <1>3, <1>7, <1>8, <2>2, <2>3
  <2>5. QED
    BY <1>8, <2>2, <2>4
<1>12. \A k \in DOMAIN taken : rxbuf[taken[k].id] = taken[k].frame
  BY <1>2
<1>13. QED
  BY <1>10, <1>11, <1>12, Zenon DEF RxExact, taken, own, ids

\* EfviUdpReceiver, EfviEthReceiver, Core::pollNet, for every N_BUF: an open receiver
\* accounts for each of its buffers, a handler finds in its buffer what the NIC put there,
\* and a receiver that is closed holds nothing.
THEOREM ReceiverExact == UdpSpec => []RxExact
  BY InitTxInv, StepTxInv, InitFrameInv, StepFrameInv, InitRxInv, StepRxInv, RxInvImpliesExact,
     PTL DEF UdpSpec

-----------------------------------------------------------------------------
(* The order of the datagrams.  The numbers of the writes increase along the whole path:
   the last frame handed over, the events in the order they are polled, the frames in the
   ring that are not sent yet.  They do as long as each of these is still in its buffer. *)

\* The numbers of the frames on their way, from the last handed over to the last written.
Ordered(e, r, b, l) ==
  /\ \A k \in 1 .. Len(e) : l < e[k].frame.seq
  /\ \A j, k \in 1 .. Len(e) : j < k => e[j].frame.seq < e[k].frame.seq
  /\ \A i \in 1 .. Len(r) : ~r[i].done =>
       /\ b[r[i].id].seq = r[i].seq /\ l < r[i].seq
       /\ \A k \in 1 .. Len(e) : e[k].frame.seq < r[i].seq
       /\ \A j \in 1 .. Len(r) : i < j => r[i].seq < r[j].seq

\* The inductive invariant of the whole path.
OrderInv ==
  /\ ~wrong /\ last \in Nat
  /\ last <= written /\ \A t \in TxIds : txbuf[t].seq <= written
  /\ \A k \in 1 .. Len(events) : events[k].frame.seq <= written
  /\ \A k \in 1 .. Len(events) :
       events[k].rx => Accepts(hdr + events[k].frame.len, events[k].frame.check)
  /\ ~spoilt => Ordered(events, ring, txbuf, last)

\* Numbers of events and of posted frames.
LEMMA Numbers ==
  ASSUME NEW e \in Seq(Event), NEW r \in Seq(Posted)
  PROVE  /\ Len(e) \in Nat /\ Len(r) \in Nat
         /\ \A k \in 1 .. Len(e) : e[k].frame.seq \in Nat
         /\ \A i \in 1 .. Len(r) : r[i].seq \in Nat
<1>1. ASSUME NEW k \in 1 .. Len(e) PROVE e[k].frame.seq \in Nat
  <2>1. e[k] \in Event
    OBVIOUS
  <2>2. QED
    BY <2>1, EventIs, Zenon DEF Frame
<1>2. ASSUME NEW i \in 1 .. Len(r) PROVE r[i].seq \in Nat
  <2>1. r[i] \in Posted
    OBVIOUS
  <2>2. QED
    BY <2>1 DEF Posted
<1>3. QED
  BY <1>1, <1>2

\* An event is taken, and its frame handed over or not.
LEMMA OrderTaken ==
  ASSUME NEW e \in Seq(Event), NEW r \in Seq(Posted), NEW b, NEW l \in Nat, NEW t \in Seq(Event),
         Len(e) > 0, Len(t) = Len(e) - 1, \A k \in 1 .. Len(e) - 1 : t[k] = e[k + 1],
         Ordered(e, r, b, l)
  PROVE  Ordered(t, r, b, l) /\ Ordered(t, r, b, e[1].frame.seq) /\ l < e[1].frame.seq
<1>1. /\ Len(e) \in Nat /\ Len(r) \in Nat
      /\ \A k \in 1 .. Len(e) : e[k].frame.seq \in Nat
      /\ \A i \in 1 .. Len(r) : r[i].seq \in Nat
  BY Numbers
<1>2. PICK s : s = e[1].frame.seq
  OBVIOUS
<1>3. 1 \in 1 .. Len(e) /\ s \in Nat /\ l < s
  BY <1>1, <1>2 DEF Ordered
<1>4. ASSUME NEW k \in 1 .. Len(t)
      PROVE  t[k].frame.seq = e[k + 1].frame.seq /\ l < t[k].frame.seq /\ s < t[k].frame.seq
  <2>1. k + 1 \in 1 .. Len(e) /\ 1 < k + 1 /\ t[k] = e[k + 1]
    BY <1>1
  <2>2. l < e[k + 1].frame.seq /\ e[1].frame.seq < e[k + 1].frame.seq
    BY <1>3, <2>1 DEF Ordered
  <2>3. QED
    BY <1>2, <2>1, <2>2
<1>5. ASSUME NEW j \in 1 .. Len(t), NEW k \in 1 .. Len(t), j < k
      PROVE  t[j].frame.seq < t[k].frame.seq
  <2>1. j + 1 \in 1 .. Len(e) /\ k + 1 \in 1 .. Len(e) /\ j + 1 < k + 1
    BY <1>1, <1>5
  <2>2. e[j + 1].frame.seq < e[k + 1].frame.seq
    BY <2>1 DEF Ordered
  <2>3. QED
    BY <1>4, <2>2
<1>6. ASSUME NEW i \in 1 .. Len(r), ~r[i].done
      PROVE  /\ b[r[i].id].seq = r[i].seq /\ l < r[i].seq /\ s < r[i].seq
             /\ \A k \in 1 .. Len(t) : t[k].frame.seq < r[i].seq
             /\ \A j \in 1 .. Len(r) : i < j => r[i].seq < r[j].seq
  <2>1. /\ b[r[i].id].seq = r[i].seq /\ l < r[i].seq
        /\ \A k \in 1 .. Len(e) : e[k].frame.seq < r[i].seq
        /\ \A j \in 1 .. Len(r) : i < j => r[i].seq < r[j].seq
    BY <1>6, Zenon DEF Ordered
  <2>2. ASSUME NEW k \in 1 .. Len(t) PROVE t[k].frame.seq < r[i].seq
    <3>1. k + 1 \in 1 .. Len(e)
      BY <1>1
    <3>2. e[k + 1].frame.seq < r[i].seq
      BY <2>1, <3>1, Zenon
    <3>3. QED
      BY <1>4, <3>2
  <2>3. s < r[i].seq
    BY <1>2, <1>3, <2>1, Zenon
  <2>4. QED
    BY <2>1, <2>2, <2>3, Zenon
<1>7. Ordered(t, r, b, l)
  BY <1>4, <1>5, <1>6, Zenon DEF Ordered
<1>8. Ordered(t, r, b, s)
  BY <1>4, <1>5, <1>6, Zenon DEF Ordered
<1>9. QED
  BY <1>2, <1>3, <1>7, <1>8, Zenon

\* A frame becomes an event, the ring being r from then on.
LEMMA OrderArrived ==
  ASSUME NEW e \in Seq(Event), NEW r \in Seq(Posted), NEW b, NEW l \in Nat, NEW d \in Seq(Event),
         Len(d) = Len(e) + 1, \A k \in 1 .. Len(e) : d[k] = e[k],
         Ordered(e, r, b, l),
         l < d[Len(e) + 1].frame.seq,
         \A k \in 1 .. Len(e) : e[k].frame.seq < d[Len(e) + 1].frame.seq,
         \A i \in 1 .. Len(r) : ~r[i].done => d[Len(e) + 1].frame.seq < r[i].seq
  PROVE  Ordered(d, r, b, l)
<1>1. Len(e) \in Nat
  OBVIOUS
<1>2. \A k \in 1 .. Len(d) : k \in 1 .. Len(e) \/ k = Len(e) + 1
  BY <1>1
<1>3. ASSUME NEW k \in 1 .. Len(d) PROVE l < d[k].frame.seq
  BY <1>2, Zenon DEF Ordered
<1>4. ASSUME NEW j \in 1 .. Len(d), NEW k \in 1 .. Len(d), j < k
      PROVE  d[j].frame.seq < d[k].frame.seq
  <2>1. j \in 1 .. Len(e)
    BY <1>1, <1>4
  <2>2. CASE k \in 1 .. Len(e)
    BY <1>4, <2>1, <2>2, Zenon DEF Ordered
  <2>3. CASE k = Len(e) + 1
    BY <2>1, <2>3, Zenon
  <2>4. QED
    BY <1>2, <2>2, <2>3, Zenon
<1>5. ASSUME NEW i \in 1 .. Len(r), ~r[i].done
      PROVE  /\ b[r[i].id].seq = r[i].seq /\ l < r[i].seq
             /\ \A k \in 1 .. Len(d) : d[k].frame.seq < r[i].seq
             /\ \A j \in 1 .. Len(r) : i < j => r[i].seq < r[j].seq
  <2>1. /\ b[r[i].id].seq = r[i].seq /\ l < r[i].seq
        /\ \A k \in 1 .. Len(e) : e[k].frame.seq < r[i].seq
        /\ \A j \in 1 .. Len(r) : i < j => r[i].seq < r[j].seq
    BY <1>5, Zenon DEF Ordered
  <2>2. ASSUME NEW k \in 1 .. Len(d) PROVE d[k].frame.seq < r[i].seq
    BY <1>2, <1>5, <2>1, Zenon
  <2>3. QED
    BY <2>1, <2>2, Zenon
<1>6. QED
  BY <1>3, <1>4, <1>5, Zenon DEF Ordered

\* The NIC has sent the i-th frame of the ring.
LEMMA OrderSent ==
  ASSUME NEW e \in Seq(Event), NEW r \in Seq(Posted), NEW b, NEW l \in Nat, NEW q \in Seq(Posted),
         NEW i \in 1 .. Len(r), Len(q) = Len(r), q[i].done,
         \A k \in 1 .. Len(r) : q[k].seq = r[k].seq /\ q[k].id = r[k].id /\ (r[k].done => q[k].done),
         ~r[i].done, \A j \in 1 .. i - 1 : r[j].done,
         Ordered(e, r, b, l)
  PROVE  /\ Ordered(e, q, b, l)
         /\ b[r[i].id].seq = r[i].seq /\ l < r[i].seq
         /\ \A k \in 1 .. Len(e) : e[k].frame.seq < r[i].seq
         /\ \A j \in 1 .. Len(q) : ~q[j].done => r[i].seq < q[j].seq
<1>1. Ordered(e, q, b, l)
  <2>1. ASSUME NEW k \in 1 .. Len(q), ~q[k].done
        PROVE  /\ b[q[k].id].seq = q[k].seq /\ l < q[k].seq
               /\ \A m \in 1 .. Len(e) : e[m].frame.seq < q[k].seq
               /\ \A j \in 1 .. Len(q) : k < j => q[k].seq < q[j].seq
    <3>1. ~r[k].done /\ q[k].seq = r[k].seq /\ q[k].id = r[k].id /\ k \in 1 .. Len(r)
      BY <2>1, Zenon
    <3>2. /\ b[r[k].id].seq = r[k].seq /\ l < r[k].seq
          /\ \A m \in 1 .. Len(e) : e[m].frame.seq < r[k].seq
          /\ \A j \in 1 .. Len(r) : k < j => r[k].seq < r[j].seq
      BY <3>1, Zenon DEF Ordered
    <3>3. QED
      BY <3>1, <3>2, Zenon
  <2>2. QED
    BY <2>1, Zenon DEF Ordered
<1>2. /\ b[r[i].id].seq = r[i].seq /\ l < r[i].seq
      /\ \A k \in 1 .. Len(e) : e[k].frame.seq < r[i].seq
      /\ \A j \in 1 .. Len(r) : i < j => r[i].seq < r[j].seq
  BY Zenon DEF Ordered
<1>3. ASSUME NEW j \in 1 .. Len(q), ~q[j].done PROVE r[i].seq < q[j].seq
  <2>1. ~r[j].done /\ j # i
    BY <1>3, Zenon
  <2>2. j \notin 1 .. i - 1
    BY <2>1, Zenon
  <2>3. i < j
    BY <2>1, <2>2
  <2>4. QED
    BY <1>2, <2>3, Zenon
<1>4. QED
  BY <1>1, <1>2, <1>3, Zenon

\* Initially no frame is under way.
LEMMA InitOrderInv == UdpInit => OrderInv
<1>1. SUFFICES ASSUME UdpInit PROVE OrderInv
  OBVIOUS
<1>2. events = <<>> /\ ring = <<>> /\ ~wrong /\ last = 0 /\ written = 0
  BY <1>1 DEF UdpInit
<1>3. \A t \in TxIds : txbuf[t].seq = 0
  BY <1>1 DEF UdpInit, NoFrame
<1>4. Ordered(events, ring, txbuf, last)
  BY <1>2 DEF Ordered
<1>5. QED
  BY <1>2, <1>3, <1>4 DEF OrderInv

\* A frame with the number n is lost, or becomes an event; the ring is q from then on.
LEMMA ArriveOrder ==
  ASSUME FrameInv, RxInv, OrderInv, TxInv, TxInv', NEW f \in Frame, Arrive(f), written \in Nat,
         written <= written', f.seq <= written', UNCHANGED <<hdr, txbuf, spoilt>>,
         ~spoilt => /\ Ordered(events, ring', txbuf, last) /\ last < f.seq
                    /\ \A k \in 1 .. Len(events) : events[k].frame.seq < f.seq
                    /\ \A i \in 1 .. Len(ring') : ~ring'[i].done => f.seq < ring'[i].seq
  PROVE  OrderInv'
<1>1. /\ ~wrong /\ last \in Nat /\ last <= written
      /\ \A k \in 1 .. Len(events) : events[k].frame.seq <= written
      /\ \A k \in 1 .. Len(events) :
           events[k].rx => Accepts(hdr + events[k].frame.len, events[k].frame.check)
  BY Zenon DEF OrderInv
<1>2. events \in Seq(Event) /\ ring \in Seq(Posted) /\ ring' \in Seq(Posted) /\ written' \in Nat
  BY Zenon DEF RxInv, TxInv, Posted, TxIds
<1>3. f.seq \in Nat /\ last <= written'
  BY <1>1, <1>2 DEF Frame
<1>4. \A k \in 1 .. Len(events) : events[k].frame.seq <= written'
  BY <1>1, <1>2, Numbers
<1>5. \A t \in TxIds : txbuf'[t].seq <= written'
  <2>1. ASSUME NEW t \in TxIds PROVE txbuf[t].seq <= written'
    <3>1. txbuf[t] \in Frame /\ txbuf[t].seq <= written
      BY Zenon DEF FrameInv, OrderInv
    <3>2. QED
      BY <1>2, <3>1 DEF Frame
  <2>2. QED
    BY <2>1, Zenon
<1>6. CASE UNCHANGED rxVars
  <2>1. UNCHANGED <<events, last, wrong>>
    BY <1>6 DEF rxVars
  <2>2. QED
    BY <1>1, <1>3, <1>4, <1>5, <2>1, Zenon DEF OrderInv, TxIds
<1>7. CASE ~UNCHANGED rxVars
  <2> DEFINE v == [id |-> Head(posted), frame |-> f, rx |-> Accepts(hdr + f.len, f.check)]
  <2>1. events' = Append(events, v) /\ UNCHANGED <<last, wrong>>
    BY <1>7, Zenon DEF Arrive
  <2>2. v.frame = f /\ (v.rx => Accepts(hdr + f.len, f.check))
    BY Zenon
  <2>3. events' \in Seq(Event)
    BY ArriveRx, Zenon DEF RxInv, Event, Frame, RxIds
  <2> HIDE DEF v
  <2>4. PICK d : d = events'
    OBVIOUS
  <2>5. /\ d \in Seq(Event) /\ Len(d) = Len(events) + 1 /\ d[Len(events) + 1] = v
        /\ \A k \in 1 .. Len(events) : d[k] = events[k]
    BY <1>2, <2>1, <2>3, <2>4
  <2>6. \A k \in 1 .. Len(d) : k \in 1 .. Len(events) \/ k = Len(events) + 1
    BY <1>2, <2>5
  <2>7. \A k \in 1 .. Len(d) : d[k].frame.seq <= written'
    BY <1>4, <2>2, <2>5, <2>6, Zenon
  <2>8. \A k \in 1 .. Len(d) : d[k].rx => Accepts(hdr + d[k].frame.len, d[k].frame.check)
    BY <1>1, <2>2, <2>5, <2>6, Zenon
  <2>9. ~spoilt => Ordered(d, ring', txbuf, last)
    BY <1>1, <1>2, <2>2, <2>5, OrderArrived, Zenon
  <2>10. QED
    BY <1>1, <1>3, <1>5, <2>1, <2>4, <2>7, <2>8, <2>9, Zenon DEF OrderInv, TxIds
<1>8. QED
  BY <1>6, <1>7, Zenon

\* The NIC sends a frame.
LEMMA TransmitOrder ==
  ASSUME FrameInv, RxInv, OrderInv, TxInv, Transmit
  PROVE  OrderInv'
<1>1. TxInv'
  BY TransmitTxInv
<1>2. PICK i \in DOMAIN ring :
        /\ ~ring[i].done /\ \A j \in 1 .. i - 1 : ring[j].done
        /\ ring' = [ring EXCEPT ![i].done = TRUE]
        /\ Arrive(txbuf[ring[i].id])
  BY Zenon DEF Transmit
<1>3. UNCHANGED <<hdr, txbuf, written, spoilt>>
  BY Zenon DEF Transmit
<1>4. /\ ring \in Seq(Posted) /\ ring' \in Seq(Posted) /\ events \in Seq(Event) /\ last \in Nat
      /\ written \in Nat
  BY <1>1, Zenon DEF TxInv, RxInv, OrderInv, Posted, TxIds
<1>5. i \in 1 .. Len(ring)
  BY <1>2, <1>4
<1>6. ring[i] \in Posted /\ txbuf[ring[i].id] \in Frame
  BY <1>5, ArrivesFrame, Zenon
<1>7. /\ Len(ring') = Len(ring) /\ ring'[i].done
      /\ \A k \in 1 .. Len(ring) : /\ ring'[k].seq = ring[k].seq /\ ring'[k].id = ring[k].id
                                   /\ (ring[k].done => ring'[k].done)
  <2>1. Len(ring') = Len(ring)
    BY <1>2, <1>4
  <2>2. PICK x : x = [ring[i] EXCEPT !.done = TRUE]
    OBVIOUS
  <2>3. x.done /\ x.seq = ring[i].seq /\ x.id = ring[i].id
    BY <1>6, <2>2, Zenon DEF Posted
  <2>4. ring'[i] = x /\ \A k \in 1 .. Len(ring) : k # i => ring'[k] = ring[k]
    BY <1>2, <1>4, <1>5, <2>2
  <2>5. QED
    BY <2>1, <2>3, <2>4, Zenon
<1>8. PICK f \in Frame : f = txbuf[ring[i].id]
  BY <1>6
<1>9. ASSUME ~spoilt
      PROVE  /\ Ordered(events, ring', txbuf, last) /\ last < ring[i].seq /\ f.seq = ring[i].seq
             /\ \A k \in 1 .. Len(events) : events[k].frame.seq < ring[i].seq
             /\ \A j \in 1 .. Len(ring') : ~ring'[j].done => ring[i].seq < ring'[j].seq
  <2>1. Ordered(events, ring, txbuf, last)
    BY <1>9, Zenon DEF OrderInv
  <2>2. PICK q \in Seq(Posted) : q = ring'
    BY <1>4
  <2>3. /\ Len(q) = Len(ring) /\ q[i].done
        /\ \A k \in 1 .. Len(ring) : q[k].seq = ring[k].seq /\ q[k].id = ring[k].id /\ (ring[k].done => q[k].done)
    BY <1>7, <2>2, Zenon
  <2>4. /\ Ordered(events, q, txbuf, last)
        /\ txbuf[ring[i].id].seq = ring[i].seq /\ last < ring[i].seq
        /\ \A k \in 1 .. Len(events) : events[k].frame.seq < ring[i].seq
        /\ \A j \in 1 .. Len(q) : ~q[j].done => ring[i].seq < q[j].seq
    BY <1>2, <1>4, <1>5, <2>1, <2>3, OrderSent
  <2>5. QED
    BY <1>8, <2>2, <2>4, Zenon
<1>10. f.seq <= written
  BY <1>6, <1>8, Zenon DEF OrderInv, Posted
<1>11. written <= written' /\ f.seq <= written'
  BY <1>3, <1>4, <1>10
<1>12. Arrive(f)
  BY <1>2, <1>8, Zenon
<1>13. QED
  BY <1>1, <1>3, <1>4, <1>9, <1>11, <1>12, ArriveOrder, Zenon

\* CTPIO: the frame is the newest, and nothing is in the ring.
LEMMA WriteX3Order ==
  ASSUME FrameInv, RxInv, OrderInv, TxInv, WriteX3
  PROVE  OrderInv'
<1>1. TxInv'
  BY OtherTxInv
<1>2. PICK size \in Sizes : Arrive(UdpPkt(written + 1, size))
  BY Zenon DEF WriteX3
<1>3. is_x3 /\ written' = written + 1 /\ UNCHANGED <<hdr, txbuf, ring, spoilt>>
  BY Zenon DEF WriteX3
<1>4. /\ written \in Nat /\ ring = <<>> /\ events \in Seq(Event) /\ last \in Nat /\ last <= written
      /\ \A k \in 1 .. Len(events) : events[k].frame.seq <= written
      /\ ~spoilt => Ordered(events, ring, txbuf, last)
  BY <1>3, Zenon DEF TxInv, RxInv, OrderInv
<1>5. PICK f \in Frame : f = UdpPkt(written + 1, size)
  BY ArrivesFrame, Zenon
<1>6. f.seq = written + 1 /\ written + 1 \in Nat
  <2>1. written + 1 \in Nat
    BY <1>4
  <2>2. QED
    BY <1>5, <2>1, UdpPktFrame, Zenon
<1>7. written <= written' /\ f.seq <= written' /\ last < f.seq
  BY <1>3, <1>4, <1>6
<1>8. \A k \in 1 .. Len(events) : events[k].frame.seq < f.seq
  <2>1. \A k \in 1 .. Len(events) : events[k].frame.seq \in Nat
    <3>1. <<>> \in Seq(Posted)
      OBVIOUS
    <3>2. QED
      BY <1>4, <3>1, Numbers, Zenon
  <2>2. QED
    BY <1>4, <1>6, <2>1
<1>9. \A i \in 1 .. Len(ring') : ~ring'[i].done => f.seq < ring'[i].seq
  BY <1>3, <1>4
<1>10. Arrive(f)
  BY <1>2, <1>5, Zenon
<1>11. QED
  BY <1>1, <1>3, <1>4, <1>7, <1>8, <1>9, <1>10, ArriveOrder, Zenon

\* write: the new frame is behind all others, and a frame whose buffer it uses is spoilt.
LEMMA WriteOrder ==
  ASSUME FrameInv, RxInv, OrderInv, TxInv, Write
  PROVE  OrderInv'
<1> DEFINE fits == Len(ring) < Capacity(TxQueue)
           new == [id |-> buf_index, seq |-> written + 1, done |-> FALSE]
           r == IF fits THEN Append(ring, new) ELSE ring
<1>1. /\ written' = written + 1 /\ ring' \in Polled(r)
      /\ UNCHANGED hdr /\ UNCHANGED rxVars
      /\ spoilt' = (spoilt \/ \E i \in DOMAIN ring : ring[i].id = buf_index /\ ~ring[i].done)
  BY Zenon DEF Write
<1>2. /\ written \in Nat /\ ring \in Seq(Posted) /\ events \in Seq(Event) /\ buf_index \in TxIds
      /\ RingSafe(ring, fails, written, txbuf) /\ txbuf \in [TxIds -> Frame]
  BY Zenon DEF TxInv, RxInv, FrameInv
<1>3. /\ ~wrong /\ last \in Nat /\ last <= written /\ \A t \in TxIds : txbuf[t].seq <= written
      /\ \A k \in 1 .. Len(events) : events[k].frame.seq <= written
      /\ \A k \in 1 .. Len(events) :
           events[k].rx => Accepts(hdr + events[k].frame.len, events[k].frame.check)
      /\ ~spoilt => Ordered(events, ring, txbuf, last)
  BY Zenon DEF OrderInv
<1>4. UNCHANGED <<events, last, wrong>>
  BY <1>1 DEF rxVars
<1>5. PICK size \in Sizes : txbuf' = [txbuf EXCEPT ![buf_index] = UdpPkt(written + 1, size)]
  BY Zenon DEF Write
<1>6. txbuf'[buf_index].seq = written + 1 /\ \A t \in TxIds : t # buf_index => txbuf'[t] = txbuf[t]
  BY <1>2, <1>5 DEF UdpPkt
<1>7. /\ \A k \in 1 .. Len(events) : events[k].frame.seq \in Nat
      /\ \A i \in 1 .. Len(ring) : ring[i].seq \in Nat /\ ring[i].seq <= written /\ ring[i].id \in TxIds
      /\ Len(ring) \in Nat
  <2>1. ASSUME NEW i \in 1 .. Len(ring) PROVE ring[i].seq <= written /\ ring[i].id \in TxIds
    <3>1. ring[i] \in Posted
      BY <1>2
    <3>2. QED
      BY <1>2, <3>1, Zenon DEF Posted, RingSafe, FrameSafe
  <2>2. QED
    BY <1>2, <2>1, Numbers, Zenon
<1>8. last <= written' /\ \A k \in 1 .. Len(events) : events[k].frame.seq < written'
  BY <1>1, <1>2, <1>3, <1>7
<1>9. \A k \in 1 .. Len(events) : events[k].frame.seq <= written'
  BY <1>1, <1>2, <1>3, <1>7
<1>10. \A t \in TxIds : txbuf'[t].seq <= written'
  <2>1. ASSUME NEW t \in TxIds PROVE txbuf'[t].seq <= written'
    <3>1. CASE t = buf_index
      BY <1>1, <1>2, <1>6, <3>1
    <3>2. CASE t # buf_index
      <4>1. txbuf[t] \in Frame /\ txbuf[t].seq <= written /\ txbuf'[t] = txbuf[t]
        BY <1>2, <1>3, <1>6, <3>2, Zenon
      <4>2. txbuf[t].seq \in Nat
        BY <4>1 DEF Frame
      <4>3. QED
        BY <1>1, <1>2, <4>1, <4>2
    <3>3. QED
      BY <3>1, <3>2, Zenon
  <2>2. QED
    BY <2>1
<1>11. ASSUME ~spoilt' PROVE Ordered(events, ring', txbuf', last)
  <2>1. ~spoilt /\ \A i \in DOMAIN ring : ring[i].id = buf_index => ring[i].done
    BY <1>1, <1>11
  <2>2. ASSUME NEW i \in 1 .. Len(ring), ~ring[i].done
        PROVE  /\ txbuf'[ring[i].id].seq = ring[i].seq /\ last < ring[i].seq
               /\ \A k \in 1 .. Len(events) : events[k].frame.seq < ring[i].seq
               /\ \A j \in 1 .. Len(ring) : i < j => ring[i].seq < ring[j].seq
               /\ ring[i].seq < written + 1
    <3>1. /\ txbuf[ring[i].id].seq = ring[i].seq /\ last < ring[i].seq
          /\ \A k \in 1 .. Len(events) : events[k].frame.seq < ring[i].seq
          /\ \A j \in 1 .. Len(ring) : i < j => ring[i].seq < ring[j].seq
      BY <1>3, <2>1, <2>2, Zenon DEF Ordered
    <3>2. i \in DOMAIN ring
      BY <1>2
    <3>3. ring[i].id # buf_index
      BY <2>1, <2>2, <3>2, Zenon
    <3>4. txbuf'[ring[i].id] = txbuf[ring[i].id]
      BY <1>6, <1>7, <3>3, Zenon
    <3>5. ring[i].seq < written + 1
      BY <1>2, <1>7
    <3>6. QED
      BY <3>1, <3>4, <3>5, Zenon
  <2>3. new.id = buf_index /\ new.seq = written + 1 /\ new \in Posted
    BY <1>2 DEF Posted
  <2> HIDE DEF new
  <2>4. /\ r \in Seq(Posted) /\ Len(r) \in Nat
        /\ \A i \in 1 .. Len(r) : \/ i \in 1 .. Len(ring) /\ r[i] = ring[i]
                                  \/ i = Len(ring) + 1 /\ i = Len(r) /\ r[i] = new
    <3>1. CASE fits
      <4>1. r = Append(ring, new)
        BY <3>1
      <4> HIDE DEF r
      <4>2. QED
        BY <1>2, <1>7, <2>3, <4>1
    <3>2. CASE ~fits
      BY <1>2, <1>7, <3>2
    <3>3. QED
      BY <3>1, <3>2
  <2> HIDE DEF r
  <2>5. ASSUME NEW i \in 1 .. Len(r), ~r[i].done
        PROVE  /\ txbuf'[r[i].id].seq = r[i].seq /\ last < r[i].seq
               /\ \A k \in 1 .. Len(events) : events[k].frame.seq < r[i].seq
               /\ \A j \in 1 .. Len(r) : i < j => r[i].seq < r[j].seq
    <3>1. CASE i \in 1 .. Len(ring) /\ r[i] = ring[i]
      <4>1. ASSUME NEW j \in 1 .. Len(r), i < j PROVE r[i].seq < r[j].seq
        BY <2>2, <2>3, <2>4, <2>5, <3>1, <4>1, Zenon
      <4>2. QED
        BY <2>2, <2>5, <3>1, <4>1, Zenon
    <3>2. CASE i = Len(ring) + 1 /\ i = Len(r) /\ r[i] = new
      <4>1. last < written + 1
        BY <1>2, <1>3
      <4>2. \A j \in 1 .. Len(r) : ~(i < j)
        BY <2>4, <3>2
      <4>3. QED
        BY <1>1, <1>6, <1>8, <2>3, <3>2, <4>1, <4>2, Zenon
    <3>3. QED
      BY <2>4, <3>1, <3>2, Zenon
  <2>6. PICK m \in 0 .. Len(r) : ring' = SubSeq(r, m + 1, Len(r))
    BY <1>1, Zenon DEF Polled
  <2>7. PICK q : q = ring'
    OBVIOUS
  <2>8. /\ Len(q) = Len(r) - m /\ Len(q) \in Nat
        /\ \A i \in 1 .. Len(q) : i + m \in 1 .. Len(r) /\ q[i] = r[i + m]
    BY <2>4, <2>6, <2>7
  <2>9. \A i, j \in 1 .. Len(q) : i < j => i + m < j + m
    BY <2>4, <2>6, <2>8
  <2>10. ASSUME NEW i \in 1 .. Len(q), ~q[i].done
         PROVE  /\ txbuf'[q[i].id].seq = q[i].seq /\ last < q[i].seq
                /\ \A k \in 1 .. Len(events) : events[k].frame.seq < q[i].seq
                /\ \A j \in 1 .. Len(q) : i < j => q[i].seq < q[j].seq
    BY <2>5, <2>8, <2>9, <2>10, ZenonT(40)
  <2>11. Ordered(events, q, txbuf', last)
    BY <1>3, <2>1, <2>10, Zenon DEF Ordered
  <2>12. QED
    BY <2>7, <2>11, Zenon
<1>12. QED
  BY <1>1, <1>3, <1>4, <1>8, <1>9, <1>10, <1>11, Zenon DEF OrderInv, TxIds

\* An event is polled: its frame is newer than all handed over before.
LEMMA TakeOrder ==
  ASSUME RxInv, OrderInv, TxInv, NEW checked \in BOOLEAN, Take(checked)
  PROVE  OrderInv'
<1>1. /\ events # <<>> /\ events' = Tail(events) /\ Hands(Head(events), checked) /\ UNCHANGED txVars
  BY Zenon DEF Take
<1>2. UNCHANGED <<hdr, txbuf, ring, written, spoilt>>
  BY <1>1 DEF txVars
<1>3. /\ events \in Seq(Event) /\ EventsInj(events) /\ ring \in Seq(Posted) /\ written \in Nat
  BY Zenon DEF RxInv, TxInv
<1>4. /\ ~wrong /\ last \in Nat /\ last <= written /\ \A t \in TxIds : txbuf[t].seq <= written
      /\ \A k \in 1 .. Len(events) : events[k].frame.seq <= written
      /\ \A k \in 1 .. Len(events) :
           events[k].rx => Accepts(hdr + events[k].frame.len, events[k].frame.check)
      /\ ~spoilt => Ordered(events, ring, txbuf, last)
  BY Zenon DEF OrderInv
<1>5. PICK h, t : h = Head(events) /\ t = Tail(events)
  OBVIOUS
<1>6. /\ t \in Seq(Event) /\ Len(t) = Len(events) - 1 /\ h = events[1]
      /\ \A k \in 1 .. Len(events) - 1 : t[k] = events[k + 1]
  BY <1>1, <1>3, <1>5, TailEvents, Zenon
<1>7. Len(events) \in Nat /\ Len(events) > 0 /\ 1 \in 1 .. Len(events)
  BY <1>1, <1>3
<1>8. \A k \in 1 .. Len(t) : k + 1 \in 1 .. Len(events) /\ t[k] = events[k + 1]
  BY <1>6, <1>7
<1>9. /\ \A k \in 1 .. Len(t) : t[k].frame.seq <= written
      /\ \A k \in 1 .. Len(t) : t[k].rx => Accepts(hdr + t[k].frame.len, t[k].frame.check)
  BY <1>4, <1>8, Zenon
<1>10. ~spoilt => Ordered(t, ring, txbuf, last) /\ Ordered(t, ring, txbuf, h.frame.seq) /\ last < h.frame.seq
  BY <1>3, <1>4, <1>6, <1>7, OrderTaken, Zenon
<1>11. /\ h.frame.seq <= written /\ h.frame.seq \in Nat
       /\ h.rx => Accepts(hdr + h.frame.len, h.frame.check)
  BY <1>3, <1>4, <1>6, <1>7, Numbers, Zenon
<1>12. ~wrong' /\ (last' = last \/ last' = h.frame.seq)
  <2>1. CASE h.rx \/ ~checked
    <3>1. /\ wrong' = (wrong \/ (~spoilt /\ h.frame.seq <= last)
                             \/ (checked /\ ~Accepts(hdr + h.frame.len, h.frame.check)))
          /\ last' = h.frame.seq
      BY <1>1, <1>5, <2>1, Zenon DEF Hands
    <3>2. ~(~spoilt /\ h.frame.seq <= last)
      BY <1>4, <1>10, <1>11
    <3>3. ~(checked /\ ~Accepts(hdr + h.frame.len, h.frame.check))
      BY <1>11, <2>1, Zenon
    <3>4. QED
      BY <1>4, <3>1, <3>2, <3>3
  <2>2. CASE ~(h.rx \/ ~checked)
    BY <1>1, <1>4, <1>5, <2>2, Zenon DEF Hands
  <2>3. QED
    BY <2>1, <2>2, Zenon
<1>13. last' \in Nat /\ last' <= written /\ (~spoilt => Ordered(t, ring, txbuf, last'))
  BY <1>4, <1>10, <1>11, <1>12, Zenon
<1>14. events' = t
  BY <1>1, <1>5, Zenon
<1>15. QED
  BY <1>2, <1>4, <1>9, <1>12, <1>13, <1>14, Zenon DEF OrderInv, TxIds

\* The steps that hand over nothing.
LEMMA OtherOrder ==
  ASSUME OrderInv, UNCHANGED txVars, UNCHANGED <<last, wrong>>, events' = events \/ events' = <<>>
  PROVE  OrderInv'
<1>1. UNCHANGED <<hdr, txbuf, ring, written, spoilt>>
  BY DEF txVars
<1>2. CASE events' = events
  BY <1>1, <1>2, Zenon DEF OrderInv, TxIds
<1>3. CASE events' = <<>>
  <2>1. \A k \in 1 .. Len(events') : FALSE
    BY <1>3
  <2>2. ~spoilt => Ordered(events', ring, txbuf, last)
    BY <2>1, Zenon DEF OrderInv, Ordered
  <2>3. QED
    BY <1>1, <2>1, <2>2, Zenon DEF OrderInv, TxIds
<1>4. QED
  BY <1>2, <1>3

\* The invariant of the whole path is inductive.
LEMMA StepOrderInv == FrameInv /\ TxInv /\ RxInv /\ OrderInv /\ [UdpNext]_udpVars => OrderInv'
<1> SUFFICES ASSUME FrameInv, TxInv, RxInv, OrderInv, [UdpNext]_udpVars PROVE OrderInv'
  OBVIOUS
<1>1. CASE Transmit
  BY <1>1, TransmitOrder
<1>2. CASE WriteX3
  BY <1>2, WriteX3Order
<1>3. CASE Write
  BY <1>3, WriteOrder
<1>4. CASE ReadUdp \/ ReadNoCheck \/ ReadEth \/ PollNet
  BY <1>4, TakeOrder, Zenon DEF ReadUdp, ReadNoCheck, ReadEth, PollNet
<1>5. CASE InitUdp \/ InitEth \/ InitCore \/ RxClose \/ ReadEnd \/ PollNetEnd \/ UNCHANGED udpVars
  <2>1. UNCHANGED txVars
    BY <1>5, ReceiverSteps, Zenon DEF Receiver
  <2>2. UNCHANGED <<last, wrong>> /\ (events' = events \/ events' = <<>>)
    BY <1>5 DEF InitUdp, InitEth, InitCore, Open, RxClose, ReadEnd, PollNetEnd, udpVars, rxVars
  <2>3. QED
    BY <2>1, <2>2, OtherOrder, Zenon
<1>6. QED
  BY <1>1, <1>2, <1>3, <1>4, <1>5, Zenon DEF UdpNext

\* From EfviUdpSender::write to the handlers of the receivers, for every size of the two
\* rings: the datagrams come in the order of the writes, none twice, unless a frame was
\* overwritten in the sender's ring, and read hands over none whose checksum is wrong.
THEOREM DatagramsInOrder == UdpSpec => []InOrder
<1>1. OrderInv => InOrder
  BY Zenon DEF OrderInv, InOrder
<1>2. QED
  BY <1>1, InitTxInv, StepTxInv, InitFrameInv, StepFrameInv, InitRxInv, StepRxInv,
     InitOrderInv, StepOrderInv, PTL DEF UdpSpec
=============================================================================
