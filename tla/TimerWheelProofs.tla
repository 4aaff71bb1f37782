-------------------------- MODULE TimerWheelProofs --------------------------
(***************************************************************************)
(* The timer wheel is correct for every number of slots, every duration    *)
(* and every start of the clock: its nodes stay where pollTime finds them  *)
(* (Placement), and it implements TimerService (WheelOnTime).              *)
(***************************************************************************)
EXTENDS TimerWheel, TLAPS

-----------------------------------------------------------------------------
(* Residues: of the clock, which wraps at Wrap, and of the slots of a wheel. *)

\* Euclidean division.
LEMMA DivMod ==
  ASSUME NEW N \in Nat \ {0}, NEW a \in Int
  PROVE  /\ a % N \in 0 .. N - 1
         /\ a \div N \in Int
         /\ a = N * (a \div N) + (a % N)
  OBVIOUS

\* A number is a multiple of N and its residue.
LEMMA ModOf ==
  ASSUME NEW N \in Nat \ {0}, NEW a \in Int
  PROVE  a % N \in 0 .. N - 1 /\ \E z \in Int : a = N * z + (a % N)
  BY DivMod, Zenon

\* The same, with the residue named.
LEMMA Decompose ==
  ASSUME NEW N \in Nat \ {0}, NEW a \in Int
  PROVE  \E r \in 0 .. N - 1, q \in Int : a = N * q + r
  BY DivMod, Zenon

\* Quotient and residue are unique.
LEMMA DivModUnique ==
  ASSUME NEW N \in Nat \ {0}, NEW a \in Int, NEW q \in Int, NEW r \in 0 .. N - 1,
         a = N * q + r
  PROVE  a % N = r /\ a \div N = q
  OBVIOUS

\* The residue of a number given as quotient and residue.
LEMMA ModSum ==
  ASSUME NEW N \in Nat \ {0}, NEW q \in Int, NEW r \in 0 .. N - 1
  PROVE  (N * q + r) % N = r
<1>1. PICK a \in Int : a = N * q + r
  OBVIOUS
<1>2. a % N = r
  BY <1>1, DivModUnique
<1>3. QED
  BY <1>1, <1>2, Zenon

\* A residue is its own residue.
LEMMA ModSmall ==
  ASSUME NEW N \in Nat \ {0}, NEW r \in 0 .. N - 1
  PROVE  r % N = r
<1>1. r = N * 0 + r
  OBVIOUS
<1>2. QED
  BY <1>1, DivModUnique

\* Adding a multiple of N does not change the residue.
LEMMA ModAdd ==
  ASSUME NEW N \in Nat \ {0}, NEW a \in Int, NEW b \in Int, NEW q \in Int, b = a + N * q
  PROVE  b % N = a % N
<1> DEFINE p == (a \div N) + q
<1>1. a % N \in 0 .. N - 1 /\ p \in Int /\ b = N * p + (a % N)
  BY DivMod
<1> HIDE DEF p
<1>2. QED
  BY <1>1, DivModUnique, Zenon

\* The residue by N of a residue by a multiple of N.
LEMMA ModMod ==
  ASSUME NEW N \in Nat \ {0}, NEW K \in Nat \ {0}, NEW W \in Nat \ {0}, W = N * K,
         NEW a \in Int
  PROVE  (a % W) % N = a % N
<1> DEFINE b == a % W
           q == K * (a \div W)
<1>1. b \in Int /\ q \in Int
  BY DivMod
<1>2. a = W * (a \div W) + b
  BY DivMod, Zenon
<1>3. a = b + N * q
  BY <1>1, <1>2, DivMod
<1> HIDE DEF b, q
<1>4. a % N = b % N
  BY <1>1, <1>3, ModAdd, Zenon
<1>5. QED
  BY <1>4 DEF b

\* Two residues that differ by a multiple of N are equal.
LEMMA SameResidue ==
  ASSUME NEW N \in Nat \ {0}, NEW x \in 0 .. N - 1, NEW y \in 0 .. N - 1,
         NEW q \in Int, x = y + N * q
  PROVE  x = y
<1>1. x % N = x /\ y % N = y
  <2>1. x = N * 0 + x /\ y = N * 0 + y
    OBVIOUS
  <2>2. QED
    BY <2>1, DivModUnique
<1>2. x % N = y % N
  BY ModAdd
<1>3. QED
  BY <1>1, <1>2

\* One tick of a clock that wraps at a multiple of N.
LEMMA NextTime ==
  ASSUME NEW N \in Nat \ {0}, NEW K \in Nat \ {0}, NEW now \in 0 .. (N * K) - 1
  PROVE  /\ (now + 1) % (N * K) \in 0 .. (N * K) - 1
         /\ ((now + 1) % (N * K)) % N = (now + 1) % N
         /\ \E q \in Int : (now + 1) % (N * K) = now + 1 + (N * K) * q
<1>0. PICK W \in Nat \ {0} : W = N * K
  OBVIOUS
<1>a. PICK nxt \in Int : nxt = (now + 1) % W
  BY <1>0, DivMod
<1>1. nxt \in 0 .. W - 1 /\ now + 1 \in Int
  BY <1>0, <1>a, DivMod
<1>2. nxt % N = (now + 1) % N
  BY <1>0, <1>a, <1>1, ModMod, Zenon
<1>3. PICK p \in Int : now + 1 = W * p + nxt
  BY <1>0, <1>a, <1>1, DivMod, Zenon
<1>4. nxt = now + 1 + W * (-p) /\ -p \in Int
  BY <1>0, <1>1, <1>3
<1>5. QED
  BY <1>0, <1>a, <1>1, <1>2, <1>4, Zenon

\* The residue of the time within the short wheel grows by one or turns over.
LEMMA NextResidue ==
  ASSUME NEW N \in Nat \ {0, 1}, NEW now \in Nat
  PROVE  \/ now % N = N - 1 /\ (now + 1) % N = 0
         \/ now % N # N - 1 /\ (now + 1) % N = (now % N) + 1
<1> DEFINE r == now % N
           q == now \div N
<1>1. r \in 0 .. N - 1 /\ q \in Int /\ now = N * q + r
  BY DivMod
<1> HIDE DEF r, q
<1>2. CASE r = N - 1
  <2>1. now + 1 = N * (q + 1) + 0
    BY <1>1, <1>2
  <2>2. (now + 1) % N = 0
    BY <2>1, <1>1, DivModUnique
  <2>3. QED
    BY <1>2, <2>2 DEF r
<1>3. CASE r # N - 1
  <2>1. now + 1 = N * q + (r + 1) /\ r + 1 \in 0 .. N - 1
    BY <1>1, <1>3
  <2>2. (now + 1) % N = r + 1
    BY <2>1, <1>1, DivModUnique
  <2>3. QED
    BY <1>3, <2>2 DEF r
<1>4. QED
  BY <1>2, <1>3

\* A tick takes a node of the short wheel one step nearer, and what is in the
\* current slot was one step away.
LEMMA ShortTick ==
  ASSUME NEW N \in Nat \ {0}, NEW now \in Int, NEW q \in Int, NEW s \in 0 .. N - 1
  PROVE  IF s = (now + 1 + N * q) % N THEN (s - now - 1) % N = 0
         ELSE (s - (now + 1 + N * q) - 1) % N = ((s - now - 1) % N) - 1
<1>n. PICK nxt \in Int : nxt = now + 1 + N * q
  OBVIOUS
<1>0. PICK a \in Int : a = s - now - 1
  OBVIOUS
<1>1. PICK x \in 0 .. N - 1, p \in Int : a = N * p + x
  BY DivMod, Zenon
<1>2. PICK y \in 0 .. N - 1, u \in Int : nxt = N * u + y
  BY DivMod, Zenon
<1>a. a % N = x /\ nxt % N = y
  BY <1>1, <1>2, DivModUnique
<1>3. CASE s = y
  <2>1. a = N * (q - u) + 0 /\ q - u \in Int
    BY <1>n, <1>0, <1>2, <1>3
  <2>2. a % N = 0
    BY <2>1, DivModUnique
  <2>3. QED
    BY <2>2, <1>n, <1>a, <1>0, <1>3, Zenon
<1>4. CASE s # y
  <2>1. x # 0
    <3>1. SUFFICES ASSUME x = 0 PROVE FALSE
      OBVIOUS
    <3>2. s = y + N * (p + u - q) /\ p + u - q \in Int
      BY <1>n, <1>0, <1>1, <1>2, <3>1
    <3>3. s = y
      BY <3>2, SameResidue
    <3>4. QED
      BY <3>3, <1>4
  <2>2. s - nxt - 1 = N * (p - q) + (x - 1) /\ p - q \in Int /\ x - 1 \in 0 .. N - 1
    BY <1>n, <1>0, <1>1, <2>1
  <2>3. (s - nxt - 1) % N = x - 1
    BY <2>2, DivModUnique
  <2>4. QED
    BY <2>3, <1>n, <1>a, <1>0, <1>4, Zenon
<1>5. QED
  BY <1>3, <1>4

\* The first case of ShortTick.
LEMMA ShortTickDue ==
  ASSUME NEW N \in Nat \ {0}, NEW now \in Int, NEW q \in Int, NEW s \in 0 .. N - 1,
         s = (now + 1 + N * q) % N
  PROVE  (s - now - 1) % N = 0
  BY ShortTick, Zenon

\* The second case of ShortTick.
LEMMA ShortTickNearer ==
  ASSUME NEW N \in Nat \ {0}, NEW now \in Int, NEW q \in Int, NEW s \in 0 .. N - 1,
         s # (now + 1 + N * q) % N
  PROVE  (s - (now + 1 + N * q) - 1) % N = ((s - now - 1) % N) - 1
  BY ShortTick, Zenon

\* A tick takes an expiry that is not due one step nearer.
LEMMA Countdown ==
  ASSUME NEW W \in Nat \ {0}, NEW e \in Int, NEW now \in Int, NEW q \in Int,
         (e - now) % W # 0
  PROVE  (e - (now + 1 + W * q)) % W = ((e - now) % W) - 1
<1>0. PICK nxt \in Int : nxt = now + 1 + W * q
  OBVIOUS
<1>1. PICK a \in Int, b \in Int : a = e - now /\ b = e - nxt
  OBVIOUS
<1>2. PICK x \in 0 .. W - 1, p \in Int : a = W * p + x
  BY DivMod, Zenon
<1>3. a % W = x
  BY <1>2, DivModUnique
<1>4. x # 0
  BY <1>1, <1>3
<1>5. b = W * (p - q) + (x - 1) /\ p - q \in Int /\ x - 1 \in 0 .. W - 1
  BY <1>0, <1>1, <1>2, <1>4
<1>6. b % W = x - 1
  BY <1>5, DivModUnique
<1>7. QED
  BY <1>0, <1>1, <1>3, <1>6

\* addTimer on the short wheel: the slot is d steps away.
LEMMA ShortAdd ==
  ASSUME NEW N \in Nat \ {0}, NEW now \in Int, NEW d \in 1 .. N
  PROVE  /\ (now + d) % N \in 0 .. N - 1
         /\ 1 + ((((now + d) % N) - now - 1) % N) = d
<1>0. PICK a \in Int : a = now + d
  OBVIOUS
<1>2. PICK x \in 0 .. N - 1, p \in Int : a = N * p + x
  BY DivMod, Zenon
<1>1. PICK b \in Int : b = x - now - 1
  OBVIOUS
<1>3. (now + d) % N = x
  BY <1>0, <1>2, DivModUnique, Zenon
<1>4. b = N * (-p) + (d - 1) /\ -p \in Int /\ d - 1 \in 0 .. N - 1
  BY <1>0, <1>1, <1>2
<1>5. b % N = d - 1
  BY <1>4, DivModUnique
<1>6. QED
  BY <1>1, <1>3, <1>5

\* addTimer on the long wheel: the expiry is c steps away.
LEMMA LongAdd ==
  ASSUME NEW W \in Nat \ {0}, NEW now \in Int, NEW c \in 0 .. W - 1, NEW e \in Int,
         e = (now + c) % W
  PROVE  e \in 0 .. W - 1 /\ (e - now) % W = c
<1>0. now + c \in Int /\ e - now \in Int
  OBVIOUS
<1>1. PICK a \in Int, b \in Int : a = now + c /\ b = e - now
  BY <1>0, Zenon
<1>2. PICK x \in 0 .. W - 1, p \in Int : a = W * p + x
  BY DivMod, Zenon
<1>3. e = x
  BY <1>1, <1>2, DivModUnique, Zenon
<1>4. b = W * (-p) + c /\ -p \in Int
  BY <1>1, <1>2, <1>3
<1>5. b % W = c
  BY <1>4, DivModUnique
<1>6. QED
  BY <1>1, <1>3, <1>5

\* At the turn of the short wheel, among expiries at most a turn of the long wheel
\* ahead, those in the slot that comes round are the ones due within a turn of
\* the short wheel.
LEMMA TurnAt ==
  ASSUME NEW N \in Nat \ {0}, NEW m \in Int, NEW y \in Int, NEW x \in 0 .. (N * N) - 1
  PROVE  IF x < N THEN ((N * (m + N * y) + x) \div N) % N = m % N
                  ELSE ((N * (m + N * y) + x) \div N) % N # m % N
<1>1. PICK e \in Int : e = N * (m + N * y) + x
  OBVIOUS
<1>2. x \in Int
  OBVIOUS
<1>3. PICK xr \in 0 .. N - 1, xq \in Int : x = N * xq + xr
  BY <1>2, Decompose, Zenon
<1>4. PICK f \in Int : f = m + N * y + xq
  OBVIOUS
<1>5. e = N * f + xr
  BY <1>1, <1>3, <1>4
<1>6. e \div N = f
  BY <1>5, DivModUnique
<1>7. PICK c \in 0 .. N - 1, v \in Int : m = N * v + c
  BY Decompose, Zenon
<1>8. m % N = c
  BY <1>7, DivModUnique
<1>9. xq \in 0 .. N - 1
  <2>1. xq >= 0
    BY <1>3
  <2>2. xq < N
    BY <1>3
  <2>3. QED
    BY <2>1, <2>2
<1>10. CASE f % N = c
  <2>1. PICK w \in Int : f = N * w + c
    BY <1>10, DivMod
  <2>2. xq = 0 + N * (w - v - y) /\ w - v - y \in Int
    BY <2>1, <1>4, <1>7
  <2>3. xq = 0
    BY <2>2, <1>9, SameResidue
  <2>4. x < N
    BY <2>3, <1>3
  <2>5. QED
    BY <2>4, <1>1, <1>10, <1>6, <1>8, Zenon
<1>11. CASE f % N # c
  <2>1. xq # 0
    <3>1. SUFFICES ASSUME xq = 0 PROVE FALSE
      OBVIOUS
    <3>2. f = N * (v + y) + c /\ v + y \in Int
      BY <1>4, <1>7, <3>1
    <3>3. f % N = c
      BY <3>2, DivModUnique
    <3>4. QED
      BY <3>3, <1>11
  <2>2. N * xq >= N
    BY <2>1, <1>9
  <2>3. ~(x < N)
    BY <2>2, <1>3
  <2>4. QED
    BY <2>3, <1>1, <1>11, <1>6, <1>8, Zenon
<1>12. QED
  BY <1>10, <1>11

-----------------------------------------------------------------------------
(* The wheel. *)

\* What the proofs use of the constants.
LEMMA Constants ==
  /\ TimerSlots \in Nat \ {0} /\ TimerSlots > 1
  /\ Wrap \in Nat \ {0}
  /\ \E k \in Int : Wrap = TimerSlots * (k * TimerSlots)
  /\ \E K \in Nat \ {0} : Wrap = TimerSlots * K
  /\ \E Q \in Nat : Q = TimerSlots * TimerSlots /\ Q >= 2 * TimerSlots /\ Wrap >= 2 * Q
  /\ MaxDuration \in 1 .. Wrap - 1
<1>1. PICK k \in Int : k >= 2 /\ Wrap = k * (TimerSlots * TimerSlots)
  BY TimerWheelAssumption
<1>2. TimerSlots \in Nat /\ TimerSlots > 1 /\ Wrap \in Nat
  BY TimerWheelAssumption
<1>3. PICK Q \in Nat : Q = TimerSlots * TimerSlots
  BY <1>2
<1>4. Q >= 2 * TimerSlots
  BY <1>2, <1>3
<1>5. Wrap = k * Q
  BY <1>1, <1>3
<1>6. Wrap >= 2 * Q
  BY <1>1, <1>5
<1>7. Wrap = TimerSlots * (k * TimerSlots) /\ k * TimerSlots \in Int
  BY <1>1, <1>2
<1>8. k * TimerSlots \in Nat \ {0}
  BY <1>1, <1>2
<1>9. Wrap > 0
  BY <1>2, <1>4, <1>6
<1>10. QED
  BY <1>2, <1>3, <1>4, <1>6, <1>7, <1>8, <1>9, TimerWheelAssumption

\* The slot of the long wheel that comes round at nxt holds, of the expiries at
\* most a turn of the long wheel ahead, those due within a turn of the short one.
LEMMA Turn ==
  \A nxt \in Time, e \in Time, x \in Int :
    nxt % TimerSlots = 0 /\ x = (e - nxt) % Wrap /\ x < TimerSlots * TimerSlots
    => (LongSlot(e) = LongSlot(nxt) <=> x < TimerSlots)
<1>0. SUFFICES ASSUME NEW nxt \in Time, NEW e \in Time, NEW x \in Int,
                      nxt % TimerSlots = 0, x = (e - nxt) % Wrap,
                      x < TimerSlots * TimerSlots
               PROVE  LongSlot(e) = LongSlot(nxt) <=> x < TimerSlots
  OBVIOUS
<1>1. TimerSlots \in Nat \ {0} /\ Wrap \in Nat \ {0} /\ nxt \in Int /\ e \in Int
  BY Constants DEF Time
<1>2. PICK k \in Int : Wrap = TimerSlots * (k * TimerSlots)
  BY Constants
<1>3. /\ (e - nxt) % Wrap \in 0 .. Wrap - 1
      /\ \E z \in Int : e - nxt = Wrap * z + ((e - nxt) % Wrap)
  <2>1. e - nxt \in Int
    BY <1>1
  <2>2. QED
    BY <1>1, <2>1, ModOf, Zenon
<1>4. x >= 0 /\ \E z \in Int : e - nxt = Wrap * z + x
  <2>1. x \in 0 .. Wrap - 1 /\ \E z \in Int : e - nxt = Wrap * z + x
    BY <1>0, <1>3, Zenon
  <2>2. QED
    BY <1>1, <2>1
<1>5. PICK z \in Int : e - nxt = Wrap * z + x
  BY <1>4
<1>6. PICK m \in Int : nxt = TimerSlots * m /\ nxt \div TimerSlots = m
  <2>1. nxt \div TimerSlots \in Int /\ nxt = TimerSlots * (nxt \div TimerSlots) + (nxt % TimerSlots)
    BY <1>1, DivMod, Zenon
  <2>2. QED
    BY <1>0, <1>1, <2>1
<1>y. PICK y \in Int : y = k * z
  OBVIOUS
<1>7. e = TimerSlots * (m + TimerSlots * y) + x
  <2>1. Wrap * z = TimerSlots * (TimerSlots * y)
    BY <1>1, <1>2, <1>y
  <2>2. QED
    BY <1>1, <1>5, <1>6, <2>1
<1>8. x < TimerSlots * TimerSlots /\ x >= 0
  BY <1>0, <1>4, Zenon
<1>9. (e \div TimerSlots) % TimerSlots = m % TimerSlots <=> x < TimerSlots
  <2>1. x \in 0 .. (TimerSlots * TimerSlots) - 1
    BY <1>1, <1>8
  <2>2. IF x < TimerSlots
        THEN ((TimerSlots * (m + TimerSlots * y) + x) \div TimerSlots) % TimerSlots = m % TimerSlots
        ELSE ((TimerSlots * (m + TimerSlots * y) + x) \div TimerSlots) % TimerSlots # m % TimerSlots
    BY <1>1, <2>1, TurnAt, Zenon
  <2>3. QED
    BY <1>7, <2>2, Zenon
<1>10. QED
  BY <1>6, <1>9, Zenon DEF LongSlot

\* addTimer on the short wheel.
LEMMA AddShort ==
  ASSUME NEW now \in Time, NEW d \in 1 .. TimerSlots
  PROVE  /\ ShortSlot(d, now) \in Slot
         /\ 1 + ((ShortSlot(d, now) - now - 1) % TimerSlots) = d
<1>1. PICK K \in Nat \ {0} : Wrap = TimerSlots * K
  BY Constants
<1>2. TimerSlots \in Nat \ {0} /\ Wrap \in Nat \ {0} /\ now + d \in Int /\ now \in Int
  BY Constants DEF Time
<1>3. ShortSlot(d, now) = (now + d) % TimerSlots
  BY <1>1, <1>2, ModMod, Zenon DEF ShortSlot
<1>4. ShortSlot(d, now) \in Int
  BY <1>2, <1>3, DivMod
<1>5. TimerSlots \in Nat \ {0} /\ now \in Int
  BY <1>2
<1>6. PICK s \in Int : s = ShortSlot(d, now)
  BY <1>4
<1>7. s = (now + d) % TimerSlots
  BY <1>3, <1>6, Zenon
<1>8. s \in 0 .. TimerSlots - 1 /\ 1 + ((s - now - 1) % TimerSlots) = d
  BY <1>7, <1>5, ShortAdd, Zenon
<1>9. QED
  BY <1>6, <1>8, Zenon DEF Slot

\* addTimer on the long wheel: line 690 keeps the expiry within TimerSlots turns.
LEMMA AddLong ==
  ASSUME NEW now \in Time, NEW d \in 1 .. MaxDuration, d > TimerSlots
  PROVE  /\ Expiry(d, now) \in Time
         /\ LongSlot(Expiry(d, now)) \in Slot
         /\ (Expiry(d, now) - now) % Wrap = Clamp(d, now)
         /\ Clamp(d, now) \in 1 .. MaxDuration
         /\ Clamp(d, now) >= TimerSlots - (now % TimerSlots)
         /\ Clamp(d, now) <= Longest(now)
         /\ \/ Clamp(d, now) = d
            \/ /\ d > TimerSlots * TimerSlots
               /\ Clamp(d, now) >= TimerSlots * TimerSlots
               /\ Clamp(d, now) <= d
<1>1. PICK Q \in Nat : Q = TimerSlots * TimerSlots /\ Q >= 2 * TimerSlots /\ Wrap >= 2 * Q
  BY Constants
<1>2. TimerSlots \in Nat \ {0} /\ Wrap \in Nat \ {0} /\ now \in Int /\ MaxDuration \in 1 .. Wrap - 1
  BY Constants DEF Time
<1>3. PICK r \in 0 .. TimerSlots - 1 : r = now % TimerSlots
  BY <1>2, DivMod
<1>4. TimerSlots * (TimerSlots + 1) = Q + TimerSlots
  BY <1>1, <1>2
<1>5. Longest(now) = Q + TimerSlots - 1 - r
  BY <1>2, <1>3, <1>4, SMT DEF Longest
<1>6. PICK c \in Int : c = Clamp(d, now)
  <2>1. Q + TimerSlots - 1 - r \in Int /\ d \in Int
    BY <1>1, <1>2
  <2>2. Clamp(d, now) \in Int
    BY <1>5, <2>1, Zenon DEF Clamp
  <2>3. QED
    BY <2>2, Zenon
<1>7. c = IF d <= Q + TimerSlots - 1 - r THEN d ELSE Q + TimerSlots - 1 - r
  BY <1>5, <1>6 DEF Clamp
<1>8. c \in 0 .. Wrap - 1 /\ c \in 1 .. MaxDuration /\ c >= TimerSlots - r
  BY <1>1, <1>2, <1>7
<1>9. c = d \/ (d > Q /\ c >= Q /\ c <= d)
  BY <1>1, <1>2, <1>7
<1>10. c <= Q + TimerSlots - 1 - r
  BY <1>1, <1>2, <1>7
<1>11. PICK e \in Int : e = (now + c) % Wrap
  BY <1>2, <1>8, DivMod
<1>12. e \in 0 .. Wrap - 1 /\ (e - now) % Wrap = c
  BY <1>2, <1>8, <1>11, LongAdd, ZenonT(40)
<1>13. Expiry(d, now) = e
  BY <1>6, <1>11 DEF Expiry
<1>14. LongSlot(e) \in Slot
  BY <1>2, DivMod DEF LongSlot, Slot
<1>15. QED
  BY <1>1, <1>3, <1>5, <1>6, <1>8, <1>9, <1>10, <1>12, <1>13, <1>14 DEF Time

\* A tick for a node of the long wheel: either it stays, one tick nearer and still
\* well placed, or it moves to the short wheel with less than a turn to go.
LEMMA LongTick ==
  ASSUME TypeOK, LongPlaced, NEW t \in Timer, list[t] = "long",
         NEW now \in Int, now = (now_ts + 1) % Wrap
  PROVE  /\ now \in Time
         /\ Remaining(t, now) \in Nat
         /\ Remaining(t, now) = Remaining(t, now_ts) - 1
         /\ Cascades(t, now) => Remaining(t, now) < TimerSlots /\ now % TimerSlots = 0
         /\ ~Cascades(t, now) => /\ Remaining(t, now) >= TimerSlots - (now % TimerSlots)
                                 /\ Remaining(t, now) <= Longest(now)
                                 /\ Remaining(t, now) >= 1
<1>1. TimerSlots \in Nat \ {0, 1} /\ Wrap \in Nat \ {0} /\ now_ts \in 0 .. Wrap - 1
  BY Constants DEF TypeOK, Time
<1>2. PICK Q \in Nat : Q = TimerSlots * TimerSlots /\ Q >= 2 * TimerSlots /\ Wrap >= 2 * Q
  BY Constants
<1>3. /\ now \in 0 .. Wrap - 1
      /\ now % TimerSlots = (now_ts + 1) % TimerSlots
      /\ \E q \in Int : now = now_ts + 1 + Wrap * q
  <2>1. PICK K \in Nat \ {0} : Wrap = TimerSlots * K
    BY Constants
  <2>2. QED
    <3>1. TimerSlots \in Nat \ {0} /\ now_ts \in 0 .. (TimerSlots * K) - 1
      BY <1>1, <2>1
    <3>2. QED
      BY <2>1, <3>1, NextTime, Zenon
<1>4. PICK e \in Time : e = expire_ts[t] /\ slot[t] = LongSlot(e)
  BY DEF TypeOK, LongPlaced
<1>5. PICK r \in 0 .. TimerSlots - 1 : r = now_ts % TimerSlots
  BY <1>1, DivMod
<1>6. PICK rr \in 0 .. TimerSlots - 1 : rr = now % TimerSlots
  BY <1>1, DivMod
<1>7. (r = TimerSlots - 1 /\ rr = 0) \/ (r # TimerSlots - 1 /\ rr = r + 1)
  <2>1. now_ts \in Nat
    BY <1>1
  <2>2. \/ now_ts % TimerSlots = TimerSlots - 1 /\ (now_ts + 1) % TimerSlots = 0
        \/ now_ts % TimerSlots # TimerSlots - 1 /\ (now_ts + 1) % TimerSlots = (now_ts % TimerSlots) + 1
    BY <1>1, <2>1, NextResidue, Zenon
  <2>3. QED
    BY <1>3, <1>5, <1>6, <2>2, Zenon
<1>8. TimerSlots * (TimerSlots + 1) = Q + TimerSlots
  BY <1>1, <1>2
<1>9. Longest(now_ts) = Q + TimerSlots - 1 - r /\ Longest(now) = Q + TimerSlots - 1 - rr
  BY <1>1, <1>5, <1>6, <1>8, SMT DEF Longest
<1>10. PICK R \in Nat : R = (e - now_ts) % Wrap
  <2>1. e - now_ts \in Int
    BY <1>1 DEF Time
  <2>2. (e - now_ts) % Wrap \in 0 .. Wrap - 1
    BY <1>1, <2>1, ModOf, Zenon
  <2>3. QED
    BY <2>2
<1>11. Remaining(t, now_ts) = R /\ Remaining(t, now) = (e - now) % Wrap
  BY <1>4, <1>10, Zenon DEF Remaining
<1>12. R >= TimerSlots - r /\ R <= Q + TimerSlots - 1 - r
  BY <1>5, <1>9, <1>11 DEF LongPlaced
<1>13. (e - now) % Wrap = R - 1
  <2>1. R # 0
    BY <1>1, <1>12
  <2>2. PICK q \in Int : now = now_ts + 1 + Wrap * q
    BY <1>3
  <2>3. (e - now_ts) % Wrap # 0 /\ now_ts \in Int /\ e \in Int
    BY <1>1, <1>10, <2>1 DEF Time
  <2>4. (e - now) % Wrap = ((e - now_ts) % Wrap) - 1
    <3>1. (e - (now_ts + 1 + Wrap * q)) % Wrap = ((e - now_ts) % Wrap) - 1
      BY <1>1, <2>3, Countdown, ZenonT(40)
    <3>2. QED
      BY <2>2, <3>1, Zenon
  <2>5. QED
    BY <1>10, <2>4, Zenon
<1>14. R - 1 \in Nat
  BY <1>1, <1>12
<1>15. CASE rr = 0
  <2>1. R - 1 < Q /\ R - 1 \in Int
    BY <1>1, <1>7, <1>12, <1>15
  <2>2. LongSlot(e) = LongSlot(now) <=> R - 1 < TimerSlots
    BY <1>2, <1>3, <1>6, <1>13, <1>15, <2>1, Turn, Zenon DEF Time
  <2>3. Cascades(t, now) <=> R - 1 < TimerSlots
    BY <1>4, <1>6, <1>15, <2>2, Zenon DEF Cascades
  <2>4. ~(R - 1 < TimerSlots) => R - 1 >= TimerSlots - rr /\ R - 1 <= Q + TimerSlots - 1 - rr /\ R - 1 >= 1
    BY <1>1, <1>15, <2>1
  <2>5. QED
    BY <1>3, <1>6, <1>9, <1>11, <1>13, <1>14, <1>15, <2>3, <2>4, Zenon DEF Time
<1>16. CASE rr # 0
  <2>1. ~Cascades(t, now)
    BY <1>6, <1>16, Zenon DEF Cascades
  <2>2. R - 1 >= TimerSlots - rr /\ R - 1 <= Q + TimerSlots - 1 - rr /\ R - 1 >= 1
    BY <1>1, <1>2, <1>7, <1>12, <1>16
  <2>3. QED
    BY <1>3, <1>6, <1>9, <1>11, <1>13, <1>14, <2>1, <2>2, Zenon DEF Time
<1>17. QED
  BY <1>15, <1>16

\* A tick for a node of the short wheel.
LEMMA ShortNodeTick ==
  ASSUME TypeOK, NEW t \in Timer, list[t] = "short", NEW now \in Int, now = (now_ts + 1) % Wrap
  PROVE  /\ Detached(t, now) => 1 + ((slot[t] - now_ts - 1) % TimerSlots) = 1
         /\ ~Detached(t, now) => 1 + ((slot[t] - now - 1) % TimerSlots)
                                 = (1 + ((slot[t] - now_ts - 1) % TimerSlots)) - 1
<1>1. TimerSlots \in Nat \ {0} /\ now_ts \in Int /\ slot[t] \in 0 .. TimerSlots - 1
  BY Constants DEF TypeOK, Time, Slot
<1>2. PICK K \in Nat \ {0} : Wrap = TimerSlots * K
  BY Constants
<1>3. now_ts \in 0 .. (TimerSlots * K) - 1
  BY <1>2 DEF TypeOK, Time
<1>4. PICK q \in Int : now = now_ts + 1 + (TimerSlots * K) * q
  BY <1>1, <1>2, <1>3, NextTime, Zenon
<1>5. PICK p \in Int : p = K * q
  OBVIOUS
<1>6. now = now_ts + 1 + TimerSlots * p
  BY <1>1, <1>4, <1>5
<1>7. IF slot[t] = now % TimerSlots THEN (slot[t] - now_ts - 1) % TimerSlots = 0
      ELSE (slot[t] - now - 1) % TimerSlots = ((slot[t] - now_ts - 1) % TimerSlots) - 1
  <2>1. PICK s \in 0 .. TimerSlots - 1 : s = slot[t]
    BY <1>1
  <2>2. s = (now_ts + 1 + TimerSlots * p) % TimerSlots => (s - now_ts - 1) % TimerSlots = 0
    BY <1>1, ShortTickDue, Zenon
  <2>3. s # (now_ts + 1 + TimerSlots * p) % TimerSlots
        => (s - (now_ts + 1 + TimerSlots * p) - 1) % TimerSlots = ((s - now_ts - 1) % TimerSlots) - 1
    BY <1>1, ShortTickNearer, Zenon
  <2>4. QED
    BY <1>6, <2>1, <2>2, <2>3, Zenon
<1>8. Detached(t, now) <=> slot[t] = now % TimerSlots
  BY DEF Detached, TickSlot, Cascades
<1>9. slot[t] - now_ts - 1 \in Int /\ (slot[t] - now_ts - 1) % TimerSlots \in Int
  <2>1. slot[t] - now_ts - 1 \in Int
    BY <1>1
  <2>2. (slot[t] - now_ts - 1) % TimerSlots \in 0 .. TimerSlots - 1
    BY <1>1, <2>1, ModOf, Zenon
  <2>3. QED
    BY <2>1, <2>2
<1>10. QED
  BY <1>7, <1>8, <1>9

\* A tick that moves a node to the short wheel: the node is detached at once if it
\* is due, and otherwise as many slots ahead as it has ticks to go.
LEMMA CascadeTick ==
  ASSUME TypeOK, LongPlaced, NEW t \in Timer, NEW now \in Int, now = (now_ts + 1) % Wrap,
         Cascades(t, now)
  PROVE  /\ TickSlot(t, now) \in Slot
         /\ Detached(t, now) => Remaining(t, now) = 0
         /\ ~Detached(t, now) => 1 + ((TickSlot(t, now) - now - 1) % TimerSlots) = Remaining(t, now)
<1>1. list[t] = "long"
  BY DEF Cascades
<1>2. now \in Time /\ Remaining(t, now) \in Nat /\ Remaining(t, now) < TimerSlots /\ now % TimerSlots = 0
  BY <1>1, LongTick
<1>3. TickSlot(t, now) = ShortSlot(Remaining(t, now), now)
  BY DEF TickSlot
<1>4. PICK x \in Nat : x = Remaining(t, now) /\ x < TimerSlots
  BY <1>2
<1>5. Detached(t, now) <=> ShortSlot(x, now) = 0
  BY <1>2, <1>3, <1>4, Zenon DEF Detached
<1>6. CASE x = 0
  <2>1. now + 0 = now /\ now \in 0 .. Wrap - 1 /\ Wrap \in Nat \ {0}
    BY <1>2, Constants DEF Time
  <2>2. now % Wrap = now
    BY <2>1, ModSmall, Zenon
  <2>3. ShortSlot(x, now) = 0
    BY <1>2, <1>6, <2>1, <2>2, Zenon DEF ShortSlot
  <2>4. 0 \in Slot
    BY Constants DEF Slot
  <2>5. QED
    BY <1>3, <1>4, <1>5, <1>6, <2>3, <2>4, Zenon
<1>7. CASE x # 0
  <2>1. x \in 1 .. TimerSlots
    BY <1>4, <1>7, Constants
  <2>2. ShortSlot(x, now) \in Slot /\ 1 + ((ShortSlot(x, now) - now - 1) % TimerSlots) = x
    BY <1>2, <2>1, AddShort, Zenon
  <2>3. ShortSlot(x, now) # 0
    <3>1. SUFFICES ASSUME ShortSlot(x, now) = 0 PROVE FALSE
      OBVIOUS
    <3>2. PICK m \in Int : now = TimerSlots * m
      <4>1. TimerSlots \in Nat \ {0}
        BY Constants
      <4>2. \E m \in Int : now = TimerSlots * m + (now % TimerSlots)
        BY <4>1, ModOf, Zenon
      <4>3. PICK m \in Int : now = TimerSlots * m + (now % TimerSlots)
        BY <4>2
      <4>4. now = TimerSlots * m
        BY <1>2, <4>1, <4>3
      <4>5. QED
        BY <4>4
    <3>3. PICK a \in Int : a = 0 - now - 1
      OBVIOUS
    <3>4. a = TimerSlots * (-m - 1) + (TimerSlots - 1) /\ -m - 1 \in Int /\ TimerSlots - 1 \in 0 .. TimerSlots - 1
      BY <3>2, <3>3, Constants
    <3>5. a % TimerSlots = TimerSlots - 1
        <4>1. TimerSlots \in Nat \ {0}
        BY Constants
      <4>2. (TimerSlots * (-m - 1) + (TimerSlots - 1)) % TimerSlots = TimerSlots - 1
        BY <3>4, <4>1, ModSum, Zenon
      <4>3. QED
        BY <3>4, <4>2, Zenon
    <3>6. 1 + (a % TimerSlots) = x
      BY <2>2, <3>1, <3>3, Zenon
    <3>7. QED
      BY <3>5, <3>6, <1>4, Constants
  <2>4. QED
    BY <1>3, <1>4, <1>5, <2>2, <2>3, Zenon
<1>8. QED
  BY <1>6, <1>7

-----------------------------------------------------------------------------
(* The invariants. *)

\* addTimer leaves every node well typed and the new one well placed.
LEMMA AddTimerInv ==
  ASSUME TypeOK, LongPlaced, NEW t \in Timer, NEW d \in 1 .. MaxDuration, AddTimer(t, d)
  PROVE  TypeOK' /\ LongPlaced'
<1>1. now_ts \in Time /\ TimerSlots \in Nat /\ d \in Int
  BY Constants DEF TypeOK
<1>2. CASE d <= TimerSlots
  <2>1. d \in 1 .. TimerSlots
    BY <1>1, <1>2
  <2>2. ShortSlot(d, now_ts) \in Slot
    BY <1>1, <2>1, AddShort, Zenon
  <2>3. /\ list' = [list EXCEPT ![t] = "short"]
        /\ slot' = [slot EXCEPT ![t] = ShortSlot(d, now_ts)]
        /\ expire_ts' = expire_ts /\ now_ts' = now_ts
    BY <1>2 DEF AddTimer
  <2>4. TypeOK'
    BY <2>2, <2>3 DEF TypeOK
  <2>5. LongPlaced'
    BY <2>3 DEF TypeOK, LongPlaced, Remaining
  <2>6. QED
    BY <2>4, <2>5
<1>3. CASE ~(d <= TimerSlots)
  <2>1. d > TimerSlots
    BY <1>1, <1>3
  <2>2. PICK e \in Time : e = Expiry(d, now_ts)
    BY <1>1, <2>1, AddLong, Zenon
  <2>3. /\ LongSlot(e) \in Slot
        /\ (e - now_ts) % Wrap = Clamp(d, now_ts)
        /\ Clamp(d, now_ts) >= TimerSlots - (now_ts % TimerSlots)
        /\ Clamp(d, now_ts) <= Longest(now_ts)
    BY <1>1, <2>1, <2>2, AddLong, Zenon
  <2>4. /\ list' = [list EXCEPT ![t] = "long"]
        /\ expire_ts' = [expire_ts EXCEPT ![t] = e]
        /\ slot' = [slot EXCEPT ![t] = LongSlot(e)] /\ now_ts' = now_ts
    BY <1>3, <2>2 DEF AddTimer, TypeOK
  <2>5. TypeOK'
    BY <2>3, <2>4 DEF TypeOK
  <2>6. ASSUME NEW u \in Timer, list'[u] = "long"
        PROVE  /\ slot'[u] = LongSlot(expire_ts'[u])
               /\ (expire_ts'[u] - now_ts) % Wrap >= TimerSlots - (now_ts % TimerSlots)
               /\ (expire_ts'[u] - now_ts) % Wrap <= Longest(now_ts)
    <3>1. CASE u = t
      <4>1. slot'[u] = LongSlot(e) /\ expire_ts'[u] = e
        BY <2>4, <3>1 DEF TypeOK
      <4>2. QED
        BY <2>3, <4>1, Zenon
    <3>2. CASE u # t
      <4>1. slot'[u] = slot[u] /\ expire_ts'[u] = expire_ts[u] /\ list[u] = "long"
        BY <2>4, <2>6, <3>2 DEF TypeOK
      <4>2. QED
        BY <4>1, Zenon DEF LongPlaced, Remaining
    <3>3. QED
      BY <3>1, <3>2
  <2>7. Longest(now_ts)' = Longest(now_ts)
    BY <2>4, Zenon DEF Longest
  <2>8. LongPlaced'
    BY <2>4, <2>6, Zenon DEF LongPlaced, Remaining, Longest
  <2>9. QED
    BY <2>5, <2>8
<1>4. QED
  BY <1>2, <1>3

\* A tick leaves every node well typed and those of the long wheel well placed.
LEMMA TickInv ==
  ASSUME TypeOK, LongPlaced, Tick
  PROVE  TypeOK' /\ LongPlaced'
<1>1. PICK now \in Int : now = (now_ts + 1) % Wrap /\ now \in Time
  <2>1. now_ts + 1 \in Int /\ Wrap \in Nat \ {0}
    BY Constants DEF TypeOK, Time
  <2>2. (now_ts + 1) % Wrap \in 0 .. Wrap - 1
    BY <2>1, ModOf, Zenon
  <2>3. (now_ts + 1) % Wrap \in Int
    BY <2>2
  <2>4. QED
    BY <2>2, <2>3, Zenon DEF Time
<1>2. /\ now_ts' = now
      /\ slot' = [t \in Timer |-> IF Detached(t, now) THEN 0 ELSE TickSlot(t, now)]
      /\ list' = [t \in Timer |-> IF Detached(t, now) THEN "dump"
                                 ELSE IF Cascades(t, now) THEN "short" ELSE list[t]]
      /\ expire_ts' = expire_ts
  BY <1>1, Zenon DEF Tick
<1>3. ASSUME NEW t \in Timer PROVE TickSlot(t, now) \in Slot
  <2>1. CASE Cascades(t, now)
    BY <1>1, <2>1, CascadeTick, Zenon
  <2>2. CASE ~Cascades(t, now)
    BY <2>2 DEF TickSlot, TypeOK
  <2>3. QED
    BY <2>1, <2>2
<1>4. 0 \in Slot
  BY Constants DEF Slot
<1>5. slot' \in [Timer -> Slot]
  BY <1>2, <1>3, <1>4, Zenon
<1>6. list' \in [Timer -> {"none", "short", "long", "dump"}]
  BY <1>2 DEF TypeOK
<1>7. TypeOK'
  BY <1>1, <1>2, <1>5, <1>6, Zenon DEF TypeOK, Time, Slot
<1>8. ASSUME NEW t \in Timer, list'[t] = "long"
      PROVE  /\ slot'[t] = LongSlot(expire_ts[t])
             /\ Remaining(t, now) >= TimerSlots - (now % TimerSlots)
             /\ Remaining(t, now) <= Longest(now)
  <2>1. ~Detached(t, now) /\ ~Cascades(t, now) /\ list[t] = "long"
    BY <1>2, <1>8
  <2>2. slot'[t] = slot[t]
    BY <1>2, <2>1, Zenon DEF TickSlot
  <2>3. QED
    BY <1>1, <2>1, <2>2, LongTick, Zenon DEF LongPlaced
<1>9. LongPlaced'
  BY <1>2, <1>8, Zenon DEF LongPlaced, Remaining, Longest
<1>10. QED
  BY <1>7, <1>9

\* The placement of the nodes is inductive: no timer is in a slot that is swept
\* too early or too late (addTimer, pollTime and unlink, Core.h:684-751).
THEOREM Placement == Spec => [](TypeOK /\ LongPlaced)
<1>1. Init => TypeOK /\ LongPlaced
  <2>1. ASSUME Init PROVE 0 \in Slot /\ 0 \in Time
    BY Constants DEF Slot, Time
  <2>2. QED
    BY <2>1 DEF Init, TypeOK, LongPlaced
<1>2. TypeOK /\ LongPlaced /\ [Next]_vars => (TypeOK /\ LongPlaced)'
  <2>1. SUFFICES ASSUME TypeOK, LongPlaced, [Next]_vars PROVE TypeOK' /\ LongPlaced'
    OBVIOUS
  <2>2. CASE Tick
    BY <2>1, <2>2, TickInv
  <2>3. ASSUME NEW t \in Timer, Unlink(t) PROVE TypeOK' /\ LongPlaced'
    <3>1. 0 \in Slot
      BY Constants DEF Slot
    <3>2. TypeOK'
      BY <2>1, <2>3, <3>1 DEF Unlink, TypeOK
    <3>3. LongPlaced'
      BY <2>1, <2>3 DEF Unlink, TypeOK, LongPlaced, Remaining, Longest
    <3>4. QED
      BY <3>2, <3>3
  <2>4. ASSUME NEW t \in Timer, Fire(t) PROVE TypeOK' /\ LongPlaced'
    <3>1. TypeOK'
      BY <2>1, <2>4 DEF Fire, TypeOK
    <3>2. LongPlaced'
      BY <2>1, <2>4 DEF Fire, TypeOK, LongPlaced, Remaining, Longest
    <3>3. QED
      BY <3>1, <3>2
  <2>5. ASSUME NEW t \in Timer, NEW d \in 1 .. MaxDuration, AddTimer(t, d)
        PROVE  TypeOK' /\ LongPlaced'
    BY <2>1, <2>5, AddTimerInv
  <2>6. CASE UNCHANGED vars
    BY <2>1, <2>6 DEF vars, TypeOK, LongPlaced, Remaining, Longest
  <2>7. QED
    BY <2>1, <2>2, <2>3, <2>4, <2>5, <2>6 DEF Next
<1>3. QED
  BY <1>1, <1>2, PTL DEF Spec

\* No node moves to the short wheel with a turn or more to go: the debug check of
\* pollTime (Core.h:725) never fires.
THEOREM CascadesInRange == Spec => []CascadeInRange
<1>1. TypeOK /\ LongPlaced => CascadeInRange
  <2>1. SUFFICES ASSUME TypeOK, LongPlaced, NEW t \in Timer, Cascades(t, (now_ts + 1) % Wrap)
                 PROVE  Remaining(t, (now_ts + 1) % Wrap) < TimerSlots
    BY Zenon DEF CascadeInRange
  <2>2. PICK now \in Int : now = (now_ts + 1) % Wrap
    <3>1. now_ts + 1 \in Int /\ Wrap \in Nat \ {0}
      BY <2>1, Constants DEF TypeOK, Time
    <3>2. (now_ts + 1) % Wrap \in 0 .. Wrap - 1
      BY <3>1, ModOf, Zenon
    <3>3. QED
      BY <3>2
  <2>3. list[t] = "long" /\ Cascades(t, now)
    BY <2>1, <2>2, Zenon DEF Cascades
  <2>4. QED
    BY <2>1, <2>2, <2>3, LongTick, Zenon
<1>2. QED
  BY <1>1, Placement, PTL

-----------------------------------------------------------------------------
(* The refinement. *)

\* Ticks to go, by the list the node is in.
LEMMA LeftCases ==
  ASSUME TypeOK, NEW t \in Timer
  PROVE  /\ list[t] = "none" => Left(t) = -1
         /\ list[t] = "dump" => Left(t) = 0
         /\ list[t] = "short" => Left(t) = 1 + ((slot[t] - now_ts - 1) % TimerSlots)
         /\ list[t] = "long" => Left(t) = Remaining(t, now_ts)
         /\ list[t] = "short" => Left(t) >= 1
  <1>1. /\ list[t] = "none" => Left(t) = -1
        /\ list[t] = "dump" => Left(t) = 0
        /\ list[t] = "short" => Left(t) = 1 + ((slot[t] - now_ts - 1) % TimerSlots)
        /\ list[t] = "long" => Left(t) = Remaining(t, now_ts)
    BY DEF Left
  <1>2. (slot[t] - now_ts - 1) % TimerSlots \in 0 .. TimerSlots - 1
    <2>1. slot[t] - now_ts - 1 \in Int /\ TimerSlots \in Nat \ {0}
      BY Constants DEF TypeOK, Slot, Time
    <2>2. QED
      BY <2>1, ModOf, Zenon
  <1>3. QED
    BY <1>1, <1>2

\* Only a detached node is due, and only a node in no list is not set.
LEMMA LeftOffDue ==
  ASSUME TypeOK, LongPlaced, NEW t \in Timer
  PROVE  /\ Left(t) = -1 <=> list[t] = "none"
         /\ Left(t) = 0 <=> list[t] = "dump"
<1>1. list[t] = "long" => Left(t) >= 1
  <2>1. SUFFICES ASSUME list[t] = "long" PROVE Remaining(t, now_ts) >= 1
    BY LeftCases
  <2>2. now_ts % TimerSlots \in 0 .. TimerSlots - 1 /\ TimerSlots \in Nat
    <3>1. now_ts \in Int /\ TimerSlots \in Nat \ {0}
      BY Constants DEF TypeOK, Time
    <3>2. QED
      BY <3>1, ModOf
  <2>3. Remaining(t, now_ts) >= TimerSlots - (now_ts % TimerSlots)
    BY <2>1, Zenon DEF LongPlaced
  <2>4. Remaining(t, now_ts) \in Int
    <3>1. expire_ts[t] - now_ts \in Int /\ Wrap \in Nat \ {0}
      BY Constants DEF TypeOK, Time
    <3>2. QED
      BY <3>1, DivMod DEF Remaining
  <2>5. QED
    BY <2>2, <2>3, <2>4
<1>2. list[t] \in {"none", "short", "long", "dump"}
  BY DEF TypeOK
<1>3. QED
  BY <1>1, <1>2, LeftCases

\* A tick takes every node that is set one tick nearer.
LEMMA TickLeft ==
  ASSUME TypeOK, LongPlaced, TypeOK', Tick, NEW t \in Timer
  PROVE  Left(t)' = IF Left(t) = -1 THEN -1 ELSE Left(t) - 1
<1>1. PICK now \in Int : now = (now_ts + 1) % Wrap
  <2>1. now_ts + 1 \in Int /\ Wrap \in Nat \ {0}
    BY Constants DEF TypeOK, Time
  <2>2. (now_ts + 1) % Wrap \in 0 .. Wrap - 1
    BY <2>1, ModOf, Zenon
  <2>3. QED
    BY <2>2
<1>2. /\ now_ts' = now
      /\ slot'[t] = IF Detached(t, now) THEN 0 ELSE TickSlot(t, now)
      /\ list'[t] = IF Detached(t, now) THEN "dump"
                    ELSE IF Cascades(t, now) THEN "short" ELSE list[t]
      /\ expire_ts'[t] = expire_ts[t] /\ list[t] # "dump"
  BY <1>1, Zenon DEF Tick
<1>3. /\ list'[t] = "none" => Left(t)' = -1
      /\ list'[t] = "dump" => Left(t)' = 0
      /\ list'[t] = "short" => Left(t)' = 1 + ((slot'[t] - now - 1) % TimerSlots)
      /\ list'[t] = "long" => Left(t)' = (expire_ts[t] - now) % Wrap
  BY <1>2 DEF Left, Remaining
<1>4. CASE list[t] = "none"
  <2>1. list'[t] = "none"
    BY <1>2, <1>4 DEF Detached, Cascades
  <2>2. QED
    BY <1>3, <1>4, <2>1, LeftCases
<1>5. CASE list[t] = "short"
  <2>1. ~Cascades(t, now) /\ TickSlot(t, now) = slot[t]
    BY <1>5 DEF Cascades, TickSlot
  <2>2. CASE Detached(t, now)
    <3>1. Left(t) = 1
      BY <1>1, <1>5, <2>2, ShortNodeTick, LeftCases
    <3>2. QED
      BY <1>2, <1>3, <2>2, <3>1
  <2>3. CASE ~Detached(t, now)
    <3>1. Left(t)' = 1 + ((slot[t] - now - 1) % TimerSlots)
      BY <1>2, <1>3, <1>5, <2>1, <2>3
    <3>2. Left(t)' = Left(t) - 1 /\ Left(t) # -1
      <4>1. Left(t) = 1 + ((slot[t] - now_ts - 1) % TimerSlots) /\ Left(t) # -1
        BY <1>5, LeftCases, LeftOffDue
      <4>2. 1 + ((slot[t] - now - 1) % TimerSlots) = (1 + ((slot[t] - now_ts - 1) % TimerSlots)) - 1
        BY <1>1, <1>5, <2>3, ShortNodeTick, Zenon
      <4>3. Left(t)' = (1 + ((slot[t] - now_ts - 1) % TimerSlots)) - 1
        BY <3>1, <4>2
      <4>4. Left(t)' = Left(t) - 1
        BY <4>1, <4>3, Zenon
      <4>5. QED
        BY <4>1, <4>4
    <3>3. QED
      BY <3>2
  <2>4. QED
    BY <2>2, <2>3
<1>6. CASE list[t] = "long"
  <2>1. Left(t) = Remaining(t, now_ts) /\ Left(t) # -1
    BY <1>6, LeftCases, LeftOffDue
  <2>2. Remaining(t, now) = Left(t) - 1
    BY <1>1, <1>6, <2>1, LongTick, Zenon
  <2>3. CASE Cascades(t, now)
    <3>1. CASE Detached(t, now)
      BY <1>1, <1>2, <1>3, <2>1, <2>2, <2>3, <3>1, CascadeTick, Zenon
    <3>2. CASE ~Detached(t, now)
      BY <1>1, <1>2, <1>3, <2>1, <2>2, <2>3, <3>2, CascadeTick, Zenon
    <3>3. QED
      BY <3>1, <3>2
  <2>4. CASE ~Cascades(t, now)
    <3>1. ~Detached(t, now)
      BY <1>6, <2>4 DEF Detached
    <3>2. Left(t)' = (expire_ts[t] - now) % Wrap
      BY <1>2, <1>3, <1>6, <2>4, <3>1, Zenon
    <3>3. QED
      BY <2>1, <2>2, <3>2, Zenon DEF Remaining
  <2>5. QED
    BY <2>3, <2>4
<1>7. QED
  BY <1>2, <1>4, <1>5, <1>6 DEF TypeOK

\* addTimer sets the node for the duration asked for, or, past the exact range, for
\* the longest the wheel takes.
LEMMA AddTimerLeft ==
  ASSUME TypeOK, NEW t \in Timer, NEW d \in 1 .. MaxDuration, AddTimer(t, d)
  PROVE  \E r \in 1 .. MaxDuration :
           /\ r = d \/ (d > TimerSlots * TimerSlots /\ r >= TimerSlots * TimerSlots /\ r <= d)
           /\ Left(t)' = r
<1>1. now_ts \in Time /\ TimerSlots \in Nat /\ d \in Int /\ now_ts' = now_ts
  BY Constants DEF TypeOK, AddTimer
<1>2. CASE d <= TimerSlots
  <2>1. d \in 1 .. TimerSlots
    BY <1>1, <1>2
  <2>2. list'[t] = "short" /\ slot'[t] = ShortSlot(d, now_ts)
    BY <1>2 DEF AddTimer, TypeOK
  <2>3. Left(t)' = 1 + ((ShortSlot(d, now_ts) - now_ts - 1) % TimerSlots)
    BY <1>1, <2>2 DEF Left
  <2>4. Left(t)' = d
    BY <1>1, <2>1, <2>3, AddShort, Zenon
  <2>5. QED
    BY <2>4, Zenon
<1>3. CASE ~(d <= TimerSlots)
  <2>1. d > TimerSlots
    BY <1>1, <1>3
  <2>2. list'[t] = "long" /\ expire_ts'[t] = Expiry(d, now_ts)
    BY <1>3 DEF AddTimer, TypeOK
  <2>3. Left(t)' = (Expiry(d, now_ts) - now_ts) % Wrap
    BY <1>1, <2>2 DEF Left, Remaining
  <2>4. Left(t)' = Clamp(d, now_ts)
    BY <1>1, <2>1, <2>3, AddLong, Zenon
  <2>5. /\ Clamp(d, now_ts) \in 1 .. MaxDuration
        /\ \/ Clamp(d, now_ts) = d
           \/ /\ d > TimerSlots * TimerSlots
              /\ Clamp(d, now_ts) >= TimerSlots * TimerSlots
              /\ Clamp(d, now_ts) <= d
    BY <1>1, <2>1, AddLong, Zenon
  <2>6. QED
    BY <2>4, <2>5, Zenon
<1>4. QED
  BY <1>2, <1>3

\* addTimer is a Set of the timer service, for the duration asked for.
LEMMA AddTimerSets ==
  ASSUME TypeOK, LongPlaced, NEW t \in Timer, NEW d \in 1 .. MaxDuration, AddTimer(t, d)
  PROVE  TS!Set(t, d)
<1> DEFINE L == [u \in Timer |-> Left(u)]
<1>1. \A u \in Timer : u # t => Left(u)' = Left(u)
  <2>1. SUFFICES ASSUME NEW u \in Timer, u # t PROVE Left(u)' = Left(u)
    OBVIOUS
  <2>2. /\ list'[u] = list[u] /\ slot'[u] = slot[u]
        /\ expire_ts'[u] = expire_ts[u] /\ now_ts' = now_ts
    BY <2>1 DEF AddTimer, TypeOK
  <2>3. QED
    BY <2>2 DEF Left, Remaining
<1>2. Left(t) = -1
  BY LeftOffDue DEF AddTimer
<1>3. PICK r \in 1 .. MaxDuration :
        /\ r = d \/ (d > TimerSlots * TimerSlots /\ r >= TimerSlots * TimerSlots /\ r <= d)
        /\ Left(t)' = r
  BY AddTimerLeft, Zenon
<1>4. L' = [L EXCEPT ![t] = r]
  BY <1>1, <1>3, Zenon
<1>5. L[t] = -1
  BY <1>2
<1>6. QED
  BY <1>3, <1>4, <1>5, Zenon DEF TS!Set, TS!Off

\* The wheel implements the timer service: the ticks to go of every timer count down
\* to the tick it is handed out at, whatever the number of slots, the durations
\* and the start of the clock (addTimer, unlink and pollTime, Core.h:684-751).
THEOREM WheelOnTime == Spec => OnTime
<1> DEFINE L == [t \in Timer |-> Left(t)]
<1>1. Init => TS!Init
  BY DEF Init, TS!Init, TS!Off, Left
<1>2. TypeOK /\ LongPlaced /\ TypeOK' /\ LongPlaced' /\ [Next]_vars => [TS!Next]_L
  <2>1. SUFFICES ASSUME TypeOK, LongPlaced, TypeOK', LongPlaced', [Next]_vars
                 PROVE  TS!Next \/ L' = L
    BY DEF TS!Next
  <2>2. CASE Tick
    <3>1. \A t \in Timer : L[t] # 0
      BY <2>1, <2>2, LeftOffDue DEF Tick
    <3>2. L' = [t \in Timer |-> IF L[t] = -1 THEN -1 ELSE L[t] - 1]
      BY <2>1, <2>2, TickLeft
    <3>3. TS!Tick
      BY <3>1, <3>2 DEF TS!Tick, TS!Off, TS!Due
    <3>4. QED
      BY <3>3 DEF TS!Next
  <2>3. ASSUME NEW t \in Timer, Unlink(t) PROVE TS!Next
    <3>1. \A u \in Timer : u # t => Left(u)' = Left(u)
      BY <2>1, <2>3 DEF Unlink, TypeOK, Left, Remaining
    <3>2. Left(t)' = -1 /\ Left(t) # -1
      <4>1. list'[t] = "none" /\ list[t] # "none"
        BY <2>1, <2>3 DEF Unlink, TypeOK
      <4>2. QED
        BY <2>1, <4>1, LeftOffDue, Zenon DEF Left
    <3>3. L' = [L EXCEPT ![t] = -1]
      BY <3>1, <3>2, Zenon
    <3>4. TS!Cancel(t)
      BY <3>2, <3>3 DEF TS!Cancel, TS!Off
    <3>5. QED
      BY <3>4 DEF TS!Next
  <2>4. ASSUME NEW t \in Timer, Fire(t) PROVE TS!Next
    <3>1. \A u \in Timer : u # t => Left(u)' = Left(u)
      BY <2>1, <2>4 DEF Fire, TypeOK, Left, Remaining
    <3>2. Left(t)' = -1 /\ Left(t) = 0
      <4>1. list'[t] = "none" /\ list[t] = "dump"
        BY <2>1, <2>4 DEF Fire, TypeOK
      <4>2. QED
        BY <2>1, <4>1, LeftOffDue DEF Left
    <3>3. L' = [L EXCEPT ![t] = -1]
      BY <3>1, <3>2, Zenon
    <3>4. TS!HandOut(t)
      BY <3>2, <3>3 DEF TS!HandOut, TS!Off, TS!Due
    <3>5. QED
      BY <3>4 DEF TS!Next
  <2>5. ASSUME NEW t \in Timer, NEW d \in 1 .. MaxDuration, AddTimer(t, d) PROVE TS!Next
    BY <2>1, <2>5, AddTimerSets DEF TS!Next
  <2>6. CASE UNCHANGED vars
    BY <2>6 DEF vars, Left, Remaining
  <2>7. QED
    BY <2>1, <2>2, <2>3, <2>4, <2>5, <2>6 DEF Next
<1>3. QED
  BY <1>1, <1>2, Placement, PTL DEF Spec, OnTime, TS!Spec

\* addTimer (Core.h:684-707) sets every timer for the duration asked for.
THEOREM TimersSetAsAsked == Spec => SetAsAsked
<1>1. TypeOK /\ LongPlaced /\ [Next]_vars
      => [\A t \in Timer, d \in 1 .. MaxDuration : AddTimer(t, d) => TS!Set(t, d)]_vars
  BY AddTimerSets, Zenon
<1>2. QED
  BY <1>1, Placement, PTL DEF Spec, SetAsAsked
=============================================================================
