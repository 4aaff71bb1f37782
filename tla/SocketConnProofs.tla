-------------------------- MODULE SocketConnProofs --------------------------
(***************************************************************************)
(* What the methods of SocketTcpConnection do to a connection, whatever    *)
(* the kernel and the user's handler do: the lemmas that the proofs of the *)
(* client and of the server share.                                         *)
(***************************************************************************)
EXTENDS SocketConn, TLAPS

Fields ==
  {"fd", "head", "tail", "recvbuf", "send_ts", "expire_ts", "last_error", "peer", "in",
   "read", "tx", "txq", "files", "consumed", "quiet", "timed_out", "ended"}

\* The fields that change together.
SameBuffer(c, d) == d.head = c.head /\ d.tail = c.tail /\ d.recvbuf = c.recvbuf
SameInput(c, d) == d.peer = c.peer /\ d.in = c.in /\ d.read = c.read /\ d.consumed = c.consumed
SameOutput(c, d) == d.tx = c.tx /\ d.txq = c.txq
SameState(c, d) ==
  d.fd = c.fd /\ d.files = c.files /\ d.last_error = c.last_error /\ d.ended = c.ended
SameTimes(c, d) ==
  d.expire_ts = c.expire_ts /\ d.quiet = c.quiet /\ d.timed_out = c.timed_out

-----------------------------------------------------------------------------
(* The invariant of a connection, and what its operations keep. *)

Typed(c) ==
  /\ DOMAIN c = Fields
  /\ c.fd \in BOOLEAN /\ c.files \in Int /\ c.txq \in Int
  /\ c.head \in Nat /\ c.tail \in Nat /\ c.recvbuf \in [0 .. RecvBufSize - 1 -> Int]
  /\ c.in \in Nat /\ c.read \in Nat /\ c.consumed \in Int
  /\ c.expire_ts \in Int /\ c.quiet \in Nat /\ c.timed_out \in BOOLEAN

\* The receive buffer.
Buffered(c) ==
  /\ Typed(c)
  /\ c.head <= c.tail /\ c.tail <= RecvBufSize /\ c.read <= c.in
  /\ ConnIntact(c)

\* Between two calls of onTcpData an open connection has room to read, which is
\* why a read of 0 bytes means the end of the stream.
HasRoom(c) == c.fd => c.tail < RecvBufSize

\* Descriptors the kernel has for the connection beside fd_.
Spare(c) == c.files - (IF c.fd THEN 1 ELSE 0)

\* An open connection has sent whole messages.
Whole(c) == c.fd => c.tx = 0

\* Operations do not open a connection or leak its descriptor, and say why they
\* closed it.
Kept(c, d) ==
  /\ Buffered(d) /\ Spare(d) = Spare(c)
  /\ d.fd => c.fd
  /\ ConnCloseReason(c) => ConnCloseReason(d)

\* What is kept by two steps is kept by both.
LEMMA KeptTrans ==
  ASSUME NEW c, NEW d, NEW e, Kept(c, d), Kept(d, e)
  PROVE  Kept(c, e)
  BY Zenon DEF Kept

\* The connection but for send_ts, which nothing depends on.
Like(c, d) ==
  /\ DOMAIN d = Fields
  /\ SameBuffer(c, d) /\ SameInput(c, d) /\ SameOutput(c, d) /\ SameState(c, d)
  /\ SameTimes(c, d)

\* send_ts does not matter to what is kept.
LEMMA LikeKept ==
  ASSUME NEW c, NEW d, Buffered(c), Like(c, d)
  PROVE  Kept(c, d)
<1>1. Buffered(d)
  BY DEF Like, Buffered, Typed, ConnIntact, SameBuffer, SameInput, SameOutput, SameState,
         SameTimes
<1>2. Spare(d) = Spare(c) /\ (d.fd => c.fd) /\ (ConnCloseReason(c) => ConnCloseReason(d))
  BY DEF Like, Spare, ConnCloseReason, SameState
<1>3. QED
  BY <1>1, <1>2 DEF Kept

\* A connection that was never used.
LEMMA NewConnSound ==
  /\ Buffered(NewConn) /\ ~NewConn.fd /\ ~NewConn.timed_out /\ Spare(NewConn) = 0
  /\ ConnCloseReason(NewConn)
<1>1. PICK c : c = NewConn
  BY Zenon
<1>2. DOMAIN c = Fields /\ ~c.fd /\ c.fd \in BOOLEAN /\ ~c.timed_out /\ c.timed_out \in BOOLEAN
  BY <1>1, Zenon DEF NewConn, Fields
<1>3. /\ c.head = 0 /\ c.tail = 0 /\ c.recvbuf = [l \in 0 .. RecvBufSize - 1 |-> 0]
      /\ c.expire_ts = 0 /\ c.in = 0 /\ c.read = 0 /\ c.txq = 0 /\ c.files = 0
      /\ c.consumed = 0 /\ c.quiet = 0 /\ c.last_error = ""
  BY <1>1, Zenon DEF NewConn
<1>4. 0 \in Nat /\ 0 \in Int /\ 0 <= 0 /\ 0 <= RecvBufSize
  BY SocketConnAssumption
<1>5. c.recvbuf \in [0 .. RecvBufSize - 1 -> Int]
  BY <1>3, <1>4, Zenon
<1>6. Typed(c)
  BY <1>2, <1>3, <1>4, <1>5, Zenon DEF Typed
<1>7. Buffered(c)
  BY <1>2, <1>3, <1>4, <1>6, Zenon DEF Buffered, ConnIntact
<1>8. Spare(c) = 0
  <2>1. Spare(c) = 0 - 0
    BY <1>2, <1>3, Zenon DEF Spare
  <2>2. QED
    BY <2>1
<1>9. ConnCloseReason(c)
  BY <1>3, Zenon DEF ConnCloseReason
<1>10. QED
  BY <1>1, <1>2, <1>7, <1>8, <1>9, Zenon

-----------------------------------------------------------------------------
(* close. *)

\* The peer has closed, and all its bytes were read.
AtEnd(c) == c.peer = "closed" /\ c.read = c.in

\* What close may be told.
ReasonTrue(c, reason) == reason = "remote close" => AtEnd(c)

Closed(c, d, reason) ==
  /\ DOMAIN d = Fields
  /\ d.fd \in BOOLEAN /\ ~d.fd /\ d.last_error = reason /\ d.files = c.files - 1
  /\ AtEnd(c) => d.ended
  /\ d.read = 0 /\ d.in = 0 /\ d.consumed = 0 /\ d.txq = 0
  /\ SameBuffer(c, d) /\ SameTimes(c, d)

\* close, field by field.
LEMMA CloseFields ==
  ASSUME NEW c, DOMAIN c = Fields, NEW reason
  PROVE  /\ c.fd => Closed(c, Close(c, reason), reason)
         /\ ~c.fd => Close(c, reason) = c
  BY Zenon DEF Closed, Close, Released, AtEnd, Fields, SameBuffer, SameTimes

\* close for a reason that is true.
LEMMA CloseKept ==
  ASSUME NEW c, Buffered(c), NEW reason, ReasonTrue(c, reason)
  PROVE  /\ Kept(c, Close(c, reason)) /\ ~Close(c, reason).fd
         /\ SameBuffer(c, Close(c, reason)) /\ SameTimes(c, Close(c, reason))
<1>0. DOMAIN c = Fields /\ c.fd \in BOOLEAN
  BY DEF Buffered, Typed
<1>1. CASE ~c.fd
  <2>1. Close(c, reason) = c
    BY <1>0, <1>1, CloseFields
  <2>2. QED
    BY <1>1, <2>1 DEF Kept, SameBuffer, SameTimes
<1>2. CASE c.fd
  <2>1. PICK d : d = Close(c, reason)
    OBVIOUS
  <2>2. Closed(c, d, reason)
    BY <1>0, <1>2, <2>1, CloseFields
  <2>3. Buffered(d)
    BY <2>2 DEF Closed, Buffered, Typed, ConnIntact, SameBuffer, SameTimes
  <2>4. Spare(d) = Spare(c)
    BY <1>2, <2>2 DEF Closed, Spare, Buffered, Typed
  <2>5. ConnCloseReason(d)
    BY <2>2, Zenon DEF Closed, ConnCloseReason, ReasonTrue
  <2>6. QED
    BY <1>2, <2>1, <2>2, <2>3, <2>4, <2>5, Zenon DEF Kept, Closed
<1>3. QED
  BY <1>0, <1>1, <1>2

-----------------------------------------------------------------------------
(* writeSome, writeNonblock and the callbacks. *)

Sent(c, d, n) ==
  /\ DOMAIN d = Fields /\ d.tx = (c.tx + n) % MsgSize /\ d.txq = c.txq + n
  /\ SameBuffer(c, d) /\ SameInput(c, d) /\ SameState(c, d) /\ SameTimes(c, d)

\* send, field by field.
LEMMA SentFields ==
  ASSUME NEW c, DOMAIN c = Fields, NEW n
  PROVE  Sent(c, [c EXCEPT !.tx = (@ + n) % MsgSize, !.txq = @ + n], n)
  BY Zenon DEF Sent, Fields, SameBuffer, SameInput, SameState, SameTimes

\* The send time, field by field.
LEMMA SendTsFields ==
  ASSUME NEW c, DOMAIN c = Fields, NEW ts
  PROVE  Like(c, [c EXCEPT !.send_ts = ts])
  BY Zenon DEF Like, Fields, SameBuffer, SameInput, SameOutput, SameState, SameTimes

\* A send leaves the receive side, the descriptor and the reason to close alone.
LEMMA SentKept ==
  ASSUME NEW c, Buffered(c), NEW n \in Int, NEW d, Sent(c, d, n)
  PROVE  Kept(c, d)
<1>1. Buffered(d)
  BY DEF Sent, Buffered, Typed, ConnIntact, SameBuffer, SameInput, SameState, SameTimes
<1>2. Spare(d) = Spare(c) /\ (d.fd => c.fd) /\ (ConnCloseReason(c) => ConnCloseReason(d))
  BY Zenon DEF Sent, Spare, ConnCloseReason, SameState
<1>3. QED
  BY <1>1, <1>2 DEF Kept

\* writeSome: the connection is as before and the bytes are sent, or it is closed.
LEMMA WriteSomeKept ==
  ASSUME NEW c, Buffered(c), NEW size \in Nat, NEW w \in WriteSome(c, size)
  PROVE  /\ Kept(c, w[2]) /\ SameBuffer(c, w[2]) /\ SameTimes(c, w[2])
         /\ w[1] \in Int
         /\ w[1] < 0 => ~w[2].fd
         /\ ~(w[1] < 0) => /\ SameInput(c, w[2]) /\ w[1] <= size
                           /\ w[2].tx = (c.tx + w[1]) % MsgSize
<1>0. DOMAIN c = Fields /\ c.txq \in Int
  BY DEF Buffered, Typed
<1>1. PICK ret \in SendCall(c, size) :
        w = LET d == IF ret < 0 THEN Close(c, "other")
                     ELSE [c EXCEPT !.tx = (@ + ret) % MsgSize, !.txq = @ + ret]
            IN  <<ret, IF SendTimeoutSec # 0 THEN [d EXCEPT !.send_ts = SendTimeoutSec] ELSE d>>
  BY Zenon DEF WriteSome
<1>2. ret \in Int /\ (~(ret < 0) => ret <= size)
  BY <1>0, SocketConnAssumption DEF SendCall, EError, Minimum
<1>3. PICK d : d = IF ret < 0 THEN Close(c, "other")
                   ELSE [c EXCEPT !.tx = (@ + ret) % MsgSize, !.txq = @ + ret]
  BY Zenon
<1>4. /\ Kept(c, d) /\ SameBuffer(c, d) /\ SameTimes(c, d)
      /\ ret < 0 => ~d.fd
      /\ ~(ret < 0) => SameInput(c, d) /\ d.tx = (c.tx + ret) % MsgSize
  <2>1. CASE ret < 0
    <3>1. d = Close(c, "other")
      BY <1>3, <2>1, Zenon
    <3>2. ReasonTrue(c, "other")
      BY Zenon DEF ReasonTrue
    <3>3. QED
      BY <2>1, <3>1, <3>2, CloseKept, Zenon
  <2>2. CASE ~(ret < 0)
    <3>1. Sent(c, d, ret)
      BY <1>0, <1>3, <2>2, SentFields, Zenon
    <3>2. QED
      BY <1>2, <2>2, <3>1, SentKept, Zenon DEF Sent
  <2>3. QED
    BY <2>1, <2>2, Zenon
<1>5. w[1] = ret /\ (w[2] = d \/ w[2] = [d EXCEPT !.send_ts = SendTimeoutSec])
  BY <1>1, <1>3, Zenon
<1>6. Buffered(d) /\ DOMAIN d = Fields
  BY <1>4 DEF Kept, Buffered, Typed
<1>7. w[2] = d \/ Like(d, w[2])
  <2>1. Like(d, [d EXCEPT !.send_ts = SendTimeoutSec])
    BY <1>6, SendTsFields, Zenon
  <2>2. QED
    BY <1>5, <2>1, Zenon
<1>8. CASE w[2] = d
  BY <1>2, <1>4, <1>5, <1>8, Zenon
<1>9. CASE Like(d, w[2])
  <2>1. Kept(c, w[2])
    BY <1>4, <1>6, <1>9, LikeKept, KeptTrans, Zenon
  <2>2. /\ SameBuffer(c, w[2]) /\ SameTimes(c, w[2]) /\ w[2].fd = d.fd /\ w[2].tx = d.tx
        /\ SameInput(c, d) => SameInput(c, w[2])
    BY <1>4, <1>9, Zenon DEF Like, SameBuffer, SameTimes, SameInput, SameOutput, SameState
  <2>3. QED
    BY <1>2, <1>4, <1>5, <2>1, <2>2, Zenon
<1>10. QED
  BY <1>7, <1>8, <1>9, Zenon

\* writeNonblock: a message is sent whole, or the connection is closed.
LEMMA WriteNonblockKept ==
  ASSUME NEW c, Buffered(c), NEW d \in WriteNonblock(c, MsgSize)
  PROVE  /\ Kept(c, d) /\ SameBuffer(c, d) /\ SameTimes(c, d)
         /\ d.fd => SameInput(c, d)
         /\ Whole(c) => Whole(d)
<1>0. MsgSize \in Nat
  BY SocketConnAssumption
<1>1. PICK w \in WriteSome(c, MsgSize) : d = IF w[1] # MsgSize THEN Close(w[2], "other") ELSE w[2]
  BY Zenon DEF WriteNonblock
<1>2. /\ Kept(c, w[2]) /\ SameBuffer(c, w[2]) /\ SameTimes(c, w[2])
      /\ w[1] \in Int
      /\ w[1] < 0 => ~w[2].fd
      /\ ~(w[1] < 0) => SameInput(c, w[2]) /\ w[2].tx = (c.tx + w[1]) % MsgSize
  BY <1>0, WriteSomeKept, Zenon
<1>3. CASE w[1] # MsgSize
  <2>1. d = Close(w[2], "other")
    BY <1>1, <1>3, Zenon
  <2>2. ReasonTrue(w[2], "other") /\ Buffered(w[2])
    BY <1>2, Zenon DEF ReasonTrue, Kept
  <2>3. Kept(w[2], d) /\ SameBuffer(w[2], d) /\ SameTimes(w[2], d) /\ ~d.fd
    BY <2>1, <2>2, CloseKept, Zenon
  <2>4. QED
    BY <1>2, <2>3, KeptTrans, Zenon DEF SameBuffer, SameTimes, Whole
<1>4. CASE w[1] = MsgSize
  <2>1. d = w[2] /\ SameInput(c, d) /\ d.tx = (c.tx + MsgSize) % MsgSize
    BY <1>0, <1>1, <1>2, <1>4
  <2>2. c.tx = 0 => (c.tx + MsgSize) % MsgSize = 0
    BY SocketConnAssumption
  <2>3. QED
    BY <1>2, <2>1, <2>2, Zenon DEF Whole, Kept
<1>5. QED
  BY <1>3, <1>4, Zenon

\* A callback of the user leaves the receive buffer and the timeouts alone.
LEMMA CallbackKept ==
  ASSUME NEW c, Buffered(c), NEW d \in Callback(c)
  PROVE  /\ Kept(c, d) /\ SameBuffer(c, d) /\ SameTimes(c, d)
         /\ d.fd => SameInput(c, d)
         /\ Whole(c) => Whole(d)
<1>1. CASE d = c
  BY <1>1, Zenon DEF Kept, SameBuffer, SameTimes, SameInput
<1>2. CASE d = Close(c, "other")
  <2>1. ReasonTrue(c, "other")
    BY Zenon DEF ReasonTrue
  <2>2. QED
    BY <1>2, <2>1, CloseKept, Zenon DEF Whole
<1>3. CASE d \in WriteNonblock(c, MsgSize)
  BY <1>3, WriteNonblockKept, Zenon
<1>4. QED
  BY <1>1, <1>2, <1>3, Zenon DEF Callback

-----------------------------------------------------------------------------
(* read. *)

Buf == [0 .. RecvBufSize - 1 -> Int]

\* ConnIntact, for the numbers.
Window(buf, head, tail, read, consumed) ==
  /\ read - consumed = tail - head
  /\ \A l \in head .. tail - 1 : buf[l] = consumed + l - head + 1

Fill(buf, tail, read, n) ==
  [l \in DOMAIN buf |-> IF l \in tail .. tail + n - 1 THEN read + l - tail + 1 ELSE buf[l]]

Shift(buf, rem, head) == [l \in DOMAIN buf |-> IF l < rem THEN buf[l + head] ELSE buf[l]]

\* The bytes a read puts behind the others continue the stream.
LEMMA FillWindow ==
  ASSUME NEW buf \in Buf, NEW head \in Nat, NEW tail \in Nat, NEW read \in Nat,
         NEW consumed \in Int, NEW n \in Nat,
         Window(buf, head, tail, read, consumed), tail + n <= RecvBufSize
  PROVE  /\ Fill(buf, tail, read, n) \in Buf
         /\ Window(Fill(buf, tail, read, n), head, tail + n, read + n, consumed)
<1>1. RecvBufSize \in Nat
  BY SocketConnAssumption
<1>2. Fill(buf, tail, read, n) \in Buf
  BY <1>1 DEF Buf, Fill
<1>3. ASSUME NEW l \in head .. tail + n - 1
      PROVE  Fill(buf, tail, read, n)[l] = consumed + l - head + 1
  <2>1. l \in 0 .. RecvBufSize - 1 /\ l \in Int /\ DOMAIN buf = 0 .. RecvBufSize - 1
    BY <1>1 DEF Buf
  <2>2. CASE l < tail
    <3>1. Fill(buf, tail, read, n)[l] = buf[l]
      BY <2>1, <2>2 DEF Fill
    <3>2. QED
      BY <2>1, <2>2, <3>1 DEF Window
  <2>3. CASE l >= tail
    <3>1. Fill(buf, tail, read, n)[l] = read + l - tail + 1
      BY <2>1, <2>3 DEF Fill
    <3>2. QED
      BY <2>1, <2>3, <3>1 DEF Window
  <2>4. QED
    BY <2>1, <2>2, <2>3
<1>4. (read + n) - consumed = (tail + n) - head
  <2>1. read - consumed = tail - head
    BY Zenon DEF Window
  <2>2. QED
    BY <2>1
<1>5. Window(Fill(buf, tail, read, n), head, tail + n, read + n, consumed)
  BY <1>3, <1>4 DEF Window
<1>6. QED
  BY <1>2, <1>5

\* memmove to the start of the buffer.
LEMMA ShiftBuf ==
  ASSUME NEW buf \in Buf, NEW tail \in Nat, NEW rem \in Nat,
         tail <= RecvBufSize, rem <= tail
  PROVE  Shift(buf, rem, tail - rem) \in Buf
<1>1. RecvBufSize \in Nat
  BY SocketConnAssumption
<1>2. QED
  BY <1>1 DEF Buf, Shift

\* The handler leaves rem bytes, and they are moved to the start or not.
LEMMA ShiftWindow ==
  ASSUME NEW buf \in Buf, NEW head \in Nat, NEW tail \in Nat, NEW read \in Nat,
         NEW consumed \in Int, NEW rem \in Nat,
         Window(buf, head, tail, read, consumed), tail <= RecvBufSize, rem <= tail - head
  PROVE  /\ Window(Shift(buf, rem, tail - rem), 0, rem, read, consumed + (tail - head) - rem)
         /\ Window(buf, tail - rem, tail, read, consumed + (tail - head) - rem)
<1>1. RecvBufSize \in Nat
  BY SocketConnAssumption
<1>2. Window(Shift(buf, rem, tail - rem), 0, rem, read, consumed + (tail - head) - rem)
  <2>1. ASSUME NEW l \in 0 .. rem - 1
        PROVE  Shift(buf, rem, tail - rem)[l] = (consumed + (tail - head) - rem) + l - 0 + 1
    <3>1. l \in DOMAIN buf /\ l < rem /\ l + (tail - rem) \in head .. tail - 1
      BY <1>1 DEF Buf
    <3>2. Shift(buf, rem, tail - rem)[l] = buf[l + (tail - rem)]
      BY <3>1 DEF Shift
    <3>3. QED
      BY <3>1, <3>2 DEF Window
  <2>2. read - consumed = tail - head
    BY Zenon DEF Window
  <2>3. read - (consumed + (tail - head) - rem) = rem - 0
    BY <2>2
  <2>4. QED
    BY <2>1, <2>3, Zenon DEF Window
<1>3. Window(buf, tail - rem, tail, read, consumed + (tail - head) - rem)
  BY <1>1 DEF Window, Buf
<1>4. QED
  BY <1>2, <1>3

Filled(c, d, n) ==
  /\ DOMAIN d = Fields
  /\ d.head = c.head /\ d.tail = c.tail + n /\ d.recvbuf = Fill(c.recvbuf, c.tail, c.read, n)
  /\ d.peer = c.peer /\ d.in = c.in /\ d.read = c.read + n /\ d.consumed = c.consumed
  /\ SameOutput(c, d) /\ SameState(c, d)
  /\ d.expire_ts = c.expire_ts /\ d.quiet = 0 /\ d.timed_out = c.timed_out

\* read into the buffer, field by field.
LEMMA FilledFields ==
  ASSUME NEW c, DOMAIN c = Fields, NEW n
  PROVE  Filled(c, [c EXCEPT !.tail = @ + n, !.read = @ + n, !.quiet = 0,
                      !.recvbuf = [l \in DOMAIN @ |-> IF l \in c.tail .. c.tail + n - 1
                                                      THEN c.read + l - c.tail + 1 ELSE @[l]]], n)
  BY Zenon DEF Filled, Fields, SameOutput, SameState, Fill

\* read appends what it takes from the stream.
LEMMA FilledKept ==
  ASSUME NEW c, Buffered(c), c.fd, NEW n \in Nat, n <= Room(c), n <= c.in - c.read,
         NEW d, Filled(c, d, n)
  PROVE  Kept(c, d)
<1>1. RecvBufSize \in Nat
  BY SocketConnAssumption
<1>2. /\ c.head \in Nat /\ c.tail \in Nat /\ c.in \in Nat /\ c.read \in Nat
      /\ c.consumed \in Int /\ c.recvbuf \in Buf
      /\ c.head <= c.tail /\ c.tail + n <= RecvBufSize /\ c.read + n <= c.in
  BY <1>1 DEF Buffered, Typed, Room, Buf
<1>3. /\ d.head = c.head /\ d.tail = c.tail + n /\ d.in = c.in /\ d.read = c.read + n
      /\ d.consumed = c.consumed /\ d.recvbuf = Fill(c.recvbuf, c.tail, c.read, n)
  BY Zenon DEF Filled
<1>4. Window(c.recvbuf, c.head, c.tail, c.read, c.consumed)
  BY Zenon DEF Buffered, ConnIntact, Window
<1>5. d.recvbuf \in Buf /\ Window(d.recvbuf, d.head, d.tail, d.read, d.consumed)
  <2>1. /\ Fill(c.recvbuf, c.tail, c.read, n) \in Buf
        /\ Window(Fill(c.recvbuf, c.tail, c.read, n), c.head, c.tail + n, c.read + n, c.consumed)
    BY <1>2, <1>4, FillWindow, Zenon
  <2>2. QED
    BY <1>3, <2>1, Zenon
<1>6. Typed(d)
  <2>1. /\ DOMAIN d = Fields /\ d.fd = c.fd /\ d.files = c.files /\ d.txq = c.txq
        /\ d.expire_ts = c.expire_ts /\ d.quiet = 0 /\ d.timed_out = c.timed_out
    BY Zenon DEF Filled, SameState, SameOutput
  <2>2. QED
    BY <1>2, <1>3, <1>5, <2>1, SMTT(30) DEF Buffered, Typed, Buf
<1>7. ConnIntact(d)
  BY <1>5, Zenon DEF ConnIntact, Window
<1>8. Spare(d) = Spare(c) /\ (d.fd => c.fd) /\ (ConnCloseReason(c) => ConnCloseReason(d))
  BY Zenon DEF Filled, Spare, ConnCloseReason, SameState
<1>9. d.head <= d.tail /\ d.tail <= RecvBufSize /\ d.read <= d.in
  BY <1>2, <1>3
<1>10. QED
  BY <1>6, <1>7, <1>8, <1>9, Zenon DEF Kept, Buffered

\* The three ways in which Settle leaves the buffer.
Emptied(c, d) == d.head = 0 /\ d.tail = 0 /\ d.recvbuf = c.recvbuf
Moved(c, d, rem) ==
  /\ c.tail - rem >= RecvBufSize \div 2
  /\ d.head = 0 /\ d.tail = rem
  /\ d.recvbuf = Shift(c.recvbuf, rem, c.tail - rem)
Advanced(c, d, rem) ==
  /\ ~(c.tail - rem >= RecvBufSize \div 2)
  /\ d.head = c.tail - rem /\ d.tail = c.tail /\ d.recvbuf = c.recvbuf

SameButBuffer(c, d) ==
  /\ DOMAIN d = Fields
  /\ SameInput(c, d) /\ SameOutput(c, d) /\ SameState(c, d) /\ SameTimes(c, d)

\* The four ends of read: nothing is left, it is moved to the start, it stays, or the
\* buffer is full.
LEMMA SettleCases ==
  ASSUME NEW c, DOMAIN c = Fields, NEW rem
  PROVE  \E d : /\ SameButBuffer(c, d)
                /\ \/ rem = 0 /\ Emptied(c, d) /\ Settle(c, rem) = d
                   \/ rem # 0 /\ Moved(c, d, rem) /\ Settle(c, rem) = d
                   \/ rem # 0 /\ Advanced(c, d, rem) /\ c.tail # RecvBufSize /\ Settle(c, rem) = d
                   \/ rem # 0 /\ Advanced(c, d, rem) /\ Settle(c, rem) = Close(d, "other")
<1> USE DEF SameButBuffer, Emptied, Moved, Advanced, Settle, Fields, SameInput, SameOutput,
            SameState, SameTimes, Shift
<1> DEFINE head == c.tail - rem
<1>1. CASE rem = 0
  <2> WITNESS [c EXCEPT !.head = 0, !.tail = 0]
  <2> QED
    BY <1>1, Zenon
<1>2. CASE rem # 0 /\ head >= RecvBufSize \div 2
  <2> WITNESS [c EXCEPT !.head = 0, !.tail = rem,
                 !.recvbuf = [l \in DOMAIN @ |-> IF l < rem THEN @[l + head] ELSE @[l]]]
  <2> QED
    BY <1>2, Zenon
<1>3. CASE rem # 0 /\ ~(head >= RecvBufSize \div 2)
  <2> WITNESS [c EXCEPT !.head = head]
  <2> QED
    BY <1>3, Zenon
<1>4. QED
  BY <1>1, <1>2, <1>3, Zenon

Consumed(u, v, size, rem) ==
  /\ DOMAIN v = Fields /\ v.consumed = u.consumed + size - rem
  /\ v.peer = u.peer /\ v.in = u.in /\ v.read = u.read
  /\ SameBuffer(u, v) /\ SameOutput(u, v) /\ SameState(u, v) /\ SameTimes(u, v)

\* What the callback has consumed, field by field.
LEMMA ConsumedFields ==
  ASSUME NEW u, DOMAIN u = Fields, NEW k, NEW m
  PROVE  Consumed(u, [u EXCEPT !.consumed = @ + k - m], k, m)
  BY Zenon DEF Consumed, Fields, SameBuffer, SameOutput, SameState, SameTimes

\* The user has taken what it will of the size bytes given, and rem remain: the buffer
\* is intact again, and has room.
LEMMA SettleKept ==
  ASSUME NEW u, Buffered(u), NEW rem \in Nat, rem <= u.tail - u.head,
         NEW v, Consumed(u, v, u.tail - u.head, rem)
  PROVE  /\ Kept(u, Settle(v, rem)) /\ HasRoom(Settle(v, rem)) /\ SameTimes(u, Settle(v, rem))
         /\ Settle(v, rem).fd => Settle(v, rem).tx = u.tx
<1>1. RecvBufSize \in Nat /\ RecvBufSize \div 2 \in Nat /\ RecvBufSize - (RecvBufSize \div 2) < RecvBufSize
  BY SocketConnAssumption
<1>2. /\ u.head \in Nat /\ u.tail \in Nat /\ u.in \in Nat /\ u.read \in Nat
      /\ u.consumed \in Int /\ u.recvbuf \in Buf
      /\ u.head <= u.tail /\ u.tail <= RecvBufSize /\ u.read <= u.in
  BY DEF Buffered, Typed, Buf
<1>3. PICK d : /\ SameButBuffer(v, d)
               /\ \/ rem = 0 /\ Emptied(v, d) /\ Settle(v, rem) = d
                  \/ rem # 0 /\ Moved(v, d, rem) /\ Settle(v, rem) = d
                  \/ rem # 0 /\ Advanced(v, d, rem) /\ v.tail # RecvBufSize /\ Settle(v, rem) = d
                  \/ rem # 0 /\ Advanced(v, d, rem) /\ Settle(v, rem) = Close(d, "other")
  BY SettleCases, Zenon DEF Consumed
<1>4. /\ DOMAIN d = Fields /\ d.in = u.in /\ d.read = u.read /\ SameTimes(u, d)
      /\ d.consumed = u.consumed + (u.tail - u.head) - rem
      /\ SameOutput(u, d) /\ SameState(u, d) /\ v.tail = u.tail /\ v.recvbuf = u.recvbuf
  BY <1>3, Zenon DEF Consumed, SameButBuffer, SameInput, SameOutput, SameState, SameTimes,
                     SameBuffer
<1>5. /\ d.recvbuf \in Buf /\ d.head \in Nat /\ d.tail \in Nat
      /\ d.head <= d.tail /\ d.tail <= RecvBufSize
      /\ d.tail < RecvBufSize \/ Settle(v, rem) = Close(d, "other")
      /\ d.fd => Window(d.recvbuf, d.head, d.tail, d.read, d.consumed)
  <2>1. u.fd => Window(u.recvbuf, u.head, u.tail, u.read, u.consumed)
    BY Zenon DEF Buffered, ConnIntact, Window
  <2>2. u.fd => /\ Window(Shift(u.recvbuf, rem, u.tail - rem), 0, rem, u.read,
                          u.consumed + (u.tail - u.head) - rem)
                /\ Window(u.recvbuf, u.tail - rem, u.tail, u.read,
                          u.consumed + (u.tail - u.head) - rem)
    BY <1>2, <2>1, ShiftWindow, Zenon
  <2>3. rem \in Nat /\ rem <= u.tail
    BY <1>2
  <2>4. Shift(u.recvbuf, rem, u.tail - rem) \in Buf
    BY <1>2, <2>3, ShiftBuf, Zenon
  <2>5. CASE rem = 0 /\ Emptied(v, d) /\ Settle(v, rem) = d
    <3>1. d.head = 0 /\ d.tail = 0 /\ d.recvbuf = u.recvbuf
      BY <1>4, <2>5, Zenon DEF Emptied
    <3>2. d.fd => Window(d.recvbuf, 0, 0, d.read, d.consumed)
      BY <1>2, <1>4, <2>5, <3>1, <2>2 DEF SameState, Window
    <3>3. QED
      BY <1>1, <1>2, <3>1, <3>2, SocketConnAssumption
  <2>6. CASE rem # 0 /\ Moved(v, d, rem) /\ Settle(v, rem) = d
    <3>1. /\ d.head = 0 /\ d.tail = rem /\ d.recvbuf = Shift(u.recvbuf, rem, u.tail - rem)
          /\ u.tail - rem >= RecvBufSize \div 2
      BY <1>4, <2>6, Zenon DEF Moved
    <3>2. d.fd => Window(d.recvbuf, d.head, d.tail, d.read, d.consumed)
      BY <1>4, <2>2, <3>1, Zenon DEF SameState
    <3>3. rem < RecvBufSize
      BY <1>1, <1>2, <3>1
    <3>4. QED
      BY <1>1, <1>2, <2>4, <3>1, <3>2, <3>3
  <2>7. CASE rem # 0 /\ Advanced(v, d, rem)
             /\ (v.tail # RecvBufSize \/ Settle(v, rem) = Close(d, "other"))
    <3>1. d.head = u.tail - rem /\ d.tail = u.tail /\ d.recvbuf = u.recvbuf
      BY <1>4, <2>7, Zenon DEF Advanced
    <3>2. d.fd => Window(d.recvbuf, d.head, d.tail, d.read, d.consumed)
      BY <1>4, <2>2, <3>1, Zenon DEF SameState
    <3>3. d.head \in Nat /\ d.head <= d.tail /\ (v.tail # RecvBufSize => d.tail < RecvBufSize)
      BY <1>1, <1>2, <1>4, <2>3, <3>1
    <3>4. QED
      BY <1>2, <2>7, <3>1, <3>2, <3>3, Zenon
  <2>8. QED
    BY <1>3, <2>5, <2>6, <2>7, Zenon
<1>6. Kept(u, d)
  <2>1. Typed(d)
    <3>1. /\ d.fd = u.fd /\ d.files = u.files /\ d.txq = u.txq
          /\ d.expire_ts = u.expire_ts /\ d.quiet = u.quiet /\ d.timed_out = u.timed_out
      BY <1>4, Zenon DEF SameState, SameOutput, SameTimes
    <3>2. d.consumed \in Int
      BY <1>2, <1>4
    <3>3. QED
      BY <1>2, <1>4, <1>5, <3>1, <3>2, Zenon DEF Buffered, Typed, Buf
  <2>2. ConnIntact(d)
    BY <1>5, Zenon DEF ConnIntact, Window
  <2>3. Spare(d) = Spare(u) /\ (d.fd => u.fd) /\ (ConnCloseReason(u) => ConnCloseReason(d))
    BY <1>4, Zenon DEF Spare, ConnCloseReason, SameState
  <2>4. d.read <= d.in
    BY <1>2, <1>4
  <2>5. QED
    BY <1>5, <2>1, <2>2, <2>3, <2>4, Zenon DEF Kept, Buffered
<1>7. CASE Settle(v, rem) = d /\ d.tail < RecvBufSize
  BY <1>4, <1>6, <1>7, Zenon DEF HasRoom, SameOutput
<1>8. CASE Settle(v, rem) = Close(d, "other")
  <2>1. ReasonTrue(d, "other") /\ Buffered(d)
    BY <1>6, Zenon DEF ReasonTrue, Kept
  <2>2. Kept(d, Settle(v, rem)) /\ SameTimes(d, Settle(v, rem)) /\ ~Settle(v, rem).fd
    BY <1>8, <2>1, CloseKept, Zenon
  <2>3. QED
    BY <1>4, <1>6, <2>2, KeptTrans, Zenon DEF HasRoom, SameTimes
<1>9. QED
  BY <1>3, <1>5, <1>7, <1>8, Zenon

\* What the operations of pollConn keep, between two calls of onTcpData.
Steady(c, d) == Kept(c, d) /\ (HasRoom(c) => HasRoom(d)) /\ (Whole(c) => Whole(d))

\* Two steady steps are one.
LEMMA SteadyTrans ==
  ASSUME NEW c, NEW d, NEW e, Steady(c, d), Steady(d, e)
  PROVE  Steady(c, e)
  BY KeptTrans, Zenon DEF Steady

\* A read of n bytes, with onTcpData.
LEMMA OnDataSteady ==
  ASSUME NEW c, Buffered(c), c.fd, NEW n \in Nat, n <= Room(c), n <= c.in - c.read,
         NEW d \in OnData(c, n)
  PROVE  /\ Kept(c, d) /\ HasRoom(d) /\ (Whole(c) => Whole(d))
         /\ d.expire_ts = c.expire_ts /\ d.quiet = 0 /\ d.timed_out = c.timed_out
<1>0. DOMAIN c = Fields
  BY DEF Buffered, Typed
<1> DEFINE e == [c EXCEPT !.tail = @ + n, !.read = @ + n, !.quiet = 0,
                   !.recvbuf = [l \in DOMAIN @ |-> IF l \in c.tail .. c.tail + n - 1
                                                   THEN c.read + l - c.tail + 1 ELSE @[l]]]
<1>2. Filled(c, e, n)
  BY <1>0, FilledFields, Zenon
<1>3. PICK u \in Callback(e), rem \in {Minimum(r, e.tail - e.head) : r \in Remains} :
        d = Settle([u EXCEPT !.consumed = @ + (e.tail - e.head) - rem], rem)
  BY Zenon DEF OnData
<1> HIDE DEF e
<1>4. Kept(c, e) /\ Buffered(e)
  BY <1>2, FilledKept, Zenon DEF Kept
<1>5. Kept(e, u) /\ SameBuffer(e, u) /\ SameTimes(e, u) /\ (Whole(e) => Whole(u))
  BY <1>3, <1>4, CallbackKept, Zenon
<1>6. Buffered(u) /\ DOMAIN u = Fields /\ u.tail = e.tail /\ u.head = e.head
  BY <1>5, Zenon DEF Kept, Buffered, Typed, SameBuffer
<1>7. rem \in Nat /\ rem <= u.tail - u.head
  <2>1. PICK r \in Remains : rem = Minimum(r, e.tail - e.head)
    BY <1>3, Zenon
  <2>2. r \in Nat /\ e.tail \in Nat /\ e.head \in Nat /\ e.head <= e.tail
    BY <1>4, SocketConnAssumption, Zenon DEF Buffered, Typed
  <2>3. QED
    BY <1>6, <2>1, <2>2 DEF Minimum
<1>8. PICK v : v = [u EXCEPT !.consumed = @ + (e.tail - e.head) - rem]
  BY Zenon
<1>9. Consumed(u, v, u.tail - u.head, rem)
  BY <1>6, <1>8, ConsumedFields, Zenon
<1>10. d = Settle(v, rem)
  BY <1>3, <1>8, Zenon
<1>11. Kept(u, d) /\ HasRoom(d) /\ SameTimes(u, d) /\ (d.fd => d.tx = u.tx)
  BY <1>6, <1>7, <1>9, <1>10, SettleKept, Zenon
<1>12. Kept(c, d)
  BY <1>4, <1>5, <1>11, KeptTrans, Zenon
<1>13. Whole(c) => Whole(d)
  BY <1>2, <1>5, <1>11, Zenon DEF Whole, Kept, Filled, SameState, SameOutput
<1>14. d.expire_ts = c.expire_ts /\ d.quiet = 0 /\ d.timed_out = c.timed_out
  BY <1>2, <1>5, <1>11, Zenon DEF SameTimes, Filled
<1>15. QED
  BY <1>11, <1>12, <1>13, <1>14, Zenon

\* The outcomes of the read call.
LEMMA ReadCallCases ==
  ASSUME NEW c, NEW n \in ReadCall(c)
  PROVE  \/ n = EError \/ n = EAgain
         \/ n = 0 /\ c.fd /\ Room(c) = 0
         \/ n = 0 /\ c.fd /\ ~(c.in - c.read > 0) /\ c.peer = "closed"
         \/ c.fd /\ n \in 1 .. Room(c) /\ n <= c.in - c.read
  BY Zenon DEF ReadCall

\* read: "remote close" is the reason only at the end of the stream.
LEMMA ReadSteady ==
  ASSUME NEW c, Buffered(c), HasRoom(c), NEW r \in Read(c)
  PROVE  /\ Steady(c, r[2])
         /\ r[1] \in BOOLEAN
         /\ r[2].expire_ts = c.expire_ts /\ r[2].timed_out = c.timed_out
         /\ ~r[1] => r[2].quiet = c.quiet
         /\ r[1] => r[2].quiet = 0
<1>0. EAgain # EError /\ EAgain # 0 /\ EError # 0
  BY DEF EAgain, EError
<1>1. PICK n \in ReadCall(c) :
        r \in CASE n = EAgain -> {<<FALSE, c>>}
              [] n = EError -> {<<FALSE, Close(c, "other")>>}
              [] n = 0      -> {<<FALSE, Close(c, "remote close")>>}
              [] OTHER      -> {<<TRUE, d>> : d \in OnData(c, n)}
  BY Zenon DEF Read
<1>2. Room(c) \in Int /\ (c.fd => Room(c) # 0) /\ c.in - c.read \in Nat
  BY SocketConnAssumption DEF Room, HasRoom, Buffered, Typed
<1>3. CASE n = EAgain
  <2>1. r = <<FALSE, c>>
    BY <1>0, <1>1, <1>3, Zenon
  <2>2. QED
    BY <2>1, Zenon DEF Steady, Kept
<1>4. CASE n = EError
  <2>1. r = <<FALSE, Close(c, "other")>>
    BY <1>0, <1>1, <1>4, Zenon
  <2>2. ReasonTrue(c, "other")
    BY Zenon DEF ReasonTrue
  <2>3. QED
    BY <2>1, <2>2, CloseKept, Zenon DEF Steady, HasRoom, Whole, SameTimes
<1>5. CASE n = 0
  <2>1. r = <<FALSE, Close(c, "remote close")>>
    BY <1>0, <1>1, <1>5, Zenon
  <2>2. c.peer = "closed" /\ ~(c.in - c.read > 0)
    <3>1. 0 \notin 1 .. Room(c)
      BY <1>2
    <3>2. QED
      BY <1>0, <1>2, <1>5, <3>1, ReadCallCases, Zenon
  <2>3. c.read = c.in
    BY <2>2 DEF Buffered, Typed
  <2>4. ReasonTrue(c, "remote close")
    BY <2>2, <2>3, Zenon DEF ReasonTrue, AtEnd
  <2>5. QED
    BY <2>1, <2>4, CloseKept, Zenon DEF Steady, HasRoom, Whole, SameTimes
<1>6. CASE n \notin {EAgain, EError, 0}
  <2>1. PICK d \in OnData(c, n) : r = <<TRUE, d>>
    BY <1>1, <1>6, Zenon
  <2>2. c.fd /\ n \in Nat /\ n <= Room(c) /\ n <= c.in - c.read
    <3>1. c.fd /\ n \in 1 .. Room(c) /\ n <= c.in - c.read
      BY <1>6, ReadCallCases, Zenon
    <3>2. QED
      BY <1>2, <3>1
  <2>3. /\ Kept(c, d) /\ HasRoom(d) /\ (Whole(c) => Whole(d))
        /\ d.expire_ts = c.expire_ts /\ d.quiet = 0 /\ d.timed_out = c.timed_out
    BY <2>1, <2>2, OnDataSteady, Zenon
  <2>4. QED
    BY <2>1, <2>3, Zenon DEF Steady
<1>7. QED
  BY <1>3, <1>4, <1>5, <1>6, Zenon

-----------------------------------------------------------------------------
(* pollConn. *)

\* The receive timeout is RecvTimeoutSec after the last data or later, but for the
\* age of now.
Deadline(c) ==
  c.quiet >= RecvTimeoutSec \/ c.expire_ts + c.quiet >= RecvTimeoutSec - MaxLag

\* The check of the send timeout.
LEMMA CheckSendTimeoutSteady ==
  ASSUME NEW c, Buffered(c), NEW lag, NEW d \in CheckSendTimeout(c, lag)
  PROVE  Steady(c, d) /\ SameTimes(c, d)
<1>1. CASE d = c
  BY <1>1, Zenon DEF Steady, Kept, SameTimes
<1>2. CASE d # c
  <2>1. PICK e \in Callback(c) : d = [e EXCEPT !.send_ts = SendTimeoutSec - lag]
    BY <1>2, Zenon DEF CheckSendTimeout
  <2>2. Kept(c, e) /\ SameBuffer(c, e) /\ SameTimes(c, e) /\ (Whole(c) => Whole(e))
    BY <2>1, CallbackKept, Zenon
  <2>3. Buffered(e) /\ DOMAIN e = Fields
    BY <2>2, Zenon DEF Kept, Buffered, Typed
  <2>4. Like(e, d)
    BY <2>1, <2>3, SendTsFields, Zenon
  <2>5. Kept(c, d)
    BY <2>2, <2>3, <2>4, LikeKept, KeptTrans, Zenon
  <2>6. SameTimes(c, d) /\ SameBuffer(c, d) /\ (Whole(c) => Whole(d))
    BY <2>2, <2>4, Zenon DEF Like, SameTimes, SameBuffer, SameOutput, SameState, Whole
  <2>7. HasRoom(c) => HasRoom(d)
    BY <2>5, <2>6, Zenon DEF HasRoom, Kept, SameBuffer
  <2>8. QED
    BY <2>5, <2>6, <2>7, Zenon DEF Steady
<1>3. QED
  BY <1>1, <1>2, Zenon

\* The connection but for the times.
SameButTimes(c, d) ==
  /\ DOMAIN d = Fields
  /\ SameBuffer(c, d) /\ SameInput(c, d) /\ SameOutput(c, d) /\ SameState(c, d)

\* The times touch neither the buffer, nor the streams, nor the descriptor.
LEMMA TimesSteady ==
  ASSUME NEW c, Buffered(c), NEW d, SameButTimes(c, d),
         d.expire_ts \in Int, d.quiet \in Nat, d.timed_out \in BOOLEAN
  PROVE  Steady(c, d)
<1>1. /\ DOMAIN d = Fields
      /\ d.head = c.head /\ d.tail = c.tail /\ d.recvbuf = c.recvbuf
      /\ d.in = c.in /\ d.read = c.read /\ d.consumed = c.consumed
      /\ d.fd = c.fd /\ d.files = c.files /\ d.txq = c.txq /\ d.tx = c.tx
      /\ d.last_error = c.last_error /\ d.ended = c.ended
  BY Zenon DEF SameButTimes, SameBuffer, SameInput, SameOutput, SameState
<1>2. Typed(d)
  BY <1>1, Zenon DEF Buffered, Typed
<1>3. Buffered(d)
  BY <1>1, <1>2, Zenon DEF Buffered, ConnIntact
<1>4. QED
  BY <1>1, <1>3, Zenon DEF Steady, Kept, Spare, HasRoom, Whole, ConnCloseReason

\* The receive timeout put off, field by field.
LEMMA ExpireFields ==
  ASSUME NEW c, DOMAIN c = Fields, NEW ts
  PROVE  LET d == [c EXCEPT !.expire_ts = ts]
         IN  SameButTimes(c, d) /\ d.expire_ts = ts /\ d.quiet = c.quiet /\ d.timed_out = c.timed_out
  BY Zenon DEF Fields, SameButTimes, SameBuffer, SameInput, SameOutput, SameState

\* A call of onRecvTimeout recorded, field by field.
LEMMA TimedOutFields ==
  ASSUME NEW c, DOMAIN c = Fields, NEW b
  PROVE  LET d == [c EXCEPT !.timed_out = b]
         IN  /\ SameButTimes(c, d)
             /\ d.expire_ts = c.expire_ts /\ d.quiet = c.quiet /\ d.timed_out = b
  BY Zenon DEF Fields, SameButTimes, SameBuffer, SameInput, SameOutput, SameState

\* onRecvTimeout is called only after RecvTimeoutSec without data.
LEMMA CheckRecvTimeoutSteady ==
  ASSUME NEW got \in BOOLEAN, NEW c, Buffered(c), ~c.timed_out, NEW lag \in 0 .. MaxLag,
         NEW d \in CheckRecvTimeout(got, c, lag)
  PROVE  /\ Steady(c, d)
         /\ got \/ Deadline(c) => Deadline(d) /\ ConnTimeoutTrue(d)
<1>1. RecvTimeoutSec \in Nat /\ MaxLag \in Nat
  BY SocketConnAssumption
<1>2. DOMAIN c = Fields /\ c.expire_ts \in Int /\ c.quiet \in Nat
  BY DEF Buffered, Typed
<1>3. CASE RecvTimeoutSec = 0 /\ d = c
  <2>1. Deadline(d)
    BY <1>1, <1>2, <1>3 DEF Deadline
  <2>2. QED
    BY <1>3, <2>1, Zenon DEF Steady, Kept, ConnTimeoutTrue
<1>4. CASE RecvTimeoutSec # 0 /\ got
  <2>1. d = [c EXCEPT !.expire_ts = RecvTimeoutSec - lag]
    BY <1>4, Zenon DEF CheckRecvTimeout
  <2>2. /\ SameButTimes(c, d) /\ d.expire_ts = RecvTimeoutSec - lag /\ d.quiet = c.quiet
        /\ d.timed_out = c.timed_out
    BY <1>2, <2>1, ExpireFields, Zenon
  <2>3. d.expire_ts \in Int /\ d.quiet \in Nat /\ Deadline(d)
    BY <1>1, <1>2, <2>2 DEF Deadline
  <2>4. d.timed_out \in BOOLEAN /\ ~d.timed_out
    BY <2>2, Zenon DEF Buffered, Typed
  <2>5. QED
    BY <2>2, <2>3, <2>4, TimesSteady, Zenon DEF ConnTimeoutTrue
<1>5. CASE RecvTimeoutSec # 0 /\ ~got /\ c.expire_ts <= -lag
  <2> DEFINE e == [c EXCEPT !.timed_out = TRUE]
  <2>1. PICK u \in Callback(e) : d = [u EXCEPT !.expire_ts = RecvTimeoutSec - lag]
    BY <1>5, Zenon DEF CheckRecvTimeout
  <2>2. /\ SameButTimes(c, e) /\ e.expire_ts = c.expire_ts /\ e.quiet = c.quiet
        /\ e.timed_out = TRUE
    BY <1>2, TimedOutFields, Zenon
  <2> HIDE DEF e
  <2>3. Steady(c, e) /\ Buffered(e)
    BY <1>2, <2>2, TimesSteady, Zenon DEF Steady, Kept
  <2>4. Kept(e, u) /\ SameBuffer(e, u) /\ SameTimes(e, u) /\ (Whole(e) => Whole(u))
    BY <2>1, <2>3, CallbackKept, Zenon
  <2>5. Steady(e, u) /\ Buffered(u) /\ DOMAIN u = Fields
    BY <2>4, Zenon DEF Steady, Kept, Buffered, Typed, HasRoom, SameBuffer
  <2>6. /\ SameButTimes(u, d) /\ d.expire_ts = RecvTimeoutSec - lag /\ d.quiet = u.quiet
        /\ d.timed_out = u.timed_out
    BY <2>1, <2>5, ExpireFields, Zenon
  <2>7. d.expire_ts \in Int /\ d.quiet = c.quiet /\ d.timed_out \in BOOLEAN
    <3>1. RecvTimeoutSec - lag \in Int
      BY <1>1
    <3>2. QED
      BY <2>2, <2>4, <2>6, <3>1, Zenon DEF SameTimes
  <2>8. Steady(c, d)
    BY <1>2, <2>3, <2>5, <2>6, <2>7, TimesSteady, SteadyTrans, Zenon
  <2>9. Deadline(d)
    BY <1>1, <1>2, <2>6, <2>7 DEF Deadline
  <2>10. Deadline(c) => d.quiet >= RecvTimeoutSec - MaxLag
    BY <1>1, <1>2, <1>5, <2>7 DEF Deadline
  <2>11. QED
    BY <1>5, <2>8, <2>9, <2>10, Zenon DEF ConnTimeoutTrue
<1>6. CASE RecvTimeoutSec # 0 /\ ~got /\ ~(c.expire_ts <= -lag)
  <2>1. d = c
    BY <1>6, Zenon DEF CheckRecvTimeout
  <2>2. QED
    BY <1>6, <2>1, Zenon DEF Steady, Kept, ConnTimeoutTrue
<1>7. RecvTimeoutSec = 0 => d = c
  BY Zenon DEF CheckRecvTimeout
<1>8. QED
  BY <1>3, <1>4, <1>5, <1>6, <1>7, Zenon

\* One poll of a connection.
LEMMA PollConnSteady ==
  ASSUME NEW c, Buffered(c), HasRoom(c), NEW lag \in 0 .. MaxLag, NEW d \in PollConn(c, lag)
  PROVE  /\ Steady(c, d)
         /\ Deadline(c) => Deadline(d) /\ ConnTimeoutTrue(d)
<1>0. DOMAIN c = Fields /\ c.expire_ts \in Int /\ c.quiet \in Nat
  BY DEF Buffered, Typed
<1> DEFINE e == [c EXCEPT !.timed_out = FALSE]
<1>1. PICK s \in CheckSendTimeout(e, lag) :
        d \in UNION {CheckRecvTimeout(r[1], r[2], lag) : r \in Read(s)}
  BY Zenon DEF PollConn
<1>2. /\ SameButTimes(c, e) /\ e.expire_ts = c.expire_ts /\ e.quiet = c.quiet
      /\ e.timed_out = FALSE
  BY <1>0, TimedOutFields, Zenon
<1> HIDE DEF e
<1>3. Steady(c, e) /\ Buffered(e)
  BY <1>0, <1>2, TimesSteady, Zenon DEF Steady, Kept
<1>4. Steady(e, s) /\ SameTimes(e, s)
  BY <1>1, <1>3, CheckSendTimeoutSteady, Zenon
<1>5. Buffered(s) /\ HasRoom(s)
  BY <1>3, <1>4, Zenon DEF Steady, Kept
<1>6. PICK r \in Read(s) : d \in CheckRecvTimeout(r[1], r[2], lag)
  BY <1>1, Zenon
<1>7. /\ Steady(s, r[2]) /\ r[1] \in BOOLEAN
      /\ r[2].expire_ts = s.expire_ts /\ r[2].timed_out = s.timed_out
      /\ ~r[1] => r[2].quiet = s.quiet
  BY <1>5, <1>6, ReadSteady, Zenon
<1>8. Buffered(r[2]) /\ ~r[2].timed_out
  BY <1>2, <1>4, <1>7, Zenon DEF Steady, Kept, SameTimes
<1>9. /\ Steady(r[2], d)
      /\ r[1] \/ Deadline(r[2]) => Deadline(d) /\ ConnTimeoutTrue(d)
  BY <1>6, <1>7, <1>8, CheckRecvTimeoutSteady, Zenon
<1>10. Deadline(c) => r[1] \/ Deadline(r[2])
  BY <1>2, <1>4, <1>7, Zenon DEF Deadline, SameTimes
<1>11. Steady(c, d)
  BY <1>3, <1>4, <1>7, <1>9, SteadyTrans, Zenon
<1>12. QED
  BY <1>9, <1>10, <1>11, Zenon

-----------------------------------------------------------------------------
(* The peer, the clock, and the socket. *)

\* What the peer may change.
PeerChange(c, d) ==
  /\ DOMAIN d = Fields
  /\ d.in = c.in \/ d.in = c.in + 1
  /\ d.txq = c.txq \/ d.txq = c.txq - 1
  /\ d.read = c.read /\ d.consumed = c.consumed /\ d.tx = c.tx
  /\ SameBuffer(c, d) /\ SameState(c, d) /\ SameTimes(c, d)

\* What the peer does, field by field.
LEMMA PeerFields ==
  ASSUME NEW c, DOMAIN c = Fields, NEW p
  PROVE  /\ PeerChange(c, [c EXCEPT !.in = @ + 1])
         /\ PeerChange(c, [c EXCEPT !.peer = p])
         /\ PeerChange(c, [c EXCEPT !.txq = @ - 1])
  BY Zenon DEF PeerChange, Fields, SameBuffer, SameState, SameTimes

\* A step of the peer changes what there is to read, and nothing that was read.
LEMMA PeerChangeSteady ==
  ASSUME NEW c, Buffered(c), NEW d, PeerChange(c, d)
  PROVE  Steady(c, d)
<1>1. d.in \in Nat /\ d.txq \in Int /\ d.read <= d.in
  BY DEF Buffered, Typed, PeerChange
<1>2. Typed(d)
  BY <1>1, Zenon DEF Buffered, Typed, PeerChange, SameBuffer, SameState, SameTimes
<1>3. Buffered(d)
  BY <1>1, <1>2, ZenonT(40) DEF Buffered, ConnIntact, PeerChange, SameBuffer, SameState
<1>4. QED
  BY <1>3, Zenon DEF Steady, Kept, Spare, HasRoom, Whole, ConnCloseReason, PeerChange,
                     SameBuffer, SameState

\* Any of the events of the peer.
LEMMA PeerEventsSteady ==
  ASSUME NEW c, Buffered(c), NEW d \in PeerEvents(c)
  PROVE  Steady(c, d) /\ PeerChange(c, d)
<1>1. DOMAIN c = Fields
  BY DEF Buffered, Typed
<1>2. /\ PeerChange(c, [c EXCEPT !.in = @ + 1]) /\ PeerChange(c, [c EXCEPT !.txq = @ - 1])
      /\ PeerChange(c, [c EXCEPT !.peer = "closed"]) /\ PeerChange(c, [c EXCEPT !.peer = "reset"])
  BY <1>1, PeerFields, Zenon
<1>3. PeerChange(c, d)
  BY <1>2, Zenon DEF PeerEvents
<1>4. QED
  BY <1>3, PeerChangeSteady, Zenon

\* A second, field by field.
LEMMA ElapseFields ==
  ASSUME NEW c, DOMAIN c = Fields
  PROVE  /\ SameButTimes(c, Elapse(c)) /\ Elapse(c).timed_out = c.timed_out
         /\ Elapse(c).expire_ts = Countdown(c.expire_ts, 1)
         /\ Elapse(c).quiet = Minimum(c.quiet + 1, RecvTimeoutSec)
  BY Zenon DEF Elapse, Fields, SameButTimes, SameBuffer, SameInput, SameOutput, SameState

\* Time that passes brings the timeout nearer as it makes the silence longer.
LEMMA ElapseSteady ==
  ASSUME NEW c, Buffered(c)
  PROVE  /\ Steady(c, Elapse(c))
         /\ Deadline(c) => Deadline(Elapse(c))
         /\ ConnTimeoutTrue(c) => ConnTimeoutTrue(Elapse(c))
<1>1. RecvTimeoutSec \in Nat /\ MaxLag \in Nat
  BY SocketConnAssumption
<1>2. DOMAIN c = Fields /\ c.expire_ts \in Int /\ c.quiet \in Nat /\ c.timed_out \in BOOLEAN
  BY DEF Buffered, Typed
<1>3. PICK d : d = Elapse(c)
  BY Zenon
<1>4. /\ SameButTimes(c, d) /\ d.timed_out = c.timed_out
      /\ d.expire_ts = Countdown(c.expire_ts, 1)
      /\ d.quiet = Minimum(c.quiet + 1, RecvTimeoutSec)
  BY <1>2, <1>3, ElapseFields, Zenon
<1>5. d.expire_ts \in Int /\ d.quiet \in Nat
  BY <1>1, <1>2, <1>4 DEF Countdown, Maximum, Minimum
<1>6. Steady(c, d)
  BY <1>2, <1>4, <1>5, TimesSteady, Zenon
<1>7. Deadline(c) => Deadline(d)
  BY <1>1, <1>2, <1>4 DEF Deadline, Countdown, Maximum, Minimum
<1>8. c.quiet >= RecvTimeoutSec - MaxLag => d.quiet >= RecvTimeoutSec - MaxLag
  BY <1>1, <1>2, <1>4 DEF Minimum
<1>9. ConnTimeoutTrue(c) => ConnTimeoutTrue(d)
  BY <1>4, <1>8, Zenon DEF ConnTimeoutTrue
<1>10. QED
  BY <1>3, <1>6, <1>7, <1>9, Zenon

\* A connection with no bytes read or sent, which open makes an open one.
Fresh(c) == ~c.fd /\ c.read = 0 /\ c.consumed = 0 /\ c.tx = 0 /\ ~c.timed_out

NewSocketOf(c, d) ==
  /\ DOMAIN d = Fields
  /\ d.in = 0 /\ d.read = 0 /\ d.tx = 0 /\ d.txq = 0 /\ d.consumed = 0
  /\ d.files = c.files + 1 /\ d.fd = c.fd /\ d.timed_out = FALSE
  /\ d.expire_ts = c.expire_ts /\ d.quiet = c.quiet
  /\ SameBuffer(c, d)

\* A new socket, field by field.
LEMMA NewSocketFields ==
  ASSUME NEW c, DOMAIN c = Fields, NEW peer
  PROVE  NewSocketOf(c, NewSocket(c, peer))
  BY Zenon DEF NewSocketOf, NewSocket, Fields, SameBuffer

\* A new socket: nothing is received or sent, and one descriptor more is not fd_ yet.
LEMMA NewSocketFresh ==
  ASSUME NEW c, Buffered(c), ~c.fd, NEW peer
  PROVE  /\ Buffered(NewSocket(c, peer)) /\ Fresh(NewSocket(c, peer))
         /\ Spare(NewSocket(c, peer)) = Spare(c) + 1
<1>1. PICK d : d = NewSocket(c, peer)
  BY Zenon
<1>2. DOMAIN c = Fields
  BY DEF Buffered, Typed
<1>3. NewSocketOf(c, d)
  BY <1>1, <1>2, NewSocketFields, Zenon
<1>4. Fresh(d)
  BY <1>3, Zenon DEF NewSocketOf, Fresh
<1>5. 0 \in Nat /\ 0 \in Int /\ 0 <= 0 /\ c.files + 1 \in Int
  BY DEF Buffered, Typed
<1>6. Typed(d)
  BY <1>3, <1>5, Zenon DEF Buffered, Typed, NewSocketOf, SameBuffer
<1>7. Buffered(d)
  BY <1>3, <1>4, <1>5, <1>6, Zenon DEF Buffered, ConnIntact, NewSocketOf, SameBuffer, Fresh
<1>8. Spare(d) = Spare(c) + 1
  <2>1. d.files = c.files + 1 /\ ~d.fd
    BY <1>3, <1>4, Zenon DEF NewSocketOf, Fresh
  <2>2. QED
    BY <2>1 DEF Spare, Buffered, Typed
<1>9. QED
  BY <1>1, <1>4, <1>7, <1>8, Zenon

Opened(c, d, lag) ==
  /\ DOMAIN d = Fields
  /\ d.fd = TRUE /\ d.head = 0 /\ d.tail = 0 /\ d.recvbuf = c.recvbuf
  /\ d.files = c.files /\ d.last_error = c.last_error
  /\ d.expire_ts = RecvTimeoutSec - lag /\ d.quiet = 0 /\ d.timed_out = c.timed_out
  /\ SameInput(c, d) /\ SameOutput(c, d)

\* open, field by field.
LEMMA OpenedFields ==
  ASSUME NEW c, DOMAIN c = Fields, NEW lag
  PROVE  Opened(c, [c EXCEPT !.fd = TRUE, !.head = 0, !.tail = 0,
                      !.send_ts = SendTimeoutSec - lag, !.expire_ts = RecvTimeoutSec - lag,
                      !.quiet = 0], lag)
  BY Zenon DEF Opened, Fields, SameInput, SameOutput

\* open: the descriptor becomes fd_ or is closed.
LEMMA OpenSound ==
  ASSUME NEW c, Buffered(c), Fresh(c), NEW lag \in 0 .. MaxLag, NEW d \in Open(c, lag)
  PROVE  /\ Buffered(d) /\ HasRoom(d) /\ Whole(d) /\ Deadline(d) /\ ~d.timed_out
         /\ ConnCloseReason(d) /\ Spare(d) = Spare(c) - 1
<1>1. RecvBufSize \in Nat /\ 0 < RecvBufSize /\ RecvTimeoutSec \in Nat /\ MaxLag \in Nat
  BY SocketConnAssumption
<1>2. DOMAIN c = Fields
  BY DEF Buffered, Typed
<1> DEFINE o == [c EXCEPT !.fd = TRUE, !.head = 0, !.tail = 0,
                   !.send_ts = SendTimeoutSec - lag, !.expire_ts = RecvTimeoutSec - lag,
                   !.quiet = 0]
<1>3. Opened(c, o, lag)
  BY <1>2, OpenedFields, Zenon
<1>4. d = o \/ d = Close(o, "other")
  BY Zenon DEF Open
<1> HIDE DEF o
<1>5. 0 \in Nat /\ 0 <= 0 /\ 0 <= RecvBufSize /\ RecvTimeoutSec - lag \in Int
  BY <1>1
<1>6. Typed(o)
  <2>1. TRUE \in BOOLEAN
    OBVIOUS
  <2>2. QED
    BY <1>3, <1>5, <2>1, Zenon DEF Buffered, Typed, Opened, SameInput, SameOutput
<1>7. ConnIntact(o)
  <2>1. o.read = 0 /\ o.consumed = 0 /\ o.head = 0 /\ o.tail = 0
    BY <1>3, Zenon DEF Opened, Fresh, SameInput
  <2>2. 0 - 0 = 0 - 0 /\ 0 .. 0 - 1 = {}
    OBVIOUS
  <2>3. QED
    BY <2>1, <2>2, Zenon DEF ConnIntact
<1>8. Buffered(o) /\ o.fd
  BY <1>3, <1>5, <1>6, <1>7, Zenon DEF Buffered, Opened, SameInput
<1>9. HasRoom(o) /\ Whole(o) /\ ~o.timed_out /\ ConnCloseReason(o)
  BY <1>1, <1>3, <1>8, Zenon DEF HasRoom, Whole, Opened, Fresh, SameOutput, ConnCloseReason
<1>10. Deadline(o)
  <2>1. o.expire_ts = RecvTimeoutSec - lag /\ o.quiet = 0
    BY <1>3, Zenon DEF Opened
  <2>2. QED
    BY <1>1, <2>1 DEF Deadline
<1>11. Spare(o) = Spare(c) - 1
  <2>1. o.files = c.files /\ o.fd /\ ~c.fd
    BY <1>3, <1>8, Zenon DEF Opened, Fresh
  <2>2. QED
    BY <2>1 DEF Spare, Buffered, Typed
<1>12. CASE d = o
  BY <1>8, <1>9, <1>10, <1>11, <1>12, Zenon
<1>13. CASE d = Close(o, "other")
  <2>1. ReasonTrue(o, "other")
    BY Zenon DEF ReasonTrue
  <2>2. Kept(o, d) /\ ~d.fd /\ SameTimes(o, d)
    BY <1>8, <1>13, <2>1, CloseKept, Zenon
  <2>3. HasRoom(d) /\ Whole(d) /\ ~d.timed_out /\ Deadline(d)
    BY <1>9, <1>10, <2>2, Zenon DEF HasRoom, Whole, SameTimes, Deadline
  <2>4. Buffered(d) /\ ConnCloseReason(d) /\ Spare(d) = Spare(o)
    BY <1>9, <2>2, Zenon DEF Kept
  <2>5. QED
    BY <1>11, <2>3, <2>4, Zenon
<1>14. QED
  BY <1>4, <1>12, <1>13, Zenon
=============================================================================
