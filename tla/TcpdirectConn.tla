--------------------------- MODULE TcpdirectConn ---------------------------
(***************************************************************************)
(* TcpdirectTcpConnection (src/Tcpdirect.h): a connection over a zocket of *)
(* the TCPDirect library, with its receive buffer and its timeouts.        *)
(*                                                                         *)
(* A connection is a record, which also holds the zocket that zock_ points *)
(* to: its state, the packets that wait for the reactor (wire) and those   *)
(* the reactor has taken in (rx).  The library works in zf_reactor_perform *)
(* only, and so the state of a zocket changes nowhere else.  A method that *)
(* depends on the library or on the user's handler is an operator to the   *)
(* set of its outcomes.                                                    *)
(*                                                                         *)
(* Time is kept as in SocketConn: a deadline is the number of seconds left *)
(* to it, and lag is the age of the caller's "now".  A packet is its size, *)
(* or one of SynAck, Fin and Rst; the bytes of the peer are numbered.  The *)
(* fields sent (bytes of the peer), consumed (bytes the user has taken),   *)
(* quiet, early (onRecvTimeout came before its time), lost (an established *)
(* zocket was abandoned without zft_free) and misused (a null zocket was   *)
(* given to the library) are history; tx counts the bytes sent, modulo     *)
(* MsgSize.                                                                *)
(***************************************************************************)
EXTENDS Integers, Sequences, SequencesExt

CONSTANTS RecvBufSize, RecvTimeoutSec, SendTimeoutSec,
          MaxLag,
          MsgSize,
          PacketSizes,   \* sizes of the peer's packets
          Remains        \* how much onTcpData may leave of what it is given

\* An odd RecvBufSize would make the memcpy of read overlap by one byte.
ASSUME TcpdirectConnAssumption ==
  /\ RecvBufSize \in Nat \ {0} /\ RecvBufSize % 2 = 0
  /\ RecvTimeoutSec \in Nat /\ SendTimeoutSec \in Nat /\ MaxLag \in Nat
  /\ MsgSize \in Nat \ {0}
  /\ PacketSizes \subseteq Nat \ {0} /\ Remains \subseteq Nat

Fin == 0
Rst == -1
SynAck == -2
Nothing == -3

NewConn ==
  [zock |-> FALSE, head |-> 0, tail |-> 0, recvbuf |-> [l \in 0 .. RecvBufSize - 1 |-> 0],
   send_ts |-> 0, expire_ts |-> 0,
   state |-> "CLOSED", wire |-> <<>>, rx |-> <<>>, tx |-> 0,
   sent |-> 0, read |-> 0, consumed |-> 0, quiet |-> 0,
   early |-> FALSE, lost |-> FALSE, misused |-> FALSE]

IsConnected(c) == c.zock /\ c.state = "ESTABLISHED"

Countdown(ts) == Max({ts - 1, -MaxLag})
Elapse(c) ==
  [c EXCEPT !.send_ts = Countdown(@), !.expire_ts = Countdown(@),
            !.quiet = Min({@ + 1, RecvTimeoutSec})]

-----------------------------------------------------------------------------
(* The library (external). *)

\* zock_ is overwritten with a new zocket, whatever it pointed to before.
NewZocket(c, state) ==
  [c EXCEPT !.zock = TRUE, !.state = state, !.wire = <<>>, !.rx = <<>>, !.tx = 0,
            !.sent = 0, !.read = 0, !.consumed = 0,
            !.lost = @ \/ IsConnected(c)]

Receive(c, p) ==
  CASE p = SynAck -> [c EXCEPT !.state = "ESTABLISHED"]
    [] p = Fin    -> [c EXCEPT !.state = "CLOSE_WAIT"]
    [] p = Rst    -> [c EXCEPT !.state = "CLOSED"]
    [] OTHER      -> [c EXCEPT !.rx = Append(@, p)]

\* zf_reactor_perform: one or more of the packets that wait are taken in.
Reactor(c) ==
  IF c.wire = <<>> THEN {c}
  ELSE {FoldLeft(Receive, [c EXCEPT !.wire = SubSeq(@, n + 1, Len(@))], SubSeq(c.wire, 1, n)) :
          n \in 1 .. Len(c.wire)}

\* zft_zc_recv: the size of the next packet, 0 at the end of the stream.  What
\* it tells of a reset is left open.
ZcRecv(c) ==
  IF c.rx # <<>> THEN {Head(c.rx)}
  ELSE CASE c.state = "CLOSE_WAIT" -> {0}
         [] c.state = "CLOSED"     -> {0, Nothing}
         [] OTHER                  -> {Nothing}

\* zft_send_single: it fails for good only on a zocket that is not connected.
SendSingle(c, size) ==
  IF c.state \in {"ESTABLISHED", "CLOSE_WAIT"} THEN 0 .. size ELSE {-1}

-----------------------------------------------------------------------------
(* The connection. *)

Close(c) ==
  IF c.zock
  THEN [c EXCEPT !.zock = FALSE, !.state = "CLOSED", !.wire = <<>>, !.rx = <<>>, !.tx = 0,
                 !.sent = 0, !.read = 0, !.consumed = 0]
  ELSE c

Open(c, lag) ==
  [c EXCEPT !.head = 0, !.tail = 0, !.recvbuf = NewConn.recvbuf,
            !.send_ts = SendTimeoutSec - lag, !.expire_ts = RecvTimeoutSec - lag, !.quiet = 0]

\* Pairs of the value returned and the connection.
WriteSome(c, size) ==
  {<<sent, [c EXCEPT !.tx = (@ + IF sent < 0 THEN 0 ELSE sent) % MsgSize,
                     !.send_ts = IF SendTimeoutSec # 0 THEN SendTimeoutSec ELSE @,
                     !.misused = @ \/ ~c.zock]>> : sent \in SendSingle(c, size)}

\* write, where it returns: the whole message is sent, or the zocket has failed.
Write(c, size) == {w[2] : w \in {v \in WriteSome(c, size) : v[1] \in {size, -1}}}

\* Mutant: a message cut short leaves the connection open.
WriteNonblockTorn(c, size) == {w[2] : w \in WriteSome(c, size)}

WriteNonblock(c, size) ==
  {IF w[1] # size THEN Close(w[2]) ELSE w[2] : w \in WriteSome(c, size)}

\* What a callback may do with its connection (external): a careful user checks
\* isConnected() first.  A user who must not close here avoids writeNonblock, too.
Callback(c, closes) ==
  {c} \cup (IF ~IsConnected(c) THEN {}
            ELSE Write(c, MsgSize)
                 \cup (IF closes THEN {Close(c)} \cup WriteNonblock(c, MsgSize) ELSE {}))

\* Mutant: zft_zc_recv_done is called for a closed connection, too.
RecvDoneAlways(c) == [c EXCEPT !.misused = @ \/ ~c.zock]
RecvDone(c) == c

\* A packet of n bytes is taken from the zocket; it is put behind the bytes in the
\* buffer, if there are any.
Taken(c, n) ==
  LET d == [c EXCEPT !.rx = Tail(@), !.read = @ + n, !.quiet = 0]
  IN  IF c.tail = 0 THEN d
      ELSE [d EXCEPT !.tail = @ + n,
              !.recvbuf = [l \in DOMAIN @ |-> IF l \in c.tail .. c.tail + n - 1
                                              THEN c.read + l - c.tail + 1 ELSE @[l]]]

\* onTcpData gets a packet of n bytes where it lies.  What the user leaves of it is
\* copied to the buffer.
HandOver(c, n) ==
  {LET rem == Min({r, n})
   IN  [u EXCEPT !.tail = rem, !.consumed = @ + n - rem,
          !.recvbuf = [l \in DOMAIN @ |-> IF l < rem THEN c.read - rem + l + 1 ELSE @[l]]] :
     u \in Callback(c, TRUE), r \in Remains}

\* What is outside the buffer's head and tail is never read again, and is 0 here.
Trim(c) ==
  [c EXCEPT !.recvbuf = [l \in DOMAIN @ |-> IF l \in c.head .. c.tail - 1 THEN @[l] ELSE 0]]

\* Mutant: the bytes that remain are not moved to the start.
SettleNoCopy(c, rem) ==
  LET head == c.tail - rem
  IN  IF rem = 0 THEN [c EXCEPT !.head = 0, !.tail = 0]
      ELSE IF head >= RecvBufSize \div 2 THEN [c EXCEPT !.head = 0, !.tail = rem]
      ELSE [c EXCEPT !.head = head]

\* The buffer after a call of onTcpData that left rem bytes.
Settle(c, rem) ==
  LET head == c.tail - rem
  IN  IF rem = 0 THEN [c EXCEPT !.head = 0, !.tail = 0]
      ELSE IF head >= RecvBufSize \div 2
      THEN [c EXCEPT !.head = 0, !.tail = rem,
              !.recvbuf = [l \in DOMAIN @ |-> IF l < rem THEN @[l + head] ELSE @[l]]]
      ELSE [c EXCEPT !.head = head]

\* onTcpData gets what is in the buffer.
HandOverBuffer(c) ==
  LET size == c.tail - c.head
  IN  {LET rem == Min({r, size}) IN Trim(Settle([u EXCEPT !.consumed = @ + size - rem], rem)) :
         u \in Callback(c, TRUE), r \in Remains}

\* What read does with a result n of zft_zc_recv.
Received(c, n) ==
  CASE ~c.zock                  -> {<<FALSE, [c EXCEPT !.misused = TRUE]>>}
    [] n = Nothing              -> {<<FALSE, c>>}
    [] n = 0                    -> {<<FALSE, Close(c)>>}
    [] n + c.tail > RecvBufSize -> {<<FALSE, Close(c)>>}
    [] OTHER -> {<<TRUE, RecvDone(e)>> :
                   e \in UNION {IF c.tail = 0 THEN HandOver(d, n) ELSE HandOverBuffer(d) :
                                  d \in {Taken(c, n)}}}

\* Pairs of "got data" and the connection.
Read(c) == UNION {UNION {Received(d, n) : n \in ZcRecv(d)} : d \in Reactor(c)}

CheckSendTimeout(c, lag) ==
  IF SendTimeoutSec # 0 /\ c.send_ts <= -lag
  THEN {[d EXCEPT !.send_ts = SendTimeoutSec - lag] : d \in Callback(c, FALSE)}
  ELSE {c}

CheckRecvTimeout(got_data, c, lag) ==
  LET expired == ~got_data /\ c.expire_ts <= -lag
      ds      == IF expired THEN Callback([c EXCEPT !.early = @ \/ c.quiet < RecvTimeoutSec - MaxLag], TRUE) ELSE {c}
  IN  IF RecvTimeoutSec = 0 THEN {c}
      ELSE IF got_data \/ expired THEN {[d EXCEPT !.expire_ts = RecvTimeoutSec - lag] : d \in ds}
      ELSE {c}

PollConn(c, lag) ==
  UNION {UNION {CheckRecvTimeout(r[1], r[2], lag) : r \in Read(s)} :
           s \in CheckSendTimeout(c, lag)}

\* What the peer sends on an established connection (external), n bytes at most.
PeerEvents(c, n) ==
  IF ~c.zock \/ c.state # "ESTABLISHED" \/ \E k \in DOMAIN c.wire : c.wire[k] \in {Fin, Rst} THEN {}
  ELSE {[c EXCEPT !.wire = Append(@, p), !.sent = @ + p] :
          p \in {q \in PacketSizes : c.sent + q <= n}}
       \cup {[c EXCEPT !.wire = Append(@, p)] : p \in {Fin, Rst}}

-----------------------------------------------------------------------------
(* Properties of one connection. *)

\* The bytes kept for the next onTcpData are those the user has not taken, in order
\* and without a gap.
ConnIntact(c) ==
  IsConnected(c) =>
    /\ c.read = c.consumed + c.tail - c.head
    /\ \A l \in c.head .. c.tail - 1 : c.recvbuf[l] = c.consumed + l - c.head + 1

\* onRecvTimeout means RecvTimeoutSec without data, to the accuracy of now.
ConnTimeoutTrue(c) == ~c.early

\* The library is given no null zocket, and no established one is abandoned.
ZockUsed(c) == ~c.misused /\ ~c.lost

\* Between two calls an established connection has sent whole messages.
ConnNotTorn(c) == IsConnected(c) => c.tx = 0
=============================================================================
