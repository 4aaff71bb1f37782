----------------------------- MODULE SocketConn -----------------------------
(***************************************************************************)
(* SocketTcpConnection (src/Socket.h): a connection over a kernel socket,  *)
(* with its receive buffer and its send and receive timeouts.              *)
(*                                                                         *)
(* A connection is a record.  A method that depends on what the kernel or  *)
(* the user's handler does is an operator to the set of its outcomes.      *)
(*                                                                         *)
(* Time: the seconds of time(0).  A deadline is kept as the number of      *)
(* seconds left to it, counted down by Elapse; lag is how much older the   *)
(* caller's "now" is than the clock, at most MaxLag.  So send_ts is        *)
(* send_ts_ + SendTimeoutSec - clock, expire_ts is expire_ts_ - clock, and *)
(* no bound on the time is needed.                                         *)
(*                                                                         *)
(* The peer sends the bytes 1 .. StreamLen; a byte's content is its number.*)
(* The user sends whole messages of MsgSize bytes; tx counts the bytes the *)
(* kernel accepted, modulo MsgSize.  The fields peer, in, read, txq and    *)
(* files belong to the kernel; consumed, quiet, timed_out (whether the     *)
(* last pollConn called onRecvTimeout) and ended (whether the peer had     *)
(* closed and all its bytes were read when the socket was closed) are      *)
(* history.  Of the reasons to close the model keeps "remote close" apart  *)
(* from all others.                                                        *)
(***************************************************************************)
EXTENDS Integers, Sequences

CONSTANTS RecvBufSize, RecvTimeoutSec, SendTimeoutSec,
          MaxLag,
          StreamLen, MsgSize,
          SndBuf,        \* room of the kernel's send buffer
          Remains,       \* how much onTcpData may leave of what it is given
          SysCallsFail   \* whether socket, bind, fcntl and setsockopt may fail

\* An odd RecvBufSize would make the memcpy of read overlap by one byte.
ASSUME SocketConnAssumption ==
  /\ RecvBufSize \in Nat \ {0} /\ RecvBufSize % 2 = 0
  /\ RecvTimeoutSec \in Nat /\ SendTimeoutSec \in Nat /\ MaxLag \in Nat
  /\ StreamLen \in Nat /\ MsgSize \in Nat \ {0} /\ SndBuf \in Nat \ {0}
  /\ Remains \subseteq Nat /\ SysCallsFail \in BOOLEAN

Minimum(a, b) == IF a < b THEN a ELSE b
Maximum(a, b) == IF a > b THEN a ELSE b

NewConn ==
  [fd |-> FALSE, head |-> 0, tail |-> 0, recvbuf |-> [l \in 0 .. RecvBufSize - 1 |-> 0],
   send_ts |-> 0, expire_ts |-> 0, last_error |-> "",
   peer |-> "none", in |-> 0, read |-> 0, tx |-> 0, txq |-> 0, files |-> 0,
   consumed |-> 0, quiet |-> 0, timed_out |-> FALSE, ended |-> FALSE]

\* The kernel's side of a new socket (external).
NewSocket(c, peer) ==
  [c EXCEPT !.peer = peer, !.in = 0, !.read = 0, !.tx = 0, !.txq = 0,
            !.files = @ + 1, !.consumed = 0, !.timed_out = FALSE, !.ended = FALSE]

Countdown(ts, d) == Maximum(ts - d, -MaxLag)
Elapse(c) ==
  [c EXCEPT !.send_ts = Countdown(@, 1), !.expire_ts = Countdown(@, 1),
            !.quiet = Minimum(@ + 1, RecvTimeoutSec)]

\* ::close (external): the kernel forgets the socket.
Released(c) ==
  [c EXCEPT !.peer = "none", !.in = 0, !.read = 0, !.tx = 0, !.txq = 0, !.files = @ - 1,
            !.consumed = 0, !.ended = c.peer = "closed" /\ c.read = c.in]

Close(c, reason) ==
  IF c.fd THEN [Released(c) EXCEPT !.fd = FALSE, !.last_error = reason] ELSE c

\* open, with the fcntl and setsockopt that may fail.
Open(c, lag) ==
  LET o == [c EXCEPT !.fd = TRUE, !.head = 0, !.tail = 0,
                     !.send_ts = SendTimeoutSec - lag, !.expire_ts = RecvTimeoutSec - lag,
                     !.quiet = 0]
  IN  {o} \cup (IF SysCallsFail THEN {Close(o, "other")} ELSE {})

EError == -1
EAgain == -2

-----------------------------------------------------------------------------
(* Sending.  An outcome is a pair of the value returned and the connection. *)

\* ::send (external); writeSome turns EAGAIN into 0.
SendCall(c, size) ==
  IF ~c.fd \/ c.peer = "reset" THEN {EError}
  ELSE IF c.txq = SndBuf THEN {0}
  ELSE 1 .. Minimum(size, SndBuf - c.txq)

WriteSome(c, size) ==
  {LET d == IF ret < 0 THEN Close(c, "other")
            ELSE [c EXCEPT !.tx = (@ + ret) % MsgSize, !.txq = @ + ret]
   IN  <<ret, IF SendTimeoutSec # 0 THEN [d EXCEPT !.send_ts = SendTimeoutSec] ELSE d>> :
     ret \in SendCall(c, size)}

\* Mutant: a message cut short leaves the connection open.
WriteNonblockTorn(c, size) == {w[2] : w \in WriteSome(c, size)}

WriteNonblock(c, size) ==
  {IF w[1] # size THEN Close(w[2], "other") ELSE w[2] : w \in WriteSome(c, size)}

-----------------------------------------------------------------------------
(* Receiving. *)

\* What a callback of the user may do with its connection (external).
Callback(c) ==
  {c, Close(c, "other")} \cup WriteNonblock(c, MsgSize)

Room(c) == RecvBufSize - c.tail

\* ::read (external): the number of bytes, or an error.  A read into no room
\* returns 0, like the end of the stream.
ReadCall(c) ==
  LET avail == c.in - c.read
  IN  IF ~c.fd THEN {EError}
      ELSE IF Room(c) = 0 THEN {0}
      ELSE IF avail > 0 THEN {n \in 1 .. Room(c) : n <= avail}
                              \cup (IF c.peer = "reset" THEN {EError} ELSE {})
      ELSE CASE c.peer = "closed" -> {0}
             [] c.peer = "reset"  -> {EError}
             [] OTHER             -> {EAgain}

\* Mutant: the bytes that remain are not moved to the start.
SettleNoCopy(c, remaining) ==
  LET head == c.tail - remaining
  IN  IF remaining = 0 THEN [c EXCEPT !.head = 0, !.tail = 0]
      ELSE IF head >= RecvBufSize \div 2 THEN [c EXCEPT !.head = 0, !.tail = remaining]
      ELSE IF c.tail = RecvBufSize THEN Close([c EXCEPT !.head = head], "other")
      ELSE [c EXCEPT !.head = head]

\* The buffer after a call of onTcpData that left remaining bytes.
Settle(c, remaining) ==
  LET head == c.tail - remaining
  IN  IF remaining = 0 THEN [c EXCEPT !.head = 0, !.tail = 0]
      ELSE IF head >= RecvBufSize \div 2
      THEN [c EXCEPT !.head = 0, !.tail = remaining,
              !.recvbuf = [l \in DOMAIN @ |-> IF l < remaining THEN @[l + head] ELSE @[l]]]
      ELSE IF c.tail = RecvBufSize THEN Close([c EXCEPT !.head = head], "other")
      ELSE [c EXCEPT !.head = head]

\* The outcomes of a read of n bytes, onTcpData included.
OnData(c, n) ==
  LET d    == [c EXCEPT !.tail = @ + n, !.read = @ + n, !.quiet = 0,
                 !.recvbuf = [l \in DOMAIN @ |-> IF l \in c.tail .. c.tail + n - 1
                                                 THEN c.read + l - c.tail + 1 ELSE @[l]]]
      size == d.tail - d.head
  IN  UNION {{Settle([u EXCEPT !.consumed = @ + size - rem], rem) :
                rem \in {Minimum(r, size) : r \in Remains}} : u \in Callback(d)}

\* Pairs of "got data" and the connection.
Read(c) ==
  UNION {CASE r = EAgain -> {<<FALSE, c>>}
           [] r = EError -> {<<FALSE, Close(c, "other")>>}
           [] r = 0      -> {<<FALSE, Close(c, "remote close")>>}
           [] OTHER      -> {<<TRUE, d>> : d \in OnData(c, r)} : r \in ReadCall(c)}

CheckSendTimeout(c, lag) ==
  IF SendTimeoutSec # 0 /\ c.send_ts <= -lag
  THEN {[d EXCEPT !.send_ts = SendTimeoutSec - lag] : d \in Callback(c)}
  ELSE {c}

\* Mutant: data does not put off the receive timeout.
CheckRecvTimeoutFixed(got_data, c, lag) ==
  IF RecvTimeoutSec = 0 \/ got_data \/ c.expire_ts > -lag THEN {c}
  ELSE {[d EXCEPT !.expire_ts = RecvTimeoutSec - lag] : d \in Callback([c EXCEPT !.timed_out = TRUE])}

CheckRecvTimeout(got_data, c, lag) ==
  LET expired == ~got_data /\ c.expire_ts <= -lag
      ds      == IF expired THEN Callback([c EXCEPT !.timed_out = TRUE]) ELSE {c}
  IN  IF RecvTimeoutSec = 0 THEN {c}
      ELSE IF got_data \/ expired THEN {[d EXCEPT !.expire_ts = RecvTimeoutSec - lag] : d \in ds}
      ELSE {c}

PollConn(c, lag) ==
  UNION {UNION {CheckRecvTimeout(r[1], r[2], lag) : r \in Read(s)} :
           s \in CheckSendTimeout([c EXCEPT !.timed_out = FALSE], lag)}

-----------------------------------------------------------------------------
(* What the peer and the network do to an established connection. *)

PeerEvents(c) ==
  IF c.peer # "open" THEN {}
  ELSE (IF c.in < StreamLen THEN {[c EXCEPT !.in = @ + 1]} ELSE {})
       \cup {[c EXCEPT !.peer = "closed"], [c EXCEPT !.peer = "reset"]}
       \cup (IF c.txq > 0 THEN {[c EXCEPT !.txq = @ - 1]} ELSE {})

-----------------------------------------------------------------------------
(* Properties of one connection. *)

ConnTypeOK(c) ==
  /\ c.fd \in BOOLEAN /\ c.files \in Nat
  /\ c.head \in 0 .. RecvBufSize /\ c.tail \in c.head .. RecvBufSize
  /\ c.recvbuf \in [0 .. RecvBufSize - 1 -> 0 .. StreamLen]
  /\ c.send_ts \in -MaxLag .. SendTimeoutSec /\ c.expire_ts \in -MaxLag .. RecvTimeoutSec

\* read: the buffer of an open connection holds the bytes that were read and
\* not consumed, all of them and in order, so that the next onTcpData gets the
\* rest of the stream ("which will be returned in the next onTcpData with newly
\* arrived data", README.md:93).
ConnIntact(c) ==
  c.fd => /\ c.read - c.consumed = c.tail - c.head
          /\ \A l \in c.head .. c.tail - 1 : c.recvbuf[l] = c.consumed + l - c.head + 1

\* close("remote close"): the reason is given only when the peer has closed and
\* all its bytes were read, never because a read found the buffer full.
ConnCloseReason(c) ==
  c.last_error = "remote close" /\ ~c.fd => c.ended

\* pollConn: onRecvTimeout is called only "when the connection has not received
\* any data for some period" (README.md:89), short of the age of now.
ConnTimeoutTrue(c) ==
  c.timed_out => c.quiet >= RecvTimeoutSec - MaxLag
=============================================================================
