----------------------- MODULE SocketTcpClientProofs -----------------------
(***************************************************************************)
(* Theorems on SocketTcpClient, for every configuration and whatever the   *)
(* server, the kernel and the user do: its buffer and its messages are     *)
(* intact, its reports true, its descriptors accounted for, and its        *)
(* callbacks those of TcpUserApi.                                          *)
(***************************************************************************)
EXTENDS SocketTcpClient, SocketConnProofs

One(b) == IF b THEN 1 ELSE 0

\* The message that is being sent.
Message == c.fd => c.tx = IF writing = 0 THEN 0 ELSE MsgSize - writing

TypeInv ==
  /\ retry_sec \in ConnRetrySec /\ lag \in 0 .. MaxLag /\ writing \in 0 .. MsgSize
  /\ report_disconnect \in BOOLEAN /\ conn_fd \in BOOLEAN
  /\ next_conn_ts \in Int /\ next_conn_ts >= Never

\* The connection and its descriptors.
ConnInv ==
  /\ Buffered(c) /\ HasRoom(c) /\ Spare(c) = One(conn_fd)
  /\ Message
  /\ ConnTimeoutTrue(c) /\ (~conn_fd => ConnCloseReason(c))

\* Where the attempt or the session is: conn_fd_ belongs to an attempt, made only
\* when no session is left to report.
PhaseInv ==
  /\ conn_fd => Fresh(c) /\ ~report_disconnect /\ writing = 0
  /\ c.fd => report_disconnect
  /\ report_disconnect => Deadline(c)

\* Where poll is.
PollInv ==
  /\ pc \in {"idle", "connect", "data"}
  /\ pc # "idle" => writing = 0
  /\ pc = "connect" => ~c.fd /\ ~report_disconnect
  /\ pc = "data" => report_disconnect

Inv == TypeInv /\ ConnInv /\ PhaseInv /\ PollInv

\* What the proofs use of the constants.
LEMMA Constants ==
  /\ MaxLag \in Nat /\ MsgSize \in Nat /\ MsgSize > 0 /\ ConnRetrySec \subseteq Nat
  /\ Never \in Int /\ Never < -MaxLag /\ -MaxLag \in Int /\ -MaxLag >= Never /\ -MaxLag # Never
  BY ClientAssumption, SocketConnAssumption DEF Never

-----------------------------------------------------------------------------
(* Steps that neither begin nor end an attempt. *)

\* A step that keeps the connection sound keeps the invariant, if it leaves the phases
\* alone.
LEMMA KeptInv ==
  ASSUME Inv, NEW d, c' = d, Kept(c, d), HasRoom(d), ConnTimeoutTrue(d),
         Deadline(c) => Deadline(d), conn_fd => Fresh(d) /\ writing' = 0, UNCHANGED <<report_disconnect, conn_fd>>, Message'
  PROVE  ConnInv' /\ PhaseInv'
<1>1. /\ Buffered(d) /\ HasRoom(d) /\ Spare(d) = Spare(c) /\ (d.fd => c.fd)
      /\ ConnCloseReason(c) => ConnCloseReason(d)
  BY Zenon DEF Kept
<1>2. ConnInv'
  BY <1>1, Zenon DEF Inv, ConnInv
<1>3. PhaseInv'
  BY <1>1, Zenon DEF Inv, PhaseInv
<1>4. QED
  BY <1>2, <1>3

\* A step that leaves the connection alone.
LEMMA SameConnInv ==
  ASSUME Inv, UNCHANGED <<c, conn_fd>>, Message', conn_fd => writing' = 0, report_disconnect' \in BOOLEAN,
         report_disconnect' => report_disconnect, c.fd => report_disconnect'
  PROVE  ConnInv' /\ PhaseInv'
<1>1. ConnInv'
  BY Zenon DEF Inv, ConnInv
<1>2. PhaseInv'
  BY Zenon DEF Inv, PhaseInv
<1>3. QED
  BY <1>1, <1>2

\* At the start there is no socket and no connection.
LEMMA InitInv == Init => Inv
<1> SUFFICES ASSUME Init PROVE Inv
  OBVIOUS
<1>1. c = NewConn /\ ~report_disconnect /\ ~conn_fd /\ report_disconnect = FALSE /\ conn_fd = FALSE
  BY Zenon DEF Init
<1>2. TypeInv
  <2>1. retry_sec \in ConnRetrySec /\ lag = 0 /\ writing = 0 /\ next_conn_ts = -MaxLag
    BY Zenon DEF Init
  <2>2. 0 \in 0 .. MaxLag /\ 0 \in 0 .. MsgSize
    BY Constants
  <2>3. QED
    BY <1>1, <2>1, <2>2, Constants, Zenon DEF TypeInv
<1>3. ConnInv
  BY <1>1, NewConnSound, Zenon DEF ConnInv, HasRoom, One, Message, ConnTimeoutTrue
<1>4. PhaseInv /\ PollInv
  BY <1>1, NewConnSound, Zenon DEF PhaseInv, PollInv, Init
<1>5. QED
  BY <1>2, <1>3, <1>4 DEF Inv

\* close by the user.
LEMMA UserCloseInv == Inv /\ UserClose /\ Fixed => Inv'
<1> SUFFICES ASSUME Inv, UserClose, Fixed PROVE Inv'
  OBVIOUS
<1>1. PICK d : d = Close(c, "other")
  BY Zenon
<1>2. Buffered(c) /\ ReasonTrue(c, "other") /\ ConnTimeoutTrue(c)
  BY Zenon DEF Inv, ConnInv, ReasonTrue
<1>3. Kept(c, d) /\ ~d.fd /\ SameTimes(c, d)
  BY <1>1, <1>2, CloseKept, Zenon
<1>4. HasRoom(d) /\ ConnTimeoutTrue(d) /\ (Deadline(c) => Deadline(d))
  BY <1>2, <1>3, Zenon DEF HasRoom, ConnTimeoutTrue, Deadline, SameTimes
<1>5. c' = d /\ c.fd /\ UNCHANGED <<report_disconnect, conn_fd>>
  BY <1>1, Zenon DEF UserClose
<1>6. ~conn_fd /\ Message'
  BY <1>3, <1>5, Zenon DEF Inv, PhaseInv, Message
<1>7. ConnInv' /\ PhaseInv'
  BY <1>3, <1>4, <1>5, <1>6, KeptInv, Zenon
<1>8. TypeInv' /\ PollInv'
  BY <1>3, <1>5, Zenon DEF Inv, TypeInv, PollInv, UserClose, Fixed
<1>9. QED
  BY <1>7, <1>8 DEF Inv

\* AllowReconnect, StartWrite and ConnectNotDue do not touch the connection.
LEMMA AllowReconnectInv == Inv /\ AllowReconnect /\ Fixed => Inv'
<1> SUFFICES ASSUME Inv, AllowReconnect, Fixed PROVE Inv'
  OBVIOUS
<1>1. Message'
  BY Zenon DEF Inv, ConnInv, Message, AllowReconnect
<1>2. ConnInv' /\ PhaseInv'
  BY <1>1, SameConnInv, Zenon DEF Inv, TypeInv, PhaseInv, AllowReconnect
<1>3. TypeInv' /\ PollInv'
  BY Constants, Zenon DEF Inv, TypeInv, PollInv, AllowReconnect, Fixed, Never
<1>4. QED
  BY <1>2, <1>3 DEF Inv

\* poll, when it is not time to connect.
LEMMA ConnectNotDueInv == Inv /\ ((ConnectNotDue /\ Fixed) \/ UNCHANGED vars) => Inv'
<1> SUFFICES ASSUME Inv, (ConnectNotDue /\ Fixed) \/ UNCHANGED vars PROVE Inv'
  OBVIOUS
<1>1. /\ UNCHANGED <<retry_sec, c, report_disconnect, conn_fd, next_conn_ts, lag, writing>>
      /\ pc' = "idle" \/ pc' = pc
  BY Zenon DEF ConnectNotDue, Fixed, vars
<1>2. Message'
  BY <1>1, Zenon DEF Inv, ConnInv, Message
<1>3. ConnInv' /\ PhaseInv'
  BY <1>1, <1>2, SameConnInv, Zenon DEF Inv, TypeInv, PhaseInv
<1>4. TypeInv' /\ PollInv'
  BY <1>1, Zenon DEF Inv, TypeInv, PollInv, Never
<1>5. QED
  BY <1>3, <1>4 DEF Inv

\* writeNonblock begins.
LEMMA StartWriteInv == Inv /\ StartWrite /\ Fixed => Inv'
<1> SUFFICES ASSUME Inv, StartWrite, Fixed PROVE Inv'
  OBVIOUS
<1>1. /\ UNCHANGED <<retry_sec, c, report_disconnect, conn_fd, next_conn_ts, lag, pc>>
      /\ writing' = MsgSize /\ writing = 0 /\ pc = "idle" /\ c.fd
  BY Zenon DEF StartWrite, Fixed
<1>2. MsgSize # 0 /\ MsgSize - MsgSize = 0 /\ MsgSize \in 0 .. MsgSize
  BY Constants
<1>3. Message'
  BY <1>1, <1>2, Zenon DEF Inv, ConnInv, Message
<1>4. ConnInv' /\ PhaseInv'
  BY <1>1, <1>3, SameConnInv, Zenon DEF Inv, TypeInv, PhaseInv
<1>5. TypeInv' /\ PollInv'
  BY <1>1, <1>2, Zenon DEF Inv, TypeInv, PollInv, Never
<1>6. QED
  BY <1>4, <1>5 DEF Inv

\* A turn of write takes the message from left bytes to left - n.
LEMMA MessagePart ==
  ASSUME NEW left \in 1 .. MsgSize, NEW n \in Int, 0 <= n, n <= left
  PROVE  ((MsgSize - left) + n) % MsgSize =
            IF left - n = 0 THEN 0 ELSE MsgSize - (left - n)
<1>1. CASE left - n = 0
  <2>1. (MsgSize - left) + n = MsgSize
    BY <1>1, Constants
  <2>2. MsgSize % MsgSize = 0
    BY Constants
  <2>3. QED
    BY <1>1, <2>1, <2>2
<1>2. CASE left - n # 0
  <2>1. PICK x \in Nat : x = (MsgSize - left) + n
    BY Constants
  <2>2. x < MsgSize /\ x = MsgSize - (left - n)
    BY <1>2, <2>1, Constants
  <2>3. x % MsgSize = x
    BY <2>2, Constants
  <2>4. QED
    BY <1>2, <2>1, <2>2, <2>3
<1>3. QED
  BY <1>1, <1>2

\* One send of a write.
LEMMA WriteTurnInv == Inv /\ WriteTurn /\ Fixed => Inv'
<1> SUFFICES ASSUME Inv, WriteTurn, Fixed PROVE Inv'
  OBVIOUS
<1>1. /\ UNCHANGED <<retry_sec, report_disconnect, conn_fd, next_conn_ts, lag, pc>>
      /\ writing > 0
  BY Zenon DEF WriteTurn, Fixed
<1>2. PICK w \in WriteSome(c, writing) :
        c' = w[2] /\ writing' = IF w[1] < 0 THEN 0 ELSE writing - w[1]
  BY Zenon DEF WriteTurn, Left
<1>3. /\ writing \in 0 .. MsgSize /\ conn_fd \in BOOLEAN
      /\ Buffered(c) /\ HasRoom(c) /\ ConnTimeoutTrue(c)
      /\ c.fd => c.tx = IF writing = 0 THEN 0 ELSE MsgSize - writing
      /\ conn_fd => writing = 0
  BY Zenon DEF Inv, TypeInv, ConnInv, PhaseInv, Message
<1>4. writing \in Nat /\ writing \in 1 .. MsgSize /\ writing # 0
  <2>1. writing \in 0 .. MsgSize /\ writing > 0
    BY <1>1, <1>3
  <2>2. QED
    BY <2>1, Constants
<1>5. PICK n, d : n = w[1] /\ d = w[2]
  BY Zenon
<1>6. /\ Kept(c, d) /\ SameBuffer(c, d) /\ SameTimes(c, d) /\ n \in Int
      /\ n < 0 => ~d.fd
      /\ ~(n < 0) => n <= writing /\ d.tx = (c.tx + n) % MsgSize
  BY <1>2, <1>3, <1>4, <1>5, WriteSomeKept, Zenon
<1>7. c' = d /\ writing' = IF n < 0 THEN 0 ELSE writing - n
  BY <1>2, <1>5, Zenon
<1>8. writing' \in 0 .. MsgSize
  BY <1>4, <1>6, <1>7, Constants
<1>9. d.fd => c.fd
  BY <1>6, Zenon DEF Kept
<1>10. Message'
  <2>1. ASSUME d.fd PROVE d.tx = IF writing - n = 0 THEN 0 ELSE MsgSize - (writing - n)
    <3>1. c.tx = MsgSize - writing
      BY <1>3, <1>4, <1>9, <2>1, Zenon
    <3>2. 0 <= n /\ n <= writing
      <4>1. n \in Int /\ ~(n < 0) /\ n <= writing
        BY <1>6, <2>1, Zenon
      <4>2. QED
        BY <4>1
    <3>3. QED
      BY <1>4, <1>6, <2>1, <3>1, <3>2, MessagePart, ZenonT(40)
  <2>2. QED
    BY <1>6, <1>7, <2>1, Zenon DEF Message
<1>11. HasRoom(d) /\ ConnTimeoutTrue(d) /\ (Deadline(c) => Deadline(d)) /\ ~conn_fd
  BY <1>3, <1>4, <1>6, Zenon DEF HasRoom, Kept, SameBuffer, ConnTimeoutTrue, Deadline, SameTimes
<1>12. ConnInv' /\ PhaseInv'
  BY <1>1, <1>6, <1>7, <1>10, <1>11, KeptInv, Zenon
<1>13. pc = "idle"
  BY <1>4, Zenon DEF Inv, PollInv
<1>14. TypeInv' /\ PollInv'
  BY <1>1, <1>8, <1>13, Zenon DEF Inv, TypeInv, PollInv, Never
<1>15. QED
  BY <1>12, <1>14 DEF Inv

-----------------------------------------------------------------------------
(* The server, the network and the clock. *)

\* Answer and Peer.
LEMMA PeerInv == Inv /\ (Answer \/ Peer) /\ Fixed => Inv'
<1> SUFFICES ASSUME Inv, Answer \/ Peer, Fixed PROVE Inv'
  OBVIOUS
<1>1. /\ UNCHANGED <<retry_sec, report_disconnect, conn_fd, next_conn_ts, lag, writing, pc>>
  BY Zenon DEF Answer, Peer, Fixed
<1>2. Buffered(c) /\ HasRoom(c) /\ ConnTimeoutTrue(c) /\ Message /\ DOMAIN c = Fields
  BY Zenon DEF Inv, ConnInv, Buffered, Typed
<1>3. PICK d : d = c'
  BY Zenon
<1>4. Steady(c, d) /\ PeerChange(c, d)
  <2>1. CASE Peer
    BY <1>2, <1>3, <2>1, PeerEventsSteady, Zenon DEF Peer
  <2>2. CASE Answer
    BY <1>2, <1>3, <2>2, PeerFields, PeerChangeSteady, Zenon DEF Answer
  <2>3. QED
    BY <2>1, <2>2
<1>5. /\ d.fd = c.fd /\ d.tx = c.tx /\ d.read = c.read /\ d.consumed = c.consumed
      /\ SameTimes(c, d) /\ Kept(c, d) /\ HasRoom(d)
  BY <1>2, <1>4, Zenon DEF PeerChange, SameState, Steady
<1>6. ConnTimeoutTrue(d) /\ (Deadline(c) => Deadline(d)) /\ (Fresh(c) => Fresh(d))
  BY <1>2, <1>5, Zenon DEF ConnTimeoutTrue, Deadline, SameTimes, Fresh
<1>7. Message'
  BY <1>1, <1>2, <1>3, <1>5, Zenon DEF Message
<1>8. ConnInv' /\ PhaseInv'
  BY <1>1, <1>3, <1>5, <1>6, <1>7, KeptInv, Zenon DEF Inv, PhaseInv
<1>9. TypeInv' /\ PollInv'
  BY <1>1, <1>3, <1>5, Zenon DEF Inv, TypeInv, PollInv, Never
<1>10. QED
  BY <1>8, <1>9 DEF Inv

\* A countdown ends above Never, and Never stays.
LEMMA OneLessNever ==
  ASSUME NEW ts \in Int, ts >= Never
  PROVE  OneLess(ts) \in Int /\ OneLess(ts) >= Never /\ (OneLess(ts) = Never <=> ts = Never)
  BY Constants DEF OneLess, Countdown, Maximum

\* A second.
LEMMA TickInv == Inv /\ Tick /\ Fixed => Inv'
<1> SUFFICES ASSUME Inv, Tick, Fixed PROVE Inv'
  OBVIOUS
<1>1. /\ UNCHANGED <<retry_sec, report_disconnect, conn_fd, writing, pc>>
      /\ next_conn_ts' = OneLess(next_conn_ts)
  BY Zenon DEF Tick, Fixed
<1>2. lag' \in 0 .. MaxLag
  <2>1. lag \in 0 .. MaxLag /\ (lag' = lag \/ (lag < MaxLag /\ lag' = lag + 1))
    BY Zenon DEF Inv, TypeInv, Tick
  <2>2. QED
    BY <2>1, Constants
<1>3. Buffered(c) /\ HasRoom(c) /\ ConnTimeoutTrue(c) /\ Message /\ DOMAIN c = Fields
  BY Zenon DEF Inv, ConnInv, Buffered, Typed
<1>4. PICK d : d = Elapse(c)
  BY Zenon
<1>5. c' = d
  BY <1>4, Zenon DEF Tick
<1>6. /\ Steady(c, d) /\ (Deadline(c) => Deadline(d)) /\ ConnTimeoutTrue(d)
      /\ SameButTimes(c, d) /\ d.timed_out = c.timed_out
  BY <1>3, <1>4, ElapseSteady, ElapseFields, Zenon
<1>7. /\ d.fd = c.fd /\ d.tx = c.tx /\ d.read = c.read /\ d.consumed = c.consumed
      /\ Kept(c, d) /\ HasRoom(d)
  BY <1>3, <1>6, Zenon DEF SameButTimes, SameState, SameInput, SameOutput, Steady
<1>8. (Fresh(c) => Fresh(d)) /\ Message'
  BY <1>1, <1>3, <1>5, <1>6, <1>7, Zenon DEF Fresh, Message
<1>9. ConnInv' /\ PhaseInv'
  BY <1>1, <1>5, <1>6, <1>7, <1>8, KeptInv, Zenon DEF Inv, PhaseInv
<1>10. next_conn_ts' \in Int /\ next_conn_ts' >= Never
  BY <1>1, OneLessNever, Zenon DEF Inv, TypeInv
<1>11. Never' = Never
  BY DEF Never
<1>12. TypeInv' /\ PollInv'
  BY <1>1, <1>2, <1>5, <1>7, <1>10, <1>11, Zenon DEF Inv, TypeInv, PollInv
<1>13. QED
  BY <1>9, <1>12 DEF Inv

-----------------------------------------------------------------------------
(* poll. *)

\* poll begins.
LEMMA PollStartInv == Inv /\ PollStart /\ Fixed => Inv'
<1> SUFFICES ASSUME Inv, PollStart, Fixed PROVE Inv'
  OBVIOUS
<1>1. /\ UNCHANGED <<retry_sec, c, conn_fd, next_conn_ts, writing>>
      /\ lag' = 0 /\ writing = 0 /\ pc' = IF c.fd THEN "data" ELSE "connect"
      /\ report_disconnect' = (c.fd /\ report_disconnect)
  BY Zenon DEF PollStart, Fixed
<1>2. c.fd \in BOOLEAN /\ report_disconnect \in BOOLEAN /\ (c.fd => report_disconnect) /\ Message
  BY Zenon DEF Inv, TypeInv, PhaseInv, ConnInv, Buffered, Typed
<1>3. /\ report_disconnect' \in BOOLEAN
      /\ (report_disconnect' => report_disconnect) /\ (report_disconnect' <=> c.fd)
  BY <1>1, <1>2, Zenon
<1>4. Message' /\ Never' = Never
  BY <1>1, <1>2, Zenon DEF Message, Never
<1>5. ConnInv' /\ PhaseInv'
  BY <1>1, <1>3, <1>4, SameConnInv, Zenon
<1>6. 0 \in 0 .. MaxLag
  BY Constants
<1>7. TypeInv' /\ PollInv'
  BY <1>1, <1>3, <1>4, <1>6, Zenon DEF Inv, TypeInv, PollInv
<1>8. QED
  BY <1>5, <1>7 DEF Inv

\* poll of an established connection.
LEMMA PollDataInv == Inv /\ PollData /\ Fixed => Inv'
<1> SUFFICES ASSUME Inv, PollData, Fixed PROVE Inv'
  OBVIOUS
<1>1. /\ UNCHANGED <<retry_sec, report_disconnect, conn_fd, next_conn_ts, lag, writing>>
      /\ pc = "data" /\ pc' = "idle"
  BY Zenon DEF PollData, Fixed
<1>2. PICK d \in PollConn(c, lag) : c' = d
  BY Zenon DEF PollData
<1>3. Buffered(c) /\ HasRoom(c) /\ ConnTimeoutTrue(c) /\ Message /\ lag \in 0 .. MaxLag
  BY Zenon DEF Inv, TypeInv, ConnInv
<1>4. writing = 0 /\ report_disconnect /\ ~conn_fd /\ Deadline(c)
  BY <1>1, Zenon DEF Inv, PhaseInv, PollInv
<1>5. Steady(c, d) /\ Deadline(d) /\ ConnTimeoutTrue(d)
  BY <1>2, <1>3, <1>4, PollConnSteady, Zenon
<1>6. Message'
  BY <1>1, <1>2, <1>3, <1>4, <1>5, Zenon DEF Message, Steady, Whole
<1>7. ConnInv' /\ PhaseInv'
  BY <1>1, <1>2, <1>3, <1>4, <1>5, <1>6, KeptInv, Zenon DEF Steady
<1>8. TypeInv' /\ PollInv'
  BY <1>1, Zenon DEF Inv, TypeInv, PollInv, Never
<1>9. QED
  BY <1>7, <1>8 DEF Inv

ErrorSet(d, e) ==
  /\ DOMAIN e = Fields /\ e.fd = d.fd /\ e.files = d.files /\ e.last_error = "other"
  /\ e.txq = d.txq
  /\ SameBuffer(d, e) /\ SameInput(d, e) /\ SameTimes(d, e)

\* The error text, field by field.
LEMMA ErrorSetFields ==
  ASSUME NEW d, DOMAIN d = Fields
  PROVE  ErrorSet(d, [d EXCEPT !.last_error = "other"])
  BY Zenon DEF ErrorSet, Fields, SameBuffer, SameInput, SameTimes

\* The error text is no part of what is kept.
LEMMA ErrorSetKept ==
  ASSUME NEW d, Buffered(d), NEW e, ErrorSet(d, e)
  PROVE  Kept(d, e) /\ ConnCloseReason(e)
<1>1. Buffered(e)
  BY ZenonT(40) DEF Buffered, Typed, ConnIntact, ErrorSet, SameBuffer, SameInput, SameTimes
<1>2. ConnCloseReason(e) /\ Spare(e) = Spare(d) /\ (e.fd => d.fd)
  BY Zenon DEF ErrorSet, ConnCloseReason, Spare
<1>3. QED
  BY <1>1, <1>2, Zenon DEF Kept

\* A deadline that is set is not Never.
LEMMA AfterNever ==
  ASSUME NEW sec \in Nat, lag \in 0 .. MaxLag
  PROVE  After(sec) \in Int /\ After(sec) >= Never /\ (After(sec) = Never <=> sec = 0)
  BY Constants DEF After

\* connect: the socket is new, and closed again if connect fails.
LEMMA ConnectStartInv == Inv /\ ConnectStart /\ Fixed => Inv'
<1> SUFFICES ASSUME Inv, ConnectStart, Fixed PROVE Inv'
  OBVIOUS
<1>1. /\ UNCHANGED <<retry_sec, report_disconnect, lag, writing>>
      /\ pc = "connect" /\ ~conn_fd /\ next_conn_ts' = After(retry_sec)
  BY Zenon DEF ConnectStart, Fixed, NextConnTs, ConnectFailed
<1>2. /\ Buffered(c) /\ HasRoom(c) /\ ConnTimeoutTrue(c) /\ Message /\ DOMAIN c = Fields
      /\ lag \in 0 .. MaxLag /\ Spare(c) = 0
  BY <1>1, Zenon DEF Inv, TypeInv, ConnInv, Buffered, Typed, One
<1>3. writing = 0 /\ ~report_disconnect /\ ~c.fd
  BY <1>1, Zenon DEF Inv, PollInv
<1>4. retry_sec \in Nat
  BY Constants DEF Inv, TypeInv
<1>5. next_conn_ts' \in Int /\ next_conn_ts' >= Never /\ Never' = Never
  BY <1>1, <1>2, <1>4, AfterNever, Zenon DEF Never
<1>6. CASE c' = NewSocket(c, "new") /\ conn_fd' = TRUE /\ pc' = pc
  <2>1. PICK d : d = NewSocket(c, "new")
    BY Zenon
  <2>2. Buffered(d) /\ Fresh(d) /\ Spare(d) = Spare(c) + 1
    BY <1>2, <1>3, <2>1, NewSocketFresh, Zenon
  <2>3. Spare(d) = 1
    BY <1>2, <2>2
  <2>4. c' = d /\ ~d.fd /\ ~d.timed_out
    BY <1>6, <2>1, <2>2, Zenon DEF Fresh
  <2>5. ConnInv'
    BY <1>6, <2>2, <2>3, <2>4, Zenon DEF ConnInv, HasRoom, One, Message, ConnTimeoutTrue
  <2>6. PhaseInv' /\ TypeInv' /\ PollInv'
    BY <1>1, <1>3, <1>5, <1>6, <2>2, <2>4, Zenon DEF Inv, TypeInv, PhaseInv, PollInv
  <2>7. QED
    BY <2>5, <2>6 DEF Inv
<1>7. CASE c' = [c EXCEPT !.last_error = "other"] /\ conn_fd' = conn_fd /\ pc' = "idle"
  <2>1. PICK d : d = [c EXCEPT !.last_error = "other"]
    BY Zenon
  <2>2. ErrorSet(c, d)
    BY <1>2, <2>1, ErrorSetFields, Zenon
  <2>3. Kept(c, d) /\ c' = d
    BY <1>2, <1>7, <2>1, <2>2, ErrorSetKept, Zenon
  <2>4. ~d.fd /\ ConnTimeoutTrue(d) /\ (Deadline(c) => Deadline(d))
    BY <1>2, <1>3, <2>2, Zenon DEF ErrorSet, ConnTimeoutTrue, Deadline, SameTimes
  <2>5. ConnInv' /\ PhaseInv'
    BY <1>1, <1>7, <2>3, <2>4, KeptInv, Zenon DEF HasRoom, Message
  <2>6. TypeInv' /\ PollInv'
    BY <1>1, <1>3, <1>5, <1>7, <2>4, Zenon DEF Inv, TypeInv, PollInv
  <2>7. QED
    BY <2>5, <2>6 DEF Inv
<1>8. QED
  BY <1>6, <1>7, Zenon DEF ConnectStart, ConnectFailed

GivenUp(d, e) ==
  /\ DOMAIN e = Fields /\ e.fd = d.fd /\ e.files = d.files - 1 /\ e.last_error = "other"
  /\ e.in = 0 /\ e.read = 0 /\ e.txq = 0 /\ e.consumed = 0
  /\ SameBuffer(d, e) /\ SameTimes(d, e)

\* An attempt given up, field by field.
LEMMA GivenUpFields ==
  ASSUME NEW d, DOMAIN d = Fields
  PROVE  GivenUp(d, [Released(d) EXCEPT !.last_error = "other"])
  BY Zenon DEF GivenUp, Released, Fields, SameBuffer, SameTimes

\* The descriptor of an attempt that failed is closed.
LEMMA GivenUpSound ==
  ASSUME NEW d, Buffered(d), ~d.fd, NEW e, GivenUp(d, e)
  PROVE  Buffered(e) /\ ~e.fd /\ Spare(e) = Spare(d) - 1 /\ ConnCloseReason(e) /\ SameTimes(d, e)
<1>1. 0 \in Nat /\ 0 \in Int /\ 0 <= 0 /\ d.files - 1 \in Int
  BY DEF Buffered, Typed
<1>2. Typed(e)
  BY <1>1, Zenon DEF Buffered, Typed, GivenUp, SameBuffer, SameTimes
<1>3. Buffered(e) /\ ~e.fd /\ ConnCloseReason(e) /\ SameTimes(d, e)
  BY <1>1, <1>2, Zenon DEF Buffered, ConnIntact, GivenUp, SameBuffer, ConnCloseReason
<1>4. Spare(e) = Spare(d) - 1
  <2>1. e.files = d.files - 1 /\ d.files \in Int
    BY Zenon DEF GivenUp, Buffered, Typed
  <2>2. QED
    BY <1>3, <2>1 DEF Spare
<1>5. QED
  BY <1>3, <1>4

\* The connection that poll has opened, before onTcpConnected and after it.
LEMMA ConnectedSound ==
  ASSUME NEW d, Buffered(d), Fresh(d), Spare(d) = 1, NEW l \in 0 .. MaxLag,
         NEW o \in Open(IF d.peer = "new" \/ d.peer = "pending"
                        THEN [d EXCEPT !.peer = "open"] ELSE d, l),
         NEW e, e = o \/ e \in Callback(o)
  PROVE  /\ Buffered(e) /\ HasRoom(e) /\ Whole(e) /\ Deadline(e) /\ ConnTimeoutTrue(e)
         /\ ConnCloseReason(e) /\ Spare(e) = 0
<1>1. DOMAIN d = Fields
  BY DEF Buffered, Typed
<1>2. PICK p : p = IF d.peer = "new" \/ d.peer = "pending"
                   THEN [d EXCEPT !.peer = "open"] ELSE d
  BY Zenon
<1>3. PeerChange(d, p) \/ p = d
  BY <1>1, <1>2, PeerFields, Zenon
<1>4. Buffered(p) /\ Fresh(p) /\ Spare(p) = 1
  BY <1>3, PeerChangeSteady, Zenon DEF Steady, Kept, PeerChange, Fresh, SameState, SameTimes
<1>5. /\ Buffered(o) /\ HasRoom(o) /\ Whole(o) /\ Deadline(o) /\ ~o.timed_out
      /\ ConnCloseReason(o) /\ Spare(o) = Spare(p) - 1
  BY <1>2, <1>4, OpenSound, Zenon
<1>6. Spare(o) = 0
  BY <1>4, <1>5
<1>7. CASE e = o
  BY <1>5, <1>6, <1>7, Zenon DEF ConnTimeoutTrue
<1>8. CASE e \in Callback(o)
  <2>1. Kept(o, e) /\ SameBuffer(o, e) /\ SameTimes(o, e) /\ (Whole(o) => Whole(e))
    BY <1>5, <1>8, CallbackKept, Zenon
  <2>2. QED
    BY <1>5, <1>6, <2>1, Zenon DEF Kept, HasRoom, SameBuffer, SameTimes, ConnTimeoutTrue, Deadline
<1>9. QED
  BY <1>7, <1>8

\* What PollConnect does, in its four cases.
PollOpened ==
  /\ conn_fd' = FALSE /\ report_disconnect' = TRUE /\ sessions' = sessions + 1 /\ pc' = "data"
  /\ \E o \in Open(IF c.peer = "new" \/ c.peer = "pending"
                    THEN [c EXCEPT !.peer = "open"] ELSE c, lag) : o.fd /\ c' \in Callback(o)

PollOpenFailed ==
  /\ conn_fd' = FALSE /\ pc' = "idle" /\ UNCHANGED <<report_disconnect, sessions>>
  /\ \E o \in Open(IF c.peer = "new" \/ c.peer = "pending"
                    THEN [c EXCEPT !.peer = "open"] ELSE c, lag) : ~o.fd /\ c' = o

PollPending ==
  /\ c' = [c EXCEPT !.peer = "pending"] /\ pc' = "idle"
  /\ UNCHANGED <<conn_fd, report_disconnect, sessions>>

PollRefused ==
  /\ conn_fd' = FALSE /\ pc' = "idle" /\ UNCHANGED <<report_disconnect, sessions>>
  /\ c' = [Released(c) EXCEPT !.last_error = "other"]

\* The ends of a poll of an attempt.
LEMMA PollConnectCases ==
  PollConnect => /\ pc = "connect" /\ conn_fd
                 /\ UNCHANGED <<next_conn_ts, lag, writing>>
                 /\ PollOpened \/ PollOpenFailed \/ PollPending \/ PollRefused
  BY Zenon DEF PollConnect, ConnectFailed, GiveUp, PollOpened, PollOpenFailed, PollPending,
               PollRefused

\* poll of an attempt: it goes on, fails, or becomes the connection.
LEMMA PollConnectInv == Inv /\ PollConnect /\ Fixed => Inv'
<1> SUFFICES ASSUME Inv, PollConnect, Fixed PROVE Inv'
  OBVIOUS
<1>1. /\ UNCHANGED <<retry_sec, next_conn_ts, lag, writing>> /\ pc = "connect" /\ conn_fd
      /\ PollOpened \/ PollOpenFailed \/ PollPending \/ PollRefused
  BY PollConnectCases, Zenon DEF Fixed
<1>2. /\ Buffered(c) /\ HasRoom(c) /\ ConnTimeoutTrue(c) /\ DOMAIN c = Fields
      /\ lag \in 0 .. MaxLag /\ Spare(c) = 1
  BY <1>1, Zenon DEF Inv, TypeInv, ConnInv, Buffered, Typed, One
<1>3. writing = 0 /\ ~report_disconnect /\ ~c.fd /\ Fresh(c)
  BY <1>1, Zenon DEF Inv, PhaseInv, PollInv
<1>4. Never' = Never
  BY DEF Never
<1>5. CASE PollOpened
  <2>1. PICK d : d = c'
    BY Zenon
  <2>2. /\ Buffered(d) /\ HasRoom(d) /\ Whole(d) /\ Deadline(d) /\ ConnTimeoutTrue(d)
        /\ ConnCloseReason(d) /\ Spare(d) = 0
    BY <1>2, <1>3, <1>5, <2>1, ConnectedSound, Zenon DEF PollOpened
  <2>3. conn_fd' = FALSE /\ report_disconnect' = TRUE /\ pc' = "data"
    BY <1>5, Zenon DEF PollOpened
  <2>4. ConnInv'
    BY <1>1, <1>3, <2>1, <2>2, <2>3, Zenon DEF ConnInv, One, Message, Whole
  <2>5. PhaseInv' /\ TypeInv' /\ PollInv'
    BY <1>1, <1>3, <1>4, <2>1, <2>2, <2>3, Zenon DEF Inv, TypeInv, PhaseInv, PollInv
  <2>6. QED
    BY <2>4, <2>5 DEF Inv
<1>6. CASE PollOpenFailed
  <2>1. PICK d : d = c'
    BY Zenon
  <2>2. /\ Buffered(d) /\ ConnTimeoutTrue(d) /\ ConnCloseReason(d) /\ Spare(d) = 0 /\ ~d.fd
    BY <1>2, <1>3, <1>6, <2>1, ConnectedSound, Zenon DEF PollOpenFailed
  <2>3. conn_fd' = FALSE /\ report_disconnect' = report_disconnect /\ pc' = "idle"
    BY <1>6, Zenon DEF PollOpenFailed
  <2>4. ConnInv'
    BY <2>1, <2>2, <2>3, Zenon DEF ConnInv, One, Message, HasRoom
  <2>5. PhaseInv' /\ TypeInv' /\ PollInv'
    BY <1>1, <1>3, <1>4, <2>1, <2>2, <2>3, Zenon DEF Inv, TypeInv, PhaseInv, PollInv
  <2>6. QED
    BY <2>4, <2>5 DEF Inv
<1>7. CASE PollPending
  <2>1. PICK d : d = c'
    BY Zenon
  <2>2. PeerChange(c, d)
    BY <1>2, <1>7, <2>1, PeerFields, Zenon DEF PollPending
  <2>3. Steady(c, d)
    BY <1>2, <2>2, PeerChangeSteady, Zenon
  <2>4. Kept(c, d) /\ HasRoom(d) /\ ConnTimeoutTrue(d) /\ (Deadline(c) => Deadline(d)) /\ Fresh(d)
    BY <1>2, <1>3, <2>2, <2>3, Zenon DEF Steady, PeerChange, SameTimes, SameState,
                                         ConnTimeoutTrue, Deadline, Fresh
  <2>5. UNCHANGED <<conn_fd, report_disconnect>> /\ pc' = "idle" /\ ~d.fd
    BY <1>7, <2>4, Zenon DEF PollPending, Fresh
  <2>6. ConnInv' /\ PhaseInv'
    BY <1>1, <1>3, <2>1, <2>4, <2>5, KeptInv, Zenon DEF Message
  <2>7. TypeInv' /\ PollInv'
    BY <1>1, <1>3, <1>4, <2>5, Zenon DEF Inv, TypeInv, PollInv
  <2>8. QED
    BY <2>6, <2>7 DEF Inv
<1>8. CASE PollRefused
  <2>1. PICK d : d = c'
    BY Zenon
  <2>2. GivenUp(c, d)
    BY <1>2, <1>8, <2>1, GivenUpFields, Zenon DEF PollRefused
  <2>3. Buffered(d) /\ ~d.fd /\ Spare(d) = Spare(c) - 1 /\ ConnCloseReason(d) /\ SameTimes(c, d)
    BY <1>2, <1>3, <2>2, GivenUpSound, Zenon
  <2>4. Spare(d) = 0
    BY <1>2, <2>3
  <2>5. ConnTimeoutTrue(d)
    BY <1>2, <2>3, Zenon DEF ConnTimeoutTrue, SameTimes
  <2>6. conn_fd' = FALSE /\ report_disconnect' = report_disconnect /\ pc' = "idle"
    BY <1>8, Zenon DEF PollRefused
  <2>7. ConnInv'
    BY <2>1, <2>3, <2>4, <2>5, <2>6, Zenon DEF ConnInv, One, Message, HasRoom
  <2>8. PhaseInv' /\ TypeInv' /\ PollInv'
    BY <1>1, <1>3, <1>4, <2>1, <2>3, <2>6, Zenon DEF Inv, TypeInv, PhaseInv, PollInv
  <2>9. QED
    BY <2>7, <2>8 DEF Inv
<1>9. QED
  BY <1>1, <1>5, <1>6, <1>7, <1>8, Zenon

\* The invariant is inductive.
LEMMA NextInv == Inv /\ [Next]_vars => Inv'
  BY PollStartInv, ConnectNotDueInv, ConnectStartInv, PollConnectInv, PollDataInv, UserCloseInv,
     AllowReconnectInv, StartWriteInv, WriteTurnInv, PeerInv, TickInv, Zenon
     DEF Next, Poll, User, Environment

\* Every reachable state satisfies the inductive invariant.
THEOREM ClientInv == Spec => []Inv
  BY InitInv, NextInv, PTL DEF Spec

\* Intact holds in every reachable state: what is left in the receive buffer is the
\* rest of the stream, and between two calls of write a message is sent whole.
THEOREM ClientIntact == Spec => []Intact
<1>1. Inv => Intact
  BY Zenon DEF Inv, ConnInv, Buffered, Message, Intact
<1>2. QED
  BY <1>1, ClientInv, PTL

\* ReportsTrue holds in every reachable state: neither "remote close" nor
\* onRecvTimeout is reported falsely, however polls, peer and clock interleave.
THEOREM ClientReportsTrue == Spec => []ReportsTrue
<1>1. Inv => ReportsTrue
  BY Zenon DEF Inv, ConnInv, ReportsTrue
<1>2. QED
  BY <1>1, ClientInv, PTL

\* NoFdLeak holds in every reachable state: connect, open and close account for
\* every descriptor of the kernel.
THEOREM ClientNoFdLeak == Spec => []NoFdLeak
<1>1. ASSUME Inv PROVE NoFdLeak
  <2>1. /\ c.files \in Int /\ c.fd \in BOOLEAN /\ conn_fd \in BOOLEAN
        /\ c.files - (IF c.fd THEN 1 ELSE 0) = IF conn_fd THEN 1 ELSE 0
    BY <1>1, Zenon DEF Inv, TypeInv, ConnInv, Buffered, Typed, Spare, One
  <2>2. QED
    BY <2>1 DEF NoFdLeak
<1>2. QED
  BY <1>1, ClientInv, PTL

-----------------------------------------------------------------------------
(* The refinement: each step is a step of TcpUserApi or leaves its variables *)
(* unchanged.                                                                *)

ApiStep == [Api!Next]_Api!apiVars

\* A step that leaves the abstract state alone.
LEMMA Stutter ==
  ASSUME UNCHANGED <<retry_sec, conn_fd, report_disconnect, sessions>>, c'.fd = c.fd,
         (next_conn_ts' # Never) = (next_conn_ts # Never)
  PROVE  ApiStep
<1>1. Never' = Never
  BY DEF Never
<1>2. UNCHANGED Api!apiVars
  BY <1>1, Zenon DEF Api!apiVars
<1>3. QED
  BY <1>2, Zenon DEF ApiStep

\* A step that leaves the abstract state alone or closes the connection.
LEMMA EndStep ==
  ASSUME Inv, UNCHANGED <<retry_sec, conn_fd, report_disconnect, sessions, next_conn_ts>>,
         c'.fd \in BOOLEAN, c'.fd => c.fd
  PROVE  ApiStep
<1>1. Never' = Never
  BY DEF Never
<1>2. c.fd \in BOOLEAN /\ (c.fd => report_disconnect) /\ (conn_fd => ~c.fd)
  BY Zenon DEF Inv, ConnInv, Buffered, Typed, PhaseInv, Fresh
<1>3. CASE c'.fd = c.fd
  BY <1>1, <1>3, Stutter, Zenon
<1>4. CASE c.fd /\ ~c'.fd
  <2>1. Api!End
    BY <1>1, <1>2, <1>4, Zenon DEF Api!End
  <2>2. QED
    BY <2>1, Zenon DEF ApiStep, Api!Next
<1>5. QED
  BY <1>2, <1>3, <1>4, Zenon

\* The data of an operation that cannot open a connection.
LEMMA KeptClosed ==
  ASSUME NEW d, Kept(c, d), c' = d
  PROVE  c'.fd \in BOOLEAN /\ (c'.fd => c.fd)
  BY Zenon DEF Kept, Buffered, Typed

\* poll begins: onTcpDisconnect is called if there is an end to report.
LEMMA PollStartStep == Inv /\ PollStart /\ Fixed => ApiStep
<1> SUFFICES ASSUME Inv, PollStart, Fixed PROVE ApiStep
  OBVIOUS
<1>1. /\ UNCHANGED <<retry_sec, c, conn_fd, next_conn_ts>>
      /\ report_disconnect' = (c.fd /\ report_disconnect)
      /\ sessions' = IF ~c.fd /\ report_disconnect THEN sessions - 1 ELSE sessions
  BY Zenon DEF PollStart, Fixed
<1>2. /\ c.fd \in BOOLEAN /\ report_disconnect \in BOOLEAN /\ (c.fd => report_disconnect)
      /\ conn_fd => ~report_disconnect
  BY Zenon DEF Inv, TypeInv, PhaseInv, ConnInv, Buffered, Typed
<1>3. Never' = Never
  BY DEF Never
<1>4. CASE ~c.fd /\ report_disconnect
  <2>1. Api!Disconnect
    BY <1>1, <1>2, <1>3, <1>4, Zenon DEF Api!Disconnect
  <2>2. QED
    BY <2>1, Zenon DEF ApiStep, Api!Next
<1>5. CASE ~(~c.fd /\ report_disconnect)
  <2>1. UNCHANGED <<report_disconnect, sessions>>
    BY <1>1, <1>2, <1>5, Zenon
  <2>2. QED
    BY <1>1, <1>3, <2>1, Stutter, Zenon
<1>6. QED
  BY <1>4, <1>5

\* connect is an attempt.
LEMMA ConnectStartStep == Inv /\ ConnectStart /\ Fixed => ApiStep
<1> SUFFICES ASSUME Inv, ConnectStart, Fixed PROVE ApiStep
  OBVIOUS
<1>1. /\ UNCHANGED <<retry_sec, report_disconnect, sessions>>
      /\ pc = "connect" /\ ~conn_fd /\ next_conn_ts' = After(retry_sec) /\ next_conn_ts # Never
  BY Zenon DEF ConnectStart, Fixed, NextConnTs, ConnectFailed, Reached
<1>2. ~c.fd /\ ~report_disconnect /\ Buffered(c) /\ DOMAIN c = Fields /\ lag \in 0 .. MaxLag
  BY <1>1, Zenon DEF Inv, PollInv, ConnInv, Buffered, Typed, TypeInv
<1>3. retry_sec \in Nat /\ Never' = Never
  BY Constants DEF Inv, TypeInv, Never
<1>4. (next_conn_ts' # Never) = (retry_sec # 0)
  BY <1>1, <1>2, <1>3, AfterNever, Zenon
<1>5. conn_fd' = TRUE \/ (conn_fd' = conn_fd /\ ~c'.fd)
  <2>1. CASE c' = [c EXCEPT !.last_error = "other"] /\ conn_fd' = conn_fd
    BY <1>2, <2>1, ErrorSetFields, Zenon DEF ErrorSet
  <2>2. QED
    BY <2>1, Zenon DEF ConnectStart
<1>6. Api!Attempt
  BY <1>1, <1>2, <1>3, <1>4, <1>5, Zenon DEF Api!Attempt
<1>7. QED
  BY <1>6, Zenon DEF ApiStep, Api!Next

\* The end of an attempt is Fail or Connected.
LEMMA PollConnectStep == Inv /\ PollConnect /\ Fixed => ApiStep
<1> SUFFICES ASSUME Inv, PollConnect, Fixed PROVE ApiStep
  OBVIOUS
<1>1. /\ UNCHANGED <<retry_sec, next_conn_ts>> /\ pc = "connect" /\ conn_fd
      /\ PollOpened \/ PollOpenFailed \/ PollPending \/ PollRefused
  BY PollConnectCases, Zenon DEF Fixed
<1>2. ~c.fd /\ ~report_disconnect /\ DOMAIN c = Fields
  BY <1>1, Zenon DEF Inv, PollInv, ConnInv, Buffered, Typed
<1>3. Never' = Never
  BY DEF Never
<1>4. CASE PollOpened
  <2>1. Api!Connected
    BY <1>1, <1>3, <1>4, Zenon DEF Api!Connected, PollOpened
  <2>2. QED
    BY <2>1, Zenon DEF ApiStep, Api!Next
<1>5. CASE PollOpenFailed \/ PollRefused
  <2>1. ~c'.fd /\ conn_fd' = FALSE /\ UNCHANGED <<report_disconnect, sessions>>
    BY <1>2, <1>5, GivenUpFields, Zenon DEF PollOpenFailed, PollRefused, GivenUp
  <2>2. Api!Fail
    BY <1>1, <1>2, <1>3, <2>1, Zenon DEF Api!Fail
  <2>3. QED
    BY <2>2, Zenon DEF ApiStep, Api!Next
<1>6. CASE PollPending
  <2>1. c'.fd = c.fd
    BY <1>2, <1>6, PeerFields, Zenon DEF PollPending, PeerChange, SameState
  <2>2. QED
    BY <1>1, <1>3, <1>6, <2>1, Stutter, Zenon DEF PollPending
<1>7. QED
  BY <1>1, <1>4, <1>5, <1>6, Zenon

\* allowReconnect is the one of the interface.
LEMMA AllowReconnectStep == Inv /\ AllowReconnect /\ Fixed => ApiStep
<1> SUFFICES ASSUME Inv, AllowReconnect, Fixed PROVE ApiStep
  OBVIOUS
<1>1. next_conn_ts' # Never' /\ UNCHANGED <<retry_sec, c, conn_fd, report_disconnect, sessions>>
  <2>1. Never' = Never
    BY DEF Never
  <2>2. QED
    BY <2>1, Constants, Zenon DEF AllowReconnect, Fixed
<1>2. Api!AllowReconnect
  BY <1>1, Zenon DEF Api!AllowReconnect
<1>3. QED
  BY <1>2, Zenon DEF ApiStep, Api!Next

\* Steps in which the connection may be closed, and no other thing the user sees.
LEMMA EndSteps ==
  ASSUME Inv, PollData \/ UserClose \/ WriteTurn \/ Answer \/ Peer, Fixed
  PROVE  ApiStep
<1>1. UNCHANGED <<retry_sec, conn_fd, report_disconnect, sessions, next_conn_ts>>
  BY Zenon DEF PollData, UserClose, WriteTurn, Answer, Peer, Fixed
<1>2. Buffered(c) /\ HasRoom(c) /\ lag \in 0 .. MaxLag /\ writing \in 0 .. MsgSize
  BY Zenon DEF Inv, ConnInv, TypeInv
<1>3. \E d : Kept(c, d) /\ c' = d
  <2>1. CASE PollData
    BY <1>2, <2>1, PollConnSteady, Zenon DEF PollData, Steady
  <2>2. CASE UserClose
    BY <1>2, <2>2, CloseKept, Zenon DEF UserClose, ReasonTrue
  <2>3. CASE WriteTurn
    <3>1. writing \in Nat
      BY <1>2, Constants
    <3>2. QED
      BY <1>2, <2>3, <3>1, WriteSomeKept, Zenon DEF WriteTurn
  <2>4. CASE Answer
    <3>1. DOMAIN c = Fields
      BY <1>2, Zenon DEF Buffered, Typed
    <3>2. QED
      BY <1>2, <2>4, <3>1, PeerFields, PeerChangeSteady, Zenon DEF Answer, Steady
  <2>5. CASE Peer
    BY <1>2, <2>5, PeerEventsSteady, Zenon DEF Peer, Steady
  <2>6. QED
    BY <2>1, <2>2, <2>3, <2>4, <2>5
<1>4. c'.fd \in BOOLEAN /\ (c'.fd => c.fd)
  BY <1>3, KeptClosed, Zenon
<1>5. QED
  BY <1>1, <1>4, EndStep, Zenon

\* Steps the user sees nothing of.
LEMMA SilentSteps ==
  ASSUME Inv, ((ConnectNotDue \/ StartWrite \/ Tick) /\ Fixed) \/ UNCHANGED vars
  PROVE  ApiStep
<1>1. UNCHANGED <<retry_sec, conn_fd, report_disconnect, sessions>>
  BY Zenon DEF ConnectNotDue, StartWrite, Tick, Fixed, vars
<1>2. c'.fd = c.fd
  <2>1. DOMAIN c = Fields
    BY Zenon DEF Inv, ConnInv, Buffered, Typed
  <2>2. QED
    BY <2>1, ElapseFields, Zenon DEF ConnectNotDue, StartWrite, Tick, vars, SameButTimes, SameState
<1>3. next_conn_ts' = next_conn_ts \/ next_conn_ts' = OneLess(next_conn_ts)
  BY Zenon DEF ConnectNotDue, StartWrite, Tick, vars
<1>4. (next_conn_ts' # Never) = (next_conn_ts # Never)
  BY <1>3, OneLessNever, Zenon DEF Inv, TypeInv
<1>5. QED
  BY <1>1, <1>2, <1>4, Stutter, Zenon

\* Every step is a step of the interface, or none that the user sees.
LEMMA NextStep == Inv /\ [Next]_vars => ApiStep
  BY PollStartStep, ConnectStartStep, PollConnectStep, AllowReconnectStep, EndSteps, SilentSteps,
     Zenon DEF Next, Poll, User, Environment

\* The client implements TcpUserApi: whatever happens, its callbacks alternate, a
\* session is reported closed before the next attempt, and with ConnRetrySec 0 an
\* attempt is made only when it was allowed.
THEOREM ClientImplementsApi == Spec => ImplementsApi
<1>1. Init => Api!Init
  BY NewConnSound, Constants, Zenon DEF Init, Api!Init
<1>2. Inv /\ [Next]_vars => [Api!Next]_Api!apiVars
  BY NextStep, Zenon DEF ApiStep
<1>3. QED
  BY <1>1, <1>2, ClientInv, PTL DEF Spec, ImplementsApi, Api!Spec
=============================================================================
