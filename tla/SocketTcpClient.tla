-------------------------- MODULE SocketTcpClient --------------------------
(***************************************************************************)
(* SocketTcpClient (src/Socket.h): a connection that connects and connects *)
(* again by itself.  poll is the steps PollStart, PollConnect and PollData,*)
(* between which the server, the network and the clock go on.  A deadline  *)
(* is the seconds left to it, as in SocketConn; Never, which no countdown  *)
(* reaches, stands for the largest int64_t.                                *)
(***************************************************************************)
EXTENDS SocketConn

CONSTANTS ConnRetrySec,    \* the values of Conf::ConnRetrySec
          ConnTimeoutSec

ASSUME ClientAssumption ==
  ConnRetrySec \subseteq Nat /\ ConnTimeoutSec \in Nat

VARIABLES retry_sec,            \* Conf::ConnRetrySec
          c,                    \* the connection, this
          report_disconnect,
          conn_fd,              \* conn_fd_ >= 0
          next_conn_ts, conn_expire_ts,
          pc, lag,              \* where poll is, and the age of its now
          writing,              \* bytes a call of write has left to send
          sessions,   \* history: onTcpConnected calls less onTcpDisconnect calls
          failed      \* history: an attempt has failed, less than a second ago

vars == <<retry_sec, c, report_disconnect, conn_fd, next_conn_ts, conn_expire_ts, pc, lag,
          writing, sessions, failed>>

Never == -MaxLag - 1

Init ==
  /\ retry_sec \in ConnRetrySec
  /\ c = NewConn /\ report_disconnect = FALSE /\ conn_fd = FALSE
  /\ next_conn_ts = -MaxLag /\ conn_expire_ts = -MaxLag
  /\ pc = "idle" /\ lag = 0 /\ writing = 0
  /\ sessions = 0 /\ failed = FALSE

\* Now has reached a deadline.
Reached(ts) == ts # Never /\ ts <= -lag
After(sec) == IF sec = 0 THEN Never ELSE sec - lag

-----------------------------------------------------------------------------
(* poll. *)

\* Mutant: the flag is cleared and nothing reported.
PollStartSilent ==
  /\ pc = "idle" /\ writing = 0 /\ lag' = 0
  /\ pc' = IF c.fd THEN "data" ELSE "connect"
  /\ report_disconnect' = (c.fd /\ report_disconnect)
  /\ UNCHANGED <<c, conn_fd, next_conn_ts, conn_expire_ts, writing, sessions, failed>>

\* The time is taken, and a connection that was closed is reported.
PollStart ==
  /\ pc = "idle" /\ writing = 0 /\ lag' = 0
  /\ pc' = IF c.fd THEN "data" ELSE "connect"
  /\ report_disconnect' = (c.fd /\ report_disconnect)
  /\ sessions' = IF ~c.fd /\ report_disconnect THEN sessions - 1 ELSE sessions
  /\ UNCHANGED <<c, conn_fd, next_conn_ts, conn_expire_ts, writing, failed>>

\* connect returns 0: the next attempt is not due.
ConnectNotDue ==
  /\ pc = "connect" /\ ~conn_fd /\ ~Reached(next_conn_ts)
  /\ pc' = "idle"
  /\ UNCHANGED <<c, report_disconnect, conn_fd, next_conn_ts, conn_expire_ts, lag,
                 writing, sessions, failed>>

ConnectFailed ==
  pc' = "idle" /\ failed' = TRUE /\ UNCHANGED <<report_disconnect, sessions>>

\* Mutant: with ConnRetrySec 0 the next attempt is due at once.
NextConnTsZero == retry_sec - lag
NextConnTs == After(retry_sec)

\* Mutant: an attempt does not expire.
ConnExpireTsNever == Never
ConnExpireTs == After(ConnTimeoutSec)

\* A new attempt: socket, bind and fcntl.  If one of them fails the descriptor
\* is closed again and connect returns -1; otherwise ::connect is next.
ConnectStart ==
  /\ pc = "connect" /\ ~conn_fd /\ Reached(next_conn_ts)
  /\ next_conn_ts' = NextConnTs
  /\ \/ /\ c' = NewSocket(c, "new") /\ conn_fd' = TRUE
        /\ conn_expire_ts' = ConnExpireTs
        /\ failed' = FALSE
        /\ UNCHANGED <<report_disconnect, pc, sessions>>
     \/ /\ SysCallsFail /\ ConnectFailed /\ c' = [c EXCEPT !.last_error = "other"]
        /\ UNCHANGED <<conn_fd, conn_expire_ts>>
  /\ UNCHANGED <<lag, writing>>

\* ::connect (external): a new socket's attempt fails at once, is under way or
\* succeeds; a later call tells what has become of it.
ConnectCall ==
  CASE c.peer = "new"     -> {"pending", "refused", "open"}
    [] c.peer = "pending" -> {"pending"}
    [] c.peer = "refused" -> {"refused"}
    [] c.peer = "reset"   -> {"refused", "open"}
    [] OTHER              -> {"open"}

\* Mutant: the descriptor of a failed attempt is dropped.
GiveUpLeaks == c' = [c EXCEPT !.peer = "none", !.last_error = "other"]
GiveUp == c' = [Released(c) EXCEPT !.last_error = "other"]

\* The rest of connect, from ::connect on, and what poll does with its result.
PollConnect ==
  /\ pc = "connect" /\ conn_fd
  /\ \E r \in ConnectCall :
       \/ /\ r = "open" /\ conn_fd' = FALSE
          /\ \E o \in Open(IF c.peer = "new" \/ c.peer = "pending"
                           THEN [c EXCEPT !.peer = "open"] ELSE c, lag) :
               IF o.fd
               THEN /\ report_disconnect' = TRUE /\ sessions' = sessions + 1
                    /\ c' \in Callback(o) /\ pc' = "data" /\ UNCHANGED failed
               ELSE c' = o /\ ConnectFailed
       \/ /\ r = "pending" /\ ~Reached(conn_expire_ts)
          /\ c' = [c EXCEPT !.peer = r] /\ pc' = "idle"
          /\ UNCHANGED <<conn_fd, report_disconnect, sessions, failed>>
       \/ /\ r = "refused" \/ (r = "pending" /\ Reached(conn_expire_ts))
          /\ conn_fd' = FALSE /\ GiveUp /\ ConnectFailed
  /\ UNCHANGED <<next_conn_ts, conn_expire_ts, lag, writing>>

PollData ==
  /\ pc = "data" /\ pc' = "idle"
  /\ c' \in PollConn(c, lag)
  /\ UNCHANGED <<report_disconnect, conn_fd, next_conn_ts, conn_expire_ts, lag,
                 writing, sessions, failed>>

-----------------------------------------------------------------------------
(* The user, between two polls; in callbacks, see Callback. *)

UserClose ==
  /\ pc = "idle" /\ writing = 0 /\ c.fd /\ c' = Close(c, "other")
  /\ UNCHANGED <<report_disconnect, conn_fd, next_conn_ts, conn_expire_ts, pc, lag,
                 writing, sessions, failed>>

\* allowReconnect, between polls or in a callback.
AllowReconnect ==
  /\ next_conn_ts' = -MaxLag
  /\ UNCHANGED <<c, report_disconnect, conn_fd, conn_expire_ts, pc, lag,
                 writing, sessions, failed>>

StartWrite ==
  /\ pc = "idle" /\ writing = 0 /\ c.fd /\ writing' = MsgSize
  /\ UNCHANGED <<c, report_disconnect, conn_fd, next_conn_ts, conn_expire_ts, pc, lag,
                 sessions, failed>>

Left(size, sent) == size - sent

\* One turn of the loop of write.
WriteTurn ==
  /\ writing > 0
  /\ \E w \in WriteSome(c, writing) :
       /\ c' = w[2]
       /\ writing' = IF w[1] < 0 THEN 0 ELSE Left(writing, w[1])
  /\ UNCHANGED <<report_disconnect, conn_fd, next_conn_ts, conn_expire_ts, pc, lag,
                 sessions, failed>>

-----------------------------------------------------------------------------
(* The server, the network and the clock. *)

Answer ==
  /\ c.peer = "pending" /\ conn_fd
  /\ \E r \in {"open", "refused"} : c' = [c EXCEPT !.peer = r]
  /\ UNCHANGED <<report_disconnect, conn_fd, next_conn_ts, conn_expire_ts, pc, lag,
                 writing, sessions, failed>>

Peer ==
  /\ c.fd \/ conn_fd
  /\ c' \in PeerEvents(c)
  /\ UNCHANGED <<report_disconnect, conn_fd, next_conn_ts, conn_expire_ts, pc, lag,
                 writing, sessions, failed>>

OneLess(ts) == IF ts = Never THEN Never ELSE Countdown(ts, 1)

Tick ==
  /\ IF pc = "idle" THEN UNCHANGED lag ELSE lag < MaxLag /\ lag' = lag + 1
  /\ c' = Elapse(c)
  /\ next_conn_ts' = OneLess(next_conn_ts) /\ conn_expire_ts' = OneLess(conn_expire_ts)
  /\ failed' = FALSE
  /\ UNCHANGED <<report_disconnect, conn_fd, pc, writing, sessions>>

Poll == PollStart \/ ConnectNotDue \/ ConnectStart \/ PollConnect \/ PollData
User == UserClose \/ AllowReconnect \/ StartWrite \/ WriteTurn
Environment == Answer \/ Peer \/ Tick

Fixed == UNCHANGED retry_sec

Next == (Poll \/ User \/ Environment) /\ Fixed

Spec == Init /\ [][Next]_vars

\* poll is called "repetitively" (README.md:81), and time passes; it need not
\* pass while a poll runs, so its fairness is strong.
FairSpec ==
  Spec /\ WF_vars(Poll /\ Fixed) /\ WF_vars(WriteTurn /\ Fixed) /\ SF_vars(Tick /\ Fixed)

-----------------------------------------------------------------------------
(* Properties. *)

TypeOK ==
  /\ ConnTypeOK(c) /\ report_disconnect \in BOOLEAN /\ conn_fd \in BOOLEAN
  /\ next_conn_ts \in -MaxLag .. retry_sec \cup {Never}
  /\ conn_expire_ts \in -MaxLag .. ConnTimeoutSec \cup {Never}
  /\ writing \in 0 .. MsgSize

\* read: the bytes kept between two calls of onTcpData are the rest of the
\* stream, across attempts and reconnections too (ConnIntact).  write and
\* writeNonblock: between calls an open connection has sent whole messages only;
\* one that sent part of a message and cannot send the rest is closed ("If data
\* can not be accepted immediately it simply closes the connection", README.md:27).
Intact ==
  /\ ConnIntact(c)
  /\ c.fd => c.tx = IF writing = 0 THEN 0 ELSE MsgSize - writing

\* What the user is told is true: "remote close" is the reason only for a peer
\* that closed and whose bytes were all read (ConnCloseReason), and onRecvTimeout
\* means RecvTimeoutSec without data (ConnTimeoutTrue).
ReportsTrue == (~conn_fd => ConnCloseReason(c)) /\ ConnTimeoutTrue(c)

Api == INSTANCE TcpUserApi
         WITH ReportsClose <- TRUE,
              auto <- retry_sec # 0, allowed <- next_conn_ts # Never,
              phase <- IF conn_fd THEN "trying" ELSE IF c.fd THEN "open"
                       ELSE IF report_disconnect THEN "closed" ELSE "idle"

\* poll: however attempts, failures, closes and allowReconnect follow each other,
\* onTcpConnected and onTcpDisconnect alternate, a connection is reported closed
\* before the next attempt, and with ConnRetrySec 0 each attempt was allowed.
ImplementsApi == Api!Spec

\* connect, open and close: each kernel descriptor is held by fd_ or conn_fd_,
\* and never by both.
NoFdLeak == c.files = (IF c.fd THEN 1 ELSE 0) + (IF conn_fd THEN 1 ELSE 0)

\* A connection that was closed, whoever closed it, gets its onTcpDisconnect.
ClosedIsReported == (sessions = 1 /\ ~c.fd) ~> (sessions = 0)

\* The client never hangs: again and again it has connected, an attempt has just
\* failed, or, with ConnRetrySec 0, it waits for allowReconnect.  With
\* ConnTimeoutSec an attempt that gets no answer ends.
KeepsTrying == []<>(sessions = 1 \/ failed \/ (retry_sec = 0 /\ ~conn_fd))
=============================================================================
