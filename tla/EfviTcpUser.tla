---------------------------- MODULE EfviTcpUser ----------------------------
(***************************************************************************)
(* EfviTcpClient and EfviTcpServer (src/efvitcp/EfviTcp.h), which give     *)
(* efvitcp::TcpClient and TcpServer the interface of the Socket versions.  *)
(* poll is the steps PollStart, UserTimeout, RetriesExceeded, TimeEnd,     *)
(* Frame and PollEnd.                                                      *)
(*                                                                         *)
(* Of a TcpConn, which module TcpConn models in full, a record keeps the   *)
(* three flags, the two user timers (seconds left), whether onTcpData has  *)
(* left bytes, whether sent bytes are not acknowledged, and whether the    *)
(* last connection went to TIME_WAIT.  A frame is what onPack makes of it; *)
(* one that establishes a connection and carries data is two frames here.  *)
(* A method that depends on the user is an operator to its outcomes.       *)
(*                                                                         *)
(* History: sessions counts the onTcpConnected calls less the ends the     *)
(* user knows of, dropped says that the user closed the connection in the  *)
(* current event, quiet and idle are the seconds without data and without  *)
(* a send, noticed says that the user was told of the silence, and early   *)
(* that a timeout was not due.                                             *)
(***************************************************************************)
EXTENDS Integers, FiniteSetsExt

CONSTANTS Roles,                            \* "client", "server" or both
          ConnRetrySec,                     \* the values of Conf::ConnRetrySec
          SendTimeoutSec, RecvTimeoutSec,
          MaxConns

ASSUME EfviTcpUserAssumption ==
  /\ Roles \subseteq {"client", "server"} /\ ConnRetrySec \subseteq Nat
  /\ SendTimeoutSec \in Nat /\ RecvTimeoutSec \in Nat /\ MaxConns \in Nat \ {0}

VARIABLES role, retry_sec,
          listening,      \* the server is not closed
          conn,
          next_conn_ts,   \* seconds left
          pc

vars == <<role, retry_sec, listening, conn, next_conn_ts, pc>>

Never == -1   \* for the largest int64_t: no countdown goes below 0
Off == -1
Slots == 0 .. MaxConns - 1
InUse == IF role = "client" THEN {0} ELSE Slots

NewConn ==
  [established |-> FALSE, fin_sent |-> TRUE, fin_received |-> TRUE,
   timer |-> [t \in 0 .. 1 |-> Off], left |-> FALSE, unacked |-> FALSE, tw |-> FALSE,
   sessions |-> 0, dropped |-> FALSE, quiet |-> 0, idle |-> 0, noticed |-> FALSE, early |-> FALSE]

Init ==
  /\ role \in Roles
  /\ retry_sec \in IF role = "client" THEN ConnRetrySec ELSE {1}
  /\ listening = (role = "server")
  /\ conn = [s \in Slots |-> NewConn]
  /\ next_conn_ts = 0 /\ pc = "idle"

-----------------------------------------------------------------------------
(* TcpConn, as the wrapper uses it. *)

IsClosed(c) == c.fin_received /\ ~c.established

\* reset and sendSyn.
Reset(c) ==
  [c EXCEPT !.established = FALSE, !.fin_sent = FALSE, !.fin_received = FALSE,
            !.left = FALSE, !.unacked = TRUE, !.tw = FALSE, !.quiet = 0, !.idle = 0]

\* Mutant: the timers are left running.
OnCloseKeepsTimers(c, enterTW) ==
  IF IsClosed(c) THEN c
  ELSE [c EXCEPT !.established = FALSE, !.fin_sent = TRUE, !.fin_received = TRUE,
                 !.unacked = FALSE, !.tw = enterTW, !.quiet = 0, !.idle = 0, !.noticed = FALSE]

OnClose(c, enterTW) ==
  IF IsClosed(c) THEN c
  ELSE [c EXCEPT !.established = FALSE, !.fin_sent = TRUE, !.fin_received = TRUE,
                 !.timer = [t \in 0 .. 1 |-> Off], !.unacked = FALSE, !.tw = enterTW,
                 !.quiet = 0, !.idle = 0, !.noticed = FALSE]

SetUserTimer(c, t, duration) == [c EXCEPT !.timer[t] = IF duration = 0 THEN Off ELSE duration]

-----------------------------------------------------------------------------
(* The user and its callbacks. *)

UserClose(c) ==
  IF IsClosed(c) THEN c
  ELSE [OnClose(c, FALSE) EXCEPT !.sessions = IF c.sessions > 0 THEN @ - 1 ELSE @,
                                 !.dropped = c.sessions > 0]

\* writeNonblock: all is accepted, or the connection is closed.  The timer of a
\* client is set in both cases, before the close.
WriteNonblock(c) ==
  {SetUserTimer([c EXCEPT !.unacked = TRUE, !.idle = 0], 0, SendTimeoutSec), UserClose(c)}

\* What a callback may do with its connection (external).
Callback(c) == {c, UserClose(c)} \cup (IF c.established THEN WriteNonblock(c) ELSE {})

\* onTcpDisconnect; a close by the user in the same event is counted already.
Disconnect(c) ==
  Callback(IF c.dropped THEN [c EXCEPT !.dropped = FALSE] ELSE [c EXCEPT !.sessions = @ - 1])

-----------------------------------------------------------------------------
(* The handlers of TmpHandler, and where TcpConn calls them. *)

\* Mutant: the receive timer is not set.
OnConnectionEstablishedUntimed(c) ==
  Callback(SetUserTimer([c EXCEPT !.established = TRUE, !.unacked = FALSE,
                                  !.sessions = @ + 1, !.quiet = 0, !.idle = 0], 0, SendTimeoutSec))

\* onEstablished.
OnConnectionEstablished(c) ==
  LET d == [c EXCEPT !.established = TRUE, !.unacked = FALSE, !.sessions = @ + 1,
                     !.quiet = 0, !.idle = 0]
  IN  Callback(SetUserTimer(SetUserTimer(d, 0, SendTimeoutSec), 1, RecvTimeoutSec))

\* onConnectionReset, then onClose or close.
OnConnectionReset(c) == {OnClose(d, FALSE) : d \in Disconnect(c)}

\* onConnectionTimeout, then close.  An attempt that fails is not reported by a
\* server.
OnConnectionTimeout(c) ==
  {OnClose(d, FALSE) : d \in IF c.established THEN Disconnect(c) ELSE {c}}

\* onConnectionClosed, then onClose(true).
OnConnectionClosed(c) == {OnClose(d, TRUE) : d \in Disconnect(c)}

\* Mutant: the connection is closed with a FIN of its own.
OnFinGraceful(c) ==
  UNION {Disconnect([d EXCEPT !.fin_sent = TRUE, !.unacked = TRUE]) :
           d \in IF c.left THEN Callback(c) ELSE {c}}

\* The bytes onTcpData has left are handed over again, the connection closed.
OnFin(c) ==
  UNION {Disconnect(OnClose(d, FALSE)) : d \in IF c.left THEN Callback(c) ELSE {c}}

OnData(c) ==
  UNION {{[d EXCEPT !.left = l] : l \in BOOLEAN} :
    d \in Callback(SetUserTimer([c EXCEPT !.quiet = 0, !.noticed = FALSE], 1, RecvTimeoutSec))}

\* onPack: data comes in order, and may fill the buffer; the FIN may come with it.
Text(c, f) ==
  CASE c.fin_received -> {c}
    [] f = "data"     -> OnData(c)
    [] f = "full"     -> UNION {OnConnectionReset(d) : d \in OnData(c)}
    [] f = "fin"      -> OnFin([c EXCEPT !.fin_received = TRUE])
    [] f = "datafin"  -> UNION {OnFin([d EXCEPT !.fin_received = TRUE]) : d \in OnData(c)}
    [] OTHER          -> {c}

OnPack(c, f) ==
  IF f = "rst" THEN OnConnectionReset(c)
  ELSE UNION {IF d.fin_sent /\ d.fin_received /\ d.established /\ ~d.unacked
              THEN OnConnectionClosed(d) ELSE {d} :
                d \in UNION {Text([c EXCEPT !.unacked = a], f) : a \in {c.unacked, FALSE}}}

-----------------------------------------------------------------------------
(* poll. *)

\* The end of an event.
Ended(c) == [c EXCEPT !.dropped = FALSE]
Becomes(s, outcomes) == \E d \in outcomes : conn' = [conn EXCEPT ![s] = Ended(d)]
Same == UNCHANGED <<role, retry_sec, listening>>

\* Mutant: with ConnRetrySec 0 the next attempt is due at once.
NextConnTsZero == retry_sec
NextConnTs == IF retry_sec = 0 THEN Never ELSE retry_sec

\* The client connects when it is time; connect may fail.
PollStart ==
  /\ pc = "idle" /\ pc' = "time"
  /\ IF role = "client" /\ IsClosed(conn[0]) /\ next_conn_ts = 0
     THEN next_conn_ts' = NextConnTs /\ Becomes(0, {conn[0], Reset(conn[0])})
     ELSE UNCHANGED <<conn, next_conn_ts>>
  /\ Same

\* onTimer: a user timer, which runs once.
UserTimeout(s, t) ==
  LET c == conn[s]
  IN  /\ pc = "time" /\ c.timer[t] = 0
      /\ Becomes(s, Callback([c EXCEPT !.timer[t] = Off, !.noticed = @ \/ t = 1,
                                !.early = @ \/ ~c.established
                                            \/ (t = 0 /\ c.idle < SendTimeoutSec)
                                            \/ (t = 1 /\ c.quiet < RecvTimeoutSec)]))
      /\ Same /\ UNCHANGED <<next_conn_ts, pc>>

\* onTimer: the resend timer, for the last time.
RetriesExceeded(s) ==
  /\ pc = "time" /\ ~IsClosed(conn[s]) /\ conn[s].unacked
  /\ Becomes(s, OnConnectionTimeout(conn[s]))
  /\ Same /\ UNCHANGED <<next_conn_ts, pc>>

TimeEnd ==
  /\ pc = "time" /\ \A s \in Slots, t \in 0 .. 1 : conn[s].timer[t] # 0
  /\ pc' = "net" /\ Same /\ UNCHANGED <<conn, next_conn_ts>>

\* A SYN of a new peer for the server.
Accept(s) ==
  /\ pc = "net" /\ listening /\ IsClosed(conn[s])
  /\ Becomes(s, {Reset(conn[s])})
  /\ Same /\ UNCHANGED <<next_conn_ts, pc>>

\* A frame before the connection is established: onConnectionRefused, or a reset
\* that a server does not report, and the end of the handshake.
Handshake(s) ==
  /\ pc = "net" /\ ~IsClosed(conn[s]) /\ ~conn[s].established
  /\ Becomes(s, {OnClose(conn[s], FALSE)} \cup OnConnectionEstablished(conn[s]))
  /\ Same /\ UNCHANGED <<next_conn_ts, pc>>

Frame(s) ==
  /\ pc = "net" /\ conn[s].established
  /\ \E f \in {"ack", "data", "full", "fin", "datafin", "rst"} : Becomes(s, OnPack(conn[s], f))
  /\ Same /\ UNCHANGED <<next_conn_ts, pc>>

PollEnd == pc = "net" /\ pc' = "idle" /\ Same /\ UNCHANGED <<conn, next_conn_ts>>

-----------------------------------------------------------------------------
(* The user between two polls or two events of a poll, and the clock. *)

\* A user who checks isConnected() before it writes.
Use(s) ==
  /\ Becomes(s, Callback(conn[s]) \ {conn[s]})
  /\ Same /\ UNCHANGED <<next_conn_ts, pc>>

AllowReconnect ==
  /\ role = "client" /\ next_conn_ts' = 0
  /\ Same /\ UNCHANGED <<conn, pc>>

\* close of the server closes its connections, too.
ServerClose ==
  /\ listening /\ listening' = FALSE
  /\ conn' = [s \in Slots |-> Ended(UserClose(conn[s]))]
  /\ UNCHANGED <<role, retry_sec, next_conn_ts, pc>>

Tick ==
  /\ pc = "idle"
  /\ conn' = [s \in Slots |->
                [conn[s] EXCEPT !.timer = [t \in 0 .. 1 |-> IF @[t] > 0 THEN @[t] - 1 ELSE @[t]],
                   !.quiet = IF conn[s].established THEN Min({@ + 1, RecvTimeoutSec}) ELSE @,
                   !.idle = IF conn[s].established THEN Min({@ + 1, SendTimeoutSec}) ELSE @]]
  /\ next_conn_ts' = IF next_conn_ts \in {0, Never} THEN next_conn_ts ELSE next_conn_ts - 1
  /\ Same /\ UNCHANGED pc

Next ==
  \/ PollStart \/ TimeEnd \/ PollEnd \/ AllowReconnect \/ ServerClose \/ Tick
  \/ \E s \in InUse : \/ \E t \in 0 .. 1 : UserTimeout(s, t)
                      \/ RetriesExceeded(s) \/ Accept(s) \/ Handshake(s) \/ Frame(s) \/ Use(s)

\* poll is called "repetitively" (README.md:81).
Spec ==
  /\ Init /\ [][Next]_vars
  /\ WF_vars(PollStart) /\ WF_vars(TimeEnd) /\ WF_vars(PollEnd)
  /\ \A s \in Slots, t \in 0 .. 1 : WF_vars(s \in InUse /\ UserTimeout(s, t))

-----------------------------------------------------------------------------
(* Properties. *)

\* However it ends, a connection leaves nothing behind: its end was told to the user or
\* caused by it, no user timer runs on, and it is never in TIME_WAIT, so that poll,
\* which connects to the same peer again, does not find its key in use.
EndsClean ==
  \A s \in Slots : IsClosed(conn[s]) =>
    conn[s].sessions = 0 /\ conn[s].timer = NewConn.timer /\ ~conn[s].tw

\* onSendTimeout and onRecvTimeout come only on a connection that is established and
\* has been idle for the time that was configured.
TimeoutsTrue == \A s \in Slots : ~conn[s].early

Api(s) == INSTANCE TcpUserApi
            WITH ReportsClose <- FALSE,
                 auto <- retry_sec # 0, allowed <- next_conn_ts # Never,
                 phase <- IF IsClosed(conn[s]) THEN "idle"
                          ELSE IF conn[s].established THEN "open" ELSE "trying",
                 sessions <- conn[s].sessions

\* The callbacks of each connection follow each other as SocketTcpClient's do, but
\* for a close by the user, of which it is not told.
ImplementsApi ==
  [][\A s \in Slots : [Api(s)!Next]_(Api(s)!apiVars)]_vars

\* onRecvTimeout: a peer that has fallen silent does not go unnoticed.
SilenceNoticed ==
  \A s \in Slots :
    []<>(conn[s].established => conn[s].noticed \/ conn[s].quiet < RecvTimeoutSec)
=============================================================================
