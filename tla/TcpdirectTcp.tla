---------------------------- MODULE TcpdirectTcp ----------------------------
(***************************************************************************)
(* TcpdirectTcpClient and TcpdirectTcpServer (src/Tcpdirect.h).  poll of   *)
(* the client is the steps PollStart, ConnectSpin and PollData, and        *)
(* that of the server PollAccept, PollNext and PollEnd; the peers, the     *)
(* network and the clock go on between them.  Connection 0 is that of the  *)
(* client.  All zockets of a server share one stack, so that a call of the *)
(* reactor takes in packets for each of them.                              *)
(*                                                                         *)
(* The user keeps to what the code can take: it closes a connection in its *)
(* onTcpData and onRecvTimeout, and that of a client between two polls,    *)
(* too.  After a close anywhere else read is given a null zocket.          *)
(***************************************************************************)
EXTENDS TcpdirectConn, Functions

CONSTANTS Roles,           \* "client", "server" or both
          ConnRetrySec,    \* the values of Conf::ConnRetrySec
          MaxConns, Backlog,
          StreamLen,       \* bytes the server sends to a client
          ServerStreamLen  \* bytes each client sends to a server

ASSUME TcpdirectAssumption ==
  /\ Roles \subseteq {"client", "server"} /\ ConnRetrySec \subseteq Nat
  /\ MaxConns \in Nat \ {0} /\ Backlog \in Nat
  /\ StreamLen \in Nat /\ ServerStreamLen \in Nat

VARIABLES role, retry_sec,
          attr, stack,         \* attr_ and stack_ are set
          listener,            \* listener_ is set
          conn,                \* conns_data_; the client itself
          conns, conns_cnt,    \* positions to connections
          next_conn_ts,
          pc, i, lag,          \* where poll is, and the age of its now
          backlog,             \* connections the library has for zftl_accept
          sessions             \* history: onTcpConnected calls less the ends known to the user

setup == <<role, retry_sec, attr, stack, listener>>
table == <<conns, conns_cnt, i, backlog>>
vars == <<setup, conn, conns, conns_cnt, next_conn_ts, pc, i, lag, backlog, sessions>>

Never == 1000
Slots == 0 .. (IF role = "client" THEN 0 ELSE MaxConns - 1)

Init ==
  /\ role \in Roles
  /\ retry_sec \in IF role = "client" THEN ConnRetrySec ELSE {0}
  /\ attr = FALSE /\ stack = FALSE /\ listener = FALSE
  /\ conn = [s \in Slots |-> NewConn]
  /\ conns = [s \in Slots |-> s] /\ conns_cnt = 0
  /\ next_conn_ts = -MaxLag /\ pc = "idle" /\ i = 0 /\ lag = 0 /\ backlog = 0
  /\ sessions = [s \in Slots |-> 0]

\* init of the client: what it has is kept, and without a stack attr_ is freed.
ClientInit ==
  /\ role = "client" /\ pc = "idle"
  /\ \/ UNCHANGED <<attr, stack>>
     \/ ~stack /\ attr' = FALSE /\ UNCHANGED stack
     \/ attr' = TRUE /\ stack' = TRUE
  /\ UNCHANGED <<role, retry_sec, listener, conn, table, next_conn_ts, pc, lag, sessions>>

\* init of the server, tried again until it succeeds; conns_cnt_ stays as it is.
ServerInit ==
  /\ role = "server" /\ ~listener
  /\ conns' = [s \in Slots |-> s]
  /\ \/ UNCHANGED <<stack, listener>>
     \/ stack' = TRUE /\ listener' \in BOOLEAN
  /\ UNCHANGED <<role, retry_sec, attr, conn, conns_cnt, next_conn_ts, pc, i, lag,
                 backlog, sessions>>

\* close of the server frees the stack, so that the user must have no connection.
ServerClose ==
  /\ listener /\ pc = "idle" /\ conns_cnt = 0
  /\ listener' = FALSE /\ stack' = FALSE /\ backlog' = 0
  /\ UNCHANGED <<role, retry_sec, attr, conn, conns, conns_cnt, next_conn_ts, pc, i, lag, sessions>>

-----------------------------------------------------------------------------
(* poll of the client. *)

c == conn[0]
Client(d) == conn' = [conn EXCEPT ![0] = d]
Told(n) == sessions' = [sessions EXCEPT ![0] = @ + n]

\* Mutant: with ConnRetrySec 0 the next attempt is due at once.
NextConnTsZero == retry_sec
NextConnTs == IF retry_sec = 0 THEN Never ELSE retry_sec

\* connect up to its loop; zft_alloc, zft_addr_bind or zft_connect may fail.
Connect ==
  \/ Client(NewZocket(c, "SYN_SENT")) /\ pc' = "spin"
  \/ UNCHANGED <<conn, pc>>

PollStart ==
  /\ role = "client" /\ stack /\ pc = "idle" /\ lag' = 0
  /\ \/ IsConnected(c) /\ pc' = "data" /\ UNCHANGED <<conn, next_conn_ts>>
     \/ ~IsConnected(c) /\ next_conn_ts > 0 /\ UNCHANGED <<conn, pc, next_conn_ts>>
     \/ ~IsConnected(c) /\ next_conn_ts <= 0 /\ next_conn_ts' = NextConnTs /\ Connect
  /\ UNCHANGED <<setup, table, sessions>>

\* One turn of the loop of connect, and what follows it.
ConnectSpin ==
  /\ pc = "spin"
  /\ \E d \in Reactor(c) :
       \/ /\ d.state = "SYN_SENT"
          /\ Client(d) /\ UNCHANGED <<pc, sessions>>
       \/ /\ d.state = "ESTABLISHED"
          /\ \E e \in Callback(Open(d, 0), FALSE) : Client(e)
          /\ pc' = "data" /\ Told(1)
       \/ /\ d.state \notin {"SYN_SENT", "ESTABLISHED"}
          /\ Client(d) /\ pc' = "idle" /\ UNCHANGED sessions
  /\ UNCHANGED <<setup, table, next_conn_ts, lag>>

\* Mutant: the end of the connection is not reported.
PollDataSilent ==
  /\ pc = "data" /\ pc' = "idle"
  /\ \E d \in PollConn(c, lag) : Client(d)
  /\ UNCHANGED <<setup, table, next_conn_ts, lag, sessions>>

PollData ==
  /\ pc = "data" /\ pc' = "idle"
  /\ \E d \in PollConn(c, lag) :
       Client(d) /\ IF IsConnected(d) THEN UNCHANGED sessions ELSE Told(-1)
  /\ UNCHANGED <<setup, table, next_conn_ts, lag>>

\* allowReconnect, between polls or in a callback.
AllowReconnect ==
  /\ role = "client" /\ pc # "spin" /\ next_conn_ts' = -MaxLag
  /\ UNCHANGED <<setup, conn, table, pc, lag, sessions>>

\* close, or a writeNonblock that cannot send all, between two polls.  No callback
\* tells of it.
UserClose ==
  /\ role = "client" /\ pc = "idle" /\ IsConnected(c)
  /\ Client(Close(c)) /\ Told(-1)
  /\ UNCHANGED <<setup, table, next_conn_ts, pc, lag>>

-----------------------------------------------------------------------------
(* poll of the server. *)

\* The reactor takes in packets for the other connections.
ReactorOthers(s) == [Slots \ {s} -> UNION {Reactor(conn[t]) : t \in Slots \ {s}}]
OthersReact(s, d) ==
  \E f \in ReactorOthers(s) :
    /\ \A t \in Slots \ {s} : f[t] \in Reactor(conn[t])
    /\ conn' = [t \in Slots |-> IF t = s THEN d ELSE f[t]]

CanAccept == conns_cnt < MaxConns

PollAccept ==
  /\ role = "server" /\ listener /\ pc = "idle" /\ pc' = "loop" /\ i' = 0 /\ lag' = 0
  /\ \/ /\ CanAccept /\ backlog > 0
        /\ LET s == conns[conns_cnt]
           IN  /\ \E d \in Callback(Open(NewZocket(conn[s], "ESTABLISHED"), 0), FALSE) :
                    OthersReact(s, d)
               /\ sessions' = [sessions EXCEPT ![s] = @ + 1]
        /\ conns_cnt' = conns_cnt + 1 /\ backlog' = backlog - 1
     \/ /\ CanAccept /\ backlog = 0
        /\ \E d \in Reactor(conn[0]) : OthersReact(0, d)
        /\ UNCHANGED <<conns_cnt, backlog, sessions>>
     \/ ~CanAccept /\ UNCHANGED <<conn, conns_cnt, backlog, sessions>>
  /\ UNCHANGED <<setup, conns, next_conn_ts>>

\* Mutant: the last connection replaces the closed one and is lost itself.
SwapLoses(k, n) == [conns EXCEPT ![k] = conns[n]]
Swap(k, n) == [conns EXCEPT ![k] = conns[n], ![n] = conns[k]]

\* One turn of the loop: pollConn, and onTcpDisconnect if it is not connected now.
PollNext ==
  LET s == conns[i]
  IN  /\ pc = "loop" /\ i < conns_cnt
      /\ \E d \in PollConn(conn[s], lag) :
           /\ OthersReact(s, d)
           /\ IF IsConnected(d)
              THEN i' = i + 1 /\ UNCHANGED <<conns, conns_cnt, sessions>>
              ELSE /\ conns' = Swap(i, conns_cnt - 1) /\ conns_cnt' = conns_cnt - 1
                   /\ sessions' = [sessions EXCEPT ![s] = @ - 1]
                   /\ UNCHANGED i
      /\ UNCHANGED <<setup, next_conn_ts, pc, lag, backlog>>

PollEnd ==
  /\ pc = "loop" /\ i >= conns_cnt /\ pc' = "idle"
  /\ UNCHANGED <<setup, conn, conns, conns_cnt, next_conn_ts, i, lag, backlog, sessions>>

-----------------------------------------------------------------------------
(* The peers, the network and the clock. *)

Peer(s) ==
  /\ \E d \in PeerEvents(conn[s], IF role = "client" THEN StreamLen ELSE ServerStreamLen) :
       conn' = [conn EXCEPT ![s] = d]
  /\ UNCHANGED <<setup, table, next_conn_ts, pc, lag, sessions>>

\* An answer to the SYN; Rst also stands for the library giving up.
Answer ==
  /\ pc = "spin" /\ c.wire = <<>>
  /\ \E p \in {SynAck, Rst} : Client([c EXCEPT !.wire = <<p>>])
  /\ UNCHANGED <<setup, table, next_conn_ts, pc, lag, sessions>>

\* What the server sends behind its SYN-ACK may come in the same call of the reactor.
AnswerGoesOn ==
  /\ pc = "spin" /\ c.wire # <<>> /\ Head(c.wire) = SynAck /\ Len(c.wire) < 3
  /\ \E d \in PeerEvents([c EXCEPT !.state = "ESTABLISHED"], StreamLen) :
       Client([d EXCEPT !.state = "SYN_SENT"])
  /\ UNCHANGED <<setup, table, next_conn_ts, pc, lag, sessions>>

PeerConnect ==
  /\ listener /\ backlog < Backlog /\ backlog' = backlog + 1
  /\ UNCHANGED <<setup, conn, conns, conns_cnt, next_conn_ts, pc, i, lag, sessions>>

Tick ==
  /\ IF pc = "idle" THEN UNCHANGED lag ELSE lag < MaxLag /\ lag' = lag + 1
  /\ conn' = [s \in Slots |-> Elapse(conn[s])]
  /\ next_conn_ts' = IF next_conn_ts = Never THEN Never ELSE Countdown(next_conn_ts)
  /\ UNCHANGED <<setup, table, pc, sessions>>

ClientPoll == PollStart \/ ConnectSpin \/ PollData
ServerPoll == PollAccept \/ PollNext \/ PollEnd

Next ==
  \/ ClientInit \/ ServerInit \/ ServerClose \/ ClientPoll \/ ServerPoll
  \/ AllowReconnect \/ UserClose
  \/ Answer \/ AnswerGoesOn \/ PeerConnect \/ Tick
  \/ \E s \in Slots : Peer(s)

\* poll is called "repetitively" (README.md:81).
Spec ==
  /\ Init /\ [][Next]_vars
  /\ WF_vars(PollStart) /\ WF_vars(ConnectSpin) /\ WF_vars(PollData)
  /\ WF_vars(PollAccept) /\ WF_vars(PollNext) /\ WF_vars(PollEnd)

-----------------------------------------------------------------------------
(* Properties. *)

\* read: whether a packet is handed over where it lies or through the buffer, the
\* user gets the bytes of the peer in order; onRecvTimeout comes only after
\* RecvTimeoutSec without data; between calls whole messages were sent.
Intact ==
  \A s \in Slots :
    ConnIntact(conn[s]) /\ ConnTimeoutTrue(conn[s]) /\ (pc # "spin" => ConnNotTorn(conn[s]))

\* No null zocket is used ("this could have been closed", Tcpdirect.h:219) and no
\* established one abandoned: the object accept or connect takes next is in no use,
\* and each connection has its events in turn.
ZocksExact ==
  /\ \A s \in Slots : ZockUsed(conn[s])
  /\ role = "server" =>
       /\ IsInjective(conns)
       /\ \A k \in Slots : sessions[conns[k]] = IF k < conns_cnt THEN 1 ELSE 0

Api == INSTANCE TcpUserApi
         WITH ReportsClose <- FALSE,
              auto <- retry_sec # 0, allowed <- next_conn_ts # Never,
              phase <- IF pc = "spin" THEN "trying" ELSE IF IsConnected(c) THEN "open" ELSE "idle",
              sessions <- sessions[0]

\* poll of the client keeps the promises of SocketTcpClient's, but for a close by the
\* user between two polls, of which it does not tell.
ImplementsApi == [][role = "client" => [Api!Next]_(Api!apiVars)]_vars

\* A connection the peer has closed or reset, and one the user closed in a callback,
\* gets its onTcpDisconnect.
Ending(s) ==
  /\ s \in Slots /\ sessions[s] = 1
  /\ ~IsConnected(conn[s]) \/ Range(conn[s].wire) \cap {Fin, Rst} # {}
EndIsReported == \A s \in 0 .. MaxConns - 1 : Ending(s) ~> ~Ending(s)
=============================================================================
