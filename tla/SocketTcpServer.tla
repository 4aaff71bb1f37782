-------------------------- MODULE SocketTcpServer --------------------------
(***************************************************************************)
(* SocketTcpServer (src/Socket.h): the table of connections, and poll as   *)
(* the steps PollAccept and PollNext, between which the peers, the network *)
(* and the clock go on.  A callback may close any connection, so UserClose *)
(* is possible between any two steps.  The position i of the loop counts   *)
(* from 0, as conns_ does.                                                 *)
(***************************************************************************)
EXTENDS SocketConn, FiniteSets, Functions

CONSTANTS MaxConns, Backlog

ASSUME ServerAssumption == MaxConns \in Nat \ {0} /\ Backlog \in Nat \ {0}

VARIABLES listening,   \* listenfd_ >= 0
          conns,       \* conns_: positions to connections
          conns_cnt,
          conn,        \* conns_data_
          pc, i, lag,  \* where poll is, and the age of its now
          backlog,     \* connections the kernel has for accept
          sessions,    \* history: onTcpConnected calls less onTcpDisconnect calls
          polled       \* history: pollConn calls of the current poll

vars == <<listening, conns, conns_cnt, conn, pc, i, lag, backlog, sessions, polled>>

Slots == 0 .. MaxConns - 1
None == [s \in Slots |-> 0]

Init ==
  /\ listening = TRUE /\ conns = [s \in Slots |-> s] /\ conns_cnt = 0
  /\ conn = [s \in Slots |-> NewConn]
  /\ pc = "idle" /\ i = 0 /\ lag = 0 /\ backlog = 0
  /\ sessions = None /\ polled = None

\* Mutant: the last connection of the table is never used.
CanAcceptShort == conns_cnt + 1 < MaxConns /\ listening /\ backlog > 0
CanAccept == conns_cnt < MaxConns /\ listening /\ backlog > 0

Accept ==
  LET s == conns[conns_cnt]
  IN  /\ backlog' = backlog - 1
      /\ \E o \in Open(NewSocket(conn[s], "open"), 0) :
           IF o.fd
           THEN /\ conns_cnt' = conns_cnt + 1
                /\ sessions' = [sessions EXCEPT ![s] = @ + 1]
                /\ \E d \in Callback(o) : conn' = [conn EXCEPT ![s] = d]
           ELSE /\ conn' = [conn EXCEPT ![s] = o]
                /\ UNCHANGED <<conns_cnt, sessions>>

\* The start of poll, which takes the time and tries accept.
PollAccept ==
  /\ pc = "idle" /\ pc' = "loop" /\ i' = 0 /\ lag' = 0 /\ polled' = None
  /\ \/ CanAccept /\ Accept
     \/ ~CanAccept /\ UNCHANGED <<conns_cnt, conn, backlog, sessions>>
  /\ UNCHANGED <<listening, conns>>

\* Mutant: the last connection replaces the closed one and is lost itself.
SwapLoses(k, n) == [conns EXCEPT ![k] = conns[n]]
Swap(k, n) == [conns EXCEPT ![k] = conns[n], ![n] = conns[k]]

\* Mutant: the loop goes on to the next position after a swap.
AfterSwapSkips(k) == k + 1
AfterSwap(k) == k

\* Mutant: the last connection is not polled.
InLoopShort(k) == k + 1 < conns_cnt
InLoop(k) == k < conns_cnt

\* One turn of the loop: pollConn, and onTcpDisconnect if it is closed now.
PollNext ==
  LET s == conns[i]
  IN  /\ pc = "loop" /\ InLoop(i)
      /\ polled' = [polled EXCEPT ![s] = @ + 1]
      /\ \E d \in PollConn(conn[s], lag) :
           /\ conn' = [conn EXCEPT ![s] = d]
           /\ IF d.fd
              THEN i' = i + 1 /\ UNCHANGED <<conns, conns_cnt, sessions>>
              ELSE /\ conns_cnt' = conns_cnt - 1
                   /\ conns' = Swap(i, conns_cnt - 1)
                   /\ sessions' = [sessions EXCEPT ![s] = @ - 1]
                   /\ i' = AfterSwap(i)
      /\ UNCHANGED <<listening, pc, lag, backlog>>

PollEnd ==
  /\ pc = "loop" /\ ~InLoop(i)
  /\ pc' = "idle"
  /\ UNCHANGED <<listening, conns, conns_cnt, conn, i, lag, backlog, sessions, polled>>

\* close of the server: connections that exist live on.
CloseListen ==
  /\ listening /\ listening' = FALSE /\ backlog' = 0
  /\ UNCHANGED <<conns, conns_cnt, conn, pc, i, lag, sessions, polled>>

\* The user closes a connection it has been told of, in a callback or not.
UserClose(s) ==
  /\ sessions[s] > 0
  /\ conn' = [conn EXCEPT ![s] = Close(@, "other")]
  /\ UNCHANGED <<listening, conns, conns_cnt, pc, i, lag, backlog, sessions, polled>>

Peer(s) ==
  /\ conn[s].fd
  /\ \E d \in PeerEvents(conn[s]) : conn' = [conn EXCEPT ![s] = d]
  /\ UNCHANGED <<listening, conns, conns_cnt, pc, i, lag, backlog, sessions, polled>>

PeerConnect ==
  /\ listening /\ backlog < Backlog /\ backlog' = backlog + 1
  /\ UNCHANGED <<listening, conns, conns_cnt, conn, pc, i, lag, sessions, polled>>

Tick ==
  /\ IF pc = "idle" THEN UNCHANGED lag ELSE lag < MaxLag /\ lag' = lag + 1
  /\ conn' = [s \in Slots |-> Elapse(conn[s])]
  /\ UNCHANGED <<listening, conns, conns_cnt, pc, i, backlog, sessions, polled>>

Poll == PollAccept \/ PollNext \/ PollEnd

Next ==
  \/ Poll \/ CloseListen \/ PeerConnect \/ Tick
  \/ \E s \in Slots : UserClose(s) \/ Peer(s)

Spec == Init /\ [][Next]_vars

\* poll is called "repetitively" (README.md:81).
FairSpec == Spec /\ WF_vars(PollAccept) /\ WF_vars(PollNext) /\ WF_vars(PollEnd)

-----------------------------------------------------------------------------
(* Properties. *)

TypeOK ==
  /\ conns_cnt \in 0 .. MaxConns /\ i \in 0 .. MaxConns
  /\ conns \in [Slots -> Slots]
  /\ \A s \in Slots : ConnTypeOK(conn[s])

\* poll: the first conns_cnt_ positions name exactly the connections between
\* their onTcpConnected and their onTcpDisconnect, so that the object accept
\* takes next is in no use; each connection has its events in turn.
TableExact ==
  /\ IsInjective(conns)
  /\ \A k \in Slots : sessions[conns[k]] = IF k < conns_cnt THEN 1 ELSE 0
  /\ \A k \in conns_cnt .. MaxConns - 1 : ~conn[conns[k]].fd

\* The loop of poll: although connections are swapped while it runs, it calls
\* pollConn once for each, and never twice.
PolledOnce ==
  /\ \A s \in Slots : polled[s] <= 1
  /\ pc = "loop" /\ i >= conns_cnt => \A k \in 0 .. conns_cnt - 1 : polled[conns[k]] = 1

\* A connection that was closed, whoever closed it, gets its onTcpDisconnect.
ClosedIsReported ==
  \A s \in Slots : (sessions[s] = 1 /\ ~conn[s].fd) ~> (sessions[s] = 0)

\* A connection the kernel has for accept is taken, unless the table is full or
\* the server closed.
BacklogServed == (backlog > 0) ~> (backlog = 0 \/ conns_cnt = MaxConns \/ ~listening)
=============================================================================
