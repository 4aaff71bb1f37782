----------------------- MODULE SocketTcpServerProofs -----------------------
(***************************************************************************)
(* Theorems on SocketTcpServer, for every MaxConns and whatever the peers, *)
(* the kernel and the user do: the table of connections is exact, poll     *)
(* serves each connection once, and each connection is sound.              *)
(***************************************************************************)
EXTENDS SocketTcpServer, SocketConnProofs

TypeInv ==
  /\ conns \in [Slots -> Slots] /\ conns_cnt \in 0 .. MaxConns
  /\ sessions \in [Slots -> Int] /\ polled \in [Slots -> Int]
  /\ DOMAIN conn = Slots
  /\ i \in Nat /\ lag \in 0 .. MaxLag

\* A connection of the server, in use or not: its buffer is intact, it has sent
\* whole messages, the kernel has no other descriptor for it, and what the user was
\* told of it is true.
Served(c) ==
  /\ Buffered(c) /\ HasRoom(c) /\ Whole(c) /\ Spare(c) = 0
  /\ ConnCloseReason(c) /\ ConnTimeoutTrue(c)

\* The objects of conns_data_; those in use have a receive timeout.
ConnsInv ==
  /\ \A s \in Slots : Served(conn[s])
  /\ \A k \in Slots : k < conns_cnt => Deadline(conn[conns[k]])

\* Where the loop of poll is: it has polled the connections before i and no other
\* one that it will reach.
LoopInv ==
  /\ \A s \in Slots : polled[s] <= 1
  /\ pc = "loop" =>
       /\ i <= conns_cnt
       /\ \A k \in Slots : k < i => polled[conns[k]] = 1
       /\ \A k \in Slots : i <= k /\ k < conns_cnt => polled[conns[k]] = 0

Inv == TypeInv /\ ConnsInv /\ TableExact /\ LoopInv

\* What the proofs use of the constants.
LEMMA Constants ==
  MaxConns \in Nat /\ MaxConns > 0 /\ MaxLag \in Nat /\ Slots = 0 .. MaxConns - 1
  BY ServerAssumption, SocketConnAssumption DEF Slots

\* A connection that was never used.
LEMMA NewConnServed == Served(NewConn)
  BY NewConnSound, Zenon DEF Served, HasRoom, Whole, ConnTimeoutTrue

\* At the start the table is empty.
LEMMA InitInv == Init => Inv
<1> SUFFICES ASSUME Init PROVE Inv
  OBVIOUS
<1>1. conns = [s \in Slots |-> s] /\ conns_cnt = 0 /\ conn = [s \in Slots |-> NewConn]
  BY DEF Init
<1>2. sessions = [s \in Slots |-> 0] /\ polled = [s \in Slots |-> 0] /\ i = 0 /\ lag = 0
  BY DEF Init, None
<1>3. TypeInv
  BY <1>1, <1>2, Constants DEF TypeInv
<1>4. \A s \in Slots : conn[s] = NewConn
  BY <1>1
<1>5. ConnsInv
  BY <1>1, <1>4, NewConnServed, Constants DEF ConnsInv
<1>6. ~NewConn.fd
  BY NewConnServed, Zenon DEF NewConn
<1>7. TableExact
  BY <1>1, <1>2, <1>4, <1>6, Constants DEF TableExact, IsInjective
<1>8. LoopInv
  BY <1>1, <1>2, Constants DEF LoopInv, Init
<1>9. QED
  BY <1>3, <1>5, <1>7, <1>8 DEF Inv

-----------------------------------------------------------------------------
(* The steps that leave the table alone. *)

\* A steady step of a connection keeps it sound.
LEMMA SteadyServed ==
  ASSUME NEW c, Served(c), NEW d, Steady(c, d), ConnTimeoutTrue(d)
  PROVE  Served(d)
  BY Zenon DEF Served, Steady, Kept

\* Connections change, and none is opened.
LEMMA ConnsStep ==
  ASSUME Inv, UNCHANGED <<conns, conns_cnt, pc, i, sessions, polled>>,
         lag' \in 0 .. MaxLag, DOMAIN conn' = Slots,
         \A s \in Slots : /\ Served(conn'[s]) /\ (conn'[s].fd => conn[s].fd)
                          /\ Deadline(conn[s]) => Deadline(conn'[s])
  PROVE  Inv'
<1>1. TypeInv'
  BY Zenon DEF Inv, TypeInv
<1>2. \A k \in Slots : conns[k] \in Slots
  BY DEF Inv, TypeInv
<1>3. ConnsInv'
  BY <1>2, Zenon DEF Inv, ConnsInv
<1>4. TableExact'
  <2>1. \A k \in conns_cnt .. MaxConns - 1 : k \in Slots
    BY Constants DEF Inv, TypeInv
  <2>2. QED
    BY <1>2, <2>1, Zenon DEF Inv, TableExact
<1>5. LoopInv'
  BY Zenon DEF Inv, LoopInv
<1>6. QED
  BY <1>1, <1>3, <1>4, <1>5 DEF Inv

\* One connection changes.
LEMMA OneConnStep ==
  ASSUME Inv, NEW s \in Slots, NEW d, conn' = [conn EXCEPT ![s] = d],
         UNCHANGED <<conns, conns_cnt, pc, i, lag, sessions, polled>>,
         Steady(conn[s], d), SameTimes(conn[s], d)
  PROVE  Inv'
<1>1. DOMAIN conn = Slots /\ lag \in 0 .. MaxLag
  BY DEF Inv, TypeInv
<1>2. DOMAIN conn' = Slots /\ lag' \in 0 .. MaxLag
  BY <1>1, Zenon
<1>3. conn'[s] = d /\ \A t \in Slots : t # s => conn'[t] = conn[t]
  BY <1>1, Zenon
<1>4. \A t \in Slots : Served(conn[t])
  BY DEF Inv, ConnsInv
<1>5. Served(d) /\ (d.fd => conn[s].fd) /\ (Deadline(conn[s]) => Deadline(d))
  BY <1>4, SteadyServed, Zenon DEF Served, ConnTimeoutTrue, SameTimes, Deadline, Steady, Kept
<1>6. ASSUME NEW t \in Slots
      PROVE  /\ Served(conn'[t]) /\ (conn'[t].fd => conn[t].fd)
             /\ Deadline(conn[t]) => Deadline(conn'[t])
  BY <1>3, <1>4, <1>5, Zenon
<1>7. QED
  BY <1>2, <1>6, ConnsStep, Zenon

\* close by the user, of one connection.
LEMMA UserCloseInv ==
  ASSUME Inv, NEW s \in Slots, UserClose(s)
  PROVE  Inv'
<1>1. Buffered(conn[s]) /\ ReasonTrue(conn[s], "other") /\ DOMAIN conn = Slots
  BY Zenon DEF Inv, TypeInv, ConnsInv, Served, ReasonTrue
<1>2. PICK d : d = Close(conn[s], "other")
  BY Zenon
<1>3. Kept(conn[s], d) /\ ~d.fd /\ SameTimes(conn[s], d)
  BY <1>1, <1>2, CloseKept, Zenon
<1>4. Steady(conn[s], d)
  BY <1>3, Zenon DEF Steady, HasRoom, Whole
<1>5. conn' = [conn EXCEPT ![s] = d] /\ UNCHANGED <<conns, conns_cnt, pc, i, lag, sessions, polled>>
  BY <1>2, Zenon DEF UserClose
<1>6. QED
  BY <1>3, <1>4, <1>5, OneConnStep, Zenon

\* What a peer does.
LEMMA PeerInv ==
  ASSUME Inv, NEW s \in Slots, Peer(s)
  PROVE  Inv'
<1>1. Buffered(conn[s])
  BY Zenon DEF Inv, ConnsInv, Served
<1>2. PICK d \in PeerEvents(conn[s]) : conn' = [conn EXCEPT ![s] = d]
  BY Zenon DEF Peer
<1>3. Steady(conn[s], d) /\ SameTimes(conn[s], d)
  BY <1>1, <1>2, PeerEventsSteady, Zenon DEF PeerChange
<1>4. UNCHANGED <<conns, conns_cnt, pc, i, lag, sessions, polled>>
  BY Zenon DEF Peer
<1>5. QED
  BY <1>2, <1>3, <1>4, OneConnStep, Zenon

\* A second.
LEMMA TickInv == Inv /\ Tick => Inv'
<1> SUFFICES ASSUME Inv, Tick PROVE Inv'
  OBVIOUS
<1>1. /\ UNCHANGED <<conns, conns_cnt, pc, i, sessions, polled>>
      /\ conn' = [s \in Slots |-> Elapse(conn[s])]
  BY Zenon DEF Tick
<1>2. lag' \in 0 .. MaxLag
  <2>1. lag \in 0 .. MaxLag /\ (lag' = lag \/ (lag < MaxLag /\ lag' = lag + 1))
    BY Zenon DEF Tick, Inv, TypeInv
  <2>2. QED
    BY <2>1, Constants
<1>3. DOMAIN conn' = Slots /\ \A s \in Slots : conn'[s] = Elapse(conn[s])
  BY <1>1, Zenon
<1>4. ASSUME NEW s \in Slots
      PROVE  /\ Served(conn'[s]) /\ (conn'[s].fd => conn[s].fd)
             /\ Deadline(conn[s]) => Deadline(conn'[s])
  <2>1. Served(conn[s])
    BY Zenon DEF Inv, ConnsInv
  <2>2. PICK d : d = Elapse(conn[s])
    BY Zenon
  <2>3. Steady(conn[s], d) /\ (Deadline(conn[s]) => Deadline(d)) /\ ConnTimeoutTrue(d)
    BY <2>1, <2>2, ElapseSteady, Zenon DEF Served
  <2>4. Served(d) /\ (d.fd => conn[s].fd)
    BY <2>1, <2>3, SteadyServed, Zenon DEF Steady, Kept
  <2>5. QED
    BY <1>3, <2>2, <2>3, <2>4, Zenon
<1>5. QED
  BY <1>1, <1>2, <1>3, <1>4, ConnsStep, Zenon

\* The steps that leave table and connections alone.
LEMMA OtherInv == Inv /\ (PollEnd \/ CloseListen \/ PeerConnect \/ UNCHANGED vars) => Inv'
<1> SUFFICES ASSUME Inv, PollEnd \/ CloseListen \/ PeerConnect \/ UNCHANGED vars PROVE Inv'
  OBVIOUS
<1>1. UNCHANGED <<conns, conns_cnt, conn, i, lag, sessions, polled>> /\ (pc' = pc \/ pc' = "idle")
  BY Zenon DEF PollEnd, CloseListen, PeerConnect, vars
<1>2. TypeInv' /\ ConnsInv' /\ TableExact'
  BY <1>1, Zenon DEF Inv, TypeInv, ConnsInv, TableExact
<1>3. "idle" # "loop"
  OBVIOUS
<1>4. LoopInv'
  BY <1>1, <1>3, Zenon DEF Inv, LoopInv
<1>5. QED
  BY <1>2, <1>4 DEF Inv

-----------------------------------------------------------------------------
(* accept. *)

\* The object of the first position that is not in use.
LEMMA FreeSlot ==
  ASSUME Inv, conns_cnt < MaxConns
  PROVE  /\ conns_cnt \in Slots /\ conns[conns_cnt] \in Slots
         /\ sessions[conns[conns_cnt]] = 0 /\ ~conn[conns[conns_cnt]].fd
<1>1. conns_cnt \in Slots /\ conns_cnt \in conns_cnt .. MaxConns - 1 /\ ~(conns_cnt < conns_cnt)
  BY Constants DEF Inv, TypeInv
<1>2. conns[conns_cnt] \in Slots
  BY <1>1 DEF Inv, TypeInv
<1>3. QED
  BY <1>1, <1>2, Zenon DEF Inv, TableExact

\* The object that accept opens, if the callback does not close it again.
LEMMA AcceptConn ==
  ASSUME NEW c, Served(c), ~c.fd, NEW o \in Open(NewSocket(c, "open"), 0)
  PROVE  Served(o) /\ Deadline(o) /\ (\A d \in Callback(o) : Served(d) /\ Deadline(d))
<1>1. 0 \in 0 .. MaxLag
  BY Constants
<1>2. PICK n : n = NewSocket(c, "open")
  BY Zenon
<1>3. Buffered(n) /\ Fresh(n) /\ Spare(n) = Spare(c) + 1
  BY <1>2, NewSocketFresh, Zenon DEF Served
<1>4. /\ Buffered(o) /\ HasRoom(o) /\ Whole(o) /\ Deadline(o) /\ ~o.timed_out
      /\ ConnCloseReason(o) /\ Spare(o) = Spare(n) - 1
  BY <1>1, <1>2, <1>3, OpenSound, Zenon
<1>5. Spare(o) = 0
  <2>1. Spare(c) = 0
    BY DEF Served
  <2>2. QED
    BY <1>3, <1>4, <2>1
<1>6. Served(o)
  BY <1>4, <1>5, Zenon DEF Served, ConnTimeoutTrue
<1>7. ASSUME NEW d \in Callback(o)
      PROVE  Served(d) /\ Deadline(d)
  <2>1. Kept(o, d) /\ SameBuffer(o, d) /\ SameTimes(o, d) /\ (Whole(o) => Whole(d))
    BY <1>4, CallbackKept, Zenon
  <2>2. Steady(o, d)
    BY <2>1, Zenon DEF Steady, Kept, HasRoom, SameBuffer
  <2>3. ConnTimeoutTrue(d) /\ Deadline(d)
    BY <1>4, <2>1, Zenon DEF ConnTimeoutTrue, Deadline, SameTimes
  <2>4. QED
    BY <1>6, <2>2, <2>3, SteadyServed, Zenon
<1>8. QED
  BY <1>4, <1>6, <1>7, Zenon

\* accept takes the first free slot, if there is one.
LEMMA PollAcceptInv == Inv /\ PollAccept => Inv'
<1> SUFFICES ASSUME Inv, PollAccept PROVE Inv'
  OBVIOUS
<1> DEFINE s == conns[conns_cnt]
<1>1. /\ pc' = "loop" /\ i' = 0 /\ lag' = 0 /\ polled' = [t \in Slots |-> 0]
      /\ conns' = conns
  BY Zenon DEF PollAccept, None
<1>2. /\ conns \in [Slots -> Slots] /\ conns_cnt \in 0 .. MaxConns
      /\ sessions \in [Slots -> Int] /\ DOMAIN conn = Slots
  BY DEF Inv, TypeInv
<1>3. /\ \A t \in Slots : Served(conn[t])
      /\ \A k \in Slots : k < conns_cnt => Deadline(conn[conns[k]])
  BY DEF Inv, ConnsInv
<1>4. /\ \A a, b \in Slots : conns[a] = conns[b] => a = b
      /\ \A k \in Slots : sessions[conns[k]] = IF k < conns_cnt THEN 1 ELSE 0
      /\ \A k \in conns_cnt .. MaxConns - 1 : ~conn[conns[k]].fd
  BY <1>2, Zenon DEF Inv, TableExact, IsInjective
<1>5. ASSUME conns_cnt' \in 0 .. MaxConns, sessions' \in [Slots -> Int], DOMAIN conn' = Slots
      PROVE  TypeInv' /\ LoopInv'
  <2>1. 0 \in Int /\ 0 \in Nat /\ lag' \in 0 .. MaxLag /\ i' \in Nat
    BY <1>1, Constants
  <2>2. polled' \in [Slots -> Int] /\ \A t \in Slots : polled'[t] = 0
    BY <1>1, <2>1, Zenon
  <2>3. TypeInv'
    BY <1>1, <1>2, <1>5, <2>1, <2>2, Zenon DEF TypeInv
  <2>4. \A k \in Slots : ~(k < i') /\ conns[k] \in Slots
    BY <1>1, <1>2, Constants, SMTT(30)
  <2>5. 0 <= 1 /\ i' <= conns_cnt'
    BY <1>1, <1>5, Constants
  <2>6. LoopInv'
    BY <1>1, <2>2, <2>4, <2>5, Zenon DEF LoopInv
  <2>7. QED
    BY <2>3, <2>6
<1>6. CASE UNCHANGED <<conns_cnt, conn, backlog, sessions>>
  <2>1. ConnsInv' /\ TableExact'
    BY <1>1, <1>6, Zenon DEF Inv, ConnsInv, TableExact
  <2>2. conns_cnt' \in 0 .. MaxConns /\ sessions' \in [Slots -> Int] /\ DOMAIN conn' = Slots
    BY <1>2, <1>6, Zenon
  <2>3. QED
    BY <1>5, <2>1, <2>2, Zenon DEF Inv
<1>7. CASE CanAccept /\ Accept
  <2>1. conns_cnt < MaxConns
    BY <1>7, Zenon DEF CanAccept
  <2>2. conns_cnt \in Slots /\ s \in Slots /\ sessions[s] = 0 /\ ~conn[s].fd
    BY <2>1, FreeSlot, Zenon
  <2>3. PICK o \in Open(NewSocket(conn[s], "open"), 0) :
          IF o.fd
          THEN /\ conns_cnt' = conns_cnt + 1
               /\ sessions' = [sessions EXCEPT ![s] = @ + 1]
               /\ \E d \in Callback(o) : conn' = [conn EXCEPT ![s] = d]
          ELSE /\ conn' = [conn EXCEPT ![s] = o]
               /\ UNCHANGED <<conns_cnt, sessions>>
    BY <1>7, Zenon DEF Accept
  <2>4. Served(o) /\ Deadline(o) /\ (\A d \in Callback(o) : Served(d) /\ Deadline(d))
    BY <1>3, <2>2, <2>3, AcceptConn, Zenon
  <2> HIDE DEF s
  <2>5. s = conns[conns_cnt]
    BY DEF s
  <2>6. CASE o.fd
    <3>1. /\ conns_cnt' = conns_cnt + 1 /\ sessions' = [sessions EXCEPT ![s] = @ + 1]
          /\ \E d \in Callback(o) : conn' = [conn EXCEPT ![s] = d]
      BY <2>3, <2>6, Zenon
    <3>2. PICK d \in Callback(o) : conn' = [conn EXCEPT ![s] = d]
      BY <3>1, Zenon
    <3>3. /\ DOMAIN conn' = Slots /\ Served(conn'[s]) /\ Deadline(conn'[s])
          /\ \A t \in Slots : t # s => conn'[t] = conn[t]
      BY <1>2, <2>2, <2>4, <3>2, Zenon
    <3>4. conns_cnt' = conns_cnt + 1 /\ conns_cnt' \in 0 .. MaxConns
      BY <1>2, <2>1, <3>1, Constants
    <3>5. sessions' \in [Slots -> Int] /\ sessions'[s] = 1 /\ \A t \in Slots : t # s => sessions'[t] = sessions[t]
      BY <1>2, <2>2, <3>1
    <3>6. /\ \A k \in Slots : k < conns_cnt' => k < conns_cnt \/ k = conns_cnt
          /\ \A k \in Slots : k < conns_cnt => k < conns_cnt' /\ k # conns_cnt
          /\ conns_cnt < conns_cnt'
          /\ \A k \in conns_cnt' .. MaxConns - 1 :
               k \in Slots /\ k \in conns_cnt .. MaxConns - 1 /\ k # conns_cnt
      BY <1>2, <3>4, Constants, SMTT(30)
    <3>7. \A k \in Slots : conns[k] \in Slots /\ (k # conns_cnt => conns[k] # s)
      BY <1>2, <1>4, <2>2, <2>5, Zenon
    <3>8. ConnsInv'
      BY <1>1, <1>3, <2>5, <3>3, <3>6, <3>7, Zenon DEF ConnsInv
    <3>9. \A k \in Slots : sessions'[conns[k]] = IF k < conns_cnt' THEN 1 ELSE 0
      BY <1>4, <2>5, <3>5, <3>6, <3>7, Zenon
    <3>10. \A k \in conns_cnt' .. MaxConns - 1 : ~conn'[conns[k]].fd
      BY <1>4, <3>3, <3>6, <3>7, Zenon
    <3>11. TableExact'
      BY <1>1, <3>9, <3>10, Zenon DEF Inv, TableExact
    <3>12. QED
      BY <1>5, <3>3, <3>4, <3>5, <3>8, <3>11, Zenon DEF Inv
  <2>7. CASE ~o.fd
    <3>1. conn' = [conn EXCEPT ![s] = o] /\ UNCHANGED <<conns_cnt, sessions>>
      BY <2>3, <2>7, Zenon
    <3>2. /\ DOMAIN conn' = Slots /\ conn'[s] = o
          /\ \A t \in Slots : t # s => conn'[t] = conn[t]
      BY <1>2, <2>2, <3>1, Zenon
    <3>3. conns_cnt' \in 0 .. MaxConns /\ sessions' \in [Slots -> Int]
      BY <1>2, <3>1, Zenon
    <3>4. ConnsInv'
      BY <1>1, <1>2, <1>3, <2>2, <2>4, <2>5, <3>1, <3>2, Constants, ZenonT(40) DEF ConnsInv
    <3>5. \A k \in conns_cnt .. MaxConns - 1 : ~conn'[conns[k]].fd
      <4>1. \A k \in conns_cnt .. MaxConns - 1 : conns[k] \in Slots
        BY <1>2, Constants, SMTT(30)
      <4>2. QED
        BY <1>4, <2>7, <3>2, <4>1, Zenon
    <3>6. TableExact'
      BY <1>1, <3>1, <3>5, Zenon DEF Inv, TableExact
    <3>7. QED
      BY <1>5, <3>2, <3>3, <3>4, <3>6, Zenon DEF Inv
  <2>8. QED
    BY <2>4, <2>6, <2>7, Zenon
<1>8. QED
  BY <1>6, <1>7, Zenon DEF PollAccept

\* The positions after onTcpDisconnect: the connection at k and the last one, at n,
\* have changed places, and the table is a permutation still.
LEMMA SwapTable ==
  ASSUME conns \in [Slots -> Slots], IsInjective(conns),
         NEW k \in Slots, NEW n \in Slots, NEW g, g = Swap(k, n)
  PROVE  /\ g \in [Slots -> Slots] /\ IsInjective(g)
         /\ g[k] = conns[n] /\ g[n] = conns[k]
         /\ \A j \in Slots : j # k /\ j # n => g[j] = conns[j]
<1>1. \A a, b \in Slots : conns[a] = conns[b] => a = b
  BY Zenon DEF IsInjective
<1>2. g \in [Slots -> Slots]
  BY Zenon DEF Swap
<1>3. /\ g[k] = conns[n] /\ g[n] = conns[k]
      /\ \A j \in Slots : j # k /\ j # n => g[j] = conns[j]
  BY Zenon DEF Swap
<1>4. \A a, b \in Slots : g[a] = g[b] => a = b
  BY <1>1, <1>3, SMT
<1>5. QED
  BY <1>2, <1>3, <1>4, Zenon DEF IsInjective

\* One turn of the loop of poll: a connection that is closed leaves the table, and the
\* last takes its place.
LEMMA PollNextInv == Inv /\ PollNext => Inv'
<1> SUFFICES ASSUME Inv, PollNext PROVE Inv'
  OBVIOUS
<1>1. /\ conns \in [Slots -> Slots] /\ conns_cnt \in 0 .. MaxConns
      /\ sessions \in [Slots -> Int] /\ polled \in [Slots -> Int]
      /\ DOMAIN conn = Slots /\ i \in Nat /\ lag \in 0 .. MaxLag
  BY DEF Inv, TypeInv
<1>2. /\ \A t \in Slots : Served(conn[t])
      /\ \A k \in Slots : k < conns_cnt => Deadline(conn[conns[k]])
  BY DEF Inv, ConnsInv
<1>3. /\ \A a, b \in Slots : conns[a] = conns[b] => a = b
      /\ \A k \in Slots : sessions[conns[k]] = IF k < conns_cnt THEN 1 ELSE 0
      /\ \A k \in conns_cnt .. MaxConns - 1 : ~conn[conns[k]].fd
  BY <1>1, Zenon DEF Inv, TableExact, IsInjective
<1>0. i < conns_cnt
  BY Zenon DEF PollNext, InLoop
<1>4. pc = "loop" /\ pc' = "loop" /\ lag' = lag
  BY Zenon DEF PollNext
<1>5. /\ \A t \in Slots : polled[t] <= 1
      /\ \A k \in Slots : k < i => polled[conns[k]] = 1
      /\ \A k \in Slots : i <= k /\ k < conns_cnt => polled[conns[k]] = 0
  BY <1>4, Zenon DEF Inv, LoopInv
<1>n. i \in Nat /\ conns_cnt \in 0 .. MaxConns
  BY <1>1, Zenon
<1>6. i \in Slots /\ conns[i] \in Slots /\ i <= i
  <2>1. i \in Slots /\ i <= i
    BY <1>0, <1>n, Constants
  <2>2. QED
    BY <1>1, <2>1, Zenon
<1>7. PICK s \in Slots : s = conns[i]
  BY <1>6
<1>8. PICK d \in PollConn(conn[s], lag) :
        /\ conn' = [conn EXCEPT ![s] = d]
        /\ IF d.fd
           THEN i' = i + 1 /\ UNCHANGED <<conns, conns_cnt, sessions>>
           ELSE /\ conns_cnt' = conns_cnt - 1
                /\ conns' = Swap(i, conns_cnt - 1)
                /\ sessions' = [sessions EXCEPT ![s] = @ - 1]
                /\ i' = i
  BY <1>7, Zenon DEF PollNext, AfterSwap
<1>9. polled[s] = 0 /\ sessions[s] = 1 /\ polled' = [polled EXCEPT ![s] = @ + 1]
  BY <1>0, <1>3, <1>5, <1>6, <1>7, Zenon DEF PollNext
<1>10. Served(conn[s]) /\ Deadline(conn[s])
  BY <1>0, <1>2, <1>6, <1>7, Zenon
<1>11. Served(d) /\ Deadline(d)
  <2>1. Steady(conn[s], d) /\ Deadline(d) /\ ConnTimeoutTrue(d)
    BY <1>1, <1>10, PollConnSteady, Zenon DEF Served
  <2>2. QED
    BY <1>10, <2>1, SteadyServed, Zenon
<1>12. /\ DOMAIN conn' = Slots /\ conn'[s] = d
       /\ \A t \in Slots : t # s => conn'[t] = conn[t]
  BY <1>1, <1>8, Zenon
<1>13. /\ polled' \in [Slots -> Int] /\ polled'[s] = 1
       /\ \A t \in Slots : t # s => polled'[t] = polled[t]
  BY <1>1, <1>9
<1>14. 1 <= 1 /\ \A t \in Slots : Served(conn'[t])
  BY <1>2, <1>11, <1>12
<1>15. \A t \in Slots : polled'[t] <= 1
  BY <1>5, <1>13, <1>14, Zenon
<1>16. \A k \in Slots : conns[k] \in Slots /\ (k # i => conns[k] # s)
  BY <1>1, <1>3, <1>6, <1>7, Zenon
<1>17. CASE d.fd
  <2>1. /\ i' = i + 1 /\ conns' = conns /\ conns_cnt' = conns_cnt /\ sessions' = sessions
    BY <1>8, <1>17, Zenon
  <2>2. /\ i' \in Nat /\ i' <= conns_cnt
        /\ \A k \in Slots : k < i' => k < i \/ k = i
        /\ \A k \in Slots : i' <= k => i <= k /\ k # i
        /\ \A k \in conns_cnt .. MaxConns - 1 : k \in Slots /\ k # i
    <3>1. i' = i + 1
      BY <2>1
    <3>2. QED
      BY <1>0, <1>n, <3>1, Constants
  <2>3. TypeInv'
    BY <1>1, <1>4, <1>12, <1>13, <2>1, <2>2, Zenon DEF TypeInv
  <2>4. ConnsInv'
    BY <1>2, <1>7, <1>11, <1>12, <1>14, <1>16, <2>1, Zenon DEF ConnsInv
  <2>5. \A k \in conns_cnt .. MaxConns - 1 : ~conn'[conns[k]].fd
    BY <1>3, <1>12, <1>16, <2>2, Zenon
  <2>6. TableExact'
    BY <2>1, <2>5, Zenon DEF Inv, TableExact
  <2>7. LoopInv'
    BY <1>5, <1>7, <1>13, <1>15, <1>16, <2>1, <2>2, Zenon DEF LoopInv
  <2>8. QED
    BY <2>3, <2>4, <2>6, <2>7 DEF Inv
<1>18. CASE ~d.fd
  <2>1. PICK n \in Slots : n = conns_cnt - 1
    BY <1>0, <1>1, Constants
  <2>2. /\ i' = i /\ conns_cnt' = n /\ conns' = Swap(i, n)
        /\ sessions' = [sessions EXCEPT ![s] = @ - 1]
    BY <1>8, <1>18, <2>1, Zenon
  <2>3. /\ sessions' \in [Slots -> Int] /\ sessions'[s] = 0
        /\ \A t \in Slots : t # s => sessions'[t] = sessions[t]
    BY <1>1, <1>9, <2>2
  <2>4. IsInjective(conns)
    BY DEF Inv, TableExact
  <2>5. /\ conns' \in [Slots -> Slots] /\ IsInjective(conns')
        /\ conns'[i] = conns[n] /\ conns'[n] = s
        /\ \A j \in Slots : j # i /\ j # n => conns'[j] = conns[j]
    <3>0. conns \in [Slots -> Slots] /\ i \in Slots
      BY <1>1, <1>6, Zenon
    <3>1. PICK g : g = Swap(i, n)
      BY Zenon
    <3>2. /\ g \in [Slots -> Slots] /\ IsInjective(g)
          /\ g[i] = conns[n] /\ g[n] = conns[i]
          /\ \A j \in Slots : j # i /\ j # n => g[j] = conns[j]
      BY <2>4, <3>0, <3>1, SwapTable
    <3>3. QED
      BY <1>7, <2>2, <3>1, <3>2, Zenon
  <2>6. /\ n \in 0 .. MaxConns /\ n < conns_cnt /\ ~(n < n) /\ i <= n
        /\ \A k \in Slots : k < i => k # i /\ k # n
        /\ \A k \in Slots : k < n => k < conns_cnt /\ k # n
        /\ \A k \in Slots : ~(k < n) /\ k # n => ~(k < conns_cnt) /\ k # i
        /\ \A k \in n .. MaxConns - 1 : k \in Slots /\ (k # n => k \in conns_cnt .. MaxConns - 1 /\ k # i)
    BY <1>0, <1>n, <2>1, Constants
  <2>7. TypeInv'
    BY <1>1, <1>4, <1>12, <1>13, <2>2, <2>3, <2>5, <2>6, Zenon DEF TypeInv
  <2>8. \A k \in Slots : k # n =>
          \E j \in Slots : /\ j # i /\ conns'[k] = conns[j] /\ (k # i => j = k) /\ (k = i => j = n)
    BY <1>6, <2>5, Zenon
  <2>9. ASSUME NEW k \in Slots, k < n
        PROVE  \E j \in Slots : /\ j < conns_cnt /\ conns'[k] = conns[j] /\ conns[j] # s
                                /\ (i <= k => i <= j)
    <3>1. k # n
      BY <2>6, <2>9, Zenon
    <3>2. PICK j \in Slots : j # i /\ conns'[k] = conns[j] /\ (k # i => j = k) /\ (k = i => j = n)
      BY <2>8, <3>1, Zenon
    <3>3. j < conns_cnt /\ (i <= k => i <= j)
      BY <2>6, <2>9, <3>2, Zenon
    <3>4. QED
      BY <1>16, <3>2, <3>3, Zenon
  <2>10. ConnsInv'
    <3>1. ASSUME NEW k \in Slots, k < n PROVE Deadline(conn'[conns'[k]])
      <4>1. PICK j \in Slots : j < conns_cnt /\ conns'[k] = conns[j] /\ conns[j] # s
        BY <2>9, <3>1, Zenon
      <4>2. QED
        BY <1>2, <1>12, <1>16, <4>1, Zenon
    <3>2. QED
      BY <1>14, <2>2, <3>1, Zenon DEF ConnsInv
  <2>11. ASSUME NEW k \in Slots PROVE sessions'[conns'[k]] = IF k < n THEN 1 ELSE 0
    <3>1. CASE k < n
      <4>1. PICK j \in Slots : j < conns_cnt /\ conns'[k] = conns[j] /\ conns[j] # s
        BY <2>9, <3>1, Zenon
      <4>2. QED
        BY <1>3, <1>16, <2>3, <3>1, <4>1, Zenon
    <3>2. CASE ~(k < n) /\ k # n
      <4>1. ~(k < conns_cnt) /\ k # i
        BY <2>6, <3>2, Zenon
      <4>2. conns'[k] = conns[k] /\ conns[k] # s /\ conns[k] \in Slots
        BY <1>16, <2>5, <3>2, <4>1, Zenon
      <4>3. QED
        BY <1>3, <2>3, <3>2, <4>1, <4>2, Zenon
    <3>3. QED
      BY <2>3, <2>5, <2>6, <3>1, <3>2, Zenon
  <2>12. ASSUME NEW k \in n .. MaxConns - 1 PROVE ~conn'[conns'[k]].fd
    <3>1. CASE k # n
      <4>1. k \in Slots /\ k \in conns_cnt .. MaxConns - 1 /\ k # i
        BY <2>6, <3>1, Zenon
      <4>2. conns'[k] = conns[k] /\ conns[k] # s /\ conns[k] \in Slots
        BY <1>16, <2>5, <3>1, <4>1, Zenon
      <4>3. QED
        BY <1>3, <1>12, <4>1, <4>2, ZenonT(40)
    <3>2. QED
      BY <1>12, <1>18, <2>5, <3>1, Zenon
  <2>13. TableExact'
    BY <2>2, <2>5, <2>11, <2>12, Zenon DEF TableExact
  <2>14. ASSUME NEW k \in Slots, k < i PROVE polled'[conns'[k]] = 1
    <3>1. k # i /\ k # n
      BY <2>6, <2>14, Zenon
    <3>2. conns'[k] = conns[k] /\ conns[k] # s /\ conns[k] \in Slots
      BY <1>16, <2>5, <3>1, Zenon
    <3>3. QED
      BY <1>5, <1>13, <2>14, <3>2, Zenon
  <2>15. ASSUME NEW k \in Slots, i <= k, k < n PROVE polled'[conns'[k]] = 0
    <3>1. PICK j \in Slots : j < conns_cnt /\ conns'[k] = conns[j] /\ conns[j] # s /\ i <= j
      BY <2>9, <2>15, Zenon
    <3>2. QED
      BY <1>5, <1>13, <1>16, <3>1, ZenonT(40)
  <2>16. LoopInv'
    BY <1>15, <2>2, <2>6, <2>14, <2>15, Zenon DEF LoopInv
  <2>17. QED
    BY <2>7, <2>10, <2>13, <2>16 DEF Inv
<1>19. QED
  BY <1>17, <1>18

\* The invariant is inductive.
LEMMA NextInv == Inv /\ [Next]_vars => Inv'
  BY PollAcceptInv, PollNextInv, OtherInv, UserCloseInv, PeerInv, TickInv, Zenon DEF Next, Poll

\* Every reachable state satisfies the inductive invariant.
THEOREM ServerInv == Spec => []Inv
  BY InitInv, NextInv, PTL DEF Spec

\* TableExact holds in every reachable state: poll and the swaps of its loop keep
\* the first conns_cnt_ positions the connections between their events.
THEOREM ServerTableExact == Spec => []TableExact
<1>1. Inv => TableExact
  BY DEF Inv
<1>2. QED
  BY <1>1, ServerInv, PTL

\* PolledOnce holds in every reachable state: the swaps neither skip a connection
\* nor make the loop of poll visit one twice.
THEOREM ServerPolledOnce == Spec => []PolledOnce
<1>1. Inv => PolledOnce
  <2> SUFFICES ASSUME Inv PROVE PolledOnce
    OBVIOUS
  <2>1. \A s \in Slots : polled[s] <= 1
    BY DEF Inv, LoopInv
  <2>2. ASSUME pc = "loop", i >= conns_cnt, NEW k \in 0 .. conns_cnt - 1
        PROVE  polled[conns[k]] = 1
    <3>1. k \in Slots /\ k < i
      BY <2>2, Constants DEF Inv, TypeInv
    <3>2. QED
      BY <2>2, <3>1, Zenon DEF Inv, LoopInv
  <2>3. QED
    BY <2>1, <2>2, Zenon DEF PolledOnce
<1>2. QED
  BY <1>1, ServerInv, PTL

\* What the user can rely on for each connection of the server: the receive buffer
\* holds exactly the bytes read and not consumed, no message is cut short on a
\* connection that lives on, no descriptor is lost, the reason given for a close is
\* the true one, and a receive timeout is reported only after RecvTimeoutSec without
\* data.
ConnsSound ==
  \A s \in Slots :
    /\ ConnIntact(conn[s]) /\ Whole(conn[s]) /\ Spare(conn[s]) = 0
    /\ ConnCloseReason(conn[s]) /\ ConnTimeoutTrue(conn[s])

\* ConnsSound holds in every reachable state of the server, whatever the peers, the
\* kernel and the callbacks do to any of the connections.
THEOREM ServerConnsSound == Spec => []ConnsSound
<1>1. Inv => ConnsSound
  BY Zenon DEF Inv, ConnsInv, Served, Buffered, ConnsSound
<1>2. QED
  BY <1>1, ServerInv, PTL
=============================================================================
