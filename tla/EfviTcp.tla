------------------------------ MODULE EfviTcp ------------------------------
(***************************************************************************)
(* A TcpClient and a TcpServer of efvitcp joined by a network that may     *)
(* lose, duplicate and reorder frames: src/efvitcp/TcpClient.h,            *)
(* TcpServer.h and the packet dispatch of Core.h, over the connections of  *)
(* module TcpConn.  The client connects once; the server has one           *)
(* connection slot and one TIME_WAIT slot.                                 *)
(*                                                                         *)
(* Each step is one event of one poll(): a frame, a timer, a transmit      *)
(* completion, or a call of the user between two polls.  A frame is        *)
(* handled to the end in one step, user callbacks included; what the       *)
(* callbacks do is a member of Callbacks.                                  *)
(***************************************************************************)
EXTENDS TcpConn, FiniteSets

CONSTANTS Scenarios,   \* names of what users and network may do, one chosen at the start
          Scenario,    \* what they stand for, a record for each:
                       \*   budget     bytes the user of each end may send
                       \*   ops        what the users may do between polls
                       \*   callbacks  what they may do inside callbacks
                       \*   delayed    whether acknowledgements may be delayed
                       \*   tx_lag     completions may lag; otherwise they are seen in the same poll
                       \*   faults     frames lost, duplicated or overtaken; early timeouts
                       \*   accepts    connections the server accepts
          ISN,         \* initial sequence number of each end
          Beats        \* 2 where fairness is used, which needs to see each step of a
                       \* poll; 1 otherwise, so that beat multiplies no states

VARIABLES sc,       \* the scenario
          conn,     \* each end's connection
          net,      \* frames on their way to each end, in order
          faults,   \* network faults so far
          accepts,  \* connections the server has accepted
          beat      \* steps of polls, modulo Beats

vars == <<sc, conn, net, faults, accepts, beat>>

End == {"client", "server"}
Other(e) == IF e = "client" THEN "server" ELSE "client"

ASSUME EfviTcpAssumption ==
  /\ ISN \in [End -> Nat] /\ Beats \in {1, 2}
  /\ \A n \in Scenarios :
       /\ Scenario[n].budget \in [End -> Nat]
       /\ Scenario[n].ops \subseteq {"send", "more", "sendv", "fin", "close", "timer"}
       /\ \A cb \in Scenario[n].callbacks :
            DOMAIN cb = {"est", "more", "data", "remain", "fin", "timeout", "room"}
       /\ Scenario[n].delayed \in BOOLEAN /\ Scenario[n].tx_lag \in BOOLEAN
       /\ Scenario[n].faults \in Nat /\ Scenario[n].accepts \in Nat

UserOps == Scenario[sc].ops
Callbacks == Scenario[sc].callbacks
MaxFaults == Scenario[sc].faults

Init ==
  /\ sc \in Scenarios
  /\ conn = [e \in End |-> [NewConn EXCEPT !.budget = Scenario[sc].budget[e],
                                          !.delayed_ack = Scenario[sc].delayed]]
  /\ net = [e \in End |-> <<>>]
  /\ faults = 0
  /\ accepts = 0
  /\ beat = 0

\* The NIC is done with every buffer of c it was given.
Completed(c) == [c EXCEPT !.buf = [s \in Slots |-> [c.buf[s] EXCEPT !.avail = TRUE]]]

\* End e becomes c; the frames c has handed to the NIC join those of rest.
Step(e, c, rest) ==
  /\ conn' = [conn EXCEPT ![e] = [(IF Scenario[sc].tx_lag THEN c ELSE Completed(c)) EXCEPT !.out = <<>>]]
  /\ net' = [rest EXCEPT ![Other(e)] = @ \o c.out]

Local(e, c) == Step(e, c, net) /\ UNCHANGED <<faults, accepts>>
UserCall(e, c) == Local(e, c) /\ UNCHANGED beat

Quiet == \A e \in End : net[e] = <<>>

-----------------------------------------------------------------------------
(* Calls of the user between polls. *)

\* TcpClient::connect, once.
Connect ==
  /\ accepts = 0 /\ Quiet /\ conn["client"].entry = "none" /\ conn["client"].isn = 0
  /\ UserCall("client", [SendSyn(Reset(conn["client"], ISN["client"]))
                           EXCEPT !.reported = FALSE])

UserSend(e) ==
  /\ conn[e].established /\ ~conn[e].fin_sent
  /\ \E n \in 1 .. conn[e].budget - conn[e].accepted, more \in BOOLEAN :
       /\ (IF more THEN "more" ELSE "send") \in UserOps
       /\ UserCall(e, Send(conn[e], n, more))

UserSendv(e) ==
  /\ "sendv" \in UserOps
  /\ conn[e].established /\ ~conn[e].fin_sent
  /\ \E n1, n2 \in 1 .. conn[e].budget - conn[e].accepted :
       /\ n1 + n2 <= conn[e].budget - conn[e].accepted
       /\ UserCall(e, Sendv(conn[e], n1, n2))

UserSendFin(e) ==
  /\ "fin" \in UserOps
  /\ conn[e].established /\ ~conn[e].fin_sent
  /\ UserCall(e, SendFin(conn[e]))

UserClose(e) ==
  /\ "close" \in UserOps
  /\ ~IsClosed(conn[e])
  /\ UserCall(e, ActiveClose(conn[e]))

UserSetTimer(e) ==
  /\ "timer" \in UserOps
  /\ conn[e].established
  /\ \E on \in BOOLEAN : UserCall(e, SetUserTimer(conn[e], on))

-----------------------------------------------------------------------------
(* A frame arrives: Core::pollNet and the handlers of TcpClient and TcpServer.*)

\* Core::rspRst, and Core::ackTW: they share one buffer, which the model takes
\* to be available, and its window field is never set.
SegLen(m) == Len(m.data) + Cardinality(m.flags \cap {"syn", "fin"})

Rst(m) ==
  [seq |-> IF "ack" \in m.flags THEN m.ack_num ELSE 0,
   flags |-> IF "ack" \in m.flags THEN {"rst"} ELSE {"rst", "ack"},
   data |-> <<>>, window |-> 0, sum_ok |-> TRUE,
   ack_num |-> IF "ack" \in m.flags THEN 0 ELSE m.seq + SegLen(m)]

RspRst(c, m) == IF "rst" \in m.flags THEN c ELSE [c EXCEPT !.out = Append(@, Rst(m))]

AckTW(c) ==
  [c EXCEPT !.out = Append(@, [seq |-> c.tw.seq, flags |-> {"ack"}, data |-> <<>>,
                               window |-> 0, sum_ok |-> TRUE, ack_num |-> c.tw.ack])]

\* Core::pollNet, lines 510-524.
InTimeWait(c, m) ==
  LET expected == m.seq = c.tw.ack
  IN  IF "rst" \in m.flags
      THEN IF expected THEN [c EXCEPT !.entry = "none"] ELSE c
      ELSE IF expected /\ SegLen(m) = 0 THEN c ELSE AckTW(c)

\* onEstablished with its callback, then onPack on the same frame.
Establish(c, m, cb) == OnPack(Act(OnEstablished(c, m), cb.est), m, cb)

\* TcpClient.h, lines 85-99.
InSynSent(c, m, cb) ==
  LET ack_ok == "ack" \in m.flags /\ m.ack_num = SendSeq(c, c.send_next)
  IN  CASE ~ack_ok -> RspRst(c, m)
        [] ack_ok /\ "rst" \in m.flags -> OnClose(Emit(c, "onConnectionRefused"), FALSE)
        [] ack_ok /\ m.flags \cap {"rst", "syn"} = {} -> c
        [] OTHER -> Establish(OnSyn(c, m), m, cb)

\* TcpServer.h, lines 97-112.
InSynReceived(c, m, cb) ==
  IF "syn" \in m.flags /\ "ack" \notin m.flags THEN ResendUna(c)
  ELSE IF "rst" \in m.flags /\ m.seq = AckSeq(c) THEN OnClose(c, FALSE)
  ELSE IF "ack" \notin m.flags THEN c
  ELSE IF m.ack_num # SendSeq(c, c.send_next) THEN RspRst(c, m)
  ELSE Establish(c, m, cb)

\* TcpServer.h, lines 81-95: the server accepts a SYN, allowNewConnection willing.
Accepts(e, m) ==
  /\ e = "server" /\ "syn" \in m.flags /\ m.flags \cap {"ack", "rst"} = {}
  /\ accepts < Scenario[sc].accepts

Handle(e, m, cb) ==
  LET c == conn[e]
  IN  CASE c.entry = "tw" -> InTimeWait(c, m)
        [] c.entry = "none" ->
             IF Accepts(e, m)
             THEN SendSyn(OnSyn(Reset(c, ISN[e] + 20 * accepts), m))
             ELSE RspRst(c, m)
        [] c.entry = "conn" /\ c.established -> OnPack(c, m, cb)
        [] OTHER -> IF e = "client" THEN InSynSent(c, m, cb) ELSE InSynReceived(c, m, cb)

\* The NIC discards a frame with a wrong checksum, lines 533-539.
Receive(e) ==
  /\ net[e] # <<>>
  /\ LET m == Head(net[e])
         rest == [net EXCEPT ![e] = Tail(@)]
     IN  /\ \E cb \in Callbacks :
              Step(e, IF m.sum_ok THEN Handle(e, m, cb) ELSE conn[e], rest)
         /\ accepts' = IF conn[e].entry = "none" /\ Accepts(e, m) THEN accepts + 1 ELSE accepts
  /\ beat' = (beat + 1) % Beats
  /\ UNCHANGED faults

-----------------------------------------------------------------------------
(* Timers and transmit completions. *)

\* A timeout is a fault of the network when frames are still under way.
Timeout(e, c) ==
  /\ Quiet \/ faults < MaxFaults
  /\ faults' = IF Quiet THEN faults ELSE faults + 1
  /\ Step(e, c, net)
  /\ beat' = (beat + 1) % Beats
  /\ UNCHANGED accepts

ResendTimeout(e) == "resend" \in conn[e].timers /\ Timeout(e, OnResendTimer(conn[e]))

AckTimeout(e) ==
  "ack" \in conn[e].timers /\ Local(e, OnAckTimer(conn[e])) /\ beat' = (beat + 1) % Beats

UserTimeout(e) ==
  /\ "user" \in conn[e].timers
  /\ \E cb \in Callbacks : Local(e, OnUserTimer(conn[e], cb))
  /\ beat' = (beat + 1) % Beats

\* Core::pollTime, lines 744-747, after TimeWaitTimeout.
TimeWaitExpires(e) ==
  /\ conn[e].entry = "tw" /\ Quiet
  /\ Local(e, [conn[e] EXCEPT !.entry = "none"])
  /\ beat' = (beat + 1) % Beats

\* Core::pollNet, lines 540-548.
TxComplete(e) ==
  Completed(conn[e]) # conn[e] /\ Local(e, Completed(conn[e])) /\ beat' = (beat + 1) % Beats

-----------------------------------------------------------------------------
(* The network. *)

Fault(e, frames) ==
  /\ faults < MaxFaults
  /\ faults' = faults + 1
  /\ net' = [net EXCEPT ![e] = frames]
  /\ UNCHANGED <<conn, accepts, beat>>

Lose(e) == net[e] # <<>> /\ Fault(e, Tail(net[e]))
Duplicate(e) == net[e] # <<>> /\ Fault(e, Append(net[e], Head(net[e])))
Overtake(e) == Len(net[e]) > 1 /\ Fault(e, <<net[e][2], net[e][1]>> \o SubSeq(net[e], 3, Len(net[e])))

-----------------------------------------------------------------------------
Next ==
  /\ \/ Connect
     \/ \E e \in End : \/ UserSend(e) \/ UserSendv(e) \/ UserSendFin(e) \/ UserClose(e)
                       \/ UserSetTimer(e) \/ Receive(e) \/ ResendTimeout(e)
                       \/ AckTimeout(e) \/ UserTimeout(e)
                       \/ TimeWaitExpires(e) \/ TxComplete(e)
                       \/ Lose(e) \/ Duplicate(e) \/ Overtake(e)
  /\ UNCHANGED sc

Spec == Init /\ [][Next]_vars

\* poll() has something to do: a frame, a timer that is due, a completion.
PollEnabled ==
  \/ ~Quiet
  \/ \E e \in End : \/ conn[e].timers # {} \/ conn[e].entry = "tw"
                    \/ Completed(conn[e]) # conn[e]

\* poll() is called again and again (the README asks the user for it), the NIC
\* completes what it was given, and a frame that is not lost arrives.
Fairness == WF_beat(PollEnabled /\ beat' = (beat + 1) % Beats)

FairSpec == Spec /\ Fairness

-----------------------------------------------------------------------------
(* Properties. *)

TypeOK ==
  /\ faults \in 0 .. MaxFaults /\ accepts \in 0 .. Scenario[sc].accepts
  /\ \A e \in End :
       LET c == conn[e]
       IN  /\ {c.established, c.fin_sent, c.fin_received, c.pending_ack, c.in_recover}
                \subseteq BOOLEAN
           /\ c.retries \in 0 .. RetriesField - 1
           /\ c.timers \subseteq {"resend", "ack", "user"}
           /\ c.entry \in {"none", "conn", "tw"}
           /\ Len(c.segs) \in 1 .. MaxRecvSegs
           /\ c.send_una <= c.send_next /\ c.send_next <= c.data_next
           /\ c.data_next < c.send_una + ConnSendBufCnt

\* The two ends are of the same connection.
Paired == \A e \in End : conn[e].irs = conn[Other(e)].isn /\ conn[e].irs # 0

\* What onPack hands to onData is the peer's stream: every byte once, in
\* order, whatever the network loses, repeats or reorders.
StreamIntegrity ==
  \A e \in End : \A k \in DOMAIN conn[e].got : conn[e].got[k] = conn[e].irs + k

\* The receive buffer of an open connection: segments in order, apart, inside
\* the buffer, and each place of them holds the byte that belongs there.
ReassemblyCorrect ==
  \A e \in End : LET c == conn[e]
                     end(k) == IF k = 1 /\ c.fin_received THEN c.segs[k][2] - 1 ELSE c.segs[k][2]
    IN ~IsClosed(c) =>
         /\ \A k \in DOMAIN c.segs : 0 <= c.segs[k][1] /\ end(k) <= ConnRecvBufSize
         /\ \A k \in 2 .. Len(c.segs) : c.segs[k - 1][2] < c.segs[k][1] /\ c.segs[k][1] < end(k)
         /\ \A k \in DOMAIN c.segs : \A l \in c.segs[k][1] .. end(k) - 1 :
              c.recv_buf[l] = c.recv_buf_seq + l

\* Every unacknowledged data buffer of the ring still holds its own bytes:
\* neither an ACK nor newer data has been written over it.
UnackedIntact ==
  \A e \in End : LET c == conn[e]
    IN c.established =>
         \A i \in Maximum(c.send_una, 1) .. c.send_next - 1 :
           LET b == Buf(c, i)
           IN  /\ \A k \in 1 .. b.len : b.data[k] = b.seq + k - 1
               /\ b.seq + b.len + (IF "fin" \in b.flags THEN 1 ELSE 0) = SendSeq(c, i + 1)

\* An open connection has its resend timer linked exactly when something is
\* unacknowledged, so no loss can go unnoticed.
ResendTimerArmed ==
  \A e \in End : ~IsClosed(conn[e]) =>
    ("resend" \in conn[e].timers <=> conn[e].send_una # conn[e].send_next)

\* addTimer is never called on a timer that is still linked in the wheel.
NeverRelinked == \A e \in End : ~conn[e].relinked

\* The peer never sends past the right edge of the receive window, and the
\* edge never moves back under data that is already on its way.
WindowRespected ==
  Paired => \A e \in End : \A k \in DOMAIN net[e] :
    (conn[e].established /\ net[e][k].data # <<>>) =>
      DataEndLoc(conn[e], net[e][k]) <= ConnRecvBufSize

\* onFin comes after the whole stream: all the peer's user had sent is received.
FinIsLast ==
  Paired => \A e \in End :
    (conn[e].fin_received /\ conn[e].established) =>
      AckSeq(conn[e]) = conn[e].irs + conn[Other(e)].accepted + 2

\* No frame acknowledges what was not sent (the debug build exits on one,
\* TcpConn.h:537).
AckOnlySent ==
  Paired => \A e \in End : \A k \in DOMAIN net[e] :
    (conn[e].established /\ "ack" \in net[e][k].flags) =>
      net[e][k].ack_num <= SendSeq(conn[e], conn[e].send_next)

\* A FIN received after our own finds our own acknowledged (the debug build
\* exits otherwise, TcpConn.h:753).
NoAbnormalUnack == \A e \in End : ~conn[e].bad_fin

\* An acknowledgement that is owed is never forgotten: sendAck has sent it or
\* its timer is linked.
AckNotForgotten ==
  \A e \in End : (conn[e].established /\ conn[e].pending_ack) => "ack" \in conn[e].timers

\* No frame leaves with a checksum that does not fit it (the debug build exits
\* on one, Core.h:449-471).
ChecksumValid == \A e \in End : \A k \in DOMAIN net[e] : net[e][k].sum_ok

\* sendFin never resets the connection: it only ends the sending direction.
FinNeverResets ==
  [][\A e \in End : UserSendFin(e) => conn'[e].established]_vars

\* A connection that is over is one the user closed, or was told of.
ClosedIsReported == \A e \in End : IsClosed(conn[e]) => conn[e].reported

\* A closed connection gets no events.
NoLateEvents == \A e \in End : conn[e].late = {}

\* A closed connection has no timer left in the wheel.
ClosedHasNoTimers == \A e \in End : IsClosed(conn[e]) => conn[e].timers = {}

\* Nothing the user handed over is unsent or unacknowledged.
Drained(c) == c.send_una = c.data_next /\ c.data_next_size = 0

\* onConnectionClosed and TIME_WAIT mean the handshake is complete: the peer has
\* received all that was sent, and the FIN.
ClosedMeansDelivered ==
  Paired => \A e \in End : conn[e].entry = "tw" =>
    AckSeq(conn[Other(e)]) = conn[e].isn + conn[e].accepted + 2

\* The system never comes to rest, with no frame under way and no timer linked,
\* while accepted data or an accepted FIN waits to be sent or acknowledged.  It
\* may for a user of send(more), whose data waits for the next send.
NoStall ==
  ~PollEnabled /\ "more" \notin UserOps =>
    \A e \in End : conn[e].established => Drained(conn[e])

\* onFin, onConnectionClosed and TIME_WAIT mean what they say: FinIsLast and
\* ClosedMeansDelivered.
ClosingIsTrue == FinIsLast /\ ClosedMeansDelivered

\* Every frame is one its receiver can take: WindowRespected and AckOnlySent.
FramesAllowed == WindowRespected /\ AckOnlySent

\* The timers of a connection: none is linked twice, left behind by onClose or
\* missing for an acknowledgement that is owed; and what is closed stays quiet.
TimersSound == NeverRelinked /\ ClosedHasNoTimers /\ AckNotForgotten /\ NoLateEvents

\* After sendFin everything the user had sent, and the FIN, is in the end
\* acknowledged, unless the connection ends before.
FinCompletes ==
  \A e \in End : (conn[e].established /\ conn[e].fin_sent) ~>
                   (IsClosed(conn[e]) \/ Drained(conn[e]))
=============================================================================
