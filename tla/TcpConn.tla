------------------------------ MODULE TcpConn ------------------------------
(***************************************************************************)
(* One TCP connection of efvitcp (src/efvitcp/TcpConn.h): the ring of send *)
(* buffers, the reassembly buffer, the connection flags and its timers.    *)
(*                                                                         *)
(* A connection is a record; each method of the class is an operator from  *)
(* a connection to the connection the method leaves behind.  Frames the    *)
(* method hands to the NIC are appended to the field out, which the module *)
(* EfviTcp empties into the network when the step ends.  The field names   *)
(* are the source's; segs is indexed from 1 where the source counts from 0.*)
(*                                                                         *)
(* Modelled configuration: CongestionControlAlgo = 0, no window scaling,   *)
(* no timestamps (the configuration of the README and of the examples).    *)
(* Then both_wnd_seq is send_wnd_seq.  Sequence numbers are integers: the  *)
(* source compares them as signed differences, and no run comes near 2^31. *)
(* The content of a payload byte is its sequence number, so that a byte    *)
(* out of place, lost or overwritten is visible.  Of a checksum the model  *)
(* keeps whether it fits the frame.                                        *)
(***************************************************************************)
EXTENDS Integers, Sequences, SequencesExt

CONSTANTS ConnSendBufCnt,   \* send buffers in the ring, a power of 2
          ConnRecvBufSize,  \* bytes of the receive buffer
          MaxRecvSegs,      \* segments the receive buffer tells apart
          SMSS, RMSS,       \* largest payload sent and received
          SynRetries, TcpRetries

ASSUME TcpConnAssumption ==
  /\ ConnSendBufCnt \in Nat \ {0, 1}
  /\ ConnRecvBufSize \in Nat \ {0} /\ ConnRecvBufSize % 2 = 0
  /\ MaxRecvSegs \in Nat \ {0, 1}
  /\ SMSS \in Nat \ {0} /\ RMSS \in 1 .. ConnRecvBufSize
  /\ SynRetries \in Nat /\ TcpRetries \in Nat

OptLen == 4          \* the MSS option sent with a SYN, lines 209-213
OptByte == -1        \* a byte of that option: never a byte of the stream
RetriesField == 32   \* retries is a 5-bit field, line 890

Slots == 0 .. ConnSendBufCnt - 1
Slot(i) == i % ConnSendBufCnt
Buf(c, i) == c.buf[Slot(i)]
SendSeq(c, i) == Buf(c, i).seq
FirstSeg(c) == c.segs[1]
AckSeq(c) == c.recv_buf_seq + FirstSeg(c)[2]
RecvWindow(c) == ConnRecvBufSize - FirstSeg(c)[2]
Minimum(a, b) == IF a < b THEN a ELSE b
Maximum(a, b) == IF a > b THEN a ELSE b

IsClosed(c) == c.fin_received /\ ~c.established

RingFull(c) == c.send_una + ConnSendBufCnt - 1 = c.data_next

\* The constructor and Core::init: closed, timers unlinked, buffers available.
NewConn ==
  [established |-> FALSE, fin_sent |-> TRUE, fin_received |-> TRUE,
   pending_ack |-> FALSE, in_recover |-> FALSE, retries |-> 0,
   send_una |-> 0, send_next |-> 0, data_next |-> 1, data_next_size |-> 0,
   recover |-> 0, dup_ack_cnt |-> 0, send_wnd_seq |-> 0,
   buf |-> [s \in Slots |-> [seq |-> 0, data |-> <<>>, len |-> 0,
                             flags |-> {}, avail |-> TRUE, sum_ok |-> TRUE]],
   recv_buf_seq |-> 0, segs |-> <<<<0, 0>>>>, last_ack_seq |-> 0,
   recv_buf |-> [l \in 0 .. ConnRecvBufSize - 1 |-> 0],
   timers |-> {}, entry |-> "none", tw |-> [seq |-> 0, ack |-> 0],
   out |-> <<>>, delayed_ack |-> FALSE,   \* DelayedAckMS # 0
   \* history: what the user did and was told
   isn |-> 0, irs |-> 0, budget |-> 0, accepted |-> 0, got |-> <<>>,
   reported |-> TRUE, late |-> {}, relinked |-> FALSE, bad_fin |-> FALSE]

LastEvents == {"onConnectionClosed", "onConnectionReset",
               "onConnectionTimeout", "onConnectionRefused"}

\* An event handed to the user.  reported is FALSE from the moment the user
\* knows of the connection until an event tells that it is over; late collects
\* the events of a connection that is already closed.
Emit(c, ev) ==
  [c EXCEPT !.reported = (@ /\ ev # "onConnectionEstablished") \/ ev \in LastEvents,
            !.late = IF IsClosed(c) THEN @ \cup {ev} ELSE @]

-----------------------------------------------------------------------------
(* Handing a buffer to the NIC. *)

UpdateLastAck(c) ==
  [c EXCEPT !.timers = @ \ {"ack"}, !.pending_ack = FALSE, !.last_ack_seq = AckSeq(c)]

Packet(c, b) ==
  [seq |-> b.seq, flags |-> b.flags,
   data |-> IF "syn" \in b.flags THEN <<>> ELSE SubSeq(b.data, 1, b.len),
   ack_num |-> AckSeq(c), window |-> RecvWindow(c), sum_ok |-> b.sum_ok]

Transmit(c, i, b) ==
  [UpdateLastAck(c) EXCEPT !.buf[Slot(i)] = [b EXCEPT !.avail = FALSE],
                           !.out = Append(@, Packet(c, b))]

SendBuf(c, i, len) == Transmit(c, i, [Buf(c, i) EXCEPT !.len = len, !.sum_ok = TRUE])

\* addTimer on a node that is still linked would tear the wheel's list.
StartResendTimer(c) ==
  [c EXCEPT !.relinked = @ \/ "resend" \in c.timers, !.timers = @ \cup {"resend"}]

\* Mutant: the resend timer is not started with the first segment in flight.
AdvanceNextUntimed(c, inc) ==
  [c EXCEPT !.send_next = @ + 1,
            !.buf[Slot(c.send_next + 1)].seq = SendSeq(c, c.send_next) + inc]

AdvanceNext(c, inc) ==
  LET d == IF c.send_next = c.send_una THEN StartResendTimer(c) ELSE c
  IN  [d EXCEPT !.send_next = @ + 1,
                !.buf[Slot(c.send_next + 1)].seq = SendSeq(c, c.send_next) + inc]

AdvanceData(c) == [c EXCEPT !.data_next = @ + 1, !.data_next_size = 0]

\* Mutant: the range reaches one buffer too far, to the oldest unacknowledged.
AckBufsTooFar(c) == {i \in c.data_next .. c.send_una + ConnSendBufCnt : Buf(c, i).avail}

\* getAckBuf: the highest available buffer that holds no data.
AckBufs(c) == {i \in c.data_next .. c.send_una + ConnSendBufCnt - 1 : Buf(c, i).avail}

SendEmpty(c, flag) ==
  LET i == Max(AckBufs(c))
      d == [c EXCEPT !.buf[Slot(i)].flags = (@ \ {"fin"}) \cup flag,
                     !.buf[Slot(i)].seq = SendSeq(c, c.send_next)]
  IN  SendBuf(d, i, 0)

\* Mutant: an acknowledgement that is put off starts no timer.
SendAckUntimed(c, immediate) ==
  IF (~c.delayed_ack \/ immediate) /\ AckBufs(c) # {} THEN SendEmpty(c, {}) ELSE c

SendAck(c, immediate) ==
  IF (~c.delayed_ack \/ immediate) /\ AckBufs(c) # {}
  THEN SendEmpty(c, {})
  ELSE [c EXCEPT !.timers = @ \cup {"ack"}]

\* The checksum is only brought up to date for ack_num and window_size.
ResendUna(c) ==
  [Transmit(c, c.send_una, Buf(c, c.send_una)) EXCEPT !.retries = (@ + 1) % RetriesField]

-----------------------------------------------------------------------------
(* Opening. *)

\* reset, with the initial sequence number genISN returned.
Reset(c, isn) ==
  [NewConn EXCEPT !.fin_sent = FALSE, !.fin_received = FALSE,
                  !.buf = [c.buf EXCEPT ![0].seq = isn],
                  !.recv_buf = c.recv_buf, !.last_ack_seq = c.last_ack_seq,
                  !.recover = c.recover, !.timers = c.timers, !.relinked = c.relinked,
                  !.send_wnd_seq = isn, !.entry = "conn", !.isn = isn, !.budget = c.budget,
                  !.late = c.late, !.bad_fin = c.bad_fin, !.delayed_ack = c.delayed_ack]

SendSyn(c) ==
  LET d == [c EXCEPT !.buf[Slot(c.send_next)].flags =
                       {"syn"} \cup (IF c.pending_ack THEN {"ack"} ELSE {}),
                     !.buf[Slot(c.send_next)].data = [k \in 1 .. OptLen |-> OptByte]]
  IN  AdvanceNext(SendBuf(d, c.send_next, OptLen), 1)

OnSyn(c, m) ==
  [c EXCEPT !.recv_buf_seq = m.seq + 1, !.pending_ack = TRUE, !.irs = m.seq]

\* Up to the callback.  The header of the SYN, still unacknowledged, is
\* rewritten in place and its checksum is not.
OnEstablished(c, m) ==
  Emit([c EXCEPT !.send_wnd_seq = m.ack_num + m.window, !.established = TRUE,
                 !.buf = [s \in Slots |->
                            IF s = Slot(c.send_una)
                            THEN [c.buf[s] EXCEPT !.flags = {"ack"}, !.sum_ok = FALSE]
                            ELSE IF s >= c.send_next
                            THEN [c.buf[s] EXCEPT !.flags = {"ack"}] ELSE c.buf[s]]],
       "onConnectionEstablished")

-----------------------------------------------------------------------------
(* Closing. *)

\* Mutant: the timers stay linked.
OnCloseKeepsTimers(c, enterTW) ==
  IF IsClosed(c) THEN c
  ELSE [c EXCEPT !.fin_sent = TRUE, !.fin_received = TRUE, !.established = FALSE,
                 !.entry = IF enterTW THEN "tw" ELSE "none",
                 !.tw = IF enterTW THEN [seq |-> SendSeq(c, c.send_next), ack |-> AckSeq(c)]
                        ELSE @]

OnClose(c, enterTW) ==
  IF IsClosed(c) THEN c
  ELSE [c EXCEPT !.fin_sent = TRUE, !.fin_received = TRUE, !.established = FALSE,
                 !.timers = {}, !.entry = IF enterTW THEN "tw" ELSE "none",
                 !.tw = IF enterTW THEN [seq |-> SendSeq(c, c.send_next), ack |-> AckSeq(c)]
                        ELSE @]

Close(c) ==
  IF IsClosed(c) THEN c
  ELSE OnClose(IF c.established /\ AckBufs(c) # {} THEN SendEmpty(c, {"rst"}) ELSE c, FALSE)

\* close() called by the user, who then needs no event.
ActiveClose(c) == [Close(c) EXCEPT !.reported = TRUE]

-----------------------------------------------------------------------------
(* Sending. *)

\* Mutant: the window is ignored.
CanSendAlways(c, size) == c.data_next = c.send_next

CanSend(c, size) ==
  c.data_next = c.send_next /\ SendSeq(c, c.send_next) + size <= c.send_wnd_seq

\* One turn of the loop of sendPartial: w.left bytes are still to be accepted.
SendChunk(w, last) ==
  LET c == w.c
      n == Minimum(SMSS - c.data_next_size, w.left)
      size == c.data_next_size + n
      chunk == [k \in 1 .. n |-> c.isn + c.accepted + k]
      d == [c EXCEPT !.buf[Slot(c.data_next)].data = SubSeq(@, 1, c.data_next_size) \o chunk,
                     !.data_next_size = size, !.accepted = @ + n]
      left == w.left - n
  IN  IF w.left = 0 \/ RingFull(c) THEN w
      ELSE IF (last /\ CanSend(d, size)) \/ size = SMSS
           THEN [c |-> AdvanceData(IF CanSend(d, size)
                                   THEN AdvanceNext(SendBuf(d, c.data_next, size), size)
                                   ELSE d),
                 left |-> left]
           ELSE [c |-> d, left |-> left]

SendPartial(c, size, last) ==
  LET sent[k \in 0 .. size] ==
        IF k = 0 THEN [c |-> c, left |-> size] ELSE SendChunk(sent[k - 1], last)
  IN  sent[size].c

Send(c, size, more) == IF c.fin_sent THEN c ELSE SendPartial(c, size, ~more)

\* sendv of two pieces.
Sendv(c, size1, size2) ==
  IF c.fin_sent THEN c ELSE SendPartial(SendPartial(c, size1, FALSE), size2, TRUE)

SendFin(c) ==
  LET d == [c EXCEPT !.fin_sent = TRUE, !.data_next_size = @ + 1]
      f == [d EXCEPT !.buf[Slot(c.data_next)].flags = @ \cup {"fin"}]
  IN  IF c.fin_sent THEN c
      ELSE IF RingFull(c) THEN Close(c)
      ELSE IF c.data_next = c.send_next /\ d.data_next_size = 1
           THEN AdvanceData(AdvanceNext(SendBuf(f, c.data_next, 0), 1))
           ELSE d

-----------------------------------------------------------------------------
(* A segment arrives: onPack. *)

\* Where the segment lies in the receive buffer; the FIN takes one place.
StartLoc(c, m) == m.seq + (IF "syn" \in m.flags THEN 1 ELSE 0) - c.recv_buf_seq
DataEndLoc(c, m) == StartLoc(c, m) + Len(m.data)
EndLoc(c, m) == DataEndLoc(c, m) + (IF "fin" \in m.flags THEN 1 ELSE 0)

InWindow(c, m) ==
  LET next == FirstSeg(c)[2]
  IN  \/ StartLoc(c, m) >= next /\ StartLoc(c, m) < ConnRecvBufSize
      \/ EndLoc(c, m) > next /\ EndLoc(c, m) <= ConnRecvBufSize

\* Fifth check, lines 544-553: the window is left alone once a FIN is queued.
UpdateWindow(c, m) ==
  IF c.fin_sent THEN c ELSE [c EXCEPT !.send_wnd_seq = Maximum(@, m.ack_num + m.window)]

\* The loop of line 555: the buffers the segment acknowledges.
AckedUna(c, m) ==
  Max({c.send_una} \cup {i \in c.send_una + 1 .. c.send_next : m.ack_num >= SendSeq(c, i)})

\* Mutant: the resend timer is not restarted.
NewAckNoRestart(c, m) ==
  [c EXCEPT !.send_una = AckedUna(c, m), !.dup_ack_cnt = 0, !.retries = 0,
            !.timers = @ \ {"resend"}]

\* Lines 557-585: new data is acknowledged.
NewAck(c, m) ==
  LET una == AckedUna(c, m)
      d == [c EXCEPT !.send_una = una, !.dup_ack_cnt = 0, !.retries = 0,
                     !.timers = @ \ {"resend"}]
      t == IF una # c.send_next THEN StartResendTimer(d) ELSE d
  IN  IF c.in_recover /\ una < c.recover THEN ResendUna(t)
      ELSE [t EXCEPT !.in_recover = @ /\ una <= c.recover]

\* Lines 616-646: the third duplicate starts a fast retransmission.
DupAck(c) ==
  LET d == [c EXCEPT !.dup_ack_cnt = @ + 1]
  IN  IF d.dup_ack_cnt = 3 /\ ~c.in_recover
      THEN ResendUna([d EXCEPT !.in_recover = TRUE, !.recover = c.send_next])
      ELSE d

IsDupAck(c, m) ==
  /\ c.send_una # c.send_next
  /\ UpdateWindow(c, m).send_wnd_seq = c.send_wnd_seq
  /\ StartLoc(c, m) = EndLoc(c, m)

\* One turn of the loop of lines 649-660: send what the window allows.
SendUnsent(c) ==
  LET last == c.data_next = c.send_next
      size == IF last THEN c.data_next_size ELSE SMSS
      fin == last /\ c.fin_sent
      f == [c EXCEPT !.buf[Slot(c.send_next)].flags =
                       IF ~last THEN @ ELSE (@ \ {"fin"}) \cup (IF fin THEN {"fin"} ELSE {})]
      s == SendBuf(f, c.send_next, IF fin THEN size - 1 ELSE size)
  IN  IF size = 0 \/ SendSeq(c, c.send_next) + size > c.send_wnd_seq THEN c
      ELSE AdvanceNext(IF last THEN AdvanceData(s) ELSE s, size)

\* Mutant: what the window now allows is not sent.
ProcessAckOnly(c, m) ==
  LET d == UpdateWindow(c, m)
  IN  IF AckedUna(c, m) # c.send_una THEN NewAck(d, m)
      ELSE IF IsDupAck(c, m) THEN DupAck(d) ELSE d

ProcessAck(c, m) ==
  LET d == UpdateWindow(c, m)
      a == IF AckedUna(c, m) # c.send_una THEN NewAck(d, m)
           ELSE IF IsDupAck(c, m) THEN DupAck(d) ELSE d
      sent[k \in 0 .. ConnSendBufCnt] == IF k = 0 THEN a ELSE SendUnsent(sent[k - 1])
  IN  sent[ConnSendBufCnt]

-----------------------------------------------------------------------------
(* The reassembly buffer. *)

\* Lines 685-688: the first segment that does not end before lo, and the
\* first one from there that starts after hi.
SegFrom(segs, lo) ==
  Min({k \in 1 .. Len(segs) + 1 : k = Len(segs) + 1 \/ segs[k][2] >= lo})
SegTo(segs, lo, hi) ==
  Min({k \in SegFrom(segs, lo) .. Len(segs) + 1 : k = Len(segs) + 1 \/ segs[k][1] > hi})

\* A segment that touches no other opens a hole, lines 689-700: the last
\* segment gives way when the table is full.
OpensHole(segs, lo, hi) ==
  SegFrom(segs, lo) = SegTo(segs, lo, hi) /\ SegFrom(segs, lo) <= MaxRecvSegs

MergeSegs(segs, lo, hi) ==
  LET i == SegFrom(segs, lo)
      j == SegTo(segs, lo, hi)
      kept == IF Len(segs) = MaxRecvSegs THEN Front(segs) ELSE segs
  IN  IF OpensHole(segs, lo, hi) THEN InsertAt(kept, i, <<lo, hi>>)
      ELSE IF i = j THEN segs
      ELSE SubSeq(segs, 1, i - 1)
             \o <<<<Minimum(segs[i][1], lo), Maximum(segs[j - 1][2], hi)>>>>
             \o SubSeq(segs, j, Len(segs))

\* memcpy of the bytes m carries for [lo, hi) into the receive buffer.
CopyIn(c, m, lo, hi) ==
  [l \in DOMAIN c.recv_buf |->
     IF l \in lo .. hi - 1 THEN m.data[l - StartLoc(c, m) + 1] ELSE c.recv_buf[l]]

\* Mutant: the buffer is shifted without its bytes.
SlideNoCopy(c) ==
  LET first == FirstSeg(c)[1]
  IN  IF first >= RMSS /\ first >= ConnRecvBufSize \div 2
      THEN [c EXCEPT !.recv_buf_seq = @ + first,
                     !.segs = [k \in DOMAIN @ |-> <<@[k][1] - first, @[k][2] - first>>]]
      ELSE c

\* Lines 726-740: move the window right once RMSS bytes are consumed.
Slide(c) ==
  LET first == FirstSeg(c)[1]
      total == Last(c.segs)[2] - first
  IN  IF first >= RMSS /\ first = Last(c.segs)[2]
      THEN [c EXCEPT !.recv_buf_seq = @ + first, !.segs[1] = <<0, 0>>]
      ELSE IF first >= RMSS /\ first >= ConnRecvBufSize \div 2
      THEN [c EXCEPT !.recv_buf_seq = @ + first,
                     !.segs = [k \in DOMAIN @ |-> <<@[k][1] - first, @[k][2] - first>>],
                     !.recv_buf = [l \in DOMAIN @ |->
                                     IF l < total THEN @[l + first] ELSE @[l]]]
      ELSE c

SetUserTimer(c, on) ==
  [c EXCEPT !.timers = IF on THEN @ \cup {"user"} ELSE @ \ {"user"}]

\* What the user does inside a callback, in order.
Act(c, acts) ==
  LET do(d, act) ==
        CASE act = "send"  -> Send(d, Minimum(1, d.budget - d.accepted), FALSE)
          [] act = "fin"   -> SendFin(d)
          [] act = "close" -> ActiveClose(d)
          [] act = "timer" -> SetUserTimer(d, TRUE)
      done[k \in 0 .. Len(acts)] == IF k = 0 THEN c ELSE do(done[k - 1], acts[k])
  IN  done[Len(acts)]

\* Mutant: the bytes the user left are forgotten.
OnDataAllConsumed(c, cb, bytes) ==
  LET remaining == Minimum(cb.remain, Len(bytes))
      d == Act(Emit([c EXCEPT !.got = @ \o SubSeq(bytes, 1, Len(bytes) - remaining)],
                    "onData"), cb.data)
  IN  [d EXCEPT !.segs[1][1] = FirstSeg(c)[2]]

\* onData: the user is given [first, second) and leaves cb.remain bytes of it.
OnData(c, cb, bytes) ==
  LET remaining == Minimum(cb.remain, Len(bytes))
      d == Act(Emit([c EXCEPT !.got = @ \o SubSeq(bytes, 1, Len(bytes) - remaining)],
                    "onData"), cb.data)
  IN  [d EXCEPT !.segs[1][1] = FirstSeg(c)[2] - remaining]

\* Lines 682-740 for the bytes [lo, hi) of the segment, hi > lo: merge, then
\* hand over, without copying when the segment is all there is.
AcceptData(c, m, cb, lo, hi) ==
  LET d == [c EXCEPT !.pending_ack = TRUE, !.segs = MergeSegs(@, lo, hi)]
      copied == [d EXCEPT !.recv_buf = CopyIn(c, m, lo, hi)]
      kept == Minimum(cb.remain, hi - lo)
  IN  Slide(IF FirstSeg(d) = <<lo, hi>>
            THEN [OnData(d, cb, SubSeq(m.data, lo - StartLoc(c, m) + 1, hi - StartLoc(c, m)))
                    EXCEPT !.recv_buf = CopyIn(c, m, hi - kept, hi)]
            ELSE IF SegFrom(c.segs, lo) = 1
            THEN OnData(copied, cb, [k \in 1 .. FirstSeg(d)[2] - FirstSeg(d)[1] |->
                                       copied.recv_buf[FirstSeg(d)[1] + k - 1]])
            ELSE copied)

\* Eighth check, lines 751-762.
AcceptFin(c, cb) ==
  Act(Emit([c EXCEPT !.pending_ack = TRUE, !.fin_received = TRUE, !.segs[1][2] = @ + 1,
                     !.bad_fin = @ \/ (c.fin_sent /\ c.send_una # c.data_next)],
           "onFin"), cb.fin)

\* Lines 764-768: acknowledge, and finish when both FINs are acknowledged.
Finish(c, cb, immediate) ==
  LET unacked == AckSeq(c) - c.last_ack_seq
      d == IF c.pending_ack
           THEN SendAck(c, immediate \/ unacked < 0 \/ unacked >= 2 * RMSS) ELSE c
  IN  IF d.fin_sent /\ d.fin_received /\ d.established /\ d.send_una = d.data_next
      THEN OnClose(Emit(d, "onConnectionClosed"), cb.room) ELSE d

\* Mutant: a FIN is accepted before the data it follows.
ProcessTextEarlyFin(c, m, cb) ==
  LET lo == Maximum(StartLoc(c, m), FirstSeg(c)[2])
      hi == Minimum(DataEndLoc(c, m), ConnRecvBufSize)
      d == IF hi > lo THEN AcceptData(c, m, cb, lo, hi) ELSE c
      fin == "fin" \in m.flags /\ DataEndLoc(c, m) <= ConnRecvBufSize
  IN  IF c.fin_received THEN Finish(c, cb, FALSE)
      ELSE IF hi > lo /\ FirstSeg(d)[2] = ConnRecvBufSize
      THEN Close(Emit(d, "onConnectionReset"))
      ELSE Finish(IF fin THEN AcceptFin(d, cb) ELSE d, cb, TRUE)

ProcessText(c, m, cb) ==
  LET next == FirstSeg(c)[2]
      lo == Maximum(StartLoc(c, m), next)
      hi == Minimum(DataEndLoc(c, m), ConnRecvBufSize)
      d == IF hi > lo THEN AcceptData(c, m, cb, lo, hi) ELSE c
      merged == IF hi > lo THEN MergeSegs(c.segs, lo, hi) ELSE c.segs
      fin == /\ "fin" \in m.flags /\ DataEndLoc(c, m) <= ConnRecvBufSize
             /\ merged[1][2] = IF hi > lo THEN hi ELSE lo
      immediate == fin \/ (hi > lo /\ (Len(c.segs) > 1 \/ OpensHole(c.segs, lo, hi)))
  IN  IF c.fin_received THEN Finish(c, cb, FALSE)
      ELSE IF hi > lo /\ FirstSeg(d)[2] = ConnRecvBufSize
      THEN Close(Emit(d, "onConnectionReset"))
      ELSE Finish(IF fin THEN AcceptFin(d, cb) ELSE d, cb, immediate)

OnPack(c, m, cb) ==
  LET a == ProcessAck(c, m)
      u == IF a.send_una # c.send_una THEN Act(Emit(a, "onMoreSendable"), cb.more) ELSE a
  IN  CASE ~InWindow(c, m) -> IF "rst" \in m.flags THEN c ELSE SendAck(c, FALSE)
        [] InWindow(c, m) /\ "rst" \in m.flags ->
             OnClose(IF c.fin_sent /\ c.fin_received THEN c
                     ELSE Emit(c, "onConnectionReset"), FALSE)
        [] InWindow(c, m) /\ m.flags \cap {"rst", "ack"} = {} -> c
        [] OTHER -> ProcessText(u, m, cb)

-----------------------------------------------------------------------------
(* onTimer: the wheel has already unlinked the node. *)

OnResendTimer(c) ==
  LET d == [c EXCEPT !.timers = @ \ {"resend"}]
  IN  IF c.retries >= Minimum(31, IF c.established THEN TcpRetries ELSE SynRetries)
      THEN Close(Emit(d, "onConnectionTimeout"))
      ELSE StartResendTimer([ResendUna(d) EXCEPT !.in_recover = TRUE, !.recover = c.send_next])

OnAckTimer(c) == SendAck([c EXCEPT !.timers = @ \ {"ack"}], TRUE)

OnUserTimer(c, cb) ==
  Act(Emit([c EXCEPT !.timers = @ \ {"user"}], "onUserTimeout"), cb.timeout)
=============================================================================
