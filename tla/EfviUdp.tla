------------------------------ MODULE EfviUdp ------------------------------
(***************************************************************************)
(* EfviUdpSender, EfviUdpReceiver and EfviEthReceiver (src/Efvi.h), and    *)
(* the receive ring of efvitcp::Core (src/efvitcp/Core.h), with the NIC    *)
(* between them, which runs on its own.                                    *)
(*                                                                         *)
(* A frame is the number of the write it belongs to, its length and its IP *)
(* checksum.  write fills the buffer buf_index and posts it; the NIC sends *)
(* what the buffer holds when its turn comes (CTPIO: at once).  Buffers a  *)
(* NIC may fill are posted to it; a filled one is an event until read      *)
(* takes it, belongs to the handler, and is posted again.  In Core::pollNet*)
(* it is initialised first, and all are pushed to the NIC at the end.      *)
(*                                                                         *)
(* History: fails counts the writes that have failed since the ring was    *)
(* last empty, spoilt says that a frame was overwritten, last is the last  *)
(* frame handed over, and wrong says that one was handed over out of turn  *)
(* or that read handed over a damaged one.                                 *)
(***************************************************************************)
EXTENDS Checksum, Sequences, Functions

CONSTANTS TxBufs, RxBufs,   \* EfviUdpSender::N_BUF, EfviReceiver::N_BUF
          HeaderSums,       \* sums of the words of the IP header
          Sizes,            \* payload sizes
          MaxWrites

ASSUME EfviUdpAssumption ==
  /\ TxBufs \in Nat \ {0} /\ RxBufs \in Nat \ {0} /\ MaxWrites \in Nat
  /\ Sizes \subseteq Nat /\ HeaderSums \subseteq Nat \ {0}

VARIABLES is_x3, hdr,        \* the kind of NIC, the sum of the header's words
          ipsum_cache, buf_index,
          txbuf,             \* buffer -> frame
          ring,              \* posted frames: [id, seq, done]
          written, fails, spoilt,
          reader,            \* "udp", "eth" or "core"
          rx_state, held,    \* the receiver: "closed", "failed", "open"; what it holds
          rxbuf, posted, events,
          handling, inited,  \* pollNet: buffers not pushed yet
          last, wrong

txVars == <<is_x3, hdr, ipsum_cache, buf_index, txbuf, ring, written, fails, spoilt>>
rxVars == <<reader, rx_state, held, rxbuf, posted, events, handling, inited, last, wrong>>
udpVars == <<txVars, rxVars>>

TxIds == 0 .. TxBufs - 1
RxIds == 0 .. RxBufs - 1
NoFrame == [seq |-> 0, len |-> 0, check |-> 0]
NoEvent == [id |-> -1, frame |-> NoFrame, rx |-> FALSE]

UdpInit ==
  /\ is_x3 \in BOOLEAN /\ hdr \in HeaderSums /\ ipsum_cache = IpSumCache(hdr)
  /\ buf_index = 0 /\ txbuf = [i \in TxIds |-> NoFrame] /\ ring = <<>>
  /\ written = 0 /\ fails = 0 /\ spoilt = FALSE
  /\ reader \in {"udp", "eth", "core"} /\ (is_x3 => reader # "core")
  /\ rx_state = "closed" /\ held = {}
  /\ rxbuf = [i \in RxIds |-> NoFrame] /\ posted = <<>> /\ events = <<>>
  /\ handling = NoEvent /\ inited = <<>> /\ last = 0 /\ wrong = FALSE

-----------------------------------------------------------------------------
(* The NIC (external). *)

\* A ring for n descriptors takes n - 1.
Capacity(n) == n - 1

\* A frame from the wire: it is lost, or fills the oldest buffer posted.
Arrive(f) ==
  \/ UNCHANGED rxVars
  \/ /\ rx_state = "open" /\ posted # <<>>
     /\ rxbuf' = [rxbuf EXCEPT ![Head(posted)] = f]
     /\ events' = Append(events, [id |-> Head(posted), frame |-> f,
                                  rx |-> Accepts(hdr + f.len, f.check)])
     /\ posted' = Tail(posted)
     /\ UNCHANGED <<reader, rx_state, held, handling, inited, last, wrong>>

\* The oldest frame that is not sent yet.
Transmit ==
  \E i \in DOMAIN ring :
    /\ ~ring[i].done /\ \A j \in 1 .. i - 1 : ring[j].done
    /\ ring' = [ring EXCEPT ![i].done = TRUE]
    /\ Arrive(txbuf[ring[i].id])
    /\ UNCHANGED <<is_x3, hdr, ipsum_cache, buf_index, txbuf, written, fails, spoilt>>

-----------------------------------------------------------------------------
(* EfviUdpSender. *)

\* update_udp_pkt.
UdpPkt(seq, size) ==
  [seq |-> seq, len |-> Swap(28 + size), check |-> IpCheck(ipsum_cache, Swap(28 + size))]

\* The size of the ring asked for in init.
\* Mutant: room for as many frames as there are buffers.
TxQueueLarger == TxBufs + 1
TxQueue == TxBufs

\* The events polled at the end of write: of the frames sent, some of the first.
Polled(r) == {SubSeq(r, k + 1, Len(r)) : k \in {k \in 0 .. Len(r) : \A j \in 1 .. k : r[j].done}}

Write ==
  /\ ~is_x3 /\ written < MaxWrites /\ written' = written + 1
  /\ \E size \in Sizes : txbuf' = [txbuf EXCEPT ![buf_index] = UdpPkt(written + 1, size)]
  /\ spoilt' = (spoilt \/ \E i \in DOMAIN ring : ring[i].id = buf_index /\ ~ring[i].done)
  /\ LET fits == Len(ring) < Capacity(TxQueue)
     IN  /\ ring' \in Polled(IF fits
                             THEN Append(ring, [id |-> buf_index, seq |-> written + 1, done |-> FALSE])
                             ELSE ring)
         /\ fails' = IF ring' = <<>> THEN 0 ELSE IF fits THEN fails ELSE fails + 1
  /\ buf_index' = (buf_index + 1) % TxBufs
  /\ UNCHANGED <<is_x3, hdr, ipsum_cache>> /\ UNCHANGED rxVars

\* The NIC has taken the frame when ef_vi_transmitv_ctpio returns.
WriteX3 ==
  /\ is_x3 /\ written < MaxWrites /\ written' = written + 1
  /\ \E size \in Sizes : Arrive(UdpPkt(written + 1, size))
  /\ UNCHANGED <<is_x3, hdr, ipsum_cache, buf_index, txbuf, ring, fails, spoilt>>

-----------------------------------------------------------------------------
(* The receivers. *)

\* The buffers are allocated in init; those of Core are part of it, those of an X3 NIC
\* the NIC's own.
OwnBufs == ~is_x3 /\ reader # "core"

\* init may fail after any of its steps.  What it has taken by then, more in the
\* classes with more to take, is kept until close.
Open(more) ==
  /\ rx_state = "closed"
  /\ \E h \in SUBSET ({"dh", "bufs"} \cup more), ok \in BOOLEAN :
       /\ h # {} => "dh" \in h
       /\ "bufs" \in h => OwnBufs
       /\ h \cap more # {} \/ ok => "dh" \in h /\ (OwnBufs => "bufs" \in h)
       /\ held' = h /\ rx_state' = IF ok THEN "open" ELSE "failed"
       /\ posted' = IF ok THEN [i \in 1 .. RxBufs |-> i - 1] ELSE <<>>
  /\ UNCHANGED txVars /\ UNCHANGED <<reader, rxbuf, events, handling, inited, last, wrong>>

\* The last step is the socket that joins a multicast group, if asked for.
InitUdp == reader = "udp" /\ Open({"fd"})
InitEth == reader = "eth" /\ Open({})
InitCore == reader = "core" /\ Open({})

\* Mutant: the socket that joined the group is kept.
RxCloseKeepsFd ==
  /\ rx_state # "closed" /\ handling = NoEvent /\ inited = <<>>
  /\ rx_state' = "closed" /\ held' = held \ {"dh", "bufs"}
  /\ posted' = <<>> /\ events' = <<>> /\ rxbuf' = [i \in RxIds |-> NoFrame]
  /\ UNCHANGED txVars /\ UNCHANGED <<reader, handling, inited, last, wrong>>

\* close, by a user that does not call it in a handler.
RxClose ==
  /\ rx_state # "closed" /\ handling = NoEvent /\ inited = <<>>
  /\ rx_state' = "closed" /\ held' = {}
  /\ posted' = <<>> /\ events' = <<>> /\ rxbuf' = [i \in RxIds |-> NoFrame]
  /\ UNCHANGED txVars /\ UNCHANGED <<reader, handling, inited, last, wrong>>

\* Mutant: the type of the event is not looked at.
HandsAll(ev, checked) ==
  /\ wrong' = (wrong \/ (~spoilt /\ ev.frame.seq <= last)
                      \/ (checked /\ ~Accepts(hdr + ev.frame.len, ev.frame.check)))
  /\ last' = ev.frame.seq

\* The handler is called for a frame the NIC has found right; readNoCheck and recvfrom
\* do not look at that.
Hands(ev, checked) ==
  IF ev.rx \/ ~checked
  THEN /\ wrong' = (wrong \/ (~spoilt /\ ev.frame.seq <= last)
                          \/ (checked /\ ~Accepts(hdr + ev.frame.len, ev.frame.check)))
       /\ last' = ev.frame.seq
  ELSE UNCHANGED <<last, wrong>>

\* Mutant: the buffer is posted before the handler has run.
TakePostsFirst(checked) ==
  /\ rx_state = "open" /\ handling = NoEvent /\ events # <<>>
  /\ Hands(Head(events), checked)
  /\ handling' = Head(events) /\ events' = Tail(events)
  /\ posted' = Append(posted, Head(events).id)
  /\ UNCHANGED txVars /\ UNCHANGED <<reader, rx_state, held, rxbuf, inited>>

\* An event is polled, and the handler gets its frame.
Take(checked) ==
  /\ rx_state = "open" /\ handling = NoEvent /\ events # <<>>
  /\ Hands(Head(events), checked)
  /\ handling' = Head(events) /\ events' = Tail(events)
  /\ UNCHANGED txVars /\ UNCHANGED <<reader, rx_state, held, rxbuf, posted, inited>>

ReadUdp == reader = "udp" /\ Take(TRUE)
\* readNoCheck, recvfrom.
ReadNoCheck == reader = "udp" /\ Take(FALSE)
ReadEth == reader = "eth" /\ Take(TRUE)
PollNet == reader = "core" /\ Take(TRUE)

\* The handler has returned: ef_vi_receive_post, efct_vi_rxpkt_release, or
\* ef_vi_receive_init.  What the buffer holds is of no use any more.
ReadEnd ==
  /\ handling # NoEvent /\ handling' = NoEvent
  /\ IF reader = "core" THEN inited' = Append(inited, handling.id) /\ UNCHANGED posted
                        ELSE posted' = Append(posted, handling.id) /\ UNCHANGED inited
  /\ rxbuf' = [rxbuf EXCEPT ![handling.id] = NoFrame]
  /\ UNCHANGED txVars /\ UNCHANGED <<reader, rx_state, held, events, last, wrong>>

\* ef_vi_receive_push, at the end of pollNet.
PollNetEnd ==
  /\ handling = NoEvent /\ inited # <<>>
  /\ posted' = posted \o inited /\ inited' = <<>>
  /\ UNCHANGED txVars
  /\ UNCHANGED <<reader, rx_state, held, rxbuf, events, handling, last, wrong>>

UdpNext ==
  \/ Transmit \/ Write \/ WriteX3
  \/ InitUdp \/ InitEth \/ InitCore \/ RxClose
  \/ ReadUdp \/ ReadNoCheck \/ ReadEth \/ PollNet \/ ReadEnd \/ PollNetEnd

UdpSpec == UdpInit /\ [][UdpNext]_udpVars

-----------------------------------------------------------------------------
(* Properties. *)

\* write: a buffer is not written while the NIC still has to send it, as long as at
\* most one write has failed since the ring was last empty; so each frame sent is the
\* one that was posted.
TxIntact ==
  fails <= 1 => \A i \in DOMAIN ring : ~ring[i].done => txbuf[ring[i].id].seq = ring[i].seq

\* read, recvfrom, pollNet: while a receiver is open, each of its buffers is either posted
\* to the NIC, waiting as an event, with the handler or ready to be pushed, and what the
\* NIC has put there is still there when the handler has it.  A receiver that is closed,
\* after an init that failed as well, holds nothing.
RxExact ==
  LET taken == IF handling = NoEvent THEN events ELSE Append(events, handling)
      ids == posted \o inited \o [i \in DOMAIN taken |-> taken[i].id]
  IN  /\ rx_state = "open" => Len(ids) = RxBufs /\ Range(ids) = RxIds
      /\ \A i \in DOMAIN taken : rxbuf[taken[i].id] = taken[i].frame
      /\ rx_state = "closed" => held = {} /\ ids = <<>>

\* write to read: the handlers get the datagrams in the order of the writes, none twice,
\* unless a frame was overwritten in the sender's ring, and read none that is damaged.
InOrder == ~wrong

\* update_udp_pkt: the checksum of a datagram is right, but for the headers whose sum
\* carries when the cache is made.
UdpChecksumTrue ==
  \A i \in TxIds : txbuf[i] # NoFrame /\ ~CacheCarries(hdr) => Accepts(hdr + txbuf[i].len, txbuf[i].check)
=============================================================================
