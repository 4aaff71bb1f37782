------------------------- MODULE EfviTcpUserProofs -------------------------
(***************************************************************************)
(* Theorems on EfviTcpUser, for every configuration and any number of      *)
(* connections: they end clean, their timeouts are true, and the callbacks *)
(* of each are those of TcpUserApi.                                        *)
(***************************************************************************)
EXTENDS EfviTcpUser, TLAPS

Fields ==
  {"established", "fin_sent", "fin_received", "timer", "left", "unacked", "tw", "sessions",
   "dropped", "quiet", "idle", "noticed", "early"}

NoTimer == [t \in 0 .. 1 |-> Off]

\* A timer that runs leaves no less than the time configured from the last event.
Armed(c) ==
  /\ c.timer \in [0 .. 1 -> Int] /\ c.idle \in Nat /\ c.quiet \in Nat
  /\ c.timer[0] = Off \/ (c.timer[0] >= 0 /\ c.timer[0] + c.idle >= SendTimeoutSec)
  /\ c.timer[1] = Off \/ (c.timer[1] >= 0 /\ c.timer[1] + c.quiet >= RecvTimeoutSec)

-----------------------------------------------------------------------------
(* The states of a connection, in an event and between two. *)

Basic(c) == DOMAIN c = Fields /\ ~c.tw /\ ~c.early

\* It is closed, and the user knows.
Over(c) ==
  /\ Basic(c) /\ ~c.established /\ c.fin_received /\ c.timer = NoTimer /\ c.sessions = 0

\* The user has closed it in the current event.
Dropped(c) == Over(c) /\ c.dropped

\* The handshake is under way.
Trying(c) ==
  /\ Basic(c) /\ ~c.established /\ ~c.fin_sent /\ ~c.fin_received /\ c.timer = NoTimer
  /\ c.sessions = 0 /\ ~c.dropped

\* It is established, and the user knows.
Live(c) ==
  /\ Basic(c) /\ c.established /\ ~c.fin_sent /\ c.sessions = 1 /\ ~c.dropped /\ Armed(c)

\* In onTcpDisconnect, before TcpConn closes the connection.
Told(c) == Basic(c) /\ c.established /\ c.sessions = 0 /\ ~c.dropped

\* It is closed, and onTcpDisconnect comes next.
Untold(c) ==
  /\ Basic(c) /\ ~c.established /\ c.fin_received /\ c.timer = NoTimer /\ c.sessions = 1
  /\ ~c.dropped

Sound(c) == ~c.dropped /\ (Over(c) \/ Trying(c) \/ Live(c))

Inv ==
  /\ role \in {"client", "server"} /\ retry_sec \in Nat
  /\ next_conn_ts \in Int /\ next_conn_ts >= Never
  /\ DOMAIN conn = Slots /\ \A s \in Slots : Sound(conn[s])
  /\ role = "client" => ~listening /\ \A s \in Slots : s # 0 => Over(conn[s])
  /\ role = "server" => retry_sec = 1 /\ next_conn_ts = 0

\* The constants, and the few facts on numbers that the logical leaves need.
LEMMA Constants ==
  /\ SendTimeoutSec \in Nat /\ RecvTimeoutSec \in Nat /\ MaxConns \in Nat \ {0}
  /\ 0 \in Slots /\ 0 \in 0 .. 1 /\ 1 \in 0 .. 1 /\ 0 # 1 /\ ~(0 > 0) /\ 1 > 0 /\ 1 - 1 = 0
  /\ Off \in Int /\ 0 \in Nat /\ Never \in Int /\ Never # 0 /\ Off # 0
  BY EfviTcpUserAssumption DEF Slots, Off, Never

-----------------------------------------------------------------------------
(* close, by the library and by the user. *)

\* The flags of a connection, all but the timers and the history of time.
SameFlags(c, d) ==
  /\ DOMAIN d = Fields
  /\ d.established = c.established /\ d.fin_sent = c.fin_sent /\ d.fin_received = c.fin_received
  /\ d.tw = c.tw /\ d.sessions = c.sessions /\ d.dropped = c.dropped /\ d.early = c.early

Closed(c, d) ==
  /\ DOMAIN d = Fields
  /\ ~d.established /\ d.fin_received /\ d.timer = NoTimer /\ ~d.tw /\ d.early = c.early

\* onClose, field by field.
LEMMA OnCloseFields ==
  ASSUME NEW c, DOMAIN c = Fields, ~IsClosed(c)
  PROVE  LET d == OnClose(c, FALSE)
         IN  Closed(c, d) /\ d.sessions = c.sessions /\ d.dropped = c.dropped
  BY Zenon DEF OnClose, Closed, Fields, NoTimer

\* onClose ends an attempt, and a connection whose end has been told.
LEMMA OnCloseOver ==
  ASSUME NEW c, Over(c) \/ Trying(c) \/ Told(c)
  PROVE  Over(OnClose(c, FALSE))
<1>1. CASE IsClosed(c)
  BY <1>1, Zenon DEF OnClose, IsClosed, Trying, Told
<1>2. CASE ~IsClosed(c)
  BY <1>2, OnCloseFields, Zenon DEF Over, Trying, Told, Basic, Closed
<1>3. QED
  BY <1>1, <1>2

\* onClose of an established connection: the user is not told yet.
LEMMA OnCloseLive ==
  ASSUME NEW c, Live(c)
  PROVE  Untold(OnClose(c, FALSE))
  BY OnCloseFields, Zenon DEF Live, Untold, Basic, Closed, IsClosed

\* onClose of a connection that is closed does nothing.
LEMMA OnCloseDropped ==
  ASSUME NEW c, Over(c)
  PROVE  OnClose(c, FALSE) = c
  BY Zenon DEF Over, OnClose, IsClosed

\* close by the user, field by field.
LEMMA UserCloseFields ==
  ASSUME NEW c, DOMAIN c = Fields, ~IsClosed(c)
  PROVE  LET d == UserClose(c)
         IN  /\ Closed(c, d)
             /\ d.sessions = IF c.sessions > 0 THEN c.sessions - 1 ELSE c.sessions
             /\ d.dropped = (c.sessions > 0)
<1>1. PICK e : e = OnClose(c, FALSE)
  BY Zenon
<1>2. Closed(c, e) /\ e.sessions = c.sessions
  BY <1>1, OnCloseFields, Zenon
<1>3. UserClose(c) = [e EXCEPT !.sessions = IF c.sessions > 0 THEN @ - 1 ELSE @,
                               !.dropped = c.sessions > 0]
  BY <1>1, Zenon DEF UserClose
<1>4. QED
  BY <1>2, <1>3, Zenon DEF Closed, Fields

\* The user closes an established connection.
LEMMA UserCloseLive ==
  ASSUME NEW c, Live(c)
  PROVE  Dropped(UserClose(c))
  BY UserCloseFields, Constants, Zenon DEF Live, Dropped, Over, Basic, Closed, IsClosed

\* The user closes one that is not established, or whose end is being told.
LEMMA UserCloseOver ==
  ASSUME NEW c, Over(c) \/ Trying(c) \/ Told(c)
  PROVE  Over(UserClose(c))
<1>1. CASE IsClosed(c)
  BY <1>1, Zenon DEF UserClose, IsClosed, Trying, Told
<1>2. CASE ~IsClosed(c)
  BY <1>2, UserCloseFields, Constants, Zenon DEF Over, Trying, Told, Basic, Closed
<1>3. QED
  BY <1>1, <1>2

-----------------------------------------------------------------------------
(* The callbacks. *)

\* writeNonblock, field by field.
LEMMA WriteFields ==
  ASSUME NEW c, DOMAIN c = Fields
  PROVE  LET d == SetUserTimer([c EXCEPT !.unacked = TRUE, !.idle = 0], 0, SendTimeoutSec)
         IN  /\ SameFlags(c, d) /\ d.idle = 0 /\ d.quiet = c.quiet
             /\ d.timer = [c.timer EXCEPT ![0] = IF SendTimeoutSec = 0 THEN Off ELSE SendTimeoutSec]
  BY Zenon DEF SetUserTimer, SameFlags, Fields

\* A timer that is set now is sound.
LEMMA SetArmed ==
  ASSUME NEW sec \in Nat, NEW x, x = IF sec = 0 THEN Off ELSE sec
  PROVE  x \in Int /\ (x = Off \/ (x >= 0 /\ x + 0 >= sec))
  BY DEF Off

\* A write that is accepted sets the send timer again.
LEMMA WriteLive ==
  ASSUME NEW c, Live(c)
  PROVE  Live(SetUserTimer([c EXCEPT !.unacked = TRUE, !.idle = 0], 0, SendTimeoutSec))
<1>1. PICK d : d = SetUserTimer([c EXCEPT !.unacked = TRUE, !.idle = 0], 0, SendTimeoutSec)
  BY Zenon
<1>2. PICK x : x = IF SendTimeoutSec = 0 THEN Off ELSE SendTimeoutSec
  BY Zenon
<1>3. SameFlags(c, d) /\ d.idle = 0 /\ d.quiet = c.quiet /\ d.timer = [c.timer EXCEPT ![0] = x]
  BY <1>1, <1>2, WriteFields, Zenon DEF Live, Basic
<1>4. x \in Int /\ (x = Off \/ (x >= 0 /\ x + 0 >= SendTimeoutSec))
  BY <1>2, SetArmed, Constants, Zenon
<1>5. d.timer \in [0 .. 1 -> Int] /\ d.timer[0] = x /\ d.timer[1] = c.timer[1]
  <2>1. c.timer \in [0 .. 1 -> Int]
    BY Zenon DEF Live, Armed
  <2>2. PICK f, g : f = c.timer /\ g = d.timer
    BY Zenon
  <2>3. f \in [0 .. 1 -> Int] /\ x \in Int /\ g = [f EXCEPT ![0] = x]
    BY <1>3, <1>4, <2>1, <2>2, Zenon
  <2>4. g \in [0 .. 1 -> Int] /\ g[0] = x /\ g[1] = f[1]
    BY <2>3
  <2>5. QED
    BY <2>2, <2>4, Zenon
<1>6. Armed(d)
  <2>1. c.timer[1] = Off \/ (c.timer[1] >= 0 /\ c.timer[1] + c.quiet >= RecvTimeoutSec)
    BY Zenon DEF Live, Armed
  <2>2. d.timer[1] = Off \/ (d.timer[1] >= 0 /\ d.timer[1] + d.quiet >= RecvTimeoutSec)
    BY <1>3, <1>5, <2>1, Zenon
  <2>3. d.timer[0] = Off \/ (d.timer[0] >= 0 /\ d.timer[0] + d.idle >= SendTimeoutSec)
    BY <1>3, <1>4, <1>5, Zenon
  <2>4. d.idle \in Nat /\ d.quiet \in Nat
    BY <1>3, Constants, Zenon DEF Live, Armed
  <2>5. QED
    BY <1>5, <2>2, <2>3, <2>4, Zenon DEF Armed
<1>7. QED
  BY <1>1, <1>3, <1>6, Zenon DEF Live, Basic, SameFlags

\* After a callback the connection is established, or the user has closed it.
LEMMA CallbackLive ==
  ASSUME NEW c, Live(c), NEW d \in Callback(c)
  PROVE  Live(d) \/ Dropped(d)
<1>1. \/ d = c \/ d = UserClose(c)
      \/ d = SetUserTimer([c EXCEPT !.unacked = TRUE, !.idle = 0], 0, SendTimeoutSec)
  BY Zenon DEF Callback, WriteNonblock
<1>2. QED
  BY <1>1, UserCloseLive, WriteLive, Zenon

\* After onTcpDisconnect of a connection that TcpConn has still to close.
LEMMA CallbackTold ==
  ASSUME NEW c, Told(c), NEW d \in Callback(c)
  PROVE  Told(d) \/ Over(d)
<1>1. \/ d = c \/ d = UserClose(c)
      \/ d = SetUserTimer([c EXCEPT !.unacked = TRUE, !.idle = 0], 0, SendTimeoutSec)
  BY Zenon DEF Callback, WriteNonblock
<1>2. CASE d = SetUserTimer([c EXCEPT !.unacked = TRUE, !.idle = 0], 0, SendTimeoutSec)
  BY <1>2, WriteFields, Zenon DEF Told, Basic, SameFlags
<1>3. QED
  BY <1>1, <1>2, UserCloseOver, Zenon

\* A user can only close a connection that is being established.
LEMMA CallbackTrying ==
  ASSUME NEW c, Trying(c), NEW d \in Callback(c)
  PROVE  d = c \/ Over(d)
<1>1. d = c \/ d = UserClose(c)
  BY Zenon DEF Callback, Trying
<1>2. QED
  BY <1>1, UserCloseOver, Zenon

\* A user can do nothing with one that is closed.
LEMMA CallbackOver ==
  ASSUME NEW c, Over(c), NEW d \in Callback(c)
  PROVE  d = c
  BY Zenon DEF Callback, Over, UserClose, IsClosed

\* onTcpDisconnect, whether the connection is closed before or after it.
DisconnectArg(c) == IF c.dropped THEN [c EXCEPT !.dropped = FALSE] ELSE [c EXCEPT !.sessions = @ - 1]

\* What onTcpDisconnect counts, field by field.
LEMMA DisconnectFields ==
  ASSUME NEW c, DOMAIN c = Fields
  PROVE  LET d == DisconnectArg(c)
         IN  /\ DOMAIN d = Fields /\ ~d.dropped
             /\ d.established = c.established /\ d.fin_received = c.fin_received
             /\ d.timer = c.timer /\ d.tw = c.tw /\ d.early = c.early
             /\ d.sessions = IF c.dropped THEN c.sessions ELSE c.sessions - 1
  BY Zenon DEF DisconnectArg, Fields

\* onTcpDisconnect of a closed connection leaves nothing to tell.
LEMMA DisconnectOver ==
  ASSUME NEW c, Untold(c) \/ Dropped(c), NEW d \in Disconnect(c)
  PROVE  Over(d)
<1>1. PICK e : e = DisconnectArg(c)
  BY Zenon
<1>2. Over(e)
  BY <1>1, DisconnectFields, Constants, Zenon DEF Untold, Dropped, Over, Basic
<1>3. QED
  BY <1>1, <1>2, CallbackOver, Zenon DEF Disconnect, DisconnectArg

\* onTcpDisconnect before TcpConn closes the connection.
LEMMA DisconnectLive ==
  ASSUME NEW c, Live(c), NEW d \in Disconnect(c)
  PROVE  Told(d) \/ Over(d)
<1>1. PICK e : e = DisconnectArg(c)
  BY Zenon
<1>2. Told(e)
  BY <1>1, DisconnectFields, Constants, Zenon DEF Live, Told, Basic
<1>3. QED
  BY <1>1, <1>2, CallbackTold, Zenon DEF Disconnect, DisconnectArg

-----------------------------------------------------------------------------
(* The handlers of TmpHandler: each takes a connection that is established to one *)
(* that is established still or over, an attempt to a connection or its end.      *)

\* A reset ends the connection, and the user knows, if it has closed it in the same
\* event, too.
LEMMA OnConnectionResetOver ==
  ASSUME NEW c, Live(c) \/ Dropped(c), NEW d \in OnConnectionReset(c)
  PROVE  Over(d)
<1>1. PICK e \in Disconnect(c) : d = OnClose(e, FALSE)
  BY Zenon DEF OnConnectionReset
<1>2. Told(e) \/ Over(e)
  BY <1>1, DisconnectLive, DisconnectOver, Zenon
<1>3. QED
  BY <1>1, <1>2, OnCloseOver, Zenon

\* So does the last retransmission, for an attempt as well.
LEMMA OnConnectionTimeoutOver ==
  ASSUME NEW c, Live(c) \/ Trying(c), NEW d \in OnConnectionTimeout(c)
  PROVE  Over(d)
<1>1. CASE c.established
  <2>1. PICK e \in Disconnect(c) : d = OnClose(e, FALSE)
    BY <1>1, Zenon DEF OnConnectionTimeout
  <2>2. Told(e) \/ Over(e)
    BY <1>1, <2>1, DisconnectLive, Zenon DEF Trying
  <2>3. QED
    BY <2>1, <2>2, OnCloseOver, Zenon
<1>2. CASE ~c.established
  <2>1. d = OnClose(c, FALSE) /\ Trying(c)
    BY <1>2, Zenon DEF OnConnectionTimeout, Live
  <2>2. QED
    BY <2>1, OnCloseOver, Zenon
<1>3. QED
  BY <1>1, <1>2

\* So does a FIN: the wrapper closes the connection as soon as it comes.
LEMMA OnFinOver ==
  ASSUME NEW c, Live(c) \/ Dropped(c), NEW d \in OnFin(c)
  PROVE  Over(d)
<1>1. PICK e \in IF c.left THEN Callback(c) ELSE {c} : d \in Disconnect(OnClose(e, FALSE))
  BY Zenon DEF OnFin
<1>2. Live(e) \/ Dropped(e)
  <2>1. e = c \/ e \in Callback(c)
    BY <1>1, Zenon
  <2>2. QED
    BY <2>1, CallbackLive, CallbackOver, Zenon DEF Dropped
<1>3. PICK f : f = OnClose(e, FALSE)
  BY Zenon
<1>4. Untold(f) \/ Dropped(f)
  BY <1>2, <1>3, OnCloseLive, OnCloseDropped, Zenon DEF Dropped
<1>5. QED
  BY <1>1, <1>3, <1>4, DisconnectOver, Zenon

\* The FIN has come; or onTcpData has left bytes.
LEMMA FinReceivedFields ==
  ASSUME NEW c, DOMAIN c = Fields, NEW b
  PROVE  /\ LET d == [c EXCEPT !.fin_received = TRUE]
            IN  /\ DOMAIN d = Fields /\ d.established = c.established /\ d.fin_sent = c.fin_sent
                /\ d.fin_received = TRUE /\ d.timer = c.timer /\ d.tw = c.tw /\ d.early = c.early
                /\ d.sessions = c.sessions /\ d.dropped = c.dropped
                /\ d.idle = c.idle /\ d.quiet = c.quiet
         /\ LET d == [c EXCEPT !.left = b]
            IN  SameFlags(c, d) /\ d.timer = c.timer /\ d.idle = c.idle /\ d.quiet = c.quiet
         /\ LET d == [c EXCEPT !.unacked = b]
            IN  SameFlags(c, d) /\ d.timer = c.timer /\ d.idle = c.idle /\ d.quiet = c.quiet
  BY Zenon DEF Fields, SameFlags

\* The states of a connection are a matter of its flags, timers and times.
LEMMA SameFlagsLive ==
  ASSUME NEW c, NEW d, SameFlags(c, d), d.timer = c.timer, d.idle = c.idle, d.quiet = c.quiet
  PROVE  (Live(c) => Live(d)) /\ (Over(c) => Over(d)) /\ (Dropped(c) => Dropped(d))
  BY Zenon DEF SameFlags, Live, Over, Dropped, Basic, Armed

\* fin_received is set before onFin.
LEMMA FinReceivedLive ==
  ASSUME NEW c, Live(c) \/ Dropped(c)
  PROVE  LET d == [c EXCEPT !.fin_received = TRUE] IN Live(d) \/ Dropped(d)
<1>1. PICK d : d = [c EXCEPT !.fin_received = TRUE]
  BY Zenon
<1>2. DOMAIN c = Fields
  BY Zenon DEF Live, Dropped, Over, Basic
<1>3. /\ DOMAIN d = Fields /\ d.established = c.established /\ d.fin_sent = c.fin_sent
      /\ d.fin_received = TRUE /\ d.timer = c.timer /\ d.tw = c.tw /\ d.early = c.early
      /\ d.sessions = c.sessions /\ d.dropped = c.dropped /\ d.idle = c.idle /\ d.quiet = c.quiet
  BY <1>1, <1>2, FinReceivedFields, Zenon
<1>4. Live(d) \/ Dropped(d)
  BY <1>3, Zenon DEF Live, Dropped, Over, Basic, Armed
<1>5. QED
  BY <1>1, <1>4, Zenon

\* The receive timer is set before onTcpData, field by field.
LEMMA DataFields ==
  ASSUME NEW c, DOMAIN c = Fields
  PROVE  LET d == SetUserTimer([c EXCEPT !.quiet = 0, !.noticed = FALSE], 1, RecvTimeoutSec)
         IN  /\ SameFlags(c, d) /\ d.idle = c.idle /\ d.quiet = 0
             /\ d.timer = [c.timer EXCEPT ![1] = IF RecvTimeoutSec = 0 THEN Off ELSE RecvTimeoutSec]
  BY Zenon DEF SetUserTimer, SameFlags, Fields

\* onTcpData, after which the connection is established or closed by the user.
LEMMA OnDataLive ==
  ASSUME NEW c, Live(c), NEW d \in OnData(c)
  PROVE  Live(d) \/ Dropped(d)
<1>1. PICK e : e = SetUserTimer([c EXCEPT !.quiet = 0, !.noticed = FALSE], 1, RecvTimeoutSec)
  BY Zenon
<1>2. PICK x : x = IF RecvTimeoutSec = 0 THEN Off ELSE RecvTimeoutSec
  BY Zenon
<1>3. SameFlags(c, e) /\ e.idle = c.idle /\ e.quiet = 0 /\ e.timer = [c.timer EXCEPT ![1] = x]
  BY <1>1, <1>2, DataFields, Zenon DEF Live, Basic
<1>4. x \in Int /\ (x = Off \/ (x >= 0 /\ x + 0 >= RecvTimeoutSec))
  BY <1>2, SetArmed, Constants, Zenon
<1>5. e.timer \in [0 .. 1 -> Int] /\ e.timer[1] = x /\ e.timer[0] = c.timer[0]
  <2>1. c.timer \in [0 .. 1 -> Int]
    BY Zenon DEF Live, Armed
  <2>2. PICK f, g : f = c.timer /\ g = e.timer
    BY Zenon
  <2>3. f \in [0 .. 1 -> Int] /\ x \in Int /\ g = [f EXCEPT ![1] = x]
    BY <1>3, <1>4, <2>1, <2>2, Zenon
  <2>4. g \in [0 .. 1 -> Int] /\ g[1] = x /\ g[0] = f[0]
    BY <2>3
  <2>5. QED
    BY <2>2, <2>4, Zenon
<1>6. Armed(e)
  <2>1. c.timer[0] = Off \/ (c.timer[0] >= 0 /\ c.timer[0] + c.idle >= SendTimeoutSec)
    BY Zenon DEF Live, Armed
  <2>2. e.timer[0] = Off \/ (e.timer[0] >= 0 /\ e.timer[0] + e.idle >= SendTimeoutSec)
    BY <1>3, <1>5, <2>1, Zenon
  <2>3. e.timer[1] = Off \/ (e.timer[1] >= 0 /\ e.timer[1] + e.quiet >= RecvTimeoutSec)
    BY <1>3, <1>4, <1>5, Zenon
  <2>4. e.idle \in Nat /\ e.quiet \in Nat
    BY <1>3, Constants, Zenon DEF Live, Armed
  <2>5. QED
    BY <1>5, <2>2, <2>3, <2>4, Zenon DEF Armed
<1>7. Live(e)
  BY <1>3, <1>6, Zenon DEF Live, Basic, SameFlags
<1>8. PICK f \in Callback(e) : d \in {[f EXCEPT !.left = l] : l \in BOOLEAN}
  BY <1>1, Zenon DEF OnData
<1>9. PICK l \in BOOLEAN : d = [f EXCEPT !.left = l]
  BY <1>8, Zenon
<1>10. Live(f) \/ Dropped(f)
  BY <1>7, <1>8, CallbackLive, Zenon
<1>11. SameFlags(f, d) /\ d.timer = f.timer /\ d.idle = f.idle /\ d.quiet = f.quiet
  <2>1. DOMAIN f = Fields
    BY <1>10, Zenon DEF Live, Dropped, Over, Basic
  <2>2. QED
    BY <1>9, <2>1, FinReceivedFields, Zenon
<1>12. QED
  BY <1>10, <1>11, SameFlagsLive, Zenon

\* The text and the FIN of a frame.
LEMMA TextLive ==
  ASSUME NEW c, Live(c), NEW f, NEW d \in Text(c, f)
  PROVE  Live(d) \/ Over(d)
<1>1. \/ d = c
      \/ d \in OnData(c)
      \/ \E e \in OnData(c) : d \in OnConnectionReset(e)
      \/ d \in OnFin([c EXCEPT !.fin_received = TRUE])
      \/ \E e \in OnData(c) : d \in OnFin([e EXCEPT !.fin_received = TRUE])
  BY Zenon DEF Text
<1>2. \A e \in OnData(c) : Live(e) \/ Dropped(e)
  BY OnDataLive, Zenon
<1>3. CASE \E e \in OnData(c) : d \in OnConnectionReset(e)
  BY <1>2, <1>3, OnConnectionResetOver, Zenon
<1>4. CASE d \in OnFin([c EXCEPT !.fin_received = TRUE])
  <2>1. PICK e : e = [c EXCEPT !.fin_received = TRUE]
    BY Zenon
  <2>2. Live(e) \/ Dropped(e)
    BY <2>1, FinReceivedLive, Zenon
  <2>3. QED
    BY <1>4, <2>1, <2>2, OnFinOver, Zenon
<1>5. CASE \E e \in OnData(c) : d \in OnFin([e EXCEPT !.fin_received = TRUE])
  <2>1. PICK e \in OnData(c) : d \in OnFin([e EXCEPT !.fin_received = TRUE])
    BY <1>5, Zenon
  <2>2. PICK g : g = [e EXCEPT !.fin_received = TRUE]
    BY Zenon
  <2>3. Live(g) \/ Dropped(g)
    BY <1>2, <2>1, <2>2, FinReceivedLive, Zenon
  <2>4. QED
    BY <2>1, <2>2, <2>3, OnFinOver, Zenon
<1>6. QED
  BY <1>1, <1>2, <1>3, <1>4, <1>5, Zenon DEF Dropped

\* onConnectionClosed, and so TIME_WAIT, is out of reach: the wrapper never sends a
\* FIN of its own while the connection is established.
LEMMA OnPackLive ==
  ASSUME NEW c, Live(c), NEW f, NEW d \in OnPack(c, f)
  PROVE  Live(d) \/ Over(d)
<1>1. CASE f = "rst"
  BY <1>1, OnConnectionResetOver, Zenon DEF OnPack
<1>2. CASE f # "rst"
  <2>1. PICK e \in UNION {Text([c EXCEPT !.unacked = a], f) : a \in {c.unacked, FALSE}} :
          d \in IF e.fin_sent /\ e.fin_received /\ e.established /\ ~e.unacked
                THEN OnConnectionClosed(e) ELSE {e}
    BY <1>2, Zenon DEF OnPack
  <2>2. PICK a \in {c.unacked, FALSE} : e \in Text([c EXCEPT !.unacked = a], f)
    BY <2>1, Zenon
  <2>3. PICK g : g = [c EXCEPT !.unacked = a]
    BY Zenon
  <2>4. SameFlags(c, g) /\ g.timer = c.timer /\ g.idle = c.idle /\ g.quiet = c.quiet
    BY <2>3, FinReceivedFields, ZenonT(40) DEF Live, Basic
  <2>5. Live(g)
    BY <2>4, SameFlagsLive, Zenon
  <2>6. Live(e) \/ Over(e)
    BY <2>2, <2>3, <2>5, TextLive, Zenon
  <2>7. ~(e.fin_sent /\ e.fin_received /\ e.established /\ ~e.unacked)
    BY <2>6, Zenon DEF Live, Over
  <2>8. QED
    BY <2>1, <2>6, <2>7, Zenon
<1>3. QED
  BY <1>1, <1>2

\* onConnectionEstablished up to the callback, field by field.
LEMMA EstablishedFields ==
  ASSUME NEW c, DOMAIN c = Fields
  PROVE  LET b == [c EXCEPT !.established = TRUE, !.unacked = FALSE, !.sessions = @ + 1,
                            !.quiet = 0, !.idle = 0]
             d == SetUserTimer(SetUserTimer(b, 0, SendTimeoutSec), 1, RecvTimeoutSec)
         IN  /\ DOMAIN d = Fields /\ d.established = TRUE /\ d.sessions = c.sessions + 1
             /\ d.fin_sent = c.fin_sent /\ d.tw = c.tw /\ d.dropped = c.dropped
             /\ d.early = c.early /\ d.idle = 0 /\ d.quiet = 0
             /\ d.timer = [[c.timer EXCEPT ![0] = IF SendTimeoutSec = 0 THEN Off ELSE SendTimeoutSec]
                             EXCEPT ![1] = IF RecvTimeoutSec = 0 THEN Off ELSE RecvTimeoutSec]
  BY Zenon DEF SetUserTimer, Fields

\* onConnectionEstablished sets both timers, and onTcpConnected may close the
\* connection.
LEMMA OnConnectionEstablishedLive ==
  ASSUME NEW c, Trying(c), NEW d \in OnConnectionEstablished(c)
  PROVE  Live(d) \/ Over(d)
<1> DEFINE b == [c EXCEPT !.established = TRUE, !.unacked = FALSE, !.sessions = @ + 1,
                          !.quiet = 0, !.idle = 0]
<1>1. PICK e : e = SetUserTimer(SetUserTimer(b, 0, SendTimeoutSec), 1, RecvTimeoutSec)
  BY Zenon
<1>2. d \in Callback(e)
  BY <1>1, Zenon DEF OnConnectionEstablished
<1>3. PICK x, y : /\ x = IF SendTimeoutSec = 0 THEN Off ELSE SendTimeoutSec
                  /\ y = IF RecvTimeoutSec = 0 THEN Off ELSE RecvTimeoutSec
  BY Zenon
<1>4. /\ DOMAIN e = Fields /\ e.established /\ e.sessions = c.sessions + 1
      /\ e.fin_sent = c.fin_sent /\ e.tw = c.tw /\ e.dropped = c.dropped
      /\ e.early = c.early /\ e.idle = 0 /\ e.quiet = 0
      /\ e.timer = [[c.timer EXCEPT ![0] = x] EXCEPT ![1] = y]
  BY <1>1, <1>3, EstablishedFields, ZenonT(40) DEF Trying, Basic
<1> HIDE DEF b
<1>5. /\ x \in Int /\ (x = Off \/ (x >= 0 /\ x + 0 >= SendTimeoutSec))
      /\ y \in Int /\ (y = Off \/ (y >= 0 /\ y + 0 >= RecvTimeoutSec))
  BY <1>3, SetArmed, Constants, Zenon
<1>6. e.timer \in [0 .. 1 -> Int] /\ e.timer[0] = x /\ e.timer[1] = y
  <2>1. PICK g : g = e.timer
    BY Zenon
  <2>2. g = [[NoTimer EXCEPT ![0] = x] EXCEPT ![1] = y]
    BY <1>4, <2>1, Zenon DEF Trying
  <2>3. g \in [0 .. 1 -> Int] /\ g[0] = x /\ g[1] = y
    BY <1>5, <2>2 DEF NoTimer, Off
  <2>4. QED
    BY <2>1, <2>3, Zenon
<1>7. Armed(e)
  <2>1. e.timer[0] = Off \/ (e.timer[0] >= 0 /\ e.timer[0] + e.idle >= SendTimeoutSec)
    BY <1>4, <1>5, <1>6, Zenon
  <2>2. e.timer[1] = Off \/ (e.timer[1] >= 0 /\ e.timer[1] + e.quiet >= RecvTimeoutSec)
    BY <1>4, <1>5, <1>6, Zenon
  <2>3. QED
    BY <1>4, <1>6, <2>1, <2>2, Constants, Zenon DEF Armed
<1>8. c.sessions + 1 = 1
  BY DEF Trying
<1>9. Live(e)
  BY <1>4, <1>7, <1>8, Zenon DEF Live, Trying, Basic
<1>10. QED
  BY <1>2, <1>9, CallbackLive, Zenon DEF Dropped

\* reset and sendSyn begin an attempt.
LEMMA ResetTrying ==
  ASSUME NEW c, Over(c), ~c.dropped
  PROVE  Trying(Reset(c))
<1>1. PICK d : d = Reset(c)
  BY Zenon
<1>2. /\ DOMAIN d = Fields /\ ~d.established /\ ~d.fin_sent /\ ~d.fin_received /\ ~d.tw
      /\ d.timer = c.timer /\ d.sessions = c.sessions /\ d.dropped = c.dropped /\ d.early = c.early
  BY <1>1, Zenon DEF Reset, Over, Basic, Fields
<1>3. QED
  BY <1>1, <1>2, Zenon DEF Over, Trying, Basic

\* Between two events.
LEMMA EndedSound ==
  ASSUME NEW c, Over(c) \/ Trying(c) \/ Live(c)
  PROVE  LET d == Ended(c)
         IN  /\ Sound(d) /\ (Over(c) => Over(d)) /\ (Trying(c) => Trying(d)) /\ (Live(c) => Live(d))
<1>1. PICK d : d = Ended(c)
  BY Zenon
<1>2. DOMAIN c = Fields
  BY Zenon DEF Over, Trying, Live, Basic
<1>3. /\ DOMAIN d = Fields /\ ~d.dropped
      /\ d.established = c.established /\ d.fin_sent = c.fin_sent /\ d.fin_received = c.fin_received
      /\ d.tw = c.tw /\ d.sessions = c.sessions /\ d.early = c.early
      /\ d.timer = c.timer /\ d.idle = c.idle /\ d.quiet = c.quiet
  BY <1>1, <1>2, Zenon DEF Ended, Fields
<1>4. (Over(c) => Over(d)) /\ (Trying(c) => Trying(d)) /\ (Live(c) => Live(d))
  BY <1>3, Zenon DEF Over, Trying, Live, Basic, Armed
<1>5. QED
  BY <1>1, <1>3, <1>4, Zenon DEF Sound

-----------------------------------------------------------------------------
(* The steps, but for an attempt, move each connection on. *)

Evolves(c, d) ==
  Over(d) \/ (Trying(c) /\ Trying(d)) \/ ((Trying(c) \/ Live(c)) /\ Live(d))

\* A connection may stay as it is.
LEMMA SoundEvolves ==
  ASSUME NEW c, Sound(c)
  PROVE  Evolves(c, c)
  BY Zenon DEF Sound, Evolves

\* The end of an event changes nothing that counts.
LEMMA EndedEvolves ==
  ASSUME NEW c, NEW d, Evolves(c, d)
  PROVE  Evolves(c, Ended(d)) /\ Sound(Ended(d)) /\ (Over(d) => Over(Ended(d)))
  BY EndedSound, Zenon DEF Evolves

AllEvolve == \A r \in Slots : Evolves(conn[r], conn'[r])

\* A step of one connection.
LEMMA StepInv ==
  ASSUME Inv, NEW s \in InUse, NEW d, Evolves(conn[s], d),
         conn' = [conn EXCEPT ![s] = Ended(d)], Same, UNCHANGED next_conn_ts
  PROVE  Inv' /\ AllEvolve
<1>1. s \in Slots /\ (role = "client" => s = 0)
  BY Constants, Zenon DEF InUse
<1>2. DOMAIN conn' = Slots /\ \A r \in Slots : conn'[r] = IF r = s THEN Ended(d) ELSE conn[r]
  BY <1>1, Zenon DEF Inv
<1>3. Evolves(conn[s], Ended(d)) /\ Sound(Ended(d))
  BY EndedEvolves, Zenon
<1>4. \A r \in Slots : Sound(conn'[r]) /\ Evolves(conn[r], conn'[r])
  BY <1>2, <1>3, SoundEvolves, Zenon DEF Inv
<1>5. role' = "client" => \A r \in Slots : r # 0 => Over(conn'[r])
  BY <1>1, <1>2, Zenon DEF Inv, Same
<1>6. QED
  BY <1>2, <1>4, <1>5, Zenon DEF Inv, Same, AllEvolve

\* A step of the loop that leaves the connections alone.
LEMMA RestInv ==
  ASSUME Inv, UNCHANGED conn, Same, next_conn_ts' = next_conn_ts
  PROVE  Inv' /\ AllEvolve
  BY SoundEvolves, Zenon DEF Inv, Same, AllEvolve

\* The connections that poll serves.
LEMMA InUseSlots ==
  ASSUME Inv, NEW s \in InUse
  PROVE  s \in Slots /\ Sound(conn[s])
  BY Constants, Zenon DEF InUse, Inv

\* isClosed and established tell the states apart.
LEMMA Classes ==
  ASSUME NEW c, Sound(c)
  PROVE  /\ IsClosed(c) <=> Over(c)
         /\ c.established <=> Live(c)
         /\ ~IsClosed(c) /\ ~c.established <=> Trying(c)
  BY Zenon DEF Sound, Over, Trying, Live, IsClosed

\* What onTimer makes of the connection before it calls the handler.
Expired(c, t, e) ==
  e = [c EXCEPT !.timer[t] = Off, !.noticed = @ \/ t = 1,
                !.early = @ \/ ~c.established
                            \/ (t = 0 /\ c.idle < SendTimeoutSec)
                            \/ (t = 1 /\ c.quiet < RecvTimeoutSec)]

\* onTimer up to the callback, field by field.
LEMMA TimeoutFields ==
  ASSUME NEW c, DOMAIN c = Fields, NEW t, NEW e, Expired(c, t, e)
  PROVE  /\ DOMAIN e = Fields
         /\ e.established = c.established /\ e.fin_sent = c.fin_sent
         /\ e.fin_received = c.fin_received /\ e.tw = c.tw /\ e.sessions = c.sessions
         /\ e.dropped = c.dropped /\ e.idle = c.idle /\ e.quiet = c.quiet
         /\ e.timer = [c.timer EXCEPT ![t] = Off]
         /\ e.early <=> (c.early \/ ~c.established \/ (t = 0 /\ c.idle < SendTimeoutSec)
                                                  \/ (t = 1 /\ c.quiet < RecvTimeoutSec))
  BY Zenon DEF Fields, Expired

\* A user timer that has run down: it is set only while the connection is established,
\* and its time is over.
LEMMA UserTimeoutInv ==
  ASSUME Inv, NEW s \in InUse, NEW t \in 0 .. 1, UserTimeout(s, t)
  PROVE  Inv' /\ AllEvolve
<1>1. PICK c : c = conn[s]
  BY Zenon
<1>2. PICK e : Expired(c, t, e)
  BY Zenon DEF Expired
<1>3. c.timer[t] = 0 /\ Same /\ UNCHANGED next_conn_ts
  BY <1>1, Zenon DEF UserTimeout
<1>4. PICK d \in Callback(e) : conn' = [conn EXCEPT ![s] = Ended(d)]
  BY <1>1, <1>2, Zenon DEF UserTimeout, Becomes, Expired
<1>5. Live(c)
  <2>1. c.timer # NoTimer
    BY <1>3, Constants, Zenon DEF NoTimer
  <2>2. QED
    BY <1>1, <2>1, InUseSlots, Zenon DEF Sound, Over, Trying
<1>6. /\ DOMAIN e = Fields
      /\ e.established = c.established /\ e.fin_sent = c.fin_sent
      /\ e.fin_received = c.fin_received /\ e.tw = c.tw /\ e.sessions = c.sessions
      /\ e.dropped = c.dropped /\ e.idle = c.idle /\ e.quiet = c.quiet
      /\ e.timer = [c.timer EXCEPT ![t] = Off]
      /\ e.early <=> (c.early \/ ~c.established \/ (t = 0 /\ c.idle < SendTimeoutSec)
                                               \/ (t = 1 /\ c.quiet < RecvTimeoutSec))
  BY <1>2, <1>5, TimeoutFields, Zenon DEF Live, Basic
<1>7. /\ c.timer \in [0 .. 1 -> Int] /\ c.idle \in Nat /\ c.quiet \in Nat
      /\ c.timer[0] = Off \/ (c.timer[0] >= 0 /\ c.timer[0] + c.idle >= SendTimeoutSec)
      /\ c.timer[1] = Off \/ (c.timer[1] >= 0 /\ c.timer[1] + c.quiet >= RecvTimeoutSec)
  BY <1>5, Zenon DEF Live, Armed
<1>8. ~(t = 0 /\ c.idle < SendTimeoutSec) /\ ~(t = 1 /\ c.quiet < RecvTimeoutSec)
  <2>1. PICK f, i, q : f = c.timer /\ i = c.idle /\ q = c.quiet
    BY Zenon
  <2>2. /\ f[t] = 0 /\ i \in Nat /\ q \in Nat
        /\ f[0] = Off \/ (f[0] >= 0 /\ f[0] + i >= SendTimeoutSec)
        /\ f[1] = Off \/ (f[1] >= 0 /\ f[1] + q >= RecvTimeoutSec)
    BY <1>3, <1>7, <2>1, Zenon
  <2>3. ~(t = 0 /\ i < SendTimeoutSec) /\ ~(t = 1 /\ q < RecvTimeoutSec)
    BY <2>2, Constants DEF Off
  <2>4. QED
    BY <2>1, <2>3, Zenon
<1>9. ~e.early
  BY <1>5, <1>6, <1>8, Zenon DEF Live, Basic
<1>10. Armed(e)
  <2>1. PICK f, g : f = c.timer /\ g = e.timer
    BY Zenon
  <2>2. g = [f EXCEPT ![t] = Off] /\ f \in [0 .. 1 -> Int]
    BY <1>6, <1>7, <2>1, Zenon
  <2>3. g \in [0 .. 1 -> Int] /\ \A u \in 0 .. 1 : g[u] = Off \/ g[u] = f[u]
    BY <2>2 DEF Off
  <2>4. e.timer \in [0 .. 1 -> Int] /\ \A u \in 0 .. 1 : e.timer[u] = Off \/ e.timer[u] = c.timer[u]
    BY <2>1, <2>3, Zenon
  <2>5. e.timer[0] = Off \/ e.timer[0] = c.timer[0]
    BY <2>4, Constants, Zenon
  <2>6. e.timer[1] = Off \/ e.timer[1] = c.timer[1]
    BY <2>4, Constants, Zenon
  <2>7. QED
    BY <1>6, <1>7, <2>4, <2>5, <2>6, Zenon DEF Armed
<1>11. Live(e)
  BY <1>5, <1>6, <1>9, <1>10, Zenon DEF Live, Basic
<1>12. Evolves(conn[s], d)
  BY <1>1, <1>4, <1>5, <1>11, CallbackLive, Zenon DEF Evolves, Dropped
<1>13. QED
  BY <1>3, <1>4, <1>12, StepInv, Zenon

\* The last retransmission.
LEMMA RetriesExceededInv ==
  ASSUME Inv, NEW s \in InUse, RetriesExceeded(s)
  PROVE  Inv' /\ AllEvolve
<1>1. PICK d \in OnConnectionTimeout(conn[s]) : conn' = [conn EXCEPT ![s] = Ended(d)]
  BY Zenon DEF RetriesExceeded, Becomes
<1>2. Live(conn[s]) \/ Trying(conn[s])
  BY InUseSlots, Classes, Zenon DEF RetriesExceeded, Sound
<1>3. Evolves(conn[s], d)
  BY <1>1, <1>2, OnConnectionTimeoutOver, Zenon DEF Evolves
<1>4. QED
  BY <1>1, <1>3, StepInv, Zenon DEF RetriesExceeded

\* The end of the handshake.
LEMMA HandshakeInv ==
  ASSUME Inv, NEW s \in InUse, Handshake(s)
  PROVE  Inv' /\ AllEvolve
<1>1. PICK d \in {OnClose(conn[s], FALSE)} \cup OnConnectionEstablished(conn[s]) :
        conn' = [conn EXCEPT ![s] = Ended(d)]
  BY Zenon DEF Handshake, Becomes
<1>2. Trying(conn[s])
  BY InUseSlots, Classes, Zenon DEF Handshake
<1>3. Evolves(conn[s], d)
  BY <1>1, <1>2, OnCloseOver, OnConnectionEstablishedLive, Zenon DEF Evolves
<1>4. QED
  BY <1>1, <1>3, StepInv, Zenon DEF Handshake

\* A frame for an established connection.
LEMMA FrameInv ==
  ASSUME Inv, NEW s \in InUse, Frame(s)
  PROVE  Inv' /\ AllEvolve
<1>1. PICK f : Becomes(s, OnPack(conn[s], f))
  BY Zenon DEF Frame
<1>2. PICK d \in OnPack(conn[s], f) : conn' = [conn EXCEPT ![s] = Ended(d)]
  BY <1>1, Zenon DEF Becomes
<1>3. Live(conn[s])
  BY InUseSlots, Classes, Zenon DEF Frame
<1>4. Evolves(conn[s], d)
  BY <1>2, <1>3, OnPackLive, Zenon DEF Evolves
<1>5. QED
  BY <1>2, <1>4, StepInv, Zenon DEF Frame

\* The user, between two events.
LEMMA UseInv ==
  ASSUME Inv, NEW s \in InUse, Use(s)
  PROVE  Inv' /\ AllEvolve
<1>1. PICK d \in Callback(conn[s]) : conn' = [conn EXCEPT ![s] = Ended(d)]
  BY Zenon DEF Use, Becomes
<1>2. Sound(conn[s])
  BY InUseSlots, Zenon
<1>3. Evolves(conn[s], d)
  BY <1>1, <1>2, CallbackLive, CallbackTrying, CallbackOver, Zenon DEF Evolves, Sound, Dropped
<1>4. QED
  BY <1>1, <1>3, StepInv, Zenon DEF Use

\* close of the server.
LEMMA ServerCloseInv ==
  ASSUME Inv, ServerClose
  PROVE  Inv' /\ AllEvolve
<1>1. role = "server"
  BY Zenon DEF Inv, ServerClose
<1>2. DOMAIN conn' = Slots /\ \A r \in Slots : conn'[r] = Ended(UserClose(conn[r]))
  BY Zenon DEF ServerClose
<1>3. ASSUME NEW r \in Slots
      PROVE  Over(UserClose(conn[r]))
  <2>1. Sound(conn[r])
    BY Zenon DEF Inv
  <2>2. CASE Live(conn[r])
    BY <2>2, UserCloseLive, Zenon DEF Dropped
  <2>3. CASE Over(conn[r]) \/ Trying(conn[r])
    BY <2>3, UserCloseOver, Zenon
  <2>4. QED
    BY <2>1, <2>2, <2>3, Zenon DEF Sound
<1>4. \A r \in Slots : Sound(conn'[r]) /\ Over(conn'[r])
  BY <1>2, <1>3, EndedSound, Zenon
<1>5. QED
  BY <1>1, <1>2, <1>4, Zenon DEF Inv, ServerClose, AllEvolve, Evolves

\* The clock: as a timer runs down, the time without an event grows.
LEMMA MinTwo ==
  ASSUME NEW a \in Nat, NEW b \in Nat
  PROVE  Min({a, b}) = IF a <= b THEN a ELSE b
  BY DEF Min

Ticked(c, d) ==
  d = [c EXCEPT !.timer = [t \in 0 .. 1 |-> IF @[t] > 0 THEN @[t] - 1 ELSE @[t]],
         !.quiet = IF c.established THEN Min({@ + 1, RecvTimeoutSec}) ELSE @,
         !.idle = IF c.established THEN Min({@ + 1, SendTimeoutSec}) ELSE @]

\* A second, field by field.
LEMMA TickFields ==
  ASSUME NEW c, DOMAIN c = Fields, NEW d, Ticked(c, d)
  PROVE  /\ SameFlags(c, d)
         /\ d.timer = [t \in 0 .. 1 |-> IF c.timer[t] > 0 THEN c.timer[t] - 1 ELSE c.timer[t]]
         /\ c.established => /\ d.quiet = Min({c.quiet + 1, RecvTimeoutSec})
                             /\ d.idle = Min({c.idle + 1, SendTimeoutSec})
  BY Zenon DEF Ticked, SameFlags, Fields

\* A second on one timer.
LEMMA Countdown ==
  ASSUME NEW left \in Int, NEW since \in Nat, NEW sec \in Nat,
         left = Off \/ (left >= 0 /\ left + since >= sec),
         NEW l, l = IF left > 0 THEN left - 1 ELSE left,
         NEW m, m = Min({since + 1, sec})
  PROVE  l \in Int /\ m \in Nat /\ (l = Off \/ (l >= 0 /\ l + m >= sec))
<1>1. since + 1 \in Nat
  OBVIOUS
<1>2. m = IF since + 1 <= sec THEN since + 1 ELSE sec
  BY <1>1, MinTwo, Zenon
<1>3. QED
  BY <1>2 DEF Off

\* A second on one connection.
LEMMA TickConn ==
  ASSUME NEW c, Sound(c), NEW d, Ticked(c, d)
  PROVE  Sound(d) /\ Evolves(c, d) /\ (Over(c) => Over(d))
<1>1. DOMAIN c = Fields
  BY Zenon DEF Sound, Over, Trying, Live, Basic
<1>2. /\ SameFlags(c, d)
      /\ d.timer = [t \in 0 .. 1 |-> IF c.timer[t] > 0 THEN c.timer[t] - 1 ELSE c.timer[t]]
      /\ c.established => /\ d.quiet = Min({c.quiet + 1, RecvTimeoutSec})
                          /\ d.idle = Min({c.idle + 1, SendTimeoutSec})
  BY <1>1, TickFields, Zenon
<1>3. CASE Over(c) \/ Trying(c)
  <2>1. PICK g : g = d.timer
    BY Zenon
  <2>2. g = [t \in 0 .. 1 |-> IF NoTimer[t] > 0 THEN NoTimer[t] - 1 ELSE NoTimer[t]]
    BY <1>2, <1>3, <2>1, Zenon DEF Over, Trying
  <2>3. g = NoTimer
    BY <2>2 DEF NoTimer, Off
  <2>4. d.timer = NoTimer
    BY <2>1, <2>3, Zenon
  <2>5. (Over(c) => Over(d)) /\ (Trying(c) => Trying(d)) /\ ~d.dropped
    BY <1>2, <2>4, Zenon DEF Over, Trying, Basic, SameFlags, Sound
  <2>6. QED
    BY <1>3, <2>5, Zenon DEF Sound, Evolves
<1>4. CASE Live(c)
  <2>1. /\ c.timer \in [0 .. 1 -> Int] /\ c.idle \in Nat /\ c.quiet \in Nat
        /\ c.timer[0] = Off \/ (c.timer[0] >= 0 /\ c.timer[0] + c.idle >= SendTimeoutSec)
        /\ c.timer[1] = Off \/ (c.timer[1] >= 0 /\ c.timer[1] + c.quiet >= RecvTimeoutSec)
    BY <1>4, Zenon DEF Live, Armed
  <2>2. /\ c.timer[0] \in Int /\ c.idle \in Nat
        /\ c.timer[0] = Off \/ (c.timer[0] >= 0 /\ c.timer[0] + c.idle >= SendTimeoutSec)
    BY <2>1, Constants, Zenon
  <2>3. /\ c.timer[1] \in Int /\ c.quiet \in Nat
        /\ c.timer[1] = Off \/ (c.timer[1] >= 0 /\ c.timer[1] + c.quiet >= RecvTimeoutSec)
    BY <2>1, Constants, Zenon
  <2>4. SendTimeoutSec \in Nat /\ RecvTimeoutSec \in Nat
    BY Constants, Zenon
  <2>5. /\ d.idle \in Nat
        /\ d.timer[0] = Off \/ (d.timer[0] >= 0 /\ d.timer[0] + d.idle >= SendTimeoutSec)
    <3>1. /\ d.timer[0] = IF c.timer[0] > 0 THEN c.timer[0] - 1 ELSE c.timer[0]
          /\ d.idle = Min({c.idle + 1, SendTimeoutSec})
      BY <1>2, <1>4, Constants, Zenon DEF Live
    <3>2. QED
      BY <2>2, <2>4, <3>1, Countdown, Zenon
  <2>6. /\ d.quiet \in Nat
        /\ d.timer[1] = Off \/ (d.timer[1] >= 0 /\ d.timer[1] + d.quiet >= RecvTimeoutSec)
    <3>1. /\ d.timer[1] = IF c.timer[1] > 0 THEN c.timer[1] - 1 ELSE c.timer[1]
          /\ d.quiet = Min({c.quiet + 1, RecvTimeoutSec})
      BY <1>2, <1>4, Constants, Zenon DEF Live
    <3>2. QED
      BY <2>3, <2>4, <3>1, Countdown, Zenon
  <2>7. d.timer \in [0 .. 1 -> Int]
    <3>1. PICK f, g : f = c.timer /\ g = d.timer
      BY Zenon
    <3>2. f \in [0 .. 1 -> Int] /\ g = [t \in 0 .. 1 |-> IF f[t] > 0 THEN f[t] - 1 ELSE f[t]]
      BY <1>2, <2>1, <3>1, Zenon
    <3>3. g \in [0 .. 1 -> Int]
      BY <3>2
    <3>4. QED
      BY <3>1, <3>3, Zenon
  <2>8. Live(d) /\ ~d.dropped
    BY <1>2, <1>4, <2>5, <2>6, <2>7, Zenon DEF Live, Basic, SameFlags, Armed
  <2>9. QED
    BY <1>4, <2>8, Zenon DEF Sound, Evolves, Live, Over
<1>5. QED
  BY <1>3, <1>4, Zenon DEF Sound

\* A second: what was never to come does not come nearer.
LEMMA TickInv ==
  ASSUME Inv, Tick
  PROVE  Inv' /\ AllEvolve /\ (next_conn_ts' = Never <=> next_conn_ts = Never)
<1>1. DOMAIN conn' = Slots /\ \A r \in Slots : Ticked(conn[r], conn'[r])
  BY Zenon DEF Tick, Ticked
<1>2. \A r \in Slots : /\ Sound(conn'[r]) /\ Evolves(conn[r], conn'[r])
                       /\ Over(conn[r]) => Over(conn'[r])
  BY <1>1, TickConn, Zenon DEF Inv
<1>3. PICK n, m : n = next_conn_ts /\ m = next_conn_ts'
  BY Zenon
<1>4. n \in Int /\ n >= Never /\ m = IF n \in {0, Never} THEN n ELSE n - 1
  BY <1>3, Zenon DEF Inv, Tick
<1>5. m \in Int /\ m >= Never /\ (m = Never <=> n = Never) /\ (n = 0 => m = 0)
  BY <1>4 DEF Never
<1>6. Same
  BY Zenon DEF Tick
<1>7. next_conn_ts' \in Int /\ next_conn_ts' >= Never
  BY <1>3, <1>5, Zenon
<1>8. next_conn_ts' = Never <=> next_conn_ts = Never
  BY <1>3, <1>5, Zenon
<1>9. role' = "server" => retry_sec' = 1 /\ next_conn_ts' = 0
  BY <1>3, <1>5, <1>6, Zenon DEF Inv, Same
<1>10. role' = "client" => ~listening' /\ \A r \in Slots : r # 0 => Over(conn'[r])
  <2>1. role' = role /\ listening' = listening
    BY <1>6, Zenon DEF Same
  <2>2. role = "client" => ~listening /\ \A r \in Slots : r # 0 => Over(conn[r])
    BY Zenon DEF Inv
  <2>3. \A r \in Slots : Over(conn[r]) => Over(conn'[r])
    BY <1>2, Zenon
  <2>4. QED
    BY <2>1, <2>2, <2>3, Zenon
<1>11. role' \in {"client", "server"} /\ retry_sec' \in Nat
  BY <1>6, Zenon DEF Inv, Same
<1>12. /\ DOMAIN conn' = Slots /\ \A r \in Slots : Sound(conn'[r])
       /\ AllEvolve
  BY <1>1, <1>2, Zenon DEF AllEvolve
<1>13. QED
  BY <1>7, <1>8, <1>9, <1>10, <1>11, <1>12, Zenon DEF Inv

-----------------------------------------------------------------------------
(* An attempt. *)

\* connect of the client, and a SYN for the server.
LEMMA AttemptConn ==
  ASSUME Inv, NEW s \in InUse, IsClosed(conn[s]), NEW d \in {conn[s], Reset(conn[s])},
         conn' = [conn EXCEPT ![s] = Ended(d)], Same
  PROVE  /\ DOMAIN conn' = Slots /\ \A r \in Slots : Sound(conn'[r])
         /\ role' = "client" => \A r \in Slots : r # 0 => Over(conn'[r])
         /\ \A r \in Slots : \/ r = s /\ Over(conn[r]) /\ (Over(conn'[r]) \/ Trying(conn'[r]))
                             \/ r # s /\ conn'[r] = conn[r]
<1>1. s \in Slots /\ (role = "client" => s = 0) /\ Sound(conn[s])
  BY InUseSlots, Zenon DEF InUse
<1>2. Over(conn[s]) /\ ~conn[s].dropped
  BY <1>1, Classes, Zenon DEF Sound
<1>3. Over(d) \/ Trying(d)
  BY <1>2, ResetTrying, Zenon
<1>4. Sound(Ended(d)) /\ (Over(Ended(d)) \/ Trying(Ended(d)))
  BY <1>3, EndedSound, Zenon
<1>5. DOMAIN conn' = Slots /\ \A r \in Slots : conn'[r] = IF r = s THEN Ended(d) ELSE conn[r]
  BY <1>1, Zenon DEF Inv
<1>6. \A r \in Slots : Sound(conn'[r])
  BY <1>4, <1>5, Zenon DEF Inv
<1>7. role' = "client" => \A r \in Slots : r # 0 => Over(conn'[r])
  BY <1>1, <1>5, Zenon DEF Inv, Same
<1>8. QED
  BY <1>2, <1>4, <1>5, <1>6, <1>7, Zenon

\* The next attempt is set before connect is called.
LEMMA NextConnTsType ==
  ASSUME retry_sec \in Nat
  PROVE  NextConnTs \in Int /\ NextConnTs >= Never /\ (NextConnTs # Never <=> retry_sec # 0)
  BY DEF NextConnTs, Never

\* poll, in which the client may connect.
LEMMA PollStartInv ==
  ASSUME Inv, PollStart
  PROVE  Inv'
<1>1. CASE role = "client" /\ IsClosed(conn[0]) /\ next_conn_ts = 0
  <2>1. next_conn_ts' = NextConnTs /\ Becomes(0, {conn[0], Reset(conn[0])}) /\ Same
    BY <1>1, Zenon DEF PollStart
  <2>2. PICK d \in {conn[0], Reset(conn[0])} : conn' = [conn EXCEPT ![0] = Ended(d)]
    BY <2>1, Zenon DEF Becomes
  <2>3. 0 \in InUse
    BY <1>1, Zenon DEF InUse
  <2>4. next_conn_ts' \in Int /\ next_conn_ts' >= Never
    BY <2>1, NextConnTsType, Zenon DEF Inv
  <2>5. /\ DOMAIN conn' = Slots /\ \A r \in Slots : Sound(conn'[r])
        /\ role' = "client" => \A r \in Slots : r # 0 => Over(conn'[r])
    BY <1>1, <2>1, <2>2, <2>3, AttemptConn, Zenon
  <2>6. role' = "client" /\ role' # "server"
    BY <1>1, <2>1, Zenon DEF Same
  <2>7. QED
    BY <2>1, <2>4, <2>5, <2>6, Zenon DEF Inv, Same
<1>2. CASE ~(role = "client" /\ IsClosed(conn[0]) /\ next_conn_ts = 0)
  BY <1>2, RestInv, Zenon DEF PollStart
<1>3. QED
  BY <1>1, <1>2

\* A SYN for the server.
LEMMA AcceptInv ==
  ASSUME Inv, NEW s \in InUse, Accept(s)
  PROVE  Inv'
<1>1. PICK d \in {conn[s], Reset(conn[s])} : conn' = [conn EXCEPT ![s] = Ended(d)]
  BY Zenon DEF Accept, Becomes
<1>2. /\ DOMAIN conn' = Slots /\ \A r \in Slots : Sound(conn'[r])
      /\ role' = "client" => \A r \in Slots : r # 0 => Over(conn'[r])
  BY <1>1, AttemptConn, Zenon DEF Accept
<1>3. QED
  BY <1>2, Zenon DEF Inv, Accept, Same

\* allowReconnect.
LEMMA AllowReconnectInv ==
  ASSUME Inv, AllowReconnect
  PROVE  Inv'
<1>1. 0 \in Int /\ 0 >= Never
  BY DEF Never
<1>2. QED
  BY <1>1, Zenon DEF Inv, AllowReconnect, Same

\* At the start all connections are closed.
LEMMA InitInv == Init => Inv
<1> SUFFICES ASSUME Init PROVE Inv
  OBVIOUS
<1>1. Over(NewConn) /\ ~NewConn.dropped
  <2>1. PICK c : c = NewConn
    BY Zenon
  <2>2. /\ DOMAIN c = Fields /\ ~c.tw /\ ~c.early /\ ~c.established /\ c.fin_received
        /\ c.timer = NoTimer /\ c.sessions = 0 /\ ~c.dropped
    BY <2>1, Zenon DEF NewConn, Fields, NoTimer
  <2>3. QED
    BY <2>1, <2>2, Zenon DEF Over, Basic
<1>2. DOMAIN conn = Slots /\ \A s \in Slots : conn[s] = NewConn
  BY Zenon DEF Init
<1>3. 0 \in Int /\ 0 >= Never /\ 1 \in Nat
  BY DEF Never
<1>4. role \in {"client", "server"} /\ retry_sec \in Nat
  BY <1>3, EfviTcpUserAssumption, Zenon DEF Init
<1>5. role = "server" => retry_sec = 1
  BY Zenon DEF Init
<1>6. role = "client" => ~listening
  BY Zenon DEF Init
<1>7. QED
  BY <1>1, <1>2, <1>3, <1>4, <1>5, <1>6, Zenon DEF Inv, Init, Sound

\* The steps that are no attempt and no allowReconnect.
Ordinary ==
  \/ TimeEnd \/ PollEnd \/ ServerClose \/ Tick
  \/ \E s \in InUse : \/ \E t \in 0 .. 1 : UserTimeout(s, t)
                      \/ RetriesExceeded(s) \/ Handshake(s) \/ Frame(s) \/ Use(s)

\* None of them starts an attempt or allows one.
LEMMA OrdinaryInv ==
  ASSUME Inv, Ordinary
  PROVE  /\ Inv' /\ AllEvolve /\ retry_sec' = retry_sec
         /\ next_conn_ts' = Never <=> next_conn_ts = Never
<1>1. CASE TimeEnd
  BY <1>1, RestInv, Zenon DEF TimeEnd, Same
<1>2. CASE PollEnd
  BY <1>2, RestInv, Zenon DEF PollEnd, Same
<1>3. CASE ServerClose
  BY <1>3, ServerCloseInv, Zenon DEF ServerClose
<1>4. CASE Tick
  BY <1>4, TickInv, Zenon DEF Tick, Same
<1>5. ASSUME NEW s \in InUse, NEW t \in 0 .. 1, UserTimeout(s, t)
      PROVE  /\ Inv' /\ AllEvolve /\ retry_sec' = retry_sec
             /\ next_conn_ts' = Never <=> next_conn_ts = Never
  BY <1>5, UserTimeoutInv, Zenon DEF UserTimeout, Same
<1>6. ASSUME NEW s \in InUse, RetriesExceeded(s)
      PROVE  /\ Inv' /\ AllEvolve /\ retry_sec' = retry_sec
             /\ next_conn_ts' = Never <=> next_conn_ts = Never
  BY <1>6, RetriesExceededInv, Zenon DEF RetriesExceeded, Same
<1>7. ASSUME NEW s \in InUse, Handshake(s)
      PROVE  /\ Inv' /\ AllEvolve /\ retry_sec' = retry_sec
             /\ next_conn_ts' = Never <=> next_conn_ts = Never
  BY <1>7, HandshakeInv, Zenon DEF Handshake, Same
<1>8. ASSUME NEW s \in InUse, Frame(s)
      PROVE  /\ Inv' /\ AllEvolve /\ retry_sec' = retry_sec
             /\ next_conn_ts' = Never <=> next_conn_ts = Never
  BY <1>8, FrameInv, Zenon DEF Frame, Same
<1>9. ASSUME NEW s \in InUse, Use(s)
      PROVE  /\ Inv' /\ AllEvolve /\ retry_sec' = retry_sec
             /\ next_conn_ts' = Never <=> next_conn_ts = Never
  BY <1>9, UseInv, Zenon DEF Use, Same
<1>10. QED
  BY <1>1, <1>2, <1>3, <1>4, <1>5, <1>6, <1>7, <1>8, <1>9, Zenon DEF Ordinary

\* All the others.
LEMMA NextCases ==
  ASSUME Next
  PROVE  Ordinary \/ PollStart \/ AllowReconnect \/ \E s \in InUse : Accept(s)
  BY Zenon DEF Next, Ordinary

\* The invariant is inductive.
LEMMA NextInv ==
  ASSUME Inv, [Next]_vars
  PROVE  Inv'
<1>1. CASE Next
  BY <1>1, NextCases, OrdinaryInv, PollStartInv, AllowReconnectInv, AcceptInv, Zenon
<1>2. CASE UNCHANGED vars
  BY <1>2, Zenon DEF vars, Inv
<1>3. QED
  BY <1>1, <1>2

\* Every connection of EfviTcpClient and EfviTcpServer is closed, being established or
\* established at the end of each event, as the user believes.
THEOREM UserInv == Spec => []Inv
  BY InitInv, NextInv, PTL DEF Spec

\* However a connection of EfviTcpClient or EfviTcpServer ends, it leaves no session,
\* no user timer and no TIME_WAIT behind.
THEOREM UserEndsClean == Spec => []EndsClean
<1>1. Inv => EndsClean
  BY Classes, Zenon DEF Inv, EndsClean, Over, Basic, NewConn, NoTimer
<1>2. QED
  BY <1>1, UserInv, PTL

\* onSendTimeout and onRecvTimeout are never early, and never on a connection that is
\* not established.
THEOREM UserTimeoutsTrue == Spec => []TimeoutsTrue
<1>1. Inv => TimeoutsTrue
  BY Zenon DEF Inv, TimeoutsTrue, Sound, Over, Trying, Live, Basic
<1>2. QED
  BY <1>1, UserInv, PTL

-----------------------------------------------------------------------------
(* The callbacks of each connection are those of TcpUserApi. *)

Phase(c) == IF IsClosed(c) THEN "idle" ELSE IF c.established THEN "open" ELSE "trying"

\* The phase of TcpUserApi in each state.
LEMMA PhaseOf ==
  ASSUME NEW c
  PROVE  /\ Over(c) => Phase(c) = "idle" /\ c.sessions = 0
         /\ Trying(c) => Phase(c) = "trying" /\ c.sessions = 0
         /\ Live(c) => Phase(c) = "open" /\ c.sessions = 1
  BY Zenon DEF Over, Trying, Live, Phase, IsClosed

\* A step that is no attempt is a stutter, Fail, Connected or Disconnect.
LEMMA EvolvesStep ==
  ASSUME NEW s \in Slots, Sound(conn[s]), Evolves(conn[s], conn'[s]),
         retry_sec' = retry_sec, next_conn_ts' = Never <=> next_conn_ts = Never
  PROVE  [Api(s)!Next]_(Api(s)!apiVars)
<1>1. (retry_sec # 0)' = (retry_sec # 0) /\ (next_conn_ts # Never)' = (next_conn_ts # Never)
  OBVIOUS
<1>2. CASE Phase(conn'[s]) = Phase(conn[s]) /\ conn'[s].sessions = conn[s].sessions
  BY <1>1, <1>2, Zenon DEF Api!apiVars, Phase
<1>3. CASE /\ Phase(conn[s]) = "trying" /\ Phase(conn'[s]) = "idle"
           /\ conn'[s].sessions = conn[s].sessions
  BY <1>1, <1>3, Zenon DEF Api!Next, Api!Fail, Phase
<1>4. CASE /\ Phase(conn[s]) = "trying" /\ Phase(conn'[s]) = "open"
           /\ conn'[s].sessions = conn[s].sessions + 1
  BY <1>1, <1>4, Zenon DEF Api!Next, Api!Connected, Phase
<1>5. CASE /\ Phase(conn[s]) = "open" /\ Phase(conn'[s]) = "idle"
           /\ conn'[s].sessions = conn[s].sessions - 1
  BY <1>1, <1>5, Zenon DEF Api!Next, Api!Disconnect, Phase
<1>6. 0 + 1 = 1 /\ 1 - 1 = 0
  OBVIOUS
<1>7. /\ Over(conn[s]) \/ Trying(conn[s]) \/ Live(conn[s])
      /\ Over(conn[s]) => Over(conn'[s])
      /\ Over(conn'[s]) \/ Trying(conn'[s]) \/ Live(conn'[s])
      /\ Trying(conn'[s]) => Trying(conn[s])
  BY Zenon DEF Sound, Evolves, Over, Trying, Live
<1>8. QED
  BY <1>2, <1>3, <1>4, <1>5, <1>6, <1>7, PhaseOf, Zenon

\* An attempt, at its connection; another is a stutter or, where the client's next
\* attempt is no longer allowed, an attempt that fails at once.
LEMMA AttemptStep ==
  ASSUME NEW s \in Slots, Over(conn[s]), Over(conn'[s]) \/ Trying(conn'[s]),
         retry_sec' = retry_sec, next_conn_ts # Never,
         next_conn_ts' # Never <=> retry_sec # 0
  PROVE  Api(s)!Next
<1>1. /\ (retry_sec # 0)' = (retry_sec # 0) /\ next_conn_ts # Never
      /\ (next_conn_ts # Never)' = (retry_sec # 0)
  OBVIOUS
<1>2. /\ Phase(conn[s]) = "idle" /\ Phase(conn'[s]) \in {"trying", "idle"}
      /\ conn'[s].sessions = conn[s].sessions
  BY PhaseOf, Zenon
<1>3. QED
  BY <1>1, <1>2, Zenon DEF Api!Next, Api!Attempt, Phase

\* Every step of the module is a step of the abstract interface of each connection.
LEMMA NextStep ==
  ASSUME Inv, [Next]_vars
  PROVE  \A s \in Slots : [Api(s)!Next]_(Api(s)!apiVars)
<1>1. CASE Ordinary
  BY <1>1, OrdinaryInv, EvolvesStep, Zenon DEF Inv, AllEvolve
<1>2. CASE UNCHANGED vars
  BY <1>2, SoundEvolves, EvolvesStep, Zenon DEF Inv, vars
<1>3. CASE AllowReconnect
  <2>1. /\ (retry_sec # 0)' = (retry_sec # 0) /\ (next_conn_ts # Never)' = TRUE
        /\ UNCHANGED conn
    BY <1>3, Constants DEF AllowReconnect, Same
  <2>2. QED
    BY <2>1, Zenon DEF Api!Next, Api!AllowReconnect
<1>4. CASE PollStart
  <2>1. CASE role = "client" /\ IsClosed(conn[0]) /\ next_conn_ts = 0
    <3>1. next_conn_ts' = NextConnTs /\ Becomes(0, {conn[0], Reset(conn[0])}) /\ Same
      BY <1>4, <2>1, Zenon DEF PollStart
    <3>2. PICK d \in {conn[0], Reset(conn[0])} : conn' = [conn EXCEPT ![0] = Ended(d)]
      BY <3>1, Zenon DEF Becomes
    <3>3. 0 \in InUse
      BY <2>1, Zenon DEF InUse
    <3>4. \A r \in Slots : \/ r = 0 /\ Over(conn[r]) /\ (Over(conn'[r]) \/ Trying(conn'[r]))
                           \/ r # 0 /\ conn'[r] = conn[r]
      BY <2>1, <3>1, <3>2, <3>3, AttemptConn, Zenon
    <3>5. \A r \in Slots : Over(conn[r]) /\ (Over(conn'[r]) \/ Trying(conn'[r]))
      BY <2>1, <3>4, Zenon DEF Inv
    <3>6. /\ retry_sec' = retry_sec /\ next_conn_ts # Never
          /\ next_conn_ts' # Never <=> retry_sec # 0
      BY <2>1, <3>1, NextConnTsType, Constants, Zenon DEF Inv, Same
    <3>7. QED
      BY <3>5, <3>6, AttemptStep, Zenon
  <2>2. CASE ~(role = "client" /\ IsClosed(conn[0]) /\ next_conn_ts = 0)
    BY <1>4, <2>2, SoundEvolves, EvolvesStep, Zenon DEF Inv, PollStart, Same
  <2>3. QED
    BY <2>1, <2>2
<1>5. ASSUME NEW s \in InUse, Accept(s)
      PROVE  \A r \in Slots : [Api(r)!Next]_(Api(r)!apiVars)
  <2>1. PICK d \in {conn[s], Reset(conn[s])} : conn' = [conn EXCEPT ![s] = Ended(d)]
    BY <1>5, Zenon DEF Accept, Becomes
  <2>2. \A r \in Slots : \/ r = s /\ Over(conn[r]) /\ (Over(conn'[r]) \/ Trying(conn'[r]))
                         \/ r # s /\ conn'[r] = conn[r]
    BY <1>5, <2>1, AttemptConn, Zenon DEF Accept
  <2>3. retry_sec = 1 /\ next_conn_ts = 0 /\ retry_sec' = retry_sec /\ next_conn_ts' = next_conn_ts
    BY <1>5, Zenon DEF Inv, Accept, Same
  <2>4. /\ next_conn_ts # Never
        /\ next_conn_ts' # Never <=> retry_sec # 0
        /\ next_conn_ts' = Never <=> next_conn_ts = Never
    BY <2>3 DEF Never
  <2>5. ASSUME NEW r \in Slots
        PROVE  [Api(r)!Next]_(Api(r)!apiVars)
    <3>1. CASE r = s
      BY <2>2, <2>3, <2>4, <3>1, AttemptStep, Zenon
    <3>2. CASE r # s
      <4>1. Sound(conn[r]) /\ Evolves(conn[r], conn'[r])
        BY <2>2, <3>2, SoundEvolves, Zenon DEF Inv
      <4>2. QED
        BY <2>3, <2>4, <4>1, EvolvesStep, Zenon
    <3>3. QED
      BY <3>1, <3>2
  <2>6. QED
    BY <2>5
<1>6. QED
  BY <1>1, <1>2, <1>3, <1>4, <1>5, NextCases, Zenon

\* The connections of EfviTcpClient and EfviTcpServer call back in the order, and connect
\* at the times, that TcpUserApi allows.
THEOREM UserImplementsApi == Spec => ImplementsApi
  BY UserInv, NextStep, PTL DEF Spec, ImplementsApi
=============================================================================
