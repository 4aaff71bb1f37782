----------------------------- MODULE ConnTable -----------------------------
(***************************************************************************)
(* The connection table of Core (src/efvitcp/Core.h) and its users: the    *)
(* ordered hash table findConnEntry, addConnEntry, delConnEntry, enterTW   *)
(* and tryExpandConnTbl keep, the pools of identifiers, and the handlers   *)
(* of TcpServer, TcpClient and pollNet/pollTime that open and close        *)
(* connections.                                                            *)
(*                                                                         *)
(* The table has no wrap-around: it is followed by room for entries that   *)
(* overflow its last slot.  Entries are probed in increasing order of      *)
(* keys, the empty one being the largest.                                  *)
(***************************************************************************)
EXTENDS ConnIds

CONSTANTS EmptyKey,             \* 2^63: larger than every key, and 0 modulo the table size
          InitTableSize,        \* 128
          Roles,                \* TcpClient, TcpServer or both
          ReconnectsInTW,       \* whether connect() is called for a key in TIME_WAIT
          ClosesInAllow         \* whether allowNewConnection closes a connection

VARIABLES role,      \* whose Core this is
          core,      \* tbl, tbl_mask, conns, conn_cnt, tw_ids, tw_cnt
          peer,      \* the key of each connection that is not closed
          tw_peer    \* the key of each TIME_WAIT record whose timer runs

vars == <<role, core, peer, tw_peer>>

\* getMSB, MaxTableSize and TotalTableSize.
GetMSB(n) == CHOOSE b \in 0 .. n : n < 2^b /\ (b = 0 \/ 2^(b - 1) <= n)
MaxTableSize == 2^(1 + GetMSB(MaxConnCnt + MaxTimeWaitConnCnt))
TotalTableSize == MaxTableSize + MaxConnCnt + MaxTimeWaitConnCnt
Pos == 0 .. TotalTableSize - 1

Init ==
  /\ role \in Roles
  /\ core = [tbl      |-> [p \in Pos |-> [key |-> EmptyKey, conn_id |-> 0]],
             tbl_mask |-> (IF MaxTableSize < InitTableSize THEN MaxTableSize ELSE InitTableSize) - 1,
             conns    |-> [i \in ConnId |-> i], conn_cnt |-> 0,
             tw_ids   |-> [i \in TwId |-> i], tw_cnt |-> 0]
  /\ peer = [i \in ConnId |-> NoKey]
  /\ tw_peer = [i \in TwId |-> NoKey]

-----------------------------------------------------------------------------
(* The table. *)

Home(key, mask) == key % (mask + 1)

\* The first entry from p on whose key is not smaller.
Probe(tbl, p, key) ==
  CHOOSE q \in Pos : /\ q >= p /\ tbl[q].key >= key
                     /\ \A r \in p .. q - 1 : tbl[r].key < key

FindConnEntry(c, key) == Probe(c.tbl, Home(key, c.tbl_mask), key)

\* addConnEntry: e takes the place p, the entry there moves on, and so forth.
RECURSIVE Push(_, _, _)
Push(tbl, p, e) ==
  IF tbl[p].key = EmptyKey THEN [tbl EXCEPT ![p] = e]
  ELSE LET moved == tbl[p]
           t     == [tbl EXCEPT ![p] = e]
       IN  Push(t, Probe(t, p + 1, moved.key), moved)

GetTblSize(c) == c.conn_cnt + c.tw_cnt

\* tryExpandConnTbl, rehash: n entries, from p on, to where they are found.
RECURSIVE Rehash(_, _, _, _)
Rehash(tbl, mask, p, n) ==
  IF n = 0 THEN tbl
  ELSE IF tbl[p].key = EmptyKey THEN Rehash(tbl, mask, p + 1, n)
  ELSE LET q == Probe(tbl, Home(tbl[p].key, mask), tbl[p].key)
           t == [tbl EXCEPT ![p].key = tbl[q].key]
       IN  Rehash([t EXCEPT ![q] = tbl[p]], mask, p + 1, n - 1)

\* The entries that overflow the last slot are moved behind the larger table, and
\* everything is rehashed.
TryExpandConnTbl(c) ==
  IF GetTblSize(c) * 2 <= c.tbl_mask THEN c
  ELSE LET end     == c.tbl_mask + 1
           mask    == c.tbl_mask * 2 + 1
           new_end == mask + 1
           end_cnt == CHOOSE n \in 0 .. TotalTableSize :
                        /\ c.tbl[end + n].key = EmptyKey
                        /\ \A m \in 0 .. n - 1 : c.tbl[end + m].key # EmptyKey
           moved   == [p \in Pos |->
                        IF p \in end .. end + end_cnt - 1 THEN c.tbl[p + end]
                        ELSE IF p \in new_end .. new_end + end_cnt - 1 THEN c.tbl[p - end]
                        ELSE c.tbl[p]]
           low     == Rehash(moved, mask, 0, GetTblSize(c) - end_cnt)
       IN  [c EXCEPT !.tbl_mask = mask, !.tbl = Rehash(low, mask, new_end, end_cnt)]

AddConnEntry(c, p, key, id) ==
  TryExpandConnTbl([c EXCEPT !.tbl = Push(c.tbl, p, [key |-> key, conn_id |-> id])])

\* Mutant: whatever follows is moved back.
RECURSIVE FillAny(_, _, _)
FillAny(tbl, mask, p) ==
  IF tbl[p + 1].key = EmptyKey THEN [tbl EXCEPT ![p].key = EmptyKey]
  ELSE FillAny([tbl EXCEPT ![p] = tbl[p + 1]], mask, p + 1)

\* delConnEntry: the hole at p is filled with the next entry that may move back.
RECURSIVE Fill(_, _, _)
Fill(tbl, mask, p) ==
  LET q == CHOOSE q \in Pos : /\ q > p /\ Home(tbl[q].key, mask) <= p
                              /\ \A r \in p + 1 .. q - 1 : Home(tbl[r].key, mask) > p
  IN  IF tbl[q].key = EmptyKey THEN [tbl EXCEPT ![p].key = EmptyKey]
      ELSE Fill([tbl EXCEPT ![p] = tbl[q]], mask, q)

\* Mutant: the identifier does not go back to its pool.
ReleaseIdLost(c, id) ==
  IF id < MaxConnCnt THEN [c EXCEPT !.conn_cnt = @ - 1] ELSE [c EXCEPT !.tw_cnt = @ - 1]

ReleaseId(c, id) ==
  IF id < MaxConnCnt
  THEN [c EXCEPT !.conn_cnt = @ - 1, !.conns[c.conn_cnt - 1] = id]
  ELSE [c EXCEPT !.tw_cnt = @ - 1, !.tw_ids[c.tw_cnt - 1] = id - MaxConnCnt]

DelConnEntry(c, key) ==
  LET p == FindConnEntry(c, key)
  IN  [ReleaseId(c, c.tbl[p].conn_id) EXCEPT !.tbl = Fill(c.tbl, c.tbl_mask, p)]

-----------------------------------------------------------------------------
(* The handlers. *)

\* TcpServer::poll: a SYN that no entry matches.  The entry was looked up before
\* allowNewConnection, which may close a connection, is called.
Accept(k) ==
  LET p == FindConnEntry(core, k)
  IN  /\ role = "server"
      /\ core.tbl[p].key # k
      /\ core.conn_cnt < MaxConnCnt
      /\ \E gone \in {{}} \cup IF ClosesInAllow THEN {{i} : i \in ConnId} ELSE {} :
           LET c  == IF \A i \in gone : peer[i] = NoKey THEN core
                     ELSE DelConnEntry(core, peer[CHOOSE i \in gone : TRUE])
               id == c.conns[c.conn_cnt]
           IN  /\ core' = AddConnEntry([c EXCEPT !.conn_cnt = @ + 1], p, k, id)
               /\ peer' = [i \in ConnId |-> IF i = id THEN k
                                           ELSE IF i \in gone THEN NoKey ELSE peer[i]]
      /\ UNCHANGED tw_peer

\* TcpClient::connect, whose only connection has identifier 0.
Connect(k) ==
  LET p == FindConnEntry(core, k)
  IN  /\ role = "client"
      /\ core.conn_cnt = 0
      /\ ReconnectsInTW \/ core.tbl[p].key # k
      /\ core' = AddConnEntry([core EXCEPT !.conn_cnt = @ + 1], p, k, 0)
      /\ peer' = [peer EXCEPT ![0] = k]
      /\ UNCHANGED tw_peer

\* TcpConn::onClose(false).
Close(i) ==
  /\ peer[i] # NoKey
  /\ core' = DelConnEntry(core, peer[i])
  /\ peer' = [peer EXCEPT ![i] = NoKey]
  /\ UNCHANGED tw_peer

\* Mutant: the entry keeps the identifier of the connection.
EnterTWKeepsId(c, key) ==
  LET p == FindConnEntry(c, key)
  IN  [c EXCEPT !.conn_cnt = @ - 1, !.conns[c.conn_cnt - 1] = c.tbl[p].conn_id,
                !.tw_cnt = @ + 1]

\* Core::enterTW.
EnterTW(c, key) ==
  LET p == FindConnEntry(c, key)
  IN  [c EXCEPT !.conn_cnt = @ - 1, !.conns[c.conn_cnt - 1] = c.tbl[p].conn_id,
                !.tw_cnt = @ + 1, !.tbl[p].conn_id = MaxConnCnt + c.tw_ids[c.tw_cnt]]

\* TcpConn::onClose(true): without a free TIME_WAIT record the entry is deleted.
CloseToTW(i) ==
  /\ peer[i] # NoKey
  /\ IF core.tw_cnt = MaxTimeWaitConnCnt
     THEN core' = DelConnEntry(core, peer[i]) /\ UNCHANGED tw_peer
     ELSE /\ core' = EnterTW(core, peer[i])
          /\ tw_peer' = [tw_peer EXCEPT ![core.tw_ids[core.tw_cnt]] = peer[i]]
  /\ peer' = [peer EXCEPT ![i] = NoKey]

\* pollTime: the timer of a TIME_WAIT record is handed out.
TimeWaitExpires(j) ==
  /\ tw_peer[j] # NoKey
  /\ core' = DelConnEntry(core, tw_peer[j])
  /\ tw_peer' = [tw_peer EXCEPT ![j] = NoKey]
  /\ UNCHANGED peer

\* pollNet: a reset of a peer whose entry is a TIME_WAIT record.
TimeWaitReset(k) ==
  LET e == core.tbl[FindConnEntry(core, k)]
  IN  /\ e.key = k /\ e.conn_id >= MaxConnCnt
      /\ core' = DelConnEntry(core, k)
      /\ tw_peer' = [tw_peer EXCEPT ![e.conn_id - MaxConnCnt] = NoKey]
      /\ UNCHANGED peer

Next ==
  /\ \/ \E k \in Key : Accept(k) \/ Connect(k) \/ TimeWaitReset(k)
     \/ \E i \in ConnId : Close(i) \/ CloseToTW(i)
     \/ \E j \in TwId : TimeWaitExpires(j)
  /\ UNCHANGED role

Spec == Init /\ [][Next]_vars

-----------------------------------------------------------------------------
(* Properties. *)

Lookup(k) ==
  LET e == core.tbl[FindConnEntry(core, k)] IN IF e.key = k THEN e.conn_id ELSE NoId

TypeOK ==
  /\ core.tbl \in [Pos -> [key : Key \cup {EmptyKey},
                           conn_id : 0 .. MaxConnCnt + MaxTimeWaitConnCnt - 1]]
  /\ core.tbl_mask \in Pos
  /\ core.conns \in [ConnId -> ConnId] /\ core.conn_cnt \in 0 .. MaxConnCnt
  /\ core.tw_ids \in [TwId -> TwId] /\ core.tw_cnt \in 0 .. MaxTimeWaitConnCnt
  /\ peer \in [ConnId -> Key \cup {NoKey}]
  /\ tw_peer \in [TwId -> Key \cup {NoKey}]

CR == INSTANCE ConnRegistry
        WITH owner <- [k \in Key |-> Lookup(k)],
             conns <- core.conns, conn_cnt <- core.conn_cnt,
             tw_ids <- core.tw_ids, tw_cnt <- core.tw_cnt

\* The table is a map: whatever collides, overflows, is displaced or moves back,
\* each operation changes what findConnEntry returns for its own key only, and
\* as the registry says.
IsRegistry == CR!Spec

\* findConnEntry finds each open connection and TIME_WAIT record under its key, and
\* nothing else.
OwnersAgree == CR!OwnersAgree

\* The identifiers that conns and tw_ids hold as free are those not in use, once
\* each: none is handed out twice, and none is lost.
PoolsExact == CR!PoolsExact

\* Every open connection is found under its key (the debug build exits otherwise:
\* "delConnEntry failed", Core.h:582, and "enterTW failed", Core.h:615).
OpenIsFound == \A i \in ConnId : peer[i] # NoKey => Lookup(peer[i]) = i
=============================================================================
