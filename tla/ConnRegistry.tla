---------------------------- MODULE ConnRegistry ----------------------------
(***************************************************************************)
(* What Core (src/efvitcp/Core.h) promises about connections: a map from   *)
(* peers to the connection, live or in TIME_WAIT, that owns them, and the  *)
(* pools of free identifiers.  The hash table that stands for the map is   *)
(* in module ConnTable.                                                    *)
(***************************************************************************)
EXTENDS ConnIds

VARIABLES owner,              \* the identifier that owns each key
          conns, conn_cnt,    \* pool of connections: free from conn_cnt on
          tw_ids, tw_cnt,     \* pool of TIME_WAIT records
          peer,               \* the key of each open connection
          tw_peer             \* the key of each record whose timer runs

vars == <<owner, conns, conn_cnt, tw_ids, tw_cnt, peer, tw_peer>>

Init ==
  /\ owner = [k \in Key |-> NoId]
  /\ conns = [i \in ConnId |-> i] /\ conn_cnt = 0
  /\ tw_ids = [i \in TwId |-> i] /\ tw_cnt = 0
  /\ peer = [i \in ConnId |-> NoKey]
  /\ tw_peer = [i \in TwId |-> NoKey]

\* delConnEntry: the entry of k goes, and its identifier back to its pool.
DelConnEntry(k) ==
  /\ owner' = [owner EXCEPT ![k] = NoId]
  /\ IF owner[k] < MaxConnCnt
     THEN /\ conn_cnt' = conn_cnt - 1
          /\ conns' = [conns EXCEPT ![conn_cnt - 1] = owner[k]]
          /\ UNCHANGED <<tw_ids, tw_cnt>>
     ELSE /\ tw_cnt' = tw_cnt - 1
          /\ tw_ids' = [tw_ids EXCEPT ![tw_cnt - 1] = owner[k] - MaxConnCnt]
          /\ UNCHANGED <<conns, conn_cnt>>

\* A SYN of a new peer, or connect().
Open(k) ==
  /\ owner[k] = NoId
  /\ conn_cnt < MaxConnCnt
  /\ owner' = [owner EXCEPT ![k] = conns[conn_cnt]]
  /\ peer' = [peer EXCEPT ![conns[conn_cnt]] = k]
  /\ conn_cnt' = conn_cnt + 1
  /\ UNCHANGED <<conns, tw_ids, tw_cnt, tw_peer>>

\* onClose(false).
Close(i) ==
  /\ peer[i] # NoKey
  /\ DelConnEntry(peer[i])
  /\ peer' = [peer EXCEPT ![i] = NoKey]
  /\ UNCHANGED tw_peer

\* onClose(true), with a free TIME_WAIT record; without one it is Close.
EnterTW(i) ==
  /\ peer[i] # NoKey
  /\ tw_cnt < MaxTimeWaitConnCnt
  /\ conn_cnt' = conn_cnt - 1
  /\ conns' = [conns EXCEPT ![conn_cnt - 1] = owner[peer[i]]]
  /\ owner' = [owner EXCEPT ![peer[i]] = MaxConnCnt + tw_ids[tw_cnt]]
  /\ tw_peer' = [tw_peer EXCEPT ![tw_ids[tw_cnt]] = peer[i]]
  /\ tw_cnt' = tw_cnt + 1
  /\ peer' = [peer EXCEPT ![i] = NoKey]
  /\ UNCHANGED tw_ids

\* A TIME_WAIT record expires or is reset.
LeaveTW(j) ==
  /\ tw_peer[j] # NoKey
  /\ DelConnEntry(tw_peer[j])
  /\ tw_peer' = [tw_peer EXCEPT ![j] = NoKey]
  /\ UNCHANGED peer

Next ==
  \/ \E k \in Key : Open(k)
  \/ \E i \in ConnId : Close(i) \/ EnterTW(i)
  \/ \E j \in TwId : LeaveTW(j)

Spec == Init /\ [][Next]_vars

-----------------------------------------------------------------------------
(* Properties. *)

TypeOK ==
  /\ owner \in [Key -> {NoId} \cup (0 .. MaxConnCnt + MaxTimeWaitConnCnt - 1)]
  /\ conns \in [ConnId -> ConnId] /\ conn_cnt \in 0 .. MaxConnCnt
  /\ tw_ids \in [TwId -> TwId] /\ tw_cnt \in 0 .. MaxTimeWaitConnCnt
  /\ peer \in [ConnId -> Key \cup {NoKey}]
  /\ tw_peer \in [TwId -> Key \cup {NoKey}]

\* The map and the connections agree: a key is owned by a connection, or by a
\* TIME_WAIT record, exactly when that is the one open for it.
OwnersAgree ==
  \A k \in Key :
    /\ \A i \in ConnId : owner[k] = i <=> peer[i] = k
    /\ \A j \in TwId : owner[k] = MaxConnCnt + j <=> tw_peer[j] = k

\* The free parts of the pools hold every identifier that is not in use, once: none
\* is handed out while it is in use ("it can be reused after the connection is
\* closed", README.md), and none is lost.
PoolsExact ==
  /\ {conns[i] : i \in conn_cnt .. MaxConnCnt - 1} = {i \in ConnId : peer[i] = NoKey}
  /\ \A i, j \in conn_cnt .. MaxConnCnt - 1 : conns[i] = conns[j] => i = j
  /\ {tw_ids[i] : i \in tw_cnt .. MaxTimeWaitConnCnt - 1} = {j \in TwId : tw_peer[j] = NoKey}
  /\ \A i, j \in tw_cnt .. MaxTimeWaitConnCnt - 1 : tw_ids[i] = tw_ids[j] => i = j
=============================================================================
