------------------------- MODULE ConnRegistryProofs -------------------------
(***************************************************************************)
(* The registry of connections is correct for every number of keys,        *)
(* connections and TIME_WAIT records: the pools hold exactly the free      *)
(* identifiers, and the map agrees with the connections.                   *)
(***************************************************************************)
EXTENDS ConnRegistry, FiniteSetTheorems, TLAPS

(* A pool of the identifiers below M: the free ones, F, are those from c on. *)
Pool(f, c, M, F) ==
  /\ f \in [0 .. M - 1 -> 0 .. M - 1]
  /\ c \in 0 .. M
  /\ {f[i] : i \in c .. M - 1} = F
  /\ \A i, j \in c .. M - 1 : f[i] = f[j] => i = j

\* The next identifier of a pool is free, and is so no longer once it is taken
\* (conns[conn_cnt++], tw_ids[tw_cnt++]).
LEMMA PoolTake ==
  ASSUME NEW M \in Nat, NEW f, NEW c, NEW F, Pool(f, c, M, F), c < M
  PROVE  f[c] \in F /\ f[c] \in 0 .. M - 1 /\ Pool(f, c + 1, M, F \ {f[c]})
<1>1. c \in c .. M - 1 /\ c \in 0 .. M - 1 /\ c + 1 \in 0 .. M
  BY DEF Pool
<1>2. f[c] \in F /\ f[c] \in 0 .. M - 1
  BY <1>1 DEF Pool
<1>3. \A i \in c + 1 .. M - 1 : i \in c .. M - 1 /\ i # c
  BY <1>1
<1>4. {f[i] : i \in c + 1 .. M - 1} = F \ {f[c]}
  <2>1. ASSUME NEW x \in F \ {f[c]} PROVE x \in {f[i] : i \in c + 1 .. M - 1}
    <3>1. PICK i \in c .. M - 1 : f[i] = x
      BY DEF Pool
    <3>2. i \in c + 1 .. M - 1
      BY <1>1, <3>1
    <3>3. QED
      BY <3>1, <3>2
  <2>2. ASSUME NEW i \in c + 1 .. M - 1 PROVE f[i] \in F \ {f[c]}
    BY <1>1, <1>3 DEF Pool
  <2>3. QED
    BY <2>1, <2>2
<1>5. QED
  BY <1>1, <1>2, <1>3, <1>4 DEF Pool

\* While an identifier is in use the pool is not full, and takes it back
\* (conns[--conn_cnt] = id, tw_ids[--tw_cnt] = id).
LEMMA PoolGive ==
  ASSUME NEW M \in Nat, NEW f, NEW c, NEW F, Pool(f, c, M, F),
         NEW x \in 0 .. M - 1, x \notin F
  PROVE  c >= 1 /\ Pool([f EXCEPT ![c - 1] = x], c - 1, M, F \cup {x})
<1>1. c # 0
  <2>1. SUFFICES ASSUME c = 0 PROVE FALSE
    OBVIOUS
  <2> DEFINE S == 0 .. M - 1
             T == S \ {x}
  <2>2. IsFiniteSet(S)
    BY FS_Interval
  <2>3. IsFiniteSet(T) /\ Cardinality(T) = Cardinality(S) - 1 /\ Cardinality(S) \in Nat
    BY <2>2, FS_RemoveElement, FS_CardinalityType, Zenon
  <2>4. Cardinality(T) < Cardinality(S)
    BY <2>3
  <2>5. f \in [S -> T]
    BY <2>1 DEF Pool
  <2>6. \E y, z \in S : y # z /\ f[y] = f[z]
    BY <2>2, <2>3, <2>4, <2>5, FS_PigeonHole, Zenon
  <2>7. QED
    BY <2>1, <2>6 DEF Pool
<1>2. c - 1 \in 0 .. M - 1 /\ c - 1 \in 0 .. M /\ c >= 1
  BY <1>1 DEF Pool
<1> DEFINE g == [f EXCEPT ![c - 1] = x]
<1>3. g \in [0 .. M - 1 -> 0 .. M - 1] /\ g[c - 1] = x
  BY <1>2 DEF Pool
<1>4. \A i \in c - 1 .. M - 1 : i = c - 1 \/ (i \in c .. M - 1 /\ g[i] = f[i] /\ f[i] \in F)
  BY <1>2 DEF Pool
<1>5. \A i \in c .. M - 1 : i \in c - 1 .. M - 1 /\ g[i] = f[i]
  BY <1>2 DEF Pool
<1>6. c - 1 \in c - 1 .. M - 1
  BY <1>2
<1> HIDE DEF g
<1>7. {g[i] : i \in c - 1 .. M - 1} = F \cup {x}
  <2>1. ASSUME NEW y \in F PROVE y \in {g[i] : i \in c - 1 .. M - 1}
    <3>1. PICK i \in c .. M - 1 : f[i] = y
      BY DEF Pool
    <3>2. QED
      BY <1>5, <3>1
  <2>2. QED
    BY <1>3, <1>4, <1>6, <2>1, Zenon
<1>8. \A i, j \in c - 1 .. M - 1 : g[i] = g[j] => i = j
  BY <1>3, <1>4, Zenon DEF Pool
<1>9. QED
  BY <1>2, <1>3, <1>7, <1>8, Zenon DEF Pool, g
-----------------------------------------------------------------------------
(* The registry. *)

FreeConns == {i \in ConnId : peer[i] = NoKey}
FreeTws == {j \in TwId : tw_peer[j] = NoKey}

Inv == TypeOK /\ OwnersAgree /\ PoolsExact

\* The invariant, by pool.
LEMMA InvPools ==
  Inv <=> /\ TypeOK /\ OwnersAgree
          /\ Pool(conns, conn_cnt, MaxConnCnt, FreeConns)
          /\ Pool(tw_ids, tw_cnt, MaxTimeWaitConnCnt, FreeTws)
BY Zenon DEF Inv, PoolsExact, Pool, FreeConns, FreeTws, TypeOK, ConnId, TwId

\* What the proofs use of the constants.
LEMMA RegistryConstants ==
  /\ MaxConnCnt \in Nat /\ MaxTimeWaitConnCnt \in Nat
  /\ NoKey \notin Key
  /\ \A i \in ConnId : i \in Nat /\ i < MaxConnCnt /\ i # NoId
                       /\ i \in 0 .. MaxConnCnt + MaxTimeWaitConnCnt - 1
  /\ \A j \in TwId : /\ MaxConnCnt + j \in Nat /\ MaxConnCnt + j >= MaxConnCnt
                     /\ MaxConnCnt + j # NoId /\ (MaxConnCnt + j) - MaxConnCnt = j
                     /\ MaxConnCnt + j \in 0 .. MaxConnCnt + MaxTimeWaitConnCnt - 1
  /\ \A i \in ConnId, j \in TwId : i # MaxConnCnt + j
  /\ \A i, j \in TwId : MaxConnCnt + i = MaxConnCnt + j => i = j
BY ConnIdsAssumption DEF ConnId, TwId, NoKey, NoId

\* A new connection.
LEMMA OpenInv ==
  ASSUME Inv, NEW k \in Key, Open(k)
  PROVE  Inv'
<1> DEFINE id == conns[conn_cnt]
<1>1. /\ TypeOK /\ OwnersAgree
      /\ Pool(conns, conn_cnt, MaxConnCnt, FreeConns)
      /\ Pool(tw_ids, tw_cnt, MaxTimeWaitConnCnt, FreeTws)
  BY InvPools
<1>2. MaxConnCnt \in Nat /\ conn_cnt < MaxConnCnt
  BY RegistryConstants DEF Open
<1>3. id \in FreeConns /\ id \in ConnId /\ Pool(conns, conn_cnt + 1, MaxConnCnt, FreeConns \ {id})
  BY <1>1, <1>2, PoolTake, Zenon DEF ConnId
<1> HIDE DEF id
<1>4. /\ owner[k] = NoId
      /\ owner' = [owner EXCEPT ![k] = id] /\ peer' = [peer EXCEPT ![id] = k]
      /\ conn_cnt' = conn_cnt + 1 /\ conns' = conns
      /\ tw_ids' = tw_ids /\ tw_cnt' = tw_cnt /\ tw_peer' = tw_peer
  BY DEF Open, id
<1>5. FreeConns' = FreeConns \ {id} /\ FreeTws' = FreeTws
  BY <1>1, <1>3, <1>4, RegistryConstants DEF FreeConns, FreeTws, TypeOK
<1>6. Pool(conns, conn_cnt, MaxConnCnt, FreeConns)'
  BY <1>3, <1>4, <1>5 DEF Pool
<1>7. Pool(tw_ids, tw_cnt, MaxTimeWaitConnCnt, FreeTws)'
  BY <1>1, <1>4, <1>5 DEF Pool
<1>8. TypeOK'
  BY <1>1, <1>2, <1>3, <1>4, RegistryConstants DEF TypeOK
<1>9. OwnersAgree'
  <2>1. ASSUME NEW h \in Key, NEW i \in ConnId PROVE owner'[h] = i <=> peer'[i] = h
    <3>1. owner[h] = i <=> peer[i] = h
      BY <1>1 DEF OwnersAgree
    <3>2. peer[id] = NoKey /\ peer[id] # h
      BY <1>3, RegistryConstants DEF FreeConns
    <3>3. QED
      BY <1>1, <1>3, <1>4, <3>1, <3>2, RegistryConstants DEF TypeOK, OwnersAgree
  <2>2. ASSUME NEW h \in Key, NEW j \in TwId PROVE owner'[h] = MaxConnCnt + j <=> tw_peer'[j] = h
    <3>1. owner[h] = MaxConnCnt + j <=> tw_peer[j] = h
      BY <1>1 DEF OwnersAgree
    <3>2. id # MaxConnCnt + j /\ MaxConnCnt + j # NoId
      BY <1>3, RegistryConstants
    <3>3. QED
      BY <1>1, <1>4, <3>1, <3>2 DEF TypeOK
  <2>3. QED
    BY <2>1, <2>2 DEF OwnersAgree
<1>10. QED
  BY <1>6, <1>7, <1>8, <1>9 DEF Inv, PoolsExact, Pool, FreeConns, FreeTws
\* A connection that is closed leaves the map and returns to its pool.
LEMMA CloseInv ==
  ASSUME Inv, NEW i \in ConnId, Close(i)
  PROVE  Inv'
<1>1. /\ TypeOK /\ OwnersAgree
      /\ Pool(conns, conn_cnt, MaxConnCnt, FreeConns)
      /\ Pool(tw_ids, tw_cnt, MaxTimeWaitConnCnt, FreeTws)
  BY InvPools
<1>2. PICK k \in Key : peer[i] = k /\ owner[k] = i
  BY <1>1 DEF Close, TypeOK, OwnersAgree
<1>3. /\ owner' = [owner EXCEPT ![k] = NoId] /\ peer' = [peer EXCEPT ![i] = NoKey]
      /\ conn_cnt' = conn_cnt - 1 /\ conns' = [conns EXCEPT ![conn_cnt - 1] = i]
      /\ tw_ids' = tw_ids /\ tw_cnt' = tw_cnt /\ tw_peer' = tw_peer
  BY <1>2, RegistryConstants DEF Close, DelConnEntry
<1>4. i \notin FreeConns /\ i \in 0 .. MaxConnCnt - 1 /\ MaxConnCnt \in Nat
  BY <1>2, RegistryConstants DEF FreeConns, ConnId
<1>5. Pool([conns EXCEPT ![conn_cnt - 1] = i], conn_cnt - 1, MaxConnCnt, FreeConns \cup {i})
  BY <1>1, <1>4, PoolGive, Zenon
<1>6. FreeConns' = FreeConns \cup {i} /\ FreeTws' = FreeTws
  BY <1>1, <1>3 DEF FreeConns, FreeTws, TypeOK
<1>7. Pool(conns, conn_cnt, MaxConnCnt, FreeConns)'
  BY <1>3, <1>5, <1>6 DEF Pool
<1>8. Pool(tw_ids, tw_cnt, MaxTimeWaitConnCnt, FreeTws)'
  BY <1>1, <1>3, <1>6 DEF Pool
<1>9. TypeOK'
  <2>1. conns' \in [ConnId -> ConnId] /\ conn_cnt' \in 0 .. MaxConnCnt
    BY <1>7 DEF Pool, ConnId
  <2>2. QED
    BY <1>1, <1>3, <2>1 DEF TypeOK
<1>10. OwnersAgree'
  <2>1. ASSUME NEW h \in Key, NEW a \in ConnId PROVE owner'[h] = a <=> peer'[a] = h
    <3>1. (owner[h] = a <=> peer[a] = h) /\ (owner[k] = a <=> peer[a] = k)
      BY <1>1 DEF OwnersAgree
    <3>2. QED
      BY <1>1, <1>2, <1>3, <3>1, RegistryConstants DEF TypeOK
  <2>2. ASSUME NEW h \in Key, NEW j \in TwId PROVE owner'[h] = MaxConnCnt + j <=> tw_peer'[j] = h
    <3>1. owner[h] = MaxConnCnt + j <=> tw_peer[j] = h
      BY <1>1 DEF OwnersAgree
    <3>2. i # MaxConnCnt + j /\ MaxConnCnt + j # NoId
      BY RegistryConstants
    <3>3. QED
      BY <1>1, <1>2, <1>3, <3>1, <3>2 DEF TypeOK
  <2>3. QED
    BY <2>1, <2>2 DEF OwnersAgree
<1>11. QED
  BY <1>7, <1>8, <1>9, <1>10 DEF Inv, PoolsExact, Pool, FreeConns, FreeTws

\* A TIME_WAIT record that ends leaves the map and returns to its pool.
LEMMA LeaveTWInv ==
  ASSUME Inv, NEW j \in TwId, LeaveTW(j)
  PROVE  Inv'
<1>1. /\ TypeOK /\ OwnersAgree
      /\ Pool(conns, conn_cnt, MaxConnCnt, FreeConns)
      /\ Pool(tw_ids, tw_cnt, MaxTimeWaitConnCnt, FreeTws)
  BY InvPools
<1>2. PICK k \in Key : tw_peer[j] = k /\ owner[k] = MaxConnCnt + j
  BY <1>1 DEF LeaveTW, TypeOK, OwnersAgree
<1>3. /\ owner' = [owner EXCEPT ![k] = NoId] /\ tw_peer' = [tw_peer EXCEPT ![j] = NoKey]
      /\ tw_cnt' = tw_cnt - 1 /\ tw_ids' = [tw_ids EXCEPT ![tw_cnt - 1] = j]
      /\ conns' = conns /\ conn_cnt' = conn_cnt /\ peer' = peer
  <2>1. ~(owner[k] < MaxConnCnt) /\ owner[k] - MaxConnCnt = j
    BY <1>2, RegistryConstants
  <2>2. QED
    BY <1>2, <2>1 DEF LeaveTW, DelConnEntry
<1>4. j \notin FreeTws /\ j \in 0 .. MaxTimeWaitConnCnt - 1 /\ MaxTimeWaitConnCnt \in Nat
  BY <1>2, RegistryConstants DEF FreeTws, TwId
<1>5. Pool([tw_ids EXCEPT ![tw_cnt - 1] = j], tw_cnt - 1, MaxTimeWaitConnCnt, FreeTws \cup {j})
  BY <1>1, <1>4, PoolGive, Zenon
<1>6. FreeTws' = FreeTws \cup {j} /\ FreeConns' = FreeConns
  BY <1>1, <1>3 DEF FreeConns, FreeTws, TypeOK
<1>7. Pool(tw_ids, tw_cnt, MaxTimeWaitConnCnt, FreeTws)'
  BY <1>3, <1>5, <1>6 DEF Pool
<1>8. Pool(conns, conn_cnt, MaxConnCnt, FreeConns)'
  BY <1>1, <1>3, <1>6 DEF Pool
<1>9. TypeOK'
  <2>1. tw_ids' \in [TwId -> TwId] /\ tw_cnt' \in 0 .. MaxTimeWaitConnCnt
    BY <1>7 DEF Pool, TwId
  <2>2. QED
    BY <1>1, <1>3, <2>1 DEF TypeOK
<1>10. OwnersAgree'
  <2>1. ASSUME NEW h \in Key, NEW a \in ConnId PROVE owner'[h] = a <=> peer'[a] = h
    <3>1. owner[h] = a <=> peer[a] = h
      BY <1>1 DEF OwnersAgree
    <3>2. a # MaxConnCnt + j /\ a # NoId
      BY RegistryConstants
    <3>3. QED
      BY <1>1, <1>2, <1>3, <3>1, <3>2 DEF TypeOK
  <2>2. ASSUME NEW h \in Key, NEW b \in TwId PROVE owner'[h] = MaxConnCnt + b <=> tw_peer'[b] = h
    <3>1. /\ owner[h] = MaxConnCnt + b <=> tw_peer[b] = h
          /\ owner[k] = MaxConnCnt + b <=> tw_peer[b] = k
      BY <1>1 DEF OwnersAgree
    <3>2. MaxConnCnt + b # NoId /\ (MaxConnCnt + b = MaxConnCnt + j => b = j)
      BY RegistryConstants
    <3>3. QED
      BY <1>1, <1>2, <1>3, <3>1, <3>2, RegistryConstants DEF TypeOK
  <2>3. QED
    BY <2>1, <2>2 DEF OwnersAgree
<1>11. QED
  BY <1>7, <1>8, <1>9, <1>10 DEF Inv, PoolsExact, Pool, FreeConns, FreeTws

\* A connection that closes into TIME_WAIT hands its key to a record: its own
\* identifier is given back, one of the other pool is taken.
LEMMA EnterTWInv ==
  ASSUME Inv, NEW i \in ConnId, EnterTW(i)
  PROVE  Inv'
<1> DEFINE j == tw_ids[tw_cnt]
<1>1. /\ TypeOK /\ OwnersAgree
      /\ Pool(conns, conn_cnt, MaxConnCnt, FreeConns)
      /\ Pool(tw_ids, tw_cnt, MaxTimeWaitConnCnt, FreeTws)
  BY InvPools
<1>2. PICK k \in Key : peer[i] = k /\ owner[k] = i
  BY <1>1 DEF EnterTW, TypeOK, OwnersAgree
<1>3. i \notin FreeConns /\ i \in 0 .. MaxConnCnt - 1 /\ MaxConnCnt \in Nat
  BY <1>2, RegistryConstants DEF FreeConns, ConnId
<1>4. Pool([conns EXCEPT ![conn_cnt - 1] = i], conn_cnt - 1, MaxConnCnt, FreeConns \cup {i})
  BY <1>1, <1>3, PoolGive, Zenon
<1>5. MaxTimeWaitConnCnt \in Nat /\ tw_cnt < MaxTimeWaitConnCnt
  BY RegistryConstants DEF EnterTW
<1>6. j \in FreeTws /\ j \in TwId /\ Pool(tw_ids, tw_cnt + 1, MaxTimeWaitConnCnt, FreeTws \ {j})
  BY <1>1, <1>5, PoolTake, Zenon DEF TwId
<1> HIDE DEF j
<1>7. /\ owner' = [owner EXCEPT ![k] = MaxConnCnt + j]
      /\ peer' = [peer EXCEPT ![i] = NoKey] /\ tw_peer' = [tw_peer EXCEPT ![j] = k]
      /\ conn_cnt' = conn_cnt - 1 /\ conns' = [conns EXCEPT ![conn_cnt - 1] = i]
      /\ tw_cnt' = tw_cnt + 1 /\ tw_ids' = tw_ids
  BY <1>2 DEF EnterTW, j
<1>8. FreeConns' = FreeConns \cup {i} /\ FreeTws' = FreeTws \ {j}
  BY <1>1, <1>6, <1>7, RegistryConstants DEF FreeConns, FreeTws, TypeOK
<1>9. Pool(conns, conn_cnt, MaxConnCnt, FreeConns)'
  BY <1>4, <1>7, <1>8 DEF Pool
<1>10. Pool(tw_ids, tw_cnt, MaxTimeWaitConnCnt, FreeTws)'
  BY <1>6, <1>7, <1>8 DEF Pool
<1>11. TypeOK'
  <2>1. conns' \in [ConnId -> ConnId] /\ conn_cnt' \in 0 .. MaxConnCnt
    BY <1>9 DEF Pool, ConnId
  <2>2. tw_ids' \in [TwId -> TwId] /\ tw_cnt' \in 0 .. MaxTimeWaitConnCnt
    BY <1>10 DEF Pool, TwId
  <2>3. owner' \in [Key -> {NoId} \cup (0 .. MaxConnCnt + MaxTimeWaitConnCnt - 1)]
    BY <1>1, <1>6, <1>7, RegistryConstants DEF TypeOK
  <2>4. QED
    BY <1>1, <1>7, <2>1, <2>2, <2>3, Zenon DEF TypeOK
<1>12. OwnersAgree'
  <2>1. ASSUME NEW h \in Key, NEW a \in ConnId PROVE owner'[h] = a <=> peer'[a] = h
    <3>1. (owner[h] = a <=> peer[a] = h) /\ (owner[k] = a <=> peer[a] = k)
      BY <1>1 DEF OwnersAgree
    <3>2. a # MaxConnCnt + j /\ NoKey # h
      BY <1>6, RegistryConstants
    <3>3. QED
      BY <1>1, <1>2, <1>7, <3>1, <3>2 DEF TypeOK
  <2>2. ASSUME NEW h \in Key, NEW b \in TwId PROVE owner'[h] = MaxConnCnt + b <=> tw_peer'[b] = h
    <3>1. /\ owner[h] = MaxConnCnt + b <=> tw_peer[b] = h
          /\ owner[k] = MaxConnCnt + b <=> tw_peer[b] = k
          /\ owner[h] = MaxConnCnt + j <=> tw_peer[j] = h
      BY <1>1, <1>6 DEF OwnersAgree
    <3>2. /\ i # MaxConnCnt + b /\ (MaxConnCnt + b = MaxConnCnt + j => b = j)
          /\ tw_peer[j] = NoKey /\ NoKey # h
      BY <1>6, RegistryConstants DEF FreeTws
    <3>3. QED
      BY <1>1, <1>2, <1>6, <1>7, <3>1, <3>2 DEF TypeOK
  <2>3. QED
    BY <2>1, <2>2 DEF OwnersAgree
<1>13. QED
  BY <1>9, <1>10, <1>11, <1>12 DEF Inv, PoolsExact, Pool, FreeConns, FreeTws

\* The three invariants together are inductive.
LEMMA RegistryInductive == Spec => []Inv
<1>1. Init => Inv
  <2>1. SUFFICES ASSUME Init PROVE Inv
    OBVIOUS
  <2>2. TypeOK /\ OwnersAgree
    <3>1. TypeOK
      BY <2>1, RegistryConstants DEF Init, TypeOK
    <3>2. OwnersAgree
      BY <2>1, RegistryConstants DEF Init, OwnersAgree
    <3>3. QED
      BY <3>1, <3>2
  <2>3. PoolsExact
    BY <2>1, RegistryConstants DEF Init, PoolsExact, ConnId, TwId
  <2>4. QED
    BY <2>2, <2>3 DEF Inv
<1>2. Inv /\ [Next]_vars => Inv'
  <2>1. SUFFICES ASSUME Inv, [Next]_vars PROVE Inv'
    OBVIOUS
  <2>2. CASE \E k \in Key : Open(k)
    BY <2>1, <2>2, OpenInv
  <2>3. CASE \E i \in ConnId : Close(i)
    BY <2>1, <2>3, CloseInv
  <2>4. CASE \E i \in ConnId : EnterTW(i)
    BY <2>1, <2>4, EnterTWInv
  <2>5. CASE \E j \in TwId : LeaveTW(j)
    BY <2>1, <2>5, LeaveTWInv
  <2>6. CASE UNCHANGED vars
    BY <2>1, <2>6 DEF Inv, TypeOK, OwnersAgree, PoolsExact, vars
  <2>7. QED
    BY <2>1, <2>2, <2>3, <2>4, <2>5, <2>6 DEF Next
<1>3. QED
  BY <1>1, <1>2, PTL DEF Spec

\* The map and the connections always agree: a key that is looked up is owned by the
\* connection, or the TIME_WAIT record, that is open for it, and by no other.
THEOREM OwnersAlwaysAgree == Spec => [](TypeOK /\ OwnersAgree)
<1>1. Inv => TypeOK /\ OwnersAgree
  BY DEF Inv
<1>2. QED
  BY <1>1, RegistryInductive, PTL

\* No identifier is handed out while it is in use, and none is ever lost.
THEOREM PoolsStayExact == Spec => []PoolsExact
<1>1. Inv => PoolsExact
  BY DEF Inv
<1>2. QED
  BY <1>1, RegistryInductive, PTL
=============================================================================
