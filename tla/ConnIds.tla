------------------------------ MODULE ConnIds ------------------------------
(***************************************************************************)
(* The peers of a Core (src/efvitcp/Core.h) and its identifiers: those     *)
(* below MaxConnCnt are of connections, the others of TIME_WAIT records.   *)
(***************************************************************************)
EXTENDS Integers

CONSTANTS Key,                   \* hash keys of the peers
          MaxConnCnt,
          MaxTimeWaitConnCnt

ASSUME ConnIdsAssumption ==
  /\ Key \subseteq Nat
  /\ MaxConnCnt \in Nat \ {0}
  /\ MaxTimeWaitConnCnt \in Nat

NoId == -1
NoKey == -1
ConnId == 0 .. MaxConnCnt - 1
TwId == 0 .. MaxTimeWaitConnCnt - 1
=============================================================================
