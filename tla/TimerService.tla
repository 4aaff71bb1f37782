---------------------------- MODULE TimerService ----------------------------
(***************************************************************************)
(* What the timers of efvitcp promise to their users: a timer set for d    *)
(* ticks is handed out by poll() at the d-th tick, unless it is cancelled. *)
(* The promise is exact up to Exact ticks (src/efvitcp/README.md: "the     *)
(* maximum possible duration is 65000"); a longer one may come earlier,    *)
(* never before Exact.                                                     *)
(***************************************************************************)
EXTENDS Integers

CONSTANTS Timer, Exact, MaxDuration

VARIABLE left   \* ticks to go; Due when it is to be handed out, Off when not set

Off == -1
Due == 0

Init == left = [t \in Timer |-> Off]

Set(t, d) ==
  /\ left[t] = Off
  /\ \E r \in 1 .. MaxDuration :
       /\ r = d \/ (d > Exact /\ r >= Exact /\ r <= d)
       /\ left' = [left EXCEPT ![t] = r]

Cancel(t) == left[t] # Off /\ left' = [left EXCEPT ![t] = Off]

Tick ==
  /\ \A t \in Timer : left[t] # Due
  /\ left' = [t \in Timer |-> IF left[t] = Off THEN Off ELSE left[t] - 1]

HandOut(t) == left[t] = Due /\ left' = [left EXCEPT ![t] = Off]

Next ==
  \/ Tick
  \/ \E t \in Timer : \/ Cancel(t) \/ HandOut(t)
                      \/ \E d \in 1 .. MaxDuration : Set(t, d)

Spec == Init /\ [][Next]_left
=============================================================================
