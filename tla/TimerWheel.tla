----------------------------- MODULE TimerWheel -----------------------------
(***************************************************************************)
(* The two-level timer wheel of Core (src/efvitcp/Core.h): addTimer,       *)
(* TimerNode::unlink and pollTime.                                         *)
(*                                                                         *)
(* A node is in the list of one slot of one wheel, in the list pollTime    *)
(* detaches (dump_slot), or in none.  Only membership is modelled, not the *)
(* order within a list.  The clock is a uint32_t: it wraps at Wrap.        *)
(*                                                                         *)
(* addTimer is called on unlinked nodes only; for the resend timer, where  *)
(* the source does not test it, this is property NeverRelinked of module   *)
(* EfviTcp.                                                                *)
(***************************************************************************)
EXTENDS Integers

CONSTANTS Timer,         \* the timer nodes
          TimerSlots,    \* slots of each wheel, 256
          Wrap,          \* 2^32
          MaxDuration    \* longest duration a caller asks for

ASSUME TimerWheelAssumption ==
  /\ TimerSlots \in Nat \ {0, 1}
  /\ Wrap \in Nat
  /\ \E k \in 2 .. Wrap : Wrap = k * (TimerSlots * TimerSlots)
  /\ MaxDuration \in 1 .. Wrap - 1

VARIABLES now_ts,
          list,       \* the list each node is in
          slot,       \* and the slot of that list
          expire_ts

vars == <<now_ts, list, slot, expire_ts>>

Slot == 0 .. TimerSlots - 1
Time == 0 .. Wrap - 1

Init ==
  /\ now_ts \in Time
  /\ list = [t \in Timer |-> "none"]
  /\ slot = [t \in Timer |-> 0]
  /\ expire_ts = [t \in Timer |-> 0]

\* The longest duration that the long wheel takes, Core.h:690.
Longest(now) == TimerSlots * (TimerSlots + 1) - 1 - (now % TimerSlots)

\* Mutant: the clamp is a tick late.
ClampLate(d, now) == IF d <= Longest(now) + 1 THEN d ELSE Longest(now) + 1

Clamp(d, now) == IF d <= Longest(now) THEN d ELSE Longest(now)

\* Where addTimer puts a node at time now.
ShortSlot(d, now) == ((now + d) % Wrap) % TimerSlots
Expiry(d, now) == (now + Clamp(d, now)) % Wrap
LongSlot(ts) == (ts \div TimerSlots) % TimerSlots

AddTimer(t, d) ==
  /\ list[t] = "none"
  /\ IF d <= TimerSlots
     THEN /\ list' = [list EXCEPT ![t] = "short"]
          /\ slot' = [slot EXCEPT ![t] = ShortSlot(d, now_ts)]
          /\ UNCHANGED expire_ts
     ELSE /\ list' = [list EXCEPT ![t] = "long"]
          /\ expire_ts' = [expire_ts EXCEPT ![t] = Expiry(d, now_ts)]
          /\ slot' = [slot EXCEPT ![t] = LongSlot(expire_ts'[t])]
  /\ UNCHANGED now_ts

\* TimerNode::unlink, by setUserTimer, updateLastAck, onClose, an acknowledgement
\* of new data or a reset in TIME_WAIT.
Unlink(t) ==
  /\ list[t] # "none"
  /\ list' = [list EXCEPT ![t] = "none"]
  /\ slot' = [slot EXCEPT ![t] = 0]
  /\ UNCHANGED <<now_ts, expire_ts>>

\* pollTime, lines 720-741: one tick.  At the turn of the short wheel the nodes of
\* a long slot move to the short wheel, by addTimer with what is left to go;
\* then the nodes of the current short slot are detached.
\* Mutant: the slot of the short wheel is swept.
CascadesWrongSlot(t, now) ==
  /\ now % TimerSlots = 0
  /\ list[t] = "long" /\ slot[t] = now % TimerSlots

Cascades(t, now) ==
  /\ now % TimerSlots = 0
  /\ list[t] = "long" /\ slot[t] = LongSlot(now)
Remaining(t, now) == (expire_ts[t] - now) % Wrap
TickSlot(t, now) ==
  IF Cascades(t, now) THEN ShortSlot(Remaining(t, now), now) ELSE slot[t]
Detached(t, now) ==
  /\ list[t] = "short" \/ Cascades(t, now)
  /\ TickSlot(t, now) = now % TimerSlots

Tick ==
  LET now == (now_ts + 1) % Wrap
  IN  /\ \A t \in Timer : list[t] # "dump"
      /\ now_ts' = now
      /\ slot' = [t \in Timer |-> IF Detached(t, now) THEN 0 ELSE TickSlot(t, now)]
      /\ list' = [t \in Timer |-> IF Detached(t, now) THEN "dump"
                                 ELSE IF Cascades(t, now) THEN "short" ELSE list[t]]
      /\ UNCHANGED expire_ts

\* pollTime, lines 742-750: a detached node is unlinked and handed to its handler,
\* which may link or unlink nodes before the next one is handed out.
Fire(t) ==
  /\ list[t] = "dump"
  /\ list' = [list EXCEPT ![t] = "none"]
  /\ UNCHANGED <<now_ts, slot, expire_ts>>

Next ==
  \/ Tick
  \/ \E t \in Timer : \/ Unlink(t) \/ Fire(t)
                      \/ \E d \in 1 .. MaxDuration : AddTimer(t, d)

Spec == Init /\ [][Next]_vars

\* poll() is called again and again while the clock goes on.
FairSpec == Spec /\ WF_vars(Tick) /\ \A t \in Timer : WF_vars(Fire(t))

-----------------------------------------------------------------------------
(* Properties. *)

TypeOK ==
  /\ now_ts \in Time
  /\ list \in [Timer -> {"none", "short", "long", "dump"}]
  /\ slot \in [Timer -> Slot]
  /\ expire_ts \in [Timer -> Time]

\* A node of the long wheel is in the slot of its expiry, in a later turn of the
\* short wheel than the current one, and at most TimerSlots turns ahead: its slot
\* comes round exactly once before it is due.
LongPlaced ==
  \A t \in Timer : list[t] = "long" =>
    /\ slot[t] = LongSlot(expire_ts[t])
    /\ Remaining(t, now_ts) >= TimerSlots - (now_ts % TimerSlots)
    /\ Remaining(t, now_ts) <= Longest(now_ts)

\* A node that moves to the short wheel has less than a turn to go (the debug
\* build exits otherwise, Core.h:725); more would be linked into the slot that
\* pollTime is about to empty, and lost.
CascadeInRange ==
  LET now == (now_ts + 1) % Wrap
  IN  \A t \in Timer : Cascades(t, now) => Remaining(t, now) < TimerSlots

\* Ticks to go, read off the wheel.
Left(t) ==
  CASE list[t] = "none"  -> -1
    [] list[t] = "dump"  -> 0
    [] list[t] = "short" -> 1 + ((slot[t] - now_ts - 1) % TimerSlots)
    [] list[t] = "long"  -> Remaining(t, now_ts)

TS == INSTANCE TimerService
        WITH left <- [t \in Timer |-> Left(t)], Exact <- TimerSlots * TimerSlots

\* The wheel keeps the promise of TimerService: the ticks to go, read off the wheel,
\* count down one by one, and a timer is handed out when none is left, across
\* turns of both wheels and the wrap of the clock.
OnTime == TS!Spec

\* addTimer sets a timer for the duration asked for, exactly up to the square of
\* TimerSlots; with OnTime, it fires at the very tick it was set for.
SetAsAsked ==
  [][\A t \in Timer, d \in 1 .. MaxDuration : AddTimer(t, d) => TS!Set(t, d)]_vars

\* A timer that is set is handed to its handler or cancelled.
EventuallyFires == \A t \in Timer : (list[t] # "none") ~> (list[t] = "none")
=============================================================================
