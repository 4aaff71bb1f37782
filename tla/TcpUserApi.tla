----------------------------- MODULE TcpUserApi -----------------------------
(***************************************************************************)
(* What a TCP client of the library promises its user, whichever of        *)
(* SocketTcpClient, TcpdirectTcpClient and EfviTcpClient it is             *)
(* ("providing the same interface as its Socket counterparts",             *)
(* README.md:4): when it connects, and which of its callbacks follow each  *)
(* other.                                                                  *)
(***************************************************************************)
EXTENDS Integers

CONSTANT ReportsClose   \* whether a close by the user is reported to it, too

VARIABLES auto,       \* ConnRetrySec is not 0
          allowed,    \* the next attempt may be made
          phase,      \* "idle", "trying", "open", or "closed" and not reported yet
          sessions    \* onTcpConnected calls less the ends the user knows of

apiVars == <<auto, allowed, phase, sessions>>

Init ==
  /\ auto \in BOOLEAN /\ allowed = TRUE
  /\ phase = "idle" /\ sessions = 0

\* "set to 0 to disable auto reconnect and manually call allowReconnect() to
\* reconnect one time" (README.md:39).  The attempt may fail at once.
Attempt ==
  /\ phase = "idle" /\ allowed /\ allowed' = auto
  /\ phase' \in {"trying", "idle"}
  /\ UNCHANGED <<auto, sessions>>

AllowReconnect ==
  allowed' = TRUE /\ UNCHANGED <<auto, phase, sessions>>

\* onTcpConnectFailed.
Fail ==
  phase = "trying" /\ phase' = "idle" /\ UNCHANGED <<auto, allowed, sessions>>

\* onTcpConnected, in which the user may close the connection.
Connected ==
  /\ phase = "trying" /\ phase' \in {"open", "closed"}
  /\ sessions' = sessions + 1
  /\ UNCHANGED <<auto, allowed>>

\* The connection is closed, by whomever.
End ==
  phase = "open" /\ phase' = "closed" /\ UNCHANGED <<auto, allowed, sessions>>

\* onTcpDisconnect.
Disconnect ==
  /\ phase \in {"open", "closed"} /\ phase' = "idle"
  /\ sessions' = sessions - 1
  /\ UNCHANGED <<auto, allowed>>

\* A close by the user that is not reported.
UserClose ==
  /\ ~ReportsClose /\ phase = "open" /\ phase' = "idle"
  /\ sessions' = sessions - 1
  /\ UNCHANGED <<auto, allowed>>

Next == Attempt \/ AllowReconnect \/ Fail \/ Connected \/ End \/ Disconnect \/ UserClose

Spec == Init /\ [][Next]_apiVars
=============================================================================
