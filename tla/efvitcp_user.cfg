SPECIFICATION Spec
CONSTANTS
  Roles = {"client", "server"}
  ConnRetrySec = {0, 1}
  SendTimeoutSec = 2
  RecvTimeoutSec = 3
  MaxConns = 2
INVARIANTS EndsClean TimeoutsTrue
PROPERTIES ImplementsApi SilenceNoticed
