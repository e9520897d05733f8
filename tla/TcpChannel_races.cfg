SPECIFICATION Spec
CONSTANTS
    Apps = {app}
    ConnectTimer = TRUE
    RecvTimer = TRUE
    EarlyClose = TRUE
INVARIANT ClosedAtMostOnce
CHECK_DEADLOCK FALSE
