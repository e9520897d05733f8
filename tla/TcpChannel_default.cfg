SPECIFICATION FairSpec
CONSTANTS
    Apps = {app1, app2}
    ConnectTimer = FALSE
    RecvTimer = FALSE
    EarlyClose = FALSE
INVARIANTS TypeOK NoOrphanConnection DestroyedDisconnected
PROPERTIES RemovedIsDestroyed
CHECK_DEADLOCK FALSE
