SPECIFICATION FairSpec
CONSTANTS
    Srv = srv
    Clients = {c1, c2}
    Loops = {l1, l2}
    Apps = {a1}
    Nobody = nobody
INVARIANTS TypeOK ServerAccepts SessionsFound
PROPERTIES ClosedServerStops UnknownIsDropped
CHECK_DEADLOCK FALSE
