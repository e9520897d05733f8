SPECIFICATION FairSpec
CONSTANTS
    Threads = {io, app}
    Io = io
    Senders = {app}
    Pumps = {p1, p2}
    Pool = pool
    PeerType = "Server"
    LineLen = 1
    HeadLen = 2
    BodyLens = {0, 1}
    BuffSize = 2
    MaxMsgs = 3
INVARIANTS TypeOK SinglePump FlagHonest WireInOrder CloseWhenDrained
PROPERTY EventuallyDelivered
CHECK_DEADLOCK FALSE
