SPECIFICATION Spec
CONSTANTS
    Threads = {io}
    Io = io
    Senders = {io}
    Pumps = {p1, p2}
    Pool = pool
    PeerType = "Client"
    LineLen = 1
    HeadLen = 2
    BodyLens = {0, 1}
    BuffSize = 2
    MaxMsgs = 2
INVARIANT FlagMeansSending
CHECK_DEADLOCK FALSE
