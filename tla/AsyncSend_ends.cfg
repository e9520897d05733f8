SPECIFICATION FairSpec
CONSTANTS
    m0 = m0
    m1 = m1
    m2 = m2
    m3 = m3
    Msgs = {m0, m1, m2, m3}
    Size <- Lengths
PROPERTIES
    SendEnds
    StreamButForRests
CHECK_DEADLOCK FALSE
