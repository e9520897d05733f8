SPECIFICATION Spec
CONSTANTS
    m0 = m0
    m1 = m1
    m2 = m2
    m3 = m3
    Msgs = {m0, m1, m2, m3}
    Size <- Lengths
PROPERTY ImplementsByteStream
CHECK_DEADLOCK FALSE
