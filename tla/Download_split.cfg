SPECIFICATION Spec
CONSTANTS
    Requests <- ToTheEnd
    Conns <- FittingConns
    Sizes <- LargeSizes
    Word = 65536
    MaxRedirects = 2
INVARIANTS TypeOK SegmentsExact
CHECK_DEADLOCK FALSE
