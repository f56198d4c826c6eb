\* Two clients: the second is turned away, or comes after the first.
CONSTANTS
    Conn = {c1, c2}
    USER_RX_LIMIT = 1
    USER_TX_LIMIT = 1
SPECIFICATION FairSpec
CHECK_DEADLOCK FALSE
INVARIANT BusyExact
INVARIANT RxWithinSession
PROPERTY SessionEnds
