\* One connection, two threads that use it, and buffers that fill up at once.
CONSTANTS
    Conn = {c1}
    Thread = {t1, t2}
    INBOUND_LIMIT = 2
    SOCK_BUF = 1
    USER_RX_LIMIT = 2
    USER_TX_LIMIT = 2
    MaxSent = 3
SPECIFICATION FairSpec
INVARIANT NoLostWakeup
 
 
PROPERTY CloseNoticed
