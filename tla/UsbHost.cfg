\* Three plug-ins: a device leaves, the next one is opened while the write to
\* the first is still in flight, and a third one shows how that ends.
CONSTANTS
    Kind = {cdc, ftdi}
    Ftdi = ftdi
    RX_QUEUE_LIMIT = 2
    MaxPlugs = 3
SPECIFICATION FairSpec
CHECK_DEADLOCK FALSE
INVARIANT HandleOwned
INVARIANT UsedHandleOpen
INVARIANT RxClean
PROPERTY Recovers
