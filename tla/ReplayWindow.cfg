\* Three words of two bits: the window spans four counters, so the fourteen
\* counters go round the ring more than twice.
CONSTANTS
    WordBits = 2
    REPLAY_WORDS = 3
    MaxCounter = 13
SPECIFICATION Spec
INVARIANT WindowExact
PROPERTY AcceptedOnce
