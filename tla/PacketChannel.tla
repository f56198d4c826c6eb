---------------------------- MODULE PacketChannel ----------------------------
(***************************************************************************)
(* What a pair of tunnels promises to the IP stacks above it: a channel    *)
(* that may lose and reorder packets, and never repeats or invents one.    *)
(* Module Tunn is shown to implement it.                                   *)
(***************************************************************************)
EXTENDS Naturals

CONSTANTS A, B, Packet

Node == {A, B}
Peer(n) == IF n = A THEN B ELSE A

VARIABLES given,      \* the packets each node handed over to be sent
          delivered   \* how often each packet came out at each node

vars == <<given, delivered>>

Init ==
    /\ given = [n \in Node |-> {}]
    /\ delivered = [n \in Node |-> [p \in Packet |-> 0]]

Send(n, p) ==
    /\ p \notin given[A] \cup given[B]
    /\ given' = [given EXCEPT ![n] = @ \cup {p}]
    /\ UNCHANGED delivered

Deliver(n, p) ==
    /\ p \in given[Peer(n)]
    /\ delivered[n][p] = 0
    /\ delivered' = [delivered EXCEPT ![n][p] = 1]
    /\ UNCHANGED given

Next == \E n \in Node : \E p \in Packet : Send(n, p) \/ Deliver(n, p)

Spec == Init /\ [][Next]_vars
=============================================================================
