----------------------------- MODULE MCMapState -----------------------------
(***************************************************************************)
(* Small instances of MapState: three nodes' worth of records, two-bit     *)
(* addresses, and rules with a CIDR, a range, ports and protocols.         *)
(***************************************************************************)
EXTENDS MapState

NodeRec(id, key, disco, home, addr, nets) ==
    [id |-> id, key |-> key, disco |-> disco, home |-> home, addr |-> addr, nets |-> nets]

\* Node 1 restarts with another disco key or moves to another region; node 2
\* may advertise a subnet that holds node 1's address, and a default route.
MCNode ==
    {NodeRec(1, "k1", "d1", 1, 1, {}), NodeRec(1, "k1", "e1", 1, 1, {}),
     NodeRec(1, "k1", "d1", 2, 1, {}),
     NodeRec(2, "k2", None, 1, 2, {}), NodeRec(2, "k2", "d2", 1, 2, {<<1, 1>>, <<0, 0>>})}

\* Node 1 with another node key.
MCRekeyed == MCNode \cup {NodeRec(1, "k3", "d3", 1, 1, {})}

Cidr(a, bits) == [kind |-> "cidr", net |-> <<a, bits>>]
Dst(set, first, last) == [set |-> set, first |-> first, last |-> last]
Rule1 == [srcs |-> {Cidr(1, 1), [kind |-> "bad"]}, dsts |-> {Dst(Cidr(3, 2), 1, 1)},
          protos |-> {"tcp"}]
Rule2 == [srcs |-> {[kind |-> "range", first |-> 1, last |-> 2]},
          dsts |-> {Dst(Cidr(2, 1), 0, 0)}, protos |-> {}]
MCRuleList == {{Rule1}, {Rule2}}
=============================================================================
