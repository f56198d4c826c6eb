------------------------------ MODULE MapState ------------------------------
(***************************************************************************)
(* The network map as the node keeps it: handle_map_response (node.rs)     *)
(* takes the fields of a response one after the other and updates the peer *)
(* table and its three indexes (magicsock.rs) and the packet filter        *)
(* (filter.rs), while other threads use them and the tunnels change their  *)
(* session indices.  Addresses have Width bits; routes and rules are       *)
(* matched on them with the masks of cidr_contains.                        *)
(*                                                                         *)
(* External: control.  `control' and `acl' are what it has last sent or is *)
(* sending; a new stream starts with everything, later responses carry the *)
(* difference.                                                             *)
(***************************************************************************)
EXTENDS Integers, FiniteSets

CONSTANTS
    Node,           \* node records control may list: [id, key, disco, home, addr, nets]
    Index,          \* session indices
    Width,          \* bits of an address
    RuleList,       \* lists of rules (as sets) that control may send
    Name,           \* names of filter sets, Star (the legacy field) among them
    Star,
    NamedFirst,     \* a new stream starts with the named sets, not the legacy field
    MaxIndices,     \* pending, current and previous session
    None, Same      \* absent; not mentioned

Id == {n.id : n \in Node}
Key == {n.key : n \in Node}
Disco == {n.disco : n \in Node} \ {None}
Home == {n.home : n \in Node}
Address == 0 .. 2^Width - 1
Net == Address \X (0 .. Width)

PeerRec == [disco : Disco \cup {None}, home : Home, nets : SUBSET Net]

\* No two nodes share a node key or a disco key.
ASSUME NodesAssumption ==
    /\ \A n, m \in Node : n.key = m.key => n.id = m.id
    /\ \A n, m \in Node : n.disco = m.disco /\ n.disco # None => n.key = m.key
    /\ Width \in Nat
    /\ \A n \in Node : n.nets \subseteq Net /\ n.addr \in Address
    /\ None \notin Key /\ None \notin PeerRec
    /\ Star \in Name

\* A set of addresses in a rule, as IpSet::parse reads it; "bad" does not parse.
IpSet == [kind : {"cidr"}, net : Net] \cup [kind : {"range"}, first : Address, last : Address]
           \cup [kind : {"bad"}]
Proto == {"tcp", "udp", "icmp", "other"}
Port == 0 .. 1
Rule == [srcs : SUBSET IpSet, dsts : SUBSET [set : IpSet, first : Port, last : Port],
         protos : SUBSET Proto]

VARIABLES
    control, acl,   \* what control has sent: its nodes, its rule lists by name
    starting,       \* the next response is the first of a stream
    resp,           \* what is left of the response being handled, or None
    nodes_by_id,
    peers,          \* State::peers: None, or [disco, home, nets]
    indices,        \* local_indices of the peer's tunnel
    by_disco, by_index,
    filter_sets, filter

controlVars == <<control, acl, starting, resp>>
peerVars == <<nodes_by_id, peers, indices, by_disco, by_index>>
filterVars == <<filter_sets, filter>>
vars == <<controlVars, peerVars, filterVars>>

Init ==
    /\ control = {}
    /\ acl = [x \in Name |-> None]
    /\ starting = TRUE
    /\ resp = None
    /\ nodes_by_id = [id \in Id |-> None]
    /\ peers = [k \in Key |-> None]
    /\ indices = [k \in Key |-> {}]
    /\ by_disco = [d \in Disco |-> None]
    /\ by_index = [i \in Index |-> None]
    /\ filter_sets = [x \in Name |-> None]
    /\ filter = None

-----------------------------------------------------------------------------
(* Control *)

\* What control may list at one time: every node once.
Maps == {S \in SUBSET Node : \A n, m \in S : n.id = m.id => n = m}

\* What a response says of the rules: nothing, the legacy field, or some of
\* the named sets (a null deletes).  Same stands for a name that is not mentioned.
Silent == [x \in Name |-> Same]
NamedRules == {r \in [Name -> RuleList \cup {None, Same}] :
                 Cardinality({x \in Name : r[x] # Same}) <= 1}
\* The rules then in force.
InForce(legacy, named) ==
    [x \in Name |-> IF named[x] # Same THEN named[x]
                    ELSE IF legacy = None THEN acl[x]
                    ELSE IF x = Star THEN legacy ELSE None]

\* A node that changed only where a PeerChange can say so.
Patchable(n) == \E m \in control : /\ n.id = m.id /\ n.key = m.key /\ n.nets = m.nets
                                   /\ n.addr = m.addr /\ n.disco # None

Rules == RuleList \cup {None, Same}
Resp == [peers : Maps \cup {None}, changed : Maps, removed : SUBSET Id,
         patches : {S \in Maps : \A n \in S : n.disco # None},
         legacy : Rules, named : [Name -> Rules]]

\* Neither a response nor a list of nodes in it stands for an absent one.
ASSUME ResponsesAssumption == None \notin Resp /\ \A S \in Maps : S # None

Response(full, changed, removed, patches, legacy, named) ==
    resp' = [peers |-> full, changed |-> changed, removed |-> removed,
             patches |-> patches, legacy |-> legacy, named |-> named]

\* The first response of a stream.
FullResponse(new, rules) ==
    /\ resp = None /\ starting
    /\ control' = new /\ starting' = FALSE
    /\ acl' = [x \in Name |-> IF x = Star THEN rules ELSE None]
    /\ Response(new, {}, {}, {}, IF NamedFirst THEN None ELSE rules,
                IF NamedFirst THEN [Silent EXCEPT ![Star] = rules] ELSE Silent)
    /\ UNCHANGED <<peerVars, filterVars>>

\* A later one: what changed among the nodes, or among the rules.
DeltaResponse(new, patched, legacy, named) ==
    LET differ == new \ control IN
    /\ resp = None /\ ~starting
    /\ patched \subseteq differ /\ \A n \in patched : Patchable(n)
    /\ control' = new
    /\ acl' = InForce(legacy, named)
    /\ Response(None, differ \ patched, {m.id : m \in control} \ {n.id : n \in new},
                patched, legacy, named)
    /\ UNCHANGED <<starting, peerVars, filterVars>>

\* The map stream ends; the next one starts anew.
StreamEnds ==
    /\ resp = None /\ ~starting
    /\ starting' = TRUE
    /\ UNCHANGED <<control, acl, resp, peerVars, filterVars>>

-----------------------------------------------------------------------------
(* The peer table *)

Present(k) == peers[k] # None

\* apply_node: prefixes of length 0 are left out.
ApplyNode(n) == [disco |-> n.disco, home |-> n.home,
                 nets |-> {c \in n.nets \cup {<<n.addr, Width>>} : c[2] # 0}]

NodeWith(nodes, k) == CHOOSE n \in nodes : n.key = k
Keys(nodes) == {n.key : n \in nodes}
DiscoOwner(nodes, d) == (CHOOSE n \in nodes : n.disco = d).key
Discos(nodes) == {n.disco : n \in nodes}

\* handle_map_response on `peers', and set_peers.
SetPeers(nodes) ==
    /\ nodes_by_id' = [id \in Id |-> IF \E n \in nodes : n.id = id
                                       THEN (CHOOSE n \in nodes : n.id = id).key
                                       ELSE None]
    /\ peers' = [k \in Key |-> IF k \in Keys(nodes) THEN ApplyNode(NodeWith(nodes, k))
                               ELSE None]
    /\ indices' = [k \in Key |-> IF k \in Keys(nodes) THEN indices[k] ELSE {}]
    /\ by_disco' = [d \in Disco |-> IF d \in Discos(nodes) THEN DiscoOwner(nodes, d)
                                    ELSE None]
    /\ by_index' = [i \in Index |-> IF \E k \in Keys(nodes) : i \in indices[k]
                                      THEN CHOOSE k \in Keys(nodes) : i \in indices[k]
                                      ELSE None]

\* The same on `peers_changed': a peer that is known keeps its tunnel.
PeersChanged(nodes) ==
    /\ nodes_by_id' = [id \in Id |-> IF \E n \in nodes : n.id = id
                                       THEN (CHOOSE n \in nodes : n.id = id).key
                                       ELSE nodes_by_id[id]]
    /\ peers' = [k \in Key |-> IF k \in Keys(nodes) THEN ApplyNode(NodeWith(nodes, k))
                               ELSE peers[k]]
    /\ by_disco' = [d \in Disco |->
                      IF d \in Discos(nodes) THEN DiscoOwner(nodes, d)
                      ELSE IF \E k \in Keys(nodes) : Present(k) /\ peers[k].disco = d
                        THEN None
                      ELSE by_disco[d]]
    /\ UNCHANGED <<indices, by_index>>

\* Mutant of PeersRemoved: the session indices stay behind.
RemovedKeepsIndices(ids) ==
    LET gone == {nodes_by_id[id] : id \in ids} IN
    /\ peers' = [k \in Key |-> IF k \in gone THEN None ELSE peers[k]]
    /\ indices' = [k \in Key |-> IF k \in gone THEN {} ELSE indices[k]]
    /\ by_disco' = [d \in Disco |-> IF by_disco[d] \in gone THEN None ELSE by_disco[d]]
    /\ nodes_by_id' = [id \in Id |-> IF id \in ids THEN None ELSE nodes_by_id[id]]
    /\ UNCHANGED by_index

\* Mutant of PeersRemoved: the ids are looked up after they were deleted.
RemovedLooksUpLate(ids) ==
    /\ nodes_by_id' = [id \in Id |-> IF id \in ids THEN None ELSE nodes_by_id[id]]
    /\ UNCHANGED <<peers, indices, by_disco, by_index>>

\* On `peers_removed': the ids are looked up in the table as it was before.
PeersRemoved(ids) ==
    LET gone == {nodes_by_id[id] : id \in ids} IN
    /\ peers' = [k \in Key |-> IF k \in gone THEN None ELSE peers[k]]
    /\ indices' = [k \in Key |-> IF k \in gone THEN {} ELSE indices[k]]
    /\ by_disco' = [d \in Disco |->
                      IF \E k \in Key \cap gone : Present(k) /\ peers[k].disco = d
                        THEN None ELSE by_disco[d]]
    /\ by_index' = [i \in Index |-> IF by_index[i] \in gone THEN None ELSE by_index[i]]
    /\ nodes_by_id' = [id \in Id |-> IF id \in ids THEN None ELSE nodes_by_id[id]]

\* apply_patches: the disco key and the home region of a known peer.
ApplyPatches(patches) ==
    LET at(k) == {n \in patches : nodes_by_id[n.id] = k}
        hit == {k \in Key : Present(k) /\ at(k) # {}}
        patch(k) == CHOOSE n \in patches : n \in at(k)
    IN /\ peers' = [k \in Key |->
                      IF k \in hit THEN [peers[k] EXCEPT !.disco = patch(k).disco,
                                                         !.home = patch(k).home]
                      ELSE peers[k]]
       /\ by_disco' = [d \in Disco |->
                         IF \E k \in hit : patch(k).disco = d
                           THEN CHOOSE k \in hit : patch(k).disco = d
                         ELSE IF \E k \in hit : peers[k].disco = d THEN None
                         ELSE by_disco[d]]
       /\ UNCHANGED <<nodes_by_id, indices, by_index>>

-----------------------------------------------------------------------------
(* The fields of a response, one after the other *)

HandlePeers ==
    /\ resp # None /\ resp.peers # None
    /\ SetPeers(resp.peers)
    /\ resp' = [resp EXCEPT !.peers = None]
    /\ UNCHANGED <<control, acl, starting, filterVars>>

HandleChanged ==
    /\ resp # None /\ resp.peers = None /\ resp.changed # {}
    /\ PeersChanged(resp.changed)
    /\ resp' = [resp EXCEPT !.changed = {}]
    /\ UNCHANGED <<control, acl, starting, filterVars>>

HandleRemoved ==
    /\ resp # None /\ resp.peers = None /\ resp.changed = {} /\ resp.removed # {}
    /\ PeersRemoved(resp.removed)
    /\ resp' = [resp EXCEPT !.removed = {}]
    /\ UNCHANGED <<control, acl, starting, filterVars>>

NodesDone == resp.peers = None /\ resp.changed = {} /\ resp.removed = {}

HandlePatches ==
    /\ resp # None /\ NodesDone /\ resp.patches # {}
    /\ ApplyPatches(resp.patches)
    /\ resp' = [resp EXCEPT !.patches = {}]
    /\ UNCHANGED <<control, acl, starting, filterVars>>

\* Filter::compile of all sets together: entries that do not parse are dropped.
AllRules(sets) == UNION {sets[x] : x \in {y \in Name : sets[y] # None}}
Compile(r) == [srcs |-> {s \in r.srcs : s.kind # "bad"},
               dsts |-> {d \in r.dsts : d.set.kind # "bad"},
               protos |-> r.protos]

\* Neither a list of rules nor a compiled filter stands for an absent one.
ASSUME RulesAssumption ==
    /\ RuleList \subseteq SUBSET Rule
    /\ None \notin RuleList /\ Same \notin RuleList /\ None # Same
    /\ \A rules \in SUBSET UNION RuleList : {Compile(r) : r \in rules} # None

\* Mutant of Merged: a null entry deletes nothing.
NullKept(sets, legacy, named) ==
    [x \in Name |-> IF named[x] \notin {Same, None} THEN named[x]
                    ELSE IF legacy = None THEN sets[x]
                    ELSE IF x = Star THEN legacy ELSE None]

\* The legacy field replaces all sets, then the named ones are merged.
Merged(sets, legacy, named) ==
    LET base == IF legacy = None THEN sets
                ELSE [x \in Name |-> IF x = Star THEN legacy ELSE None]
    IN [x \in Name |-> IF named[x] = Same THEN base[x] ELSE named[x]]

\* If there was anything, the filter is compiled from what is left.
HandleFilter ==
    /\ resp # None /\ NodesDone /\ resp.patches = {}
    /\ filter_sets' = Merged(filter_sets, resp.legacy, resp.named)
    /\ filter' = IF resp.legacy # None \/ resp.named # Silent
                   THEN {Compile(r) : r \in AllRules(filter_sets')}
                   ELSE filter
    /\ resp' = None
    /\ UNCHANGED <<control, acl, starting, peerVars>>

-----------------------------------------------------------------------------
(* The other threads *)

\* refresh_indices.
Refreshed(k, current) ==
    [i \in Index |-> IF i \in current THEN k
                     ELSE IF by_index[i] = k THEN None ELSE by_index[i]]

\* A tunnel drops sessions or starts one, with an index no tunnel has (drawn at
\* random from 32 bits): encapsulate, tick, accept_initiation, consume_response.
TunnelChanges(k, kept, new) ==
    /\ Present(k)
    /\ kept \subseteq indices[k]
    /\ \A l \in Key : indices[l] \cap new = {}
    /\ Cardinality(new) <= 1 /\ Cardinality(kept \cup new) <= MaxIndices
    /\ indices' = [indices EXCEPT ![k] = kept \cup new]
    /\ by_index' = Refreshed(k, kept \cup new)
    /\ UNCHANGED <<controlVars, nodes_by_id, peers, by_disco, filterVars>>

\* consume_transport drops the previous session; the indices are not refreshed.
TransportConfirms(k, kept) ==
    /\ Present(k)
    /\ kept \subseteq indices[k]
    /\ indices' = [indices EXCEPT ![k] = kept]
    /\ UNCHANGED <<controlVars, nodes_by_id, peers, by_disco, by_index, filterVars>>

\* The node key is rotated: register, between two streams.
SetNodeKey ==
    /\ starting /\ resp = None
    /\ indices' = [k \in Key |-> {}]
    /\ by_index' = [i \in Index |-> None]
    /\ UNCHANGED <<controlVars, nodes_by_id, peers, by_disco, filterVars>>

Next ==
    \/ \E new \in Maps, rules \in RuleList : FullResponse(new, rules)
    \/ \E new \in Maps : \E patched \in SUBSET (new \ control) :
         DeltaResponse(new, patched, None, Silent)
    \/ \E legacy \in RuleList : DeltaResponse(control, {}, legacy, Silent)
    \/ \E named \in NamedRules : DeltaResponse(control, {}, None, named)
    \/ StreamEnds
    \/ HandlePeers \/ HandleChanged \/ HandleRemoved \/ HandlePatches \/ HandleFilter
    \/ \E k \in Key, kept \in SUBSET Index :
         \/ \E new \in SUBSET Index : TunnelChanges(k, kept, new)
         \/ TransportConfirms(k, kept)
    \/ SetNodeKey

Spec == Init /\ [][Next]_vars

-----------------------------------------------------------------------------
(* Routes and rules *)

\* cidr_contains: both addresses under the mask of the first `bits' bits.
Masked(a, bits) == a - (a % 2^(Width - bits))
CidrContains(net, ip) == Masked(net[1], net[2]) = Masked(ip, net[2])

\* What the proofs take from arithmetic.
ASSUME PowersAssumption == \A bits \in 0 .. Width : 2^bits > 0

\* route: the longest prefix; the first one met if several peers have it.
Matches(k, dst) == {c \in peers[k].nets : CidrContains(c, dst)}
Shortest(dst) ==     \* Mutant of Longest.
    LET lens == {c[2] : c \in UNION {Matches(k, dst) : k \in {l \in Key : Present(l)}}}
    IN CHOOSE b \in lens : \A a \in lens : b <= a
Longest(dst) ==
    LET lens == {c[2] : c \in UNION {Matches(k, dst) : k \in {l \in Key : Present(l)}}}
    IN CHOOSE b \in lens : \A a \in lens : a <= b
Route(dst) == {k \in Key : Present(k) /\ \E c \in Matches(k, dst) : c[2] = Longest(dst)}

\* allowed_source.
AllowedSource(k, src) == Matches(k, src) # {}

\* allows_tuple: IpSet::contains on a CIDR or a range, proto_allowed.
IpSetContains(set, ip) ==
    IF set.kind = "cidr" THEN CidrContains(set.net, ip) ELSE ip \in set.first .. set.last
ProtoAllowed(rule, proto) ==
    IF rule.protos = {} THEN proto \in {"tcp", "udp", "icmp"} ELSE proto \in rule.protos
AllowsTuple(rules, t) ==
    \/ t.proto = "tcp" /\ t.established
    \/ \E r \in rules :
         /\ ProtoAllowed(r, t.proto)
         /\ \E s \in r.srcs : IpSetContains(s, t.src)
         /\ \E d \in r.dsts : /\ IpSetContains(d.set, t.dst)
                              /\ t.proto \in {"tcp", "udp"} => t.port \in d.first .. d.last

\* A packet that a tunnel accepted goes on to the netstack.
Admits(t) == filter # None /\ AllowsTuple(filter, t)

-----------------------------------------------------------------------------
(* Properties *)

\* A response has been taken over as a whole.
Synced == resp = None /\ ~starting

\* The indexes agree with the peer table at every moment, whatever thread looks:
\* a session index leads to the peer whose tunnel has it, no index leads to a
\* peer that is gone (handle_packet would drop its packets), and a disco key
\* leads to exactly the peer that has it.
TablesExact ==
    /\ \A k \in Key : \A i \in indices[k] : Present(k) /\ by_index[i] = k
    /\ \A i \in Index : by_index[i] # None => by_index[i] \in Key /\ Present(by_index[i])
    /\ \A d \in Disco, k \in Key :
         by_disco[d] = k <=> Present(k) /\ peers[k].disco = d

\* After each response the node knows the peers control has listed, no other
\* one, and each of them as control last described it.
PeersMirror ==
    Synced => \A k \in Key :
      peers[k] = IF k \in Keys(control) THEN ApplyNode(NodeWith(control, k)) ELSE None

\* A packet to a peer's own address goes to that peer, and the peer may send
\* from it, whatever subnets or default routes others advertise.
OwnAddressRouted ==
    Synced => \A n \in control : Route(n.addr) = {n.key} /\ AllowedSource(n.key, n.addr)

\* After each response, what is admitted is exactly what the rules in force
\* permit, by the sets of addresses they stand for.
Tuple == [proto : Proto, src : Address, dst : Address, port : Port, established : BOOLEAN]
Block(net) == {a \in Address : a \div 2^(Width - net[2]) = net[1] \div 2^(Width - net[2])}
Members(set) == CASE set.kind = "cidr" -> Block(set.net)
                  [] set.kind = "range" -> set.first .. set.last
                  [] OTHER -> {}
Permitted(t) ==
    \/ t.proto = "tcp" /\ t.established
    \/ \E r \in AllRules(acl) :
         /\ t.proto \in (IF r.protos = {} THEN Proto \ {"other"} ELSE r.protos)
         /\ \E s \in r.srcs : t.src \in Members(s)
         /\ \E d \in r.dsts :
              /\ t.dst \in Members(d.set)
              /\ t.proto \in {"icmp", "other"} \/ (d.first <= t.port /\ t.port <= d.last)
FilterExact == Synced => \A t \in Tuple : Admits(t) <=> Permitted(t)
=============================================================================
