--------------------------- MODULE MapStateProofs ---------------------------
(***************************************************************************)
(* What map responses leave behind, for any nodes, session indices, rules  *)
(* and address width.  The indexes of the peer table are exact, and after  *)
(* each response the peers and the routes are those control has described, *)
(* as long as a node keeps its key; the packet filter is exact as long as  *)
(* a stream starts with the unnamed rules.                                 *)
(***************************************************************************)
EXTENDS MapState, TLAPS

\* A node that is listed again has the key it had.
OneKey == \A n, m \in Node : n.id = m.id => n.key = m.key

\* What the tables say of a node was said by control of that node.
Owned ==
    /\ \A k \in Key : Present(k) /\ peers[k].disco # None
         => \E n \in Node : n.key = k /\ n.disco = peers[k].disco
    /\ \A id \in Id : nodes_by_id[id] # None
         => \E n \in Node : n.id = id /\ n.key = nodes_by_id[id]

IndexesExact ==
    /\ \A k \in Key : \A i \in indices[k] : Present(k) /\ by_index[i] = k
    /\ \A i \in Index : by_index[i] # None => by_index[i] \in Key /\ Present(by_index[i])
DiscosExact ==
    \A d \in Disco, k \in Key : by_disco[d] = k <=> Present(k) /\ peers[k].disco = d

-----------------------------------------------------------------------------
(* Nodes and their records *)

\* A node of a map is known by its key, its id and its disco key.
LEMMA MapNodes ==
    ASSUME NEW S \in Maps
    PROVE  /\ S \subseteq Node
           /\ Keys(S) \subseteq Key
           /\ \A k \in Keys(S) : NodeWith(S, k) \in S /\ NodeWith(S, k).key = k
           /\ \A n \in S : NodeWith(S, n.key) = n
           /\ \A d \in Discos(S) \ {None} : \E n \in S : n.disco = d /\ DiscoOwner(S, d) = n.key
           /\ \A n \in S : n.disco # None => DiscoOwner(S, n.disco) = n.key
<1>1. S \subseteq Node /\ \A n, m \in S : n.id = m.id => n = m
  BY DEF Maps
<1>2. Keys(S) \subseteq Key
  BY <1>1 DEF Keys, Key
<1>3. \A k \in Keys(S) : NodeWith(S, k) \in S /\ NodeWith(S, k).key = k
  BY DEF Keys, NodeWith
<1>4. \A n \in S : NodeWith(S, n.key) = n
  <2>1. ASSUME NEW n \in S PROVE NodeWith(S, n.key) = n
    <3>1. n.key \in Keys(S)
      BY DEF Keys
    <3>2. NodeWith(S, n.key) \in S /\ NodeWith(S, n.key).key = n.key
      BY <3>1, <1>3
    <3>3. NodeWith(S, n.key).id = n.id
      BY <3>2, <1>1, NodesAssumption
    <3> QED BY <3>2, <3>3, <1>1
  <2> QED BY <2>1
<1>5. \A d \in Discos(S) \ {None} : \E n \in S : n.disco = d /\ DiscoOwner(S, d) = n.key
  <2>1. ASSUME NEW d \in Discos(S) \ {None}
        PROVE  \E n \in S : n.disco = d /\ DiscoOwner(S, d) = n.key
    <3>1. \E n \in S : n.disco = d
      BY <2>1 DEF Discos
    <3>2. (CHOOSE n \in S : n.disco = d) \in S /\ (CHOOSE n \in S : n.disco = d).disco = d
      BY <3>1
    <3> QED BY ZenonT(30), <3>2 DEF DiscoOwner
  <2> QED BY <2>1
<1>6. \A n \in S : n.disco # None => DiscoOwner(S, n.disco) = n.key
  <2>1. ASSUME NEW n \in S, n.disco # None PROVE DiscoOwner(S, n.disco) = n.key
    <3>1. PICK m \in S : m.disco = n.disco /\ DiscoOwner(S, n.disco) = m.key
      BY <2>1, <1>5 DEF Discos
    <3>2. m.key = n.key
      BY <3>1, <2>1, <1>1, NodesAssumption
    <3> QED BY <3>1, <3>2
  <2> QED BY <2>1
<1> QED BY <1>1, <1>2, <1>3, <1>4, <1>5, <1>6

\* apply_node gives a peer record with the node's disco key.
LEMMA AppliedNode ==
    ASSUME NEW n \in Node
    PROVE  /\ ApplyNode(n) \in PeerRec /\ ApplyNode(n) # None
           /\ ApplyNode(n).disco = n.disco
<1>1. n.disco \in Disco \cup {None} /\ n.home \in Home
  BY DEF Disco, Home
<1>2. {c \in n.nets \cup {<<n.addr, Width>>} : c[2] # 0} \in SUBSET Net
  <2>1. <<n.addr, Width>> \in Net
    BY NodesAssumption DEF Net
  <2> QED BY <2>1, NodesAssumption
<1>3. ApplyNode(n) \in PeerRec
  BY <1>1, <1>2 DEF ApplyNode, PeerRec
<1> QED BY ZenonT(30), <1>3, NodesAssumption DEF ApplyNode

-----------------------------------------------------------------------------
(* The operations on the tables *)

TableTypes ==
    /\ nodes_by_id \in [Id -> Key \cup {None}]
    /\ peers \in [Key -> PeerRec \cup {None}]
    /\ indices \in [Key -> SUBSET Index]
    /\ by_disco \in [Disco -> Key \cup {None}]
    /\ by_index \in [Index -> Key \cup {None}]

Tables == TableTypes /\ Owned /\ IndexesExact /\ DiscosExact

\* set_peers builds all of it anew.
LEMMA SetPeersStep ==
    ASSUME Tables, NEW S \in Maps, SetPeers(S)
    PROVE  Tables'
<1> USE NodesAssumption
<1>1. /\ S \subseteq Node /\ Keys(S) \subseteq Key
      /\ \A k \in Keys(S) : NodeWith(S, k) \in S /\ NodeWith(S, k).key = k
      /\ \A n \in S : NodeWith(S, n.key) = n
      /\ \A d \in Discos(S) \ {None} : \E n \in S : n.disco = d /\ DiscoOwner(S, d) = n.key
      /\ \A n \in S : n.disco # None => DiscoOwner(S, n.disco) = n.key
  BY MapNodes
<1>2. \A n \in S : ApplyNode(n) \in PeerRec /\ ApplyNode(n) # None /\ ApplyNode(n).disco = n.disco
  BY <1>1, AppliedNode
<1>3. None \notin Disco
  BY DEF Disco
<1>4. \A k \in Key : Present(k)' <=> k \in Keys(S)
  BY <1>1, <1>2 DEF SetPeers, Present
<1>5. \A k \in Keys(S) : peers'[k].disco = NodeWith(S, k).disco
  BY <1>1, <1>2 DEF SetPeers
<1>6. TableTypes'
  <2>1. nodes_by_id' \in [Id -> Key \cup {None}]
    <3>1. \A id \in Id : (\E n \in S : n.id = id) => (CHOOSE n \in S : n.id = id).key \in Key
      BY ZenonT(30), <1>1 DEF Key
    <3> QED BY <3>1 DEF SetPeers
  <2>2. peers' \in [Key -> PeerRec \cup {None}]
    BY <1>1, <1>2 DEF SetPeers
  <2>3. indices' \in [Key -> SUBSET Index]
    BY DEF SetPeers, Tables, TableTypes
  <2>4. by_disco' \in [Disco -> Key \cup {None}]
    <3>1. \A d \in Disco : d \in Discos(S) => DiscoOwner(S, d) \in Key
      BY <1>1, <1>3 DEF Key
    <3> QED BY <3>1 DEF SetPeers
  <2>5. by_index' \in [Index -> Key \cup {None}]
    <3>1. \A i \in Index : (\E k \in Keys(S) : i \in indices[k])
             => (CHOOSE k \in Keys(S) : i \in indices[k]) \in Key
      BY <1>1
    <3> QED BY <3>1 DEF SetPeers
  <2> QED BY <2>1, <2>2, <2>3, <2>4, <2>5 DEF TableTypes
<1>7. Owned'
  <2>1. ASSUME NEW k \in Key, Present(k)', peers'[k].disco # None
        PROVE  \E n \in Node : n.key = k /\ n.disco = peers'[k].disco
    BY <2>1, <1>1, <1>4, <1>5
  <2>2. ASSUME NEW id \in Id, nodes_by_id'[id] # None
        PROVE  \E n \in Node : n.id = id /\ n.key = nodes_by_id'[id]
    <3>1. \E n \in S : n.id = id
      BY <2>2 DEF SetPeers
    <3>2. nodes_by_id'[id] = (CHOOSE n \in S : n.id = id).key
      BY <3>1 DEF SetPeers
    <3> QED BY ZenonT(30), <3>1, <3>2, <1>1
  <2> QED BY <2>1, <2>2 DEF Owned
<1>8. IndexesExact'
  <2>1. ASSUME NEW k \in Key, NEW i \in indices'[k]
        PROVE  Present(k)' /\ by_index'[i] = k
    <3>1. k \in Keys(S) /\ i \in indices[k] /\ i \in Index
      BY <2>1 DEF SetPeers, Tables, TableTypes
    <3>2. \A l \in Keys(S) : i \in indices[l] => l = k
      BY <3>1, <1>1 DEF Tables, IndexesExact
    <3>3. by_index'[i] = CHOOSE l \in Keys(S) : i \in indices[l]
      BY <3>1 DEF SetPeers
    <3> QED BY <3>1, <3>2, <3>3, <1>4
  <2>2. ASSUME NEW i \in Index, by_index'[i] # None
        PROVE  by_index'[i] \in Key /\ peers'[by_index'[i]] # None
    <3>1. \E k \in Keys(S) : i \in indices[k]
      BY <2>2 DEF SetPeers
    <3>2. by_index'[i] = CHOOSE l \in Keys(S) : i \in indices[l]
      BY <3>1 DEF SetPeers
    <3>3. by_index'[i] \in Keys(S)
      BY <3>1, <3>2
    <3> QED BY <3>3, <1>1, <1>2 DEF SetPeers
  <2> QED BY <2>1, <2>2 DEF IndexesExact, Present
<1>9. DiscosExact'
  <2>1. ASSUME NEW d \in Disco, NEW k \in Key, by_disco'[d] = k
        PROVE  Present(k)' /\ peers'[k].disco = d
    <3>1. d \in Discos(S) /\ by_disco'[d] = DiscoOwner(S, d)
      BY <2>1 DEF SetPeers
    <3>2. PICK n \in S : n.disco = d /\ DiscoOwner(S, d) = n.key
      BY <3>1, <1>1, <1>3
    <3>3. n.key = k /\ k \in Keys(S) /\ NodeWith(S, k) = n
      BY <2>1, <3>1, <3>2, <1>1 DEF Keys
    <3> QED BY <3>2, <3>3, <1>4, <1>5
  <2>2. ASSUME NEW d \in Disco, NEW k \in Key, Present(k)', peers'[k].disco = d
        PROVE  by_disco'[d] = k
    <3>1. k \in Keys(S) /\ NodeWith(S, k) \in S /\ NodeWith(S, k).disco = d
            /\ NodeWith(S, k).key = k
      BY <2>2, <1>1, <1>4, <1>5
    <3>2. DiscoOwner(S, d) = k
      BY <3>1, <1>1, <1>3
    <3>3. d \in Discos(S)
      BY <3>1 DEF Discos
    <3> QED BY <3>2, <3>3 DEF SetPeers
  <2> QED BY <2>1, <2>2 DEF DiscosExact, Present
<1> QED BY <1>6, <1>7, <1>8, <1>9 DEF Tables

\* peers_changed: a node that is listed takes its record and its disco key, and
\* gives up the disco key it had.
LEMMA PeersChangedStep ==
    ASSUME Tables, NEW S \in Maps, PeersChanged(S)
    PROVE  Tables'
<1> USE NodesAssumption
<1>1. /\ S \subseteq Node /\ Keys(S) \subseteq Key
      /\ \A k \in Keys(S) : NodeWith(S, k) \in S /\ NodeWith(S, k).key = k
      /\ \A n \in S : NodeWith(S, n.key) = n
      /\ \A d \in Discos(S) \ {None} : \E n \in S : n.disco = d /\ DiscoOwner(S, d) = n.key
      /\ \A n \in S : n.disco # None => DiscoOwner(S, n.disco) = n.key
  BY MapNodes
<1>2. \A n \in S : ApplyNode(n) \in PeerRec /\ ApplyNode(n) # None /\ ApplyNode(n).disco = n.disco
  BY <1>1, AppliedNode
<1>3. None \notin Disco
  BY DEF Disco
<1>4. \A k \in Key : Present(k)' <=> Present(k) \/ k \in Keys(S)
  BY <1>1, <1>2 DEF PeersChanged, Present
<1>5. /\ \A k \in Keys(S) : peers'[k].disco = NodeWith(S, k).disco
      /\ \A k \in Key \ Keys(S) : peers'[k] = peers[k]
  BY <1>1, <1>2 DEF PeersChanged
<1>6. TableTypes'
  <2>1. nodes_by_id' \in [Id -> Key \cup {None}]
    <3>1. \A id \in Id : (\E n \in S : n.id = id) => (CHOOSE n \in S : n.id = id).key \in Key
      BY ZenonT(30), <1>1 DEF Key
    <3> QED BY <3>1 DEF PeersChanged, Tables, TableTypes
  <2>2. peers' \in [Key -> PeerRec \cup {None}]
    BY <1>1, <1>2 DEF PeersChanged, Tables, TableTypes
  <2>3. by_disco' \in [Disco -> Key \cup {None}]
    <3>1. \A d \in Disco : d \in Discos(S) => DiscoOwner(S, d) \in Key
      BY <1>1, <1>3 DEF Key
    <3> QED BY <3>1 DEF PeersChanged, Tables, TableTypes
  <2> QED BY <2>1, <2>2, <2>3 DEF TableTypes, PeersChanged, Tables
<1>7. Owned'
  <2>1. ASSUME NEW k \in Key, Present(k)', peers'[k].disco # None
        PROVE  \E n \in Node : n.key = k /\ n.disco = peers'[k].disco
    <3>1. CASE k \in Keys(S)
      BY <3>1, <2>1, <1>1, <1>5
    <3>2. CASE k \notin Keys(S)
      BY <3>2, <2>1, <1>4, <1>5 DEF Tables, Owned
    <3> QED BY <3>1, <3>2
  <2>2. ASSUME NEW id \in Id, nodes_by_id'[id] # None
        PROVE  \E n \in Node : n.id = id /\ n.key = nodes_by_id'[id]
    <3>1. CASE \E n \in S : n.id = id
      <4>1. nodes_by_id'[id] = (CHOOSE n \in S : n.id = id).key
        BY <3>1 DEF PeersChanged
      <4> QED BY ZenonT(30), <3>1, <4>1, <1>1
    <3>2. CASE ~ \E n \in S : n.id = id
      BY <3>2, <2>2 DEF PeersChanged, Tables, Owned
    <3> QED BY <3>1, <3>2
  <2> QED BY <2>1, <2>2 DEF Owned
<1>8. IndexesExact'
  <2>1. ASSUME NEW i \in Index, by_index[i] # None
        PROVE  by_index[i] \in Key /\ peers'[by_index[i]] # None
    <3>1. by_index[i] \in Key /\ Present(by_index[i])
      BY <2>1 DEF Tables, IndexesExact
    <3> QED BY <3>1, <1>1, <1>2, <1>5 DEF Present, PeersChanged
  <2> QED BY <2>1, <1>4 DEF IndexesExact, Tables, Present, PeersChanged
<1>9. DiscosExact'
  <2>1. ASSUME NEW d \in Disco, NEW k \in Key, by_disco'[d] = k
        PROVE  Present(k)' /\ peers'[k].disco = d
    <3>1. CASE d \in Discos(S)
      <4>1. PICK n \in S : n.disco = d /\ DiscoOwner(S, d) = n.key
        BY <3>1, <1>1, <1>3
      <4>2. n.key = k
        BY <4>1, <3>1, <2>1 DEF PeersChanged
      <4>3. k \in Keys(S) /\ NodeWith(S, k) = n
        BY <4>2, <1>1 DEF Keys
      <4> QED BY SMTT(30), <4>1, <4>3, <1>4, <1>5
    <3>2. CASE d \notin Discos(S)
      <4>1. /\ by_disco[d] = k
            /\ ~ \E l \in Keys(S) : Present(l) /\ peers[l].disco = d
        BY <3>2, <2>1 DEF PeersChanged
      <4>2. Present(k) /\ peers[k].disco = d
        BY <4>1 DEF Tables, DiscosExact
      <4> QED BY <4>1, <4>2, <1>4, <1>5
    <3> QED BY <3>1, <3>2
  <2>2. ASSUME NEW d \in Disco, NEW k \in Key, Present(k)', peers'[k].disco = d
        PROVE  by_disco'[d] = k
    <3>1. CASE k \in Keys(S)
      <4>1. NodeWith(S, k) \in S /\ NodeWith(S, k).disco = d /\ NodeWith(S, k).key = k
        BY <3>1, <2>2, <1>1, <1>5
      <4>2. d \in Discos(S) /\ DiscoOwner(S, d) = k
        BY SMTT(30), <4>1, <1>1, <1>3 DEF Discos
      <4> QED BY <4>2 DEF PeersChanged
    <3>2. CASE k \notin Keys(S)
      <4>1. Present(k) /\ peers[k].disco = d /\ by_disco[d] = k
        BY <3>2, <2>2, <1>4, <1>5 DEF Tables, DiscosExact
      <4>2. PICK m \in Node : m.key = k /\ m.disco = d
        BY <4>1, <1>3 DEF Tables, Owned
      <4>3. d \notin Discos(S)
        <5>1. ASSUME NEW n \in S, n.disco = d PROVE FALSE
          BY <5>1, <4>2, <3>2, <1>1, <1>3 DEF Keys
        <5> QED BY <5>1 DEF Discos
      <4>4. ~ \E l \in Keys(S) : Present(l) /\ peers[l].disco = d
        BY <4>1, <3>2, <1>1 DEF Tables, DiscosExact
      <4> QED BY <4>1, <4>3, <4>4 DEF PeersChanged
    <3> QED BY <3>1, <3>2
  <2> QED BY <2>1, <2>2 DEF DiscosExact, Present
<1> QED BY <1>6, <1>7, <1>8, <1>9 DEF Tables

\* peers_removed: what goes takes its disco key and its indices along.
LEMMA PeersRemovedStep ==
    ASSUME Tables, NEW ids \in SUBSET Id, PeersRemoved(ids)
    PROVE  Tables'
<1> USE NodesAssumption
<1> DEFINE gone == {nodes_by_id[id] : id \in ids}
<1>1. \A k \in Key : peers'[k] = IF k \in gone THEN None ELSE peers[k]
  BY DEF PeersRemoved
<1>2. \A i \in Index : by_index'[i] = IF by_index[i] \in gone THEN None ELSE by_index[i]
  BY DEF PeersRemoved
<1>3. \A d \in Disco : by_disco'[d] =
        IF \E k \in Key \cap gone : Present(k) /\ peers[k].disco = d THEN None ELSE by_disco[d]
  BY DEF PeersRemoved
<1>4. \A k \in Key : indices'[k] = IF k \in gone THEN {} ELSE indices[k]
  BY DEF PeersRemoved
<1>5. \A id \in Id : nodes_by_id'[id] = IF id \in ids THEN None ELSE nodes_by_id[id]
  BY DEF PeersRemoved
<1>6. TableTypes'
  BY SMTT(30) DEF PeersRemoved, Tables, TableTypes
<1> HIDE DEF gone
<1>7. Owned'
  BY <1>1, <1>5 DEF Tables, Owned, Present
<1>8. IndexesExact'
  <2>1. ASSUME NEW k \in Key, NEW i \in indices'[k]
        PROVE  Present(k)' /\ by_index'[i] = k
    <3>1. k \notin gone /\ i \in indices[k] /\ i \in Index
      BY <2>1, <1>4 DEF Tables, TableTypes
    <3> QED BY <3>1, <1>1, <1>2 DEF Tables, IndexesExact, Present
  <2>2. ASSUME NEW i \in Index, by_index'[i] # None
        PROVE  by_index'[i] \in Key /\ peers'[by_index'[i]] # None
    BY <2>2, <1>1, <1>2 DEF Tables, IndexesExact, Present
  <2> QED BY <2>1, <2>2 DEF IndexesExact, Present
<1>9. DiscosExact'
  <2>1. ASSUME NEW d \in Disco, NEW k \in Key, by_disco'[d] = k
        PROVE  Present(k)' /\ peers'[k].disco = d
    <3>1. by_disco[d] = k /\ ~ \E l \in Key \cap gone : Present(l) /\ peers[l].disco = d
      BY <2>1, <1>3
    <3> QED BY <3>1, <1>1 DEF Tables, DiscosExact, Present
  <2>2. ASSUME NEW d \in Disco, NEW k \in Key, Present(k)', peers'[k].disco = d
        PROVE  by_disco'[d] = k
    <3>1. k \notin gone /\ Present(k) /\ peers[k].disco = d /\ by_disco[d] = k
      BY <2>2, <1>1 DEF Tables, DiscosExact, Present
    <3>2. ~ \E l \in Key \cap gone : Present(l) /\ peers[l].disco = d
      BY <3>1 DEF Tables, DiscosExact
    <3> QED BY <3>1, <3>2, <1>3
  <2> QED BY <2>1, <2>2 DEF DiscosExact, Present
<1> QED BY <1>6, <1>7, <1>8, <1>9 DEF Tables

\* apply_patches: the key a patch is looked up by is the node's own.
LEMMA ApplyPatchesStep ==
    ASSUME OneKey, Tables, NEW S \in Maps, \A n \in S : n.disco # None, ApplyPatches(S)
    PROVE  Tables'
<1> USE NodesAssumption
<1> DEFINE at(k) == {n \in S : nodes_by_id[n.id] = k}
           hit == {k \in Key : Present(k) /\ at(k) # {}}
           patch(k) == CHOOSE n \in S : n \in at(k)
<1>1. \A k \in Key : peers'[k] = IF k \in hit
                                   THEN [peers[k] EXCEPT !.disco = patch(k).disco,
                                                         !.home = patch(k).home]
                                   ELSE peers[k]
  BY ZenonT(30) DEF ApplyPatches
<1>2. \A d \in Disco : by_disco'[d] =
        IF \E k \in hit : patch(k).disco = d THEN CHOOSE k \in hit : patch(k).disco = d
        ELSE IF \E k \in hit : peers[k].disco = d THEN None ELSE by_disco[d]
  BY ZenonT(30) DEF ApplyPatches
<1>3. S \subseteq Node /\ None \notin Disco
  BY DEF Maps, Disco
<1>4. ASSUME NEW k \in hit
      PROVE  patch(k) \in S /\ patch(k).key = k
  <2>1. patch(k) \in S /\ nodes_by_id[patch(k).id] = k
    <3>1. \E n \in S : n \in at(k)
      OBVIOUS
    <3>2. patch(k) \in S /\ patch(k) \in at(k)
      BY <3>1
    <3> QED BY <3>2
  <2>2. patch(k).id \in Id /\ k \in Key
    BY ZenonT(30), <2>1, <1>3 DEF Id
  <2>3. \A id \in Id : nodes_by_id[id] = k => \E m \in Node : m.id = id /\ m.key = k
    BY <2>2 DEF Tables, Owned
  <2> HIDE DEF patch
  <2>4. PICK m \in Node : m.id = patch(k).id /\ m.key = k
    BY <2>1, <2>2, <2>3
  <2> QED BY <2>1, <2>4, <1>3 DEF OneKey
<1>5. /\ UNCHANGED <<nodes_by_id, indices, by_index>>
      /\ DOMAIN peers' = Key /\ peers' = [k \in Key |-> peers'[k]]
      /\ by_disco' = [d \in Disco |-> by_disco'[d]]
  BY ZenonT(30) DEF ApplyPatches
<1>6. \A k \in Key : Present(k) => peers[k] \in PeerRec
  BY DEF Tables, TableTypes, Present
<1>7. hit \subseteq Key /\ \A k \in hit : Present(k)
  OBVIOUS
<1> HIDE DEF at, hit, patch
<1>8. \A k \in hit : /\ peers'[k] \in PeerRec /\ peers'[k] # None
                     /\ peers'[k].disco = patch(k).disco
                     /\ patch(k).disco \in Disco
  <2>1. ASSUME NEW k \in hit
        PROVE  /\ peers'[k] \in PeerRec /\ peers'[k] # None
               /\ peers'[k].disco = patch(k).disco
               /\ patch(k).disco \in Disco
    <3>1. patch(k).disco \in Disco /\ patch(k).home \in Home
      BY <1>3, <1>4 DEF Disco, Home
    <3>2. peers[k] \in PeerRec
      BY SMTT(30), <1>6, <1>7
    <3>3. peers'[k] = [peers[k] EXCEPT !.disco = patch(k).disco, !.home = patch(k).home]
      BY ZenonT(30), <1>1, <1>7
    <3>4. peers'[k] \in PeerRec /\ peers'[k].disco = patch(k).disco
      BY ZenonT(30), <3>1, <3>2, <3>3 DEF PeerRec
    <3> QED BY <3>1, <3>4
  <2> QED BY <2>1
<1>9. \A k \in Key \ hit : peers'[k] = peers[k]
  BY ZenonT(30), <1>1
<1>10. TableTypes'
  <2>1. peers' \in [Key -> PeerRec \cup {None}]
    BY <1>5, <1>8, <1>9 DEF Tables, TableTypes
  <2>2. by_disco' \in [Disco -> Key \cup {None}]
    <3>1. \A d \in Disco : by_disco'[d] \in Key \cup {None}
      <4>1. ASSUME NEW d \in Disco PROVE by_disco'[d] \in Key \cup {None}
        <5>1. CASE \E k \in hit : patch(k).disco = d
          <6>1. by_disco'[d] \in hit
            BY <5>1, <1>2
          <6> QED BY SMTT(30), <6>1, <1>7
        <5>2. CASE ~ \E k \in hit : patch(k).disco = d
          BY SMTT(30), <5>2, <1>2 DEF Tables, TableTypes
        <5> QED BY SMTT(30), <5>1, <5>2
      <4> QED BY <4>1
    <3> QED BY <3>1, <1>5
  <2> QED BY <2>1, <2>2, <1>5 DEF Tables, TableTypes
<1>11. \A k \in Key : Present(k)' <=> Present(k)
  BY <1>7, <1>8, <1>9 DEF Present
<1>12. Owned'
  <2>1. ASSUME NEW k \in Key, Present(k)', peers'[k].disco # None
        PROVE  \E n \in Node : n.key = k /\ n.disco = peers'[k].disco
    <3>1. CASE k \in hit
      BY SMTT(30), <3>1, <1>3, <1>4, <1>8
    <3>2. CASE k \notin hit
      BY <3>2, <2>1, <1>9, <1>11 DEF Tables, Owned
    <3> QED BY <3>1, <3>2
  <2> QED BY <2>1, <1>5 DEF Owned, Tables
<1>13. IndexesExact'
  <2>1. ASSUME NEW i \in Index, by_index[i] # None
        PROVE  by_index[i] \in Key /\ peers'[by_index[i]] # None
    <3>1. by_index[i] \in Key /\ Present(by_index[i])
      BY SMTT(30), <2>1 DEF Tables, IndexesExact
    <3> QED BY SMTT(30), <3>1, <1>11 DEF Present
  <2> QED BY <2>1, <1>5, <1>11 DEF IndexesExact, Tables, Present
<1>14. DiscosExact'
  <2>0. \A d \in Disco, k \in hit, l \in hit :
          patch(k).disco = d /\ patch(l).disco = d => k = l
    BY <1>3, <1>4
  <2>1. ASSUME NEW d \in Disco, NEW k \in Key, by_disco'[d] = k
        PROVE  Present(k)' /\ peers'[k].disco = d
    <3>1. CASE \E l \in hit : patch(l).disco = d
      <4>1. k \in hit /\ patch(k).disco = d
        BY SMTT(30), <3>1, <2>1, <1>2
      <4> QED BY <4>1, <1>8 DEF Present
    <3>2. CASE ~ \E l \in hit : patch(l).disco = d
      <4>1. by_disco[d] = k /\ ~ \E l \in hit : peers[l].disco = d
        BY <3>2, <2>1, <1>2
      <4>2. Present(k) /\ peers[k].disco = d
        BY <4>1 DEF Tables, DiscosExact
      <4> QED BY <4>1, <4>2, <1>9, <1>11
    <3> QED BY <3>1, <3>2
  <2>2. ASSUME NEW d \in Disco, NEW k \in Key, Present(k)', peers'[k].disco = d
        PROVE  by_disco'[d] = k
    <3>1. CASE k \in hit
      <4>1. patch(k).disco = d
        BY <3>1, <2>2, <1>8
      <4>2. by_disco'[d] = CHOOSE l \in hit : patch(l).disco = d
        BY <3>1, <4>1, <1>2
      <4> QED BY <3>1, <4>1, <4>2, <2>0
    <3>2. CASE k \notin hit
      <4>1. Present(k) /\ peers[k].disco = d /\ by_disco[d] = k
        BY <3>2, <2>2, <1>9, <1>11 DEF Tables, DiscosExact
      <4>2. PICK m \in Node : m.key = k /\ m.disco = d
        BY <4>1, <1>3 DEF Tables, Owned
      <4>3. ~ \E l \in hit : patch(l).disco = d
        BY <4>2, <3>2, <1>3, <1>4
      <4>4. ~ \E l \in hit : peers[l].disco = d
        BY <4>1, <3>2, <1>7 DEF Tables, DiscosExact
      <4> QED BY <4>1, <4>3, <4>4, <1>2
    <3> QED BY <3>1, <3>2
  <2> QED BY <2>1, <2>2 DEF DiscosExact, Present
<1> QED BY SMTT(30), <1>10, <1>12, <1>13, <1>14 DEF Tables

\* refresh_indices, and a tunnel that drops sessions without it.
LEMMA TunnelStep ==
    ASSUME Tables, NEW k \in Key, NEW kept \in SUBSET Index, NEW new \in SUBSET Index,
           TunnelChanges(k, kept, new) \/ TransportConfirms(k, kept)
    PROVE  Tables'
<1> USE NodesAssumption
<1>1. CASE TunnelChanges(k, kept, new)
  <2>1. /\ kept \subseteq indices[k] /\ Present(k)
        /\ \A l \in Key : indices[l] \cap new = {}
        /\ indices' = [indices EXCEPT ![k] = kept \cup new]
        /\ by_index' = [i \in Index |-> IF i \in kept \cup new THEN k
                                        ELSE IF by_index[i] = k THEN None ELSE by_index[i]]
        /\ UNCHANGED <<nodes_by_id, peers, by_disco>>
    BY SMTT(30), <1>1 DEF TunnelChanges, Refreshed
  <2>2. TableTypes' /\ Owned' /\ DiscosExact'
    BY SMTT(30), <2>1 DEF Tables, TableTypes, Owned, DiscosExact, Present
  <2>3. ASSUME NEW l \in Key, NEW i \in indices'[l]
        PROVE  Present(l) /\ by_index'[i] = l
    <3>1. CASE l = k
      BY SMTT(30), <3>1, <2>1, <2>3 DEF Tables, TableTypes
    <3>2. CASE l # k
      <4>1. i \in indices[l] /\ i \in Index /\ i \notin new
        BY SMTT(30), <3>2, <2>1, <2>3 DEF Tables, TableTypes
      <4>2. by_index[i] = l /\ Present(l)
        BY <4>1 DEF Tables, IndexesExact
      <4>3. i \notin kept
        BY <4>2, <3>2, <2>1 DEF Tables, IndexesExact
      <4> QED BY SMTT(30), <4>1, <4>2, <4>3, <3>2, <2>1
    <3> QED BY SMTT(30), <3>1, <3>2
  <2>4. ASSUME NEW i \in Index, by_index'[i] # None
        PROVE  by_index'[i] \in Key /\ peers[by_index'[i]] # None
    BY <2>1, <2>4 DEF Tables, IndexesExact, Present
  <2>5. IndexesExact'
    BY <2>1, <2>3, <2>4 DEF IndexesExact, Present
  <2> QED BY SMTT(30), <2>2, <2>5 DEF Tables
<1>2. CASE TransportConfirms(k, kept)
  <2>1. /\ kept \subseteq indices[k]
        /\ indices' = [indices EXCEPT ![k] = kept]
        /\ UNCHANGED <<nodes_by_id, peers, by_disco, by_index>>
    BY SMTT(30), <1>2 DEF TransportConfirms
  <2>2. TableTypes' /\ Owned' /\ DiscosExact'
    BY SMTT(30), <2>1 DEF Tables, TableTypes, Owned, DiscosExact, Present
  <2>3. \A l \in Key : indices'[l] \subseteq indices[l]
    BY SMTT(30), <2>1 DEF Tables, TableTypes
  <2>4. IndexesExact'
    BY SMTT(30), <2>1, <2>3 DEF Tables, IndexesExact, Present
  <2> QED BY <2>2, <2>4 DEF Tables
<1> QED BY <1>1, <1>2

-----------------------------------------------------------------------------
(* The responses keep their types *)

RespTypes == control \in Maps /\ resp \in Resp \cup {None}

\* What control sends is made of its nodes.
LEMMA FullTypes ==
    ASSUME NEW new \in Maps, NEW rules \in RuleList, FullResponse(new, rules)
    PROVE  resp' \in Resp /\ resp' # None
<1>1. Silent \in [Name -> Rules]
  BY DEF Silent, Rules
<1>2. [Silent EXCEPT ![Star] = rules] \in [Name -> Rules]
  BY ZenonT(30), <1>1 DEF Rules
<1>3. rules \in Rules /\ None \in Rules /\ {} \in Maps
  BY DEF Rules, Maps
<1>4. resp' \in Resp
  BY <1>1, <1>2, <1>3 DEF FullResponse, Response, Resp
<1> QED BY <1>4, ResponsesAssumption

LEMMA DeltaTypes ==
    ASSUME control \in Maps, NEW new \in Maps, NEW patched \in SUBSET (new \ control),
           NEW legacy \in Rules, NEW named \in [Name -> Rules],
           DeltaResponse(new, patched, legacy, named)
    PROVE  resp' \in Resp /\ resp' # None
<1>1. \A S \in Maps : S \subseteq Node /\ \A T \in SUBSET S : T \in Maps
  BY DEF Maps
<1>2. (new \ control) \ patched \in Maps /\ patched \in Maps
  BY SMTT(30), <1>1
<1>3. \A n \in patched : n.disco # None
  BY DEF DeltaResponse, Patchable
<1>4. {m.id : m \in control} \ {n.id : n \in new} \in SUBSET Id
  BY <1>1 DEF Id
<1>5. resp' \in Resp
  BY <1>2, <1>3, <1>4 DEF DeltaResponse, Response, Resp
<1> QED BY <1>5, ResponsesAssumption

LEMMA HandlersTypes ==
    ASSUME RespTypes, HandlePeers \/ HandleChanged \/ HandleRemoved \/ HandlePatches
    PROVE  resp' \in Resp /\ resp' # None
<1>1. {} \in Maps
  BY DEF Maps
<1>2. resp \in Resp
  BY DEF RespTypes, HandlePeers, HandleChanged, HandleRemoved, HandlePatches
<1>3. resp' \in Resp
  <2>1. CASE HandlePeers
    BY ZenonT(30), <2>1, <1>2 DEF HandlePeers, Resp
  <2>2. CASE HandleChanged
    BY ZenonT(30), <2>2, <1>1, <1>2 DEF HandleChanged, Resp
  <2>3. CASE HandleRemoved
    BY ZenonT(30), <2>3, <1>2 DEF HandleRemoved, Resp
  <2>4. CASE HandlePatches
    BY ZenonT(30), <2>4, <1>1, <1>2 DEF HandlePatches, Resp
  <2> QED BY <2>1, <2>2, <2>3, <2>4
<1> QED BY <1>3, ResponsesAssumption

LEMMA ResponseTypes ==
    ASSUME RespTypes, Next
    PROVE  RespTypes'
<1> USE DEF RespTypes
<1>1. {} \in Maps /\ \A S \in Maps : \A T \in SUBSET S : T \in Maps
  BY DEF Maps
<1>2. Silent \in [Name -> Rules] /\ NamedRules \subseteq [Name -> Rules]
  BY DEF Silent, Rules, NamedRules
<1>3. ASSUME NEW new \in Maps, NEW rules \in RuleList, FullResponse(new, rules)
      PROVE  RespTypes'
  BY ZenonT(30), <1>3, FullTypes DEF FullResponse
<1>4. ASSUME NEW new \in Maps, NEW patched \in SUBSET (new \ control),
             NEW legacy \in Rules, NEW named \in [Name -> Rules],
             DeltaResponse(new, patched, legacy, named)
      PROVE  RespTypes'
  BY <1>4, DeltaTypes DEF DeltaResponse
<1>5. CASE HandlePeers \/ HandleChanged \/ HandleRemoved \/ HandlePatches \/ HandleFilter
  BY <1>1, <1>5 DEF HandlePeers, HandleChanged, HandleRemoved, HandlePatches, HandleFilter, Resp
<1>6. CASE UNCHANGED <<control, resp>>
  BY <1>6
<1>7. CASE \E new \in Maps : \E patched \in SUBSET (new \ control) :
             DeltaResponse(new, patched, None, Silent)
  BY <1>7, <1>4, <1>2 DEF Rules
<1>8. CASE \E legacy \in RuleList : DeltaResponse(control, {}, legacy, Silent)
  BY <1>8, <1>4, <1>2 DEF Rules
<1>9. CASE \E named \in NamedRules : DeltaResponse(control, {}, None, named)
  BY <1>9, <1>4, <1>2 DEF Rules
<1> QED BY ZenonT(30), <1>3, <1>5, <1>6, <1>7, <1>8, <1>9
        DEF Next, StreamEnds, TunnelChanges, TransportConfirms, SetNodeKey, controlVars

-----------------------------------------------------------------------------
(* The theorem *)

Inv == Tables /\ RespTypes

LEMMA InvInit == Init => Inv
<1> SUFFICES ASSUME Init PROVE Inv
  OBVIOUS
<1> USE NodesAssumption
<1>1. {} \in Maps
  BY DEF Maps
<1> QED BY <1>1 DEF Init, Inv, Tables, TableTypes, Owned, IndexesExact, DiscosExact, RespTypes,
                    Present

LEMMA InvNext == OneKey /\ Inv /\ [Next]_vars => Inv'
<1> SUFFICES ASSUME OneKey, Inv, [Next]_vars PROVE Inv'
  BY SMTT(30)
<1>1. CASE UNCHANGED vars
  BY <1>1 DEF Inv, Tables, TableTypes, Owned, IndexesExact, DiscosExact, RespTypes, Present,
              vars, peerVars, controlVars
<1>2. CASE Next
  <2>1. RespTypes'
    BY SMTT(30), <1>2, ResponseTypes DEF Inv
  <2>2. resp # None => /\ resp.peers # None => resp.peers \in Maps
                       /\ resp.changed \in Maps /\ resp.removed \in SUBSET Id
                       /\ resp.patches \in Maps /\ \A n \in resp.patches : n.disco # None
    BY SMTT(30) DEF Inv, RespTypes, Resp
  <2>3. Tables'
    <3>1. CASE UNCHANGED peerVars
      BY <3>1 DEF Inv, Tables, TableTypes, Owned, IndexesExact, DiscosExact, Present, peerVars
    <3>2. CASE HandlePeers
      BY <2>2, <3>2, SetPeersStep DEF HandlePeers, Inv
    <3>3. CASE HandleChanged
      BY <2>2, <3>3, PeersChangedStep DEF HandleChanged, Inv
    <3>4. CASE HandleRemoved
      BY <2>2, <3>4, PeersRemovedStep DEF HandleRemoved, Inv
    <3>5. CASE HandlePatches
      BY <2>2, <3>5, ApplyPatchesStep DEF HandlePatches, Inv
    <3>6. CASE \E k \in Key, kept \in SUBSET Index :
                 \/ \E new \in SUBSET Index : TunnelChanges(k, kept, new)
                 \/ TransportConfirms(k, kept)
      <4>1. PICK k \in Key, kept \in SUBSET Index :
                 \/ \E new \in SUBSET Index : TunnelChanges(k, kept, new)
                 \/ TransportConfirms(k, kept)
        BY <3>6
      <4>2. \E new \in SUBSET Index : TunnelChanges(k, kept, new) \/ TransportConfirms(k, kept)
        BY SMTT(30), <4>1
      <4> QED BY <4>2, TunnelStep DEF Inv
    <3>7. CASE SetNodeKey
      BY <3>7, NodesAssumption DEF SetNodeKey, Inv, Tables, TableTypes, Owned, IndexesExact,
                                   DiscosExact, Present
    <3> QED BY ZenonT(30), <1>2, <3>1, <3>2, <3>3, <3>4, <3>5, <3>6, <3>7
            DEF Next, FullResponse, DeltaResponse, StreamEnds, HandleFilter
  <2> QED BY <2>1, <2>3 DEF Inv
<1> QED BY <1>1, <1>2

\* As long as nodes keep their keys, the indexes of the peer table agree with it
\* after every step of every thread (set_peers, peers_changed, peers_removed,
\* apply_patches, refresh_indices, set_node_key).
THEOREM IndexesAreExact == OneKey /\ Spec => []TablesExact
<1>1. Inv => TablesExact
  BY DEF Inv, Tables, IndexesExact, DiscosExact, TablesExact
<1>2. OneKey => (Spec => []Inv)
  <2> SUFFICES ASSUME OneKey PROVE Spec => []Inv
    OBVIOUS
  <2>1. Inv /\ [Next]_vars => Inv'
    BY InvNext
  <2> QED BY <2>1, InvInit, PTL DEF Spec
<1> QED BY <1>1, <1>2, PTL
-----------------------------------------------------------------------------
(* What is left to do of a response *)

\* When the changed nodes, the ids and the patches that are left are taken
\* over, the peer table is what control has described.
Leaves(changed, removed, patches) ==
    /\ changed \subseteq control /\ patches \subseteq control
    /\ removed \cap {n.id : n \in control} = {}
    /\ \A n \in control \ changed :
         /\ nodes_by_id[n.id] = n.key
         /\ IF n \in patches THEN Present(n.key) /\ peers[n.key].nets = ApplyNode(n).nets
                              ELSE peers[n.key] = ApplyNode(n)
    /\ \A k \in Key \ Keys(control) : Present(k) => \E id \in removed : nodes_by_id[id] = k

Mirror ==
    /\ Synced => Leaves({}, {}, {})
    /\ resp # None /\ resp.peers # None =>
         resp.peers = control /\ resp.changed = {} /\ resp.removed = {} /\ resp.patches = {}
    /\ resp # None /\ resp.peers = None =>
         Leaves(resp.changed, resp.removed, resp.patches)

\* The same for the rules: what the response makes of the sets is in force.
Compiled == {Compile(r) : r \in AllRules(acl)}
Sets == [Name -> RuleList \cup {None}]
Filters ==
    /\ acl \in Sets /\ filter_sets \in Sets
    /\ Synced => filter_sets = acl /\ filter = Compiled
    /\ resp # None => /\ Merged(filter_sets, resp.legacy, resp.named) = acl
                      /\ resp.legacy = None /\ resp.named = Silent => filter = Compiled

\* Two nodes of a map with the same id or the same key are the same node.
LEMMA MapUnique ==
    ASSUME NEW S \in Maps, NEW n \in S, NEW m \in S, n.id = m.id \/ n.key = m.key
    PROVE  n = m
<1>1. n \in Node /\ m \in Node
  BY DEF Maps
<1>2. n.id = m.id
  BY <1>1, NodesAssumption
<1> QED BY <1>2 DEF Maps

\* The entries of nodes_by_id that are written anew.
LEMMA IdsWritten ==
    ASSUME NEW S \in Maps, NEW n \in S
    PROVE  (CHOOSE m \in S : m.id = n.id) = n
<1>1. PICK m \in S : m = CHOOSE x \in S : x.id = n.id
  OBVIOUS
<1>2. m.id = n.id
  BY <1>1
<1> QED BY <1>1, <1>2, MapUnique

\* set_peers leaves nothing to do.
LEMMA SetPeersMirrors ==
    ASSUME control \in Maps, SetPeers(control), control' = control
    PROVE  Leaves({}, {}, {})'
<1>1. /\ Keys(control) \subseteq Key /\ control \subseteq Node
      /\ \A n \in control : NodeWith(control, n.key) = n
  BY MapNodes
<1>2. \A n \in control : n.id \in Id /\ n.key \in Keys(control)
  BY <1>1 DEF Id, Keys
<1>3. ASSUME NEW n \in control
      PROVE  nodes_by_id'[n.id] = n.key /\ peers'[n.key] = ApplyNode(n)
  <2>1. nodes_by_id'[n.id] = (CHOOSE m \in control : m.id = n.id).key
    BY <1>2 DEF SetPeers
  <2>2. nodes_by_id'[n.id] = n.key
    BY ZenonT(30), <2>1, IdsWritten
  <2>3. peers'[n.key] = ApplyNode(NodeWith(control, n.key))
    BY SMTT(30), <1>1, <1>2 DEF SetPeers
  <2> QED BY SMTT(30), <2>2, <2>3, <1>1
<1>4. \A k \in Key \ Keys(control) : peers'[k] = None
  BY SMTT(30) DEF SetPeers
<1> QED BY <1>3, <1>4 DEF Leaves, Present, Keys, ApplyNode

\* peers_changed takes over the changed nodes and touches no other.
LEMMA PeersChangedMirrors ==
    ASSUME control \in Maps, NEW C, NEW R \in SUBSET Id, NEW P,
           Leaves(C, R, P), PeersChanged(C), control' = control
    PROVE  Leaves({}, R, P)'
<1>1. /\ Keys(control) \subseteq Key /\ control \subseteq Node
      /\ C \subseteq control /\ C \in Maps /\ Keys(C) \subseteq Keys(control)
  <2>1. C \subseteq control
    BY DEF Leaves
  <2>2. C \in Maps
    BY <2>1 DEF Maps
  <2>3. Keys(C) \subseteq Keys(control)
    BY SMTT(30), <2>1 DEF Keys
  <2> QED BY <2>1, <2>2, <2>3, MapNodes
<1>2. \A n \in C : NodeWith(C, n.key) = n /\ n.key \in Keys(C)
  BY <1>1, MapNodes DEF Keys
<1>3. \A n \in control : n.id \in Id /\ n.key \in Keys(control)
  BY <1>1 DEF Id, Keys
<1>4. ASSUME NEW n \in C
      PROVE  nodes_by_id'[n.id] = n.key /\ peers'[n.key] = ApplyNode(n)
  <2>1. nodes_by_id'[n.id] = (CHOOSE m \in C : m.id = n.id).key
    BY <1>1, <1>3 DEF PeersChanged
  <2>2. nodes_by_id'[n.id] = n.key
    BY ZenonT(30), <2>1, <1>1, IdsWritten
  <2>3. peers'[n.key] = ApplyNode(NodeWith(C, n.key))
    BY SMTT(30), <1>1, <1>2 DEF PeersChanged
  <2> QED BY SMTT(30), <2>2, <2>3, <1>2
<1>5. ASSUME NEW n \in control \ C
      PROVE  nodes_by_id'[n.id] = nodes_by_id[n.id] /\ peers'[n.key] = peers[n.key]
  <2>1. ~ \E m \in C : m.id = n.id
    BY <1>1, MapUnique
  <2>2. n.key \notin Keys(C)
    BY <1>1, MapUnique DEF Keys
  <2> QED BY <2>1, <2>2, <1>1, <1>3 DEF PeersChanged
<1>6. ASSUME NEW k \in Key \ Keys(control), Present(k)'
      PROVE  \E id \in R : nodes_by_id'[id] = k
  <2>1. peers'[k] = peers[k]
    BY <1>1 DEF PeersChanged
  <2>2. PICK id \in R : nodes_by_id[id] = k
    BY <2>1, <1>6 DEF Present, Leaves
  <2>3. ~ \E m \in C : m.id = id
    BY SMTT(30), <1>1 DEF Leaves
  <2>4. nodes_by_id'[id] = k
    BY <2>2, <2>3 DEF PeersChanged
  <2> QED BY SMTT(30), <2>4
<1>7. \A n \in control : ApplyNode(n) # None
  BY SMTT(30), <1>1, AppliedNode
<1>8. ASSUME NEW n \in control
      PROVE  /\ nodes_by_id'[n.id] = n.key
             /\ IF n \in P THEN Present(n.key)' /\ peers'[n.key].nets = ApplyNode(n).nets
                           ELSE peers'[n.key] = ApplyNode(n)
  <2>1. CASE n \in C
    BY SMTT(30), <2>1, <1>4, <1>7 DEF Present
  <2>2. CASE n \notin C
    BY SMTT(30), <2>2, <1>5 DEF Leaves, Present
  <2> QED BY SMTT(30), <2>1, <2>2
<1> QED BY <1>6, <1>8 DEF Leaves, Present, Keys, ApplyNode

\* peers_removed takes out the peers that control lists no longer, and no other.
LEMMA PeersRemovedMirrors ==
    ASSUME control \in Maps, Tables, NEW R \in SUBSET Id, NEW P,
           Leaves({}, R, P), PeersRemoved(R), control' = control
    PROVE  Leaves({}, {}, P)'
<1> DEFINE gone == {nodes_by_id[id] : id \in R}
<1>1. /\ \A k \in Key : peers'[k] = IF k \in gone THEN None ELSE peers[k]
      /\ \A id \in Id : nodes_by_id'[id] = IF id \in R THEN None ELSE nodes_by_id[id]
  BY SMTT(30) DEF PeersRemoved
<1>2. \A n \in control : n.id \in Id \ R /\ n.key \in Key /\ n \in Node
  BY MapNodes DEF Id, Keys, Leaves
<1>3. ASSUME NEW n \in control, n.key \in gone PROVE FALSE
  <2>1. PICK id \in R : nodes_by_id[id] = n.key
    BY SMTT(30), <1>3
  <2>2. PICK m \in Node : m.id = id /\ m.key = n.key
    BY SMTT(30), <2>1, <1>2, NodesAssumption DEF Tables, Owned
  <2> QED BY SMTT(30), <2>2, <1>2, NodesAssumption
<1>4. \A k \in Key \ Keys(control) : peers'[k] = None
  BY SMTT(30), <1>1 DEF Leaves, Present
<1>5. \A n \in control : nodes_by_id'[n.id] = nodes_by_id[n.id] /\ peers'[n.key] = peers[n.key]
  BY <1>1, <1>2, <1>3
<1> QED BY SMTT(30), <1>4, <1>5 DEF Leaves, Present, Keys, ApplyNode

\* A patched record is the one of the node: the nets are those it had.
LEMMA Patched ==
    ASSUME NEW r \in PeerRec, NEW n \in Node, r.nets = ApplyNode(n).nets
    PROVE  [r EXCEPT !.disco = n.disco, !.home = n.home] = ApplyNode(n)
<1> DEFINE q == [r EXCEPT !.disco = n.disco, !.home = n.home]
<1>1. q \in PeerRec
  BY ZenonT(30) DEF PeerRec, Disco, Home
<1>2. q.disco = n.disco /\ q.home = n.home /\ q.nets = r.nets
  BY DEF PeerRec
<1> HIDE DEF q
<1>3. q = [disco |-> q.disco, home |-> q.home, nets |-> q.nets]
  BY <1>1 DEF PeerRec
<1>4. q = [disco |-> n.disco, home |-> n.home, nets |-> ApplyNode(n).nets]
  BY ZenonT(30), <1>2, <1>3
<1>5. q = ApplyNode(n)
  BY <1>4 DEF ApplyNode
<1> QED BY <1>5 DEF q

\* apply_patches finds the peer of each patch and gives it what the node has now.
LEMMA ApplyPatchesMirrors ==
    ASSUME control \in Maps, Tables, NEW P,
           Leaves({}, {}, P), ApplyPatches(P), control' = control
    PROVE  Leaves({}, {}, {})'
<1> DEFINE at(k) == {n \in P : nodes_by_id[n.id] = k}
           hit == {k \in Key : Present(k) /\ at(k) # {}}
           patch(k) == CHOOSE n \in P : n \in at(k)
<1>1. /\ \A k \in Key : peers'[k] = IF k \in hit
                                     THEN [peers[k] EXCEPT !.disco = patch(k).disco,
                                                           !.home = patch(k).home]
                                     ELSE peers[k]
      /\ nodes_by_id' = nodes_by_id
  BY ZenonT(30) DEF ApplyPatches
<1>2. \A n \in control : nodes_by_id[n.id] = n.key /\ n.key \in Key /\ n \in Node
  BY MapNodes DEF Leaves, Keys
<1>3. P \subseteq control
  BY DEF Leaves
<1>4. ASSUME NEW n \in P
      PROVE  n.key \in hit /\ patch(n.key) = n
  <2>1. n.key \in hit
    BY SMTT(30), <1>2, <1>3 DEF Leaves
  <2>2. patch(n.key) \in P /\ patch(n.key).key = n.key
    <3>1. \E m \in P : m \in at(n.key)
      BY <1>2, <1>3
    <3>2. patch(n.key) \in P /\ patch(n.key) \in at(n.key)
      BY <3>1
    <3> QED BY <3>2, <1>2, <1>3
  <2> HIDE DEF patch
  <2> QED BY <2>1, <2>2, <1>3, MapUnique
<1>5. ASSUME NEW n \in control \ P PROVE n.key \notin hit
  <2>1. ASSUME NEW m \in P, nodes_by_id[m.id] = n.key PROVE FALSE
    BY SMTT(30), <2>1, <1>2, <1>3, MapUnique
  <2> QED BY <2>1
<1>6. \A k \in Key \ Keys(control) : ~ Present(k) /\ k \notin hit
  BY DEF Leaves
<1>7. ASSUME NEW n \in P PROVE peers'[n.key] = ApplyNode(n)
  <2>1. peers[n.key] \in PeerRec /\ peers[n.key].nets = ApplyNode(n).nets
    BY <1>2, <1>3 DEF Leaves, Present, Tables, TableTypes
  <2> HIDE DEF patch, hit
  <2>2. peers'[n.key] = [peers[n.key] EXCEPT !.disco = n.disco, !.home = n.home]
    BY ZenonT(30), <1>1, <1>2, <1>3, <1>4
  <2> QED BY ZenonT(30), <2>1, <2>2, <1>2, <1>3, Patched
<1> HIDE DEF hit
<1>8. ASSUME NEW n \in control PROVE peers'[n.key] = ApplyNode(n)
  <2>1. CASE n \in P
    BY <2>1, <1>7
  <2>2. CASE n \notin P
    BY ZenonT(30), <2>2, <1>1, <1>2, <1>5 DEF Leaves
  <2> QED BY <2>1, <2>2
<1>9. \A k \in Key \ Keys(control) : peers'[k] = None
  BY ZenonT(30), <1>1, <1>6 DEF Present
<1> QED BY ZenonT(30), <1>1, <1>2, <1>8, <1>9 DEF Leaves, Present, Keys, ApplyNode

\* What control sends of a new map is all that the node lacks of it.
LEMMA DeltaMirrors ==
    ASSUME OneKey, control \in Maps, NEW new \in Maps,
           NEW C, NEW R, NEW P \in SUBSET (new \ control),
           C = (new \ control) \ P, R = {m.id : m \in control} \ {n.id : n \in new},
           Leaves({}, {}, {}), \A n \in P : Patchable(n),
           control' = new, UNCHANGED <<nodes_by_id, peers>>
    PROVE  Leaves(C, R, P)'
<1>1. control \subseteq Node /\ new \subseteq Node
  BY SMTT(30) DEF Maps
<1>2. ASSUME NEW n \in new \ C
      PROVE  /\ nodes_by_id[n.id] = n.key
             /\ IF n \in P THEN Present(n.key) /\ peers[n.key].nets = ApplyNode(n).nets
                           ELSE peers[n.key] = ApplyNode(n)
  <2>1. CASE n \in P
    <3>1. PICK m \in control : n.id = m.id /\ n.key = m.key /\ n.nets = m.nets /\ n.addr = m.addr
      BY SMTT(30), <2>1 DEF Patchable
    <3>2. nodes_by_id[m.id] = m.key /\ peers[m.key] = ApplyNode(m)
      BY DEF Leaves
    <3>3. ApplyNode(m).nets = ApplyNode(n).nets
      BY SMTT(30), <3>1 DEF ApplyNode
    <3>4. ApplyNode(m) # None
      BY SMTT(30), <1>1, AppliedNode
    <3> QED BY <2>1, <3>1, <3>2, <3>3, <3>4 DEF Present
  <2>2. CASE n \notin P
    BY <2>2 DEF Leaves
  <2> QED BY SMTT(30), <2>1, <2>2
<1>3. ASSUME NEW k \in Key \ Keys(new), Present(k)
      PROVE  \E id \in R : nodes_by_id[id] = k
  <2>1. k \in Keys(control)
    BY <1>3 DEF Leaves
  <2>2. PICK m \in control : m.key = k
    BY SMTT(30), <2>1 DEF Keys
  <2>3. nodes_by_id[m.id] = k
    BY SMTT(30), <2>2 DEF Leaves
  <2>4. m.id \notin {n.id : n \in new}
    BY <2>2, <1>1, <1>3 DEF OneKey, Keys
  <2> QED BY <2>3, <2>4
<1>4. C \subseteq new /\ P \subseteq new /\ R \cap {n.id : n \in new} = {}
  OBVIOUS
<1> QED BY ZenonT(30), <1>2, <1>3, <1>4 DEF Leaves, Present, Keys, ApplyNode

-----------------------------------------------------------------------------
(* The peers *)

LEMMA FullMirrors ==
    ASSUME NEW new \in Maps, NEW rules \in RuleList, FullResponse(new, rules)
    PROVE  Mirror'
<1>1. /\ resp'.peers = new /\ resp'.changed = {} /\ resp'.removed = {} /\ resp'.patches = {}
      /\ control' = new
  BY DEF FullResponse, Response
<1>2. resp' # None /\ new # None
  BY FullTypes, ResponsesAssumption
<1> QED BY ZenonT(30), <1>1, <1>2 DEF Mirror, Synced

LEMMA DeltaStep ==
    ASSUME OneKey, control \in Maps, Mirror,
           NEW new \in Maps, NEW patched \in SUBSET (new \ control),
           NEW legacy \in Rules, NEW named \in [Name -> Rules],
           DeltaResponse(new, patched, legacy, named)
    PROVE  Mirror'
<1>1. PICK C, R : /\ C = (new \ control) \ patched
                  /\ R = {m.id : m \in control} \ {n.id : n \in new}
  BY Zenon
<1>2. Leaves({}, {}, {})
  BY DEF Mirror, Synced, DeltaResponse
<1>3. Leaves(C, R, patched)'
  BY ZenonT(30), <1>1, <1>2, DeltaMirrors DEF DeltaResponse, peerVars
<1>4. resp'.peers = None /\ resp'.changed = C /\ resp'.removed = R /\ resp'.patches = patched
  BY <1>1 DEF DeltaResponse, Response
<1>5. resp' # None
  BY DeltaTypes
<1>6. Leaves(resp.changed, resp.removed, resp.patches)'
  BY ZenonT(30), <1>3, <1>4 DEF Leaves, Present, Keys, ApplyNode
<1> QED BY ZenonT(30), <1>4, <1>5, <1>6 DEF Mirror, Synced

\* The handlers of the node's fields take the response on, one after the other.
LEMMA HandlersMirror ==
    ASSUME Inv, Mirror, HandlePeers \/ HandleChanged \/ HandleRemoved \/ HandlePatches
    PROVE  Mirror'
<1>1. /\ control \in Maps /\ resp \in Resp /\ resp # None /\ Tables
      /\ resp.removed \in SUBSET Id /\ control' = control
  BY DEF Inv, RespTypes, HandlePeers, HandleChanged, HandleRemoved, HandlePatches, Resp
<1>2. PICK C, R, P : C = resp.changed /\ R = resp.removed /\ P = resp.patches
  BY Zenon
<1>3. resp' # None
  BY ZenonT(30), HandlersTypes DEF Inv
<1>4. CASE HandlePeers
  <2>1. resp.peers = control /\ C = {} /\ R = {} /\ P = {} /\ SetPeers(control)
    BY <1>1, <1>2, <1>4 DEF Mirror, HandlePeers
  <2>2. Leaves({}, {}, {})'
    BY <1>1, <2>1, SetPeersMirrors
  <2>3. resp'.peers = None /\ resp'.changed = {} /\ resp'.removed = {} /\ resp'.patches = {}
    BY ZenonT(30), <1>1, <1>2, <1>4, <2>1 DEF HandlePeers, Resp
  <2> QED BY ZenonT(30), <1>3, <2>2, <2>3 DEF Mirror, Synced, Leaves, Present, Keys, ApplyNode
<1>5. CASE HandleChanged
  <2>1. resp.peers = None /\ Leaves(C, R, P) /\ PeersChanged(C)
    BY ZenonT(30), <1>1, <1>2, <1>5 DEF Mirror, HandleChanged
  <2>2. Leaves({}, R, P)'
    BY <1>1, <1>2, <2>1, PeersChangedMirrors
  <2>3. resp'.peers = None /\ resp'.changed = {} /\ resp'.removed = R /\ resp'.patches = P
    BY <1>1, <1>2, <1>5, <2>1 DEF HandleChanged, Resp
  <2> QED BY ZenonT(30), <1>3, <2>2, <2>3 DEF Mirror, Synced, Leaves, Present, Keys, ApplyNode
<1>6. CASE HandleRemoved
  <2>1. resp.peers = None /\ C = {} /\ Leaves({}, R, P) /\ PeersRemoved(R)
    BY ZenonT(30), <1>1, <1>2, <1>6 DEF Mirror, HandleRemoved
  <2>2. Leaves({}, {}, P)'
    BY <1>1, <1>2, <2>1, PeersRemovedMirrors
  <2>3. resp'.peers = None /\ resp'.changed = {} /\ resp'.removed = {} /\ resp'.patches = P
    BY <1>1, <1>2, <1>6, <2>1 DEF HandleRemoved, Resp
  <2> QED BY ZenonT(30), <1>3, <2>2, <2>3 DEF Mirror, Synced, Leaves, Present, Keys, ApplyNode
<1>7. CASE HandlePatches
  <2>1. resp.peers = None /\ C = {} /\ R = {} /\ Leaves({}, {}, P) /\ ApplyPatches(P)
    BY ZenonT(30), <1>1, <1>2, <1>7 DEF Mirror, HandlePatches, NodesDone
  <2>2. Leaves({}, {}, {})'
    BY <1>1, <1>2, <2>1, ApplyPatchesMirrors
  <2>3. resp'.peers = None /\ resp'.changed = {} /\ resp'.removed = {} /\ resp'.patches = {}
    BY ZenonT(30), <1>1, <1>2, <1>7, <2>1 DEF HandlePatches, Resp
  <2> QED BY ZenonT(30), <1>3, <2>2, <2>3 DEF Mirror, Synced, Leaves, Present, Keys, ApplyNode
<1> QED BY <1>4, <1>5, <1>6, <1>7

LEMMA MirrorNext ==
    ASSUME OneKey, Inv, Mirror, [Next]_vars
    PROVE  Mirror'
<1>1. control \in Maps /\ (resp # None => resp \in Resp)
  BY DEF Inv, RespTypes
<1>2. /\ Silent \in [Name -> Rules] /\ NamedRules \subseteq [Name -> Rules]
      /\ None \in Rules /\ RuleList \subseteq Rules
  BY DEF Silent, Rules, NamedRules
<1>3. CASE \E new \in Maps, rules \in RuleList : FullResponse(new, rules)
  BY <1>3, FullMirrors
<1>4. CASE \E new \in Maps : \E patched \in SUBSET (new \ control) :
             DeltaResponse(new, patched, None, Silent)
  BY <1>4, <1>1, <1>2, DeltaStep
<1>5. CASE \E legacy \in RuleList : DeltaResponse(control, {}, legacy, Silent)
  BY <1>5, <1>1, <1>2, DeltaStep
<1>6. CASE \E named \in NamedRules : DeltaResponse(control, {}, None, named)
  BY <1>6, <1>1, <1>2, DeltaStep
<1>7. CASE StreamEnds
  BY ZenonT(30), <1>7 DEF StreamEnds, Mirror, Synced
<1>8. CASE HandlePeers \/ HandleChanged \/ HandleRemoved \/ HandlePatches
  BY <1>8, HandlersMirror
<1>9. CASE HandleFilter
  <2>1. Leaves({}, {}, {}) /\ UNCHANGED <<control, nodes_by_id, peers>> /\ resp' = None
    BY ZenonT(30), <1>9 DEF HandleFilter, NodesDone, Mirror, peerVars
  <2> QED BY ZenonT(30), <2>1 DEF Mirror, Leaves, Present, Keys, ApplyNode
<1>10. CASE UNCHANGED <<control, starting, resp, nodes_by_id, peers>>
  BY ZenonT(30), <1>10 DEF Mirror, Synced, Leaves, Present, Keys, ApplyNode
<1>11. ASSUME NEW k \in Key, NEW kept \in SUBSET Index,
              \/ \E new \in SUBSET Index : TunnelChanges(k, kept, new)
              \/ TransportConfirms(k, kept)
       PROVE  UNCHANGED <<control, starting, resp, nodes_by_id, peers>>
  BY ZenonT(30), <1>11 DEF TunnelChanges, TransportConfirms, controlVars
<1>12. SetNodeKey \/ UNCHANGED vars => UNCHANGED <<control, starting, resp, nodes_by_id, peers>>
  BY ZenonT(30) DEF SetNodeKey, vars, controlVars, peerVars
<1> QED BY ZenonT(30), <1>3, <1>4, <1>5, <1>6, <1>7, <1>8, <1>9, <1>10, <1>11, <1>12 DEF Next

LEMMA MirrorInvariant == OneKey /\ Spec => [](Inv /\ Mirror)
<1>1. Init => Mirror
  BY ZenonT(30) DEF Init, Mirror, Synced
<1>2. OneKey => (Spec => [](Inv /\ Mirror))
  <2> SUFFICES ASSUME OneKey PROVE Spec => [](Inv /\ Mirror)
    OBVIOUS
  <2>1. Inv /\ [Next]_vars => Inv'
    BY InvNext
  <2>2. Inv /\ Mirror /\ [Next]_vars => Mirror'
    BY MirrorNext
  <2> QED BY <2>1, <2>2, <1>1, InvInit, PTL DEF Spec
<1> QED BY <1>2

\* As long as nodes keep their keys, however control splits its changes over
\* responses and streams, after each response handle_map_response has made the
\* peer table what control has described.
THEOREM PeersAreMirrored == OneKey /\ Spec => []PeersMirror
<1>1. Inv /\ Mirror => PeersMirror
  <2> SUFFICES ASSUME Inv, Leaves({}, {}, {}), NEW k \in Key
               PROVE  peers[k] = IF k \in Keys(control) THEN ApplyNode(NodeWith(control, k))
                                 ELSE None
    BY ZenonT(30) DEF Mirror, PeersMirror
  <2>1. CASE k \in Keys(control)
    BY SMTT(30), <2>1, MapNodes DEF Inv, RespTypes, Leaves
  <2>2. CASE k \notin Keys(control)
    BY <2>2 DEF Leaves, Present
  <2> QED BY <2>1, <2>2
<1> QED BY <1>1, MirrorInvariant, PTL

-----------------------------------------------------------------------------
(* The rules *)

\* What a response makes of the sets in force is what control then has in force.
LEMMA MergedInForce ==
    ASSUME acl \in Sets, NEW legacy \in RuleList \cup {None}, NEW named \in [Name -> Rules]
    PROVE  Merged(acl, legacy, named) = InForce(legacy, named) /\ InForce(legacy, named) \in Sets
<1>1. ASSUME NEW x \in Name
      PROVE  /\ Merged(acl, legacy, named)[x] = InForce(legacy, named)[x]
             /\ InForce(legacy, named)[x] \in RuleList \cup {None}
  BY DEF Merged, InForce, Sets, Rules
<1> QED BY <1>1 DEF Merged, InForce, Sets

LEMMA FiltersNext ==
    ASSUME ~ NamedFirst, RespTypes, Filters, [Next]_vars
    PROVE  Filters'
<1>1. /\ Silent \in [Name -> Rules] /\ NamedRules \subseteq [Name -> Rules]
      /\ None \in Rules /\ RuleList \subseteq Rules
  BY DEF Silent, Rules, NamedRules
<1>2. ASSUME NEW new \in Maps, NEW rules \in RuleList, FullResponse(new, rules)
      PROVE  Filters'
  <2>1. /\ acl' = [x \in Name |-> IF x = Star THEN rules ELSE None]
        /\ resp'.legacy = rules /\ resp'.named = Silent /\ filter_sets' = filter_sets
    BY <1>2 DEF FullResponse, Response, filterVars
  <2>2. resp' # None /\ rules # None
    BY <1>2, FullTypes, RulesAssumption
  <2>3. Merged(filter_sets, rules, Silent) = acl'
    BY <2>1, <2>2 DEF Merged, Silent
  <2>4. acl' \in Sets
    BY <2>1 DEF Sets
  <2> QED BY ZenonT(30), <2>1, <2>2, <2>3, <2>4 DEF Filters, Synced, Merged
<1>3. ASSUME NEW new \in Maps, NEW patched \in SUBSET (new \ control),
             NEW legacy \in RuleList \cup {None}, NEW named \in [Name -> Rules],
             DeltaResponse(new, patched, legacy, named)
      PROVE  Filters'
  <2>1. /\ acl' = InForce(legacy, named) /\ resp'.legacy = legacy /\ resp'.named = named
        /\ filter_sets' = filter_sets /\ filter' = filter
    BY ZenonT(30), <1>3 DEF DeltaResponse, Response, filterVars
  <2>2. resp' # None
    BY <1>1, <1>3, DeltaTypes DEF RespTypes
  <2>3. acl \in Sets /\ filter_sets = acl /\ filter = Compiled
    BY SMTT(30), <1>3 DEF Filters, Synced, DeltaResponse
  <2>4. Merged(acl, legacy, named) = acl' /\ acl' \in Sets
    BY <2>1, <2>3, MergedInForce
  <2>5. legacy = None /\ named = Silent => acl' = acl
    BY <2>1, <2>3 DEF InForce, Silent, Sets
  <2>6. Merged(filter_sets', resp'.legacy, resp'.named) = acl' /\ filter_sets' \in Sets
    BY ZenonT(30), <2>1, <2>3, <2>4
  <2>7. resp'.legacy = None /\ resp'.named = Silent => filter' = Compiled'
    BY ZenonT(30), <2>1, <2>3, <2>5 DEF Compiled, AllRules
  <2> QED BY ZenonT(30), <2>2, <2>4, <2>6, <2>7 DEF Filters, Synced
<1>4. CASE HandlePeers \/ HandleChanged \/ HandleRemoved \/ HandlePatches
  <2>1. resp # None /\ resp \in Resp /\ resp' # None
    BY <1>4, HandlersTypes DEF RespTypes, HandlePeers, HandleChanged, HandleRemoved, HandlePatches
  <2>2. resp'.legacy = resp.legacy /\ resp'.named = resp.named /\ UNCHANGED <<acl, filterVars>>
    BY <1>4, <2>1 DEF HandlePeers, HandleChanged, HandleRemoved, HandlePatches, Resp
  <2> QED BY ZenonT(30), <2>1, <2>2 DEF Filters, Synced, Merged, Compiled, AllRules, filterVars
<1>5. CASE HandleFilter
  <2>1. /\ filter_sets' = acl /\ acl' = acl /\ resp' = None /\ acl \in Sets
        /\ filter' = IF resp.legacy # None \/ resp.named # Silent
                       THEN {Compile(r) : r \in AllRules(filter_sets')} ELSE filter
        /\ resp.legacy = None /\ resp.named = Silent => filter = Compiled
    BY ZenonT(30), <1>5 DEF HandleFilter, Filters
  <2>2. filter' = Compiled
    BY ZenonT(30), <2>1 DEF Compiled, AllRules
  <2> QED BY ZenonT(30), <2>1, <2>2 DEF Filters, Compiled, AllRules
<1>6. CASE StreamEnds
  BY ZenonT(30), <1>6 DEF StreamEnds, Filters, Synced, filterVars
<1>7. CASE UNCHANGED <<controlVars, filterVars>>
  BY ZenonT(30), <1>7 DEF Filters, Synced, Merged, Compiled, AllRules, filterVars, controlVars
<1>8. ASSUME NEW k \in Key, NEW kept \in SUBSET Index,
             \/ \E new \in SUBSET Index : TunnelChanges(k, kept, new)
             \/ TransportConfirms(k, kept)
      PROVE  UNCHANGED <<controlVars, filterVars>>
  BY ZenonT(30), <1>8 DEF TunnelChanges, TransportConfirms
<1>9. SetNodeKey \/ UNCHANGED vars => UNCHANGED <<controlVars, filterVars>>
  BY ZenonT(30) DEF SetNodeKey, vars
<1>10. CASE \E new \in Maps : \E patched \in SUBSET (new \ control) :
              DeltaResponse(new, patched, None, Silent)
  BY <1>10, <1>1, <1>3
<1>11. CASE \E legacy \in RuleList : DeltaResponse(control, {}, legacy, Silent)
  BY <1>11, <1>1, <1>3 DEF RespTypes
<1>12. CASE \E named \in NamedRules : DeltaResponse(control, {}, None, named)
  BY <1>12, <1>1, <1>3 DEF RespTypes
<1> QED BY ZenonT(30), <1>2, <1>4, <1>5, <1>6, <1>7, <1>8, <1>9, <1>10, <1>11, <1>12 DEF Next

\* cidr_contains holds of the addresses of the block, and a compiled set
\* contains the addresses the rule's entry stands for.
LEMMA CidrExact ==
    ASSUME NEW net \in Net, NEW ip \in Address
    PROVE  CidrContains(net, ip) <=> ip \in Block(net)
<1> DEFINE size == 2^(Width - net[2])
<1>1. Width - net[2] \in 0 .. Width /\ net[1] \in Nat /\ ip \in Nat
  BY NodesAssumption DEF Net, Address
<1>2. size \in Nat \ {0}
  BY <1>1, PowersAssumption
<1> HIDE DEF size
<1>3. \A a, b \in Nat : a - (a % size) = b - (b % size) <=> a \div size = b \div size
  BY <1>2
<1>4. net[1] - (net[1] % size) = ip - (ip % size) <=> net[1] \div size = ip \div size
  BY ZenonT(30), <1>1, <1>3
<1>5. (ip \div size = net[1] \div size) <=> (net[1] \div size = ip \div size)
  BY Zenon
<1> QED BY ZenonT(30), <1>4, <1>5 DEF CidrContains, Masked, Block, size

LEMMA IpSetExact ==
    ASSUME NEW set \in IpSet, NEW ip \in Address
    PROVE  (set.kind # "bad" /\ IpSetContains(set, ip)) <=> ip \in Members(set)
<1>1. CASE set \in [kind : {"cidr"}, net : Net]
  <2>1. set.kind = "cidr" /\ set.net \in Net
    BY <1>1
  <2> QED BY <2>1, CidrExact DEF IpSetContains, Members
<1>2. CASE set \in [kind : {"range"}, first : Address, last : Address]
  <2>1. set.kind = "range"
    BY <1>2
  <2> QED BY <2>1 DEF IpSetContains, Members
<1>3. CASE set \in [kind : {"bad"}]
  <2>1. set.kind = "bad"
    BY <1>3
  <2> QED BY <2>1 DEF Members
<1> QED BY <1>1, <1>2, <1>3 DEF IpSet

Admitted(r, t) ==
    /\ ProtoAllowed(r, t.proto)
    /\ \E s \in r.srcs : IpSetContains(s, t.src)
    /\ \E d \in r.dsts : /\ IpSetContains(d.set, t.dst)
                         /\ t.proto \in {"tcp", "udp"} => t.port \in d.first .. d.last
Granted(r, t) ==
    /\ t.proto \in (IF r.protos = {} THEN Proto \ {"other"} ELSE r.protos)
    /\ \E s \in r.srcs : t.src \in Members(s)
    /\ \E d \in r.dsts :
         /\ t.dst \in Members(d.set)
         /\ t.proto \in {"icmp", "other"} \/ (d.first <= t.port /\ t.port <= d.last)

\* A compiled rule admits what the rule grants.
LEMMA RuleExact ==
    ASSUME NEW r \in Rule, NEW t \in Tuple
    PROVE  Admitted(Compile(r), t) <=> Granted(r, t)
<1>1. /\ t.proto \in Proto /\ t.src \in Address /\ t.dst \in Address /\ t.port \in Port
      /\ r.srcs \subseteq IpSet /\ r.protos \subseteq Proto
      /\ r.dsts \subseteq [set : IpSet, first : Port, last : Port]
  BY SMTT(30) DEF Tuple, Rule
<1>2. /\ Compile(r).srcs = {s \in r.srcs : s.kind # "bad"}
      /\ Compile(r).dsts = {d \in r.dsts : d.set.kind # "bad"}
      /\ Compile(r).protos = r.protos
  BY DEF Compile
<1>3. ProtoAllowed(Compile(r), t.proto)
        <=> t.proto \in (IF r.protos = {} THEN Proto \ {"other"} ELSE r.protos)
  BY SMTT(30), <1>1, <1>2 DEF ProtoAllowed, Proto
<1>4. (\E s \in Compile(r).srcs : IpSetContains(s, t.src)) <=> \E s \in r.srcs : t.src \in Members(s)
  BY <1>1, <1>2, IpSetExact
<1>5. ASSUME NEW d \in r.dsts
      PROVE  (t.proto \in {"tcp", "udp"} => t.port \in d.first .. d.last)
               <=> t.proto \in {"icmp", "other"} \/ (d.first <= t.port /\ t.port <= d.last)
  BY <1>1 DEF Proto, Port
<1>6. \A d \in r.dsts : d.set \in IpSet
  BY <1>1
<1>7. \A d \in r.dsts : (d.set.kind # "bad" /\ IpSetContains(d.set, t.dst)) <=> t.dst \in Members(d.set)
  BY <1>1, <1>6, IpSetExact
<1> QED BY ZenonT(30), <1>2, <1>3, <1>4, <1>5, <1>7 DEF Admitted, Granted

\* A stream that starts with the legacy field: after each response, whatever
\* named sets were merged, replaced or deleted on the way, allows_tuple admits
\* exactly the packets that the rules in force grant.
THEOREM FilterIsExact == ~ NamedFirst /\ Spec => []FilterExact
<1>1. Filters => FilterExact
  <2> SUFFICES ASSUME Filters, Synced, NEW t \in Tuple
               PROVE  Admits(t) <=> Permitted(t)
    BY DEF FilterExact
  <2>1. acl \in Sets /\ filter = {Compile(r) : r \in AllRules(acl)}
    BY DEF Filters, Compiled
  <2>2. AllRules(acl) \in SUBSET UNION RuleList
    BY <2>1 DEF AllRules, Sets
  <2>3. filter # None
    BY ZenonT(30), <2>1, <2>2, RulesAssumption
  <2>4. AllRules(acl) \subseteq Rule
    BY <2>2, RulesAssumption
  <2>5. (\E r \in filter : Admitted(r, t)) <=> \E r \in AllRules(acl) : Granted(r, t)
    BY ZenonT(30), <2>1, <2>4, RuleExact
  <2> QED BY ZenonT(30), <2>3, <2>5 DEF Admits, AllowsTuple, Permitted, Admitted, Granted
<1>2. Init => RespTypes /\ Filters
  <2> SUFFICES ASSUME Init PROVE RespTypes /\ Filters
    OBVIOUS
  <2>1. RespTypes
    BY DEF Init, RespTypes, Maps
  <2>2. acl \in Sets /\ filter_sets \in Sets
    BY DEF Init, Sets
  <2> QED BY ZenonT(30), <2>1, <2>2 DEF Init, Filters, Synced
<1>3. RespTypes /\ [Next]_vars => RespTypes'
  <2>1. RespTypes /\ UNCHANGED vars => RespTypes'
    BY DEF RespTypes, vars, controlVars
  <2> QED BY <2>1, ResponseTypes
<1>4. ~ NamedFirst => (Spec => [](RespTypes /\ Filters))
  <2> SUFFICES ASSUME ~ NamedFirst PROVE Spec => [](RespTypes /\ Filters)
    OBVIOUS
  <2>1. RespTypes /\ Filters /\ [Next]_vars => Filters'
    BY FiltersNext
  <2> QED BY <2>1, <1>2, <1>3, PTL DEF Spec
<1> QED BY <1>1, <1>4, PTL

-----------------------------------------------------------------------------
(* The routes *)

\* No node has another one's address, or advertises it as a host route.
OwnAddresses ==
    /\ Width > 0
    /\ \A n, m \in Node : n.key # m.key => n.addr # m.addr /\ <<n.addr, Width>> \notin m.nets

\* A host route matches its own address only.
LEMMA HostRoute ==
    ASSUME NEW a \in Address, NEW ip \in Address
    PROVE  CidrContains(<<a, Width>>, ip) <=> a = ip
<1>1. Width - Width = 0 /\ 2^0 = 1 /\ a \in Nat /\ ip \in Nat
  BY NodesAssumption DEF Address
<1>2. \A x \in Nat : x - (x % 1) = x
  OBVIOUS
<1>3. Masked(a, Width) = a /\ Masked(ip, Width) = ip
  BY ZenonT(30), <1>1, <1>2 DEF Masked
<1> QED BY <1>3 DEF CidrContains

\* However long the prefixes others advertise, a host route is the longest match.
LEMMA OwnRoute ==
    ASSUME OwnAddresses, control \in Maps, Tables, Leaves({}, {}, {}), NEW n \in control
    PROVE  Route(n.addr) = {n.key} /\ AllowedSource(n.key, n.addr)
<1>1. /\ control \subseteq Node /\ Keys(control) \subseteq Key
      /\ n.key \in Key /\ n.addr \in Address /\ Width \in Nat \ {0}
  BY MapNodes, NodesAssumption DEF Keys, OwnAddresses
<1>2. \A m \in control : m.key \in Key /\ Present(m.key)
                         /\ peers[m.key].nets = {c \in m.nets \cup {<<m.addr, Width>>} : c[2] # 0}
  <2>1. \A m \in control : peers[m.key] = ApplyNode(m) /\ ApplyNode(m) # None
    BY SMTT(30), <1>1, AppliedNode DEF Leaves
  <2>2. \A m \in control : m.key \in Key
    BY SMTT(30), <1>1 DEF Keys
  <2>3. ASSUME NEW m \in control
        PROVE  ApplyNode(m).nets = {c \in m.nets \cup {<<m.addr, Width>>} : c[2] # 0}
    BY DEF ApplyNode
  <2> QED BY ZenonT(30), <2>1, <2>2, <2>3 DEF Present
<1>3. \A k \in Key : Present(k) => \E m \in control : m.key = k
  BY SMTT(30) DEF Leaves, Keys
<1>4. \A k \in Key : Present(k) => Matches(k, n.addr) \subseteq Net
  BY ZenonT(30) DEF Tables, TableTypes, Present, PeerRec, Matches
<1>5. <<n.addr, Width>> \in Matches(n.key, n.addr)
  BY SMTT(30), <1>1, <1>2, HostRoute DEF Matches
<1>6. ASSUME NEW k \in Key, Present(k), NEW c \in Matches(k, n.addr), c[2] = Width
      PROVE  k = n.key
  <2>1. PICK m \in control : m.key = k
    BY SMTT(30), <1>3, <1>6
  <2>2. c \in m.nets \cup {<<m.addr, Width>>} /\ c \in Net /\ CidrContains(c, n.addr)
    BY SMTT(30), <2>1, <1>2, <1>4, <1>6 DEF Matches
  <2>3. c = <<c[1], Width>> /\ c[1] \in Address
    BY <2>2, <1>6 DEF Net
  <2>4. c = <<n.addr, Width>>
    BY <2>2, <2>3, <1>1, HostRoute
  <2>5. <<n.addr, Width>> \in m.nets \/ n.addr = m.addr
    BY <2>2, <2>4
  <2> QED BY <2>1, <2>5, <1>1 DEF OwnAddresses
<1> DEFINE lens == {c[2] : c \in UNION {Matches(k, n.addr) : k \in {l \in Key : Present(l)}}}
<1>7. Width \in lens
  <2>1. <<n.addr, Width>> \in UNION {Matches(k, n.addr) : k \in {l \in Key : Present(l)}}
    BY ZenonT(30), <1>2, <1>5
  <2>2. <<n.addr, Width>>[2] = Width
    BY SMTT(30)
  <2> QED BY ZenonT(30), <2>1, <2>2
<1>8. \A b \in lens : b \in Nat /\ b <= Width
  BY <1>1, <1>4 DEF Net
<1>9. Longest(n.addr) = Width
  <2>1. Longest(n.addr) = CHOOSE b \in lens : \A a \in lens : a <= b
    BY DEF Longest
  <2> HIDE DEF lens
  <2>2. \A b \in lens : (\A a \in lens : a <= b) => b = Width
    BY SMTT(30), <1>1, <1>7, <1>8
  <2> QED BY <2>1, <2>2, <1>7, <1>8
<1>10. n.key \in Route(n.addr)
  BY <1>1, <1>2, <1>5, <1>9 DEF Route
<1>11. \A k \in Route(n.addr) : k = n.key
  BY <1>6, <1>9 DEF Route
<1> QED BY SMTT(30), <1>5, <1>10, <1>11 DEF AllowedSource

\* After each response a packet to a node's address goes to that node (route),
\* and the node may send from it (allowed_source), whatever prefixes, default
\* routes among them, other nodes advertise.
THEOREM OwnAddressesRouted == OneKey /\ OwnAddresses /\ Spec => []OwnAddressRouted
<1>1. OwnAddresses => (OneKey /\ Spec => []OwnAddressRouted)
  <2> SUFFICES ASSUME OwnAddresses PROVE OneKey /\ Spec => []OwnAddressRouted
    OBVIOUS
  <2>1. Inv /\ Mirror => OwnAddressRouted
    BY ZenonT(30), OwnRoute DEF Inv, RespTypes, Mirror, OwnAddressRouted
  <2> QED BY <2>1, MirrorInvariant, PTL
<1> QED BY <1>1
=============================================================================
