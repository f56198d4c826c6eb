----------------------------- MODULE DiscoPath ------------------------------
(***************************************************************************)
(* How two nodes choose between direct UDP paths and the relay             *)
(* (magicsock.rs): disco pings and pongs, call-me-maybe, the trust in an   *)
(* address and its renewal by pongs and by tunnel packets, heartbeats, and *)
(* the fall back to DERP.  Each direction of each direct path may die and  *)
(* come back on its own; the relay always works (Derp is about that).      *)
(*                                                                         *)
(* Path i pairs one address of either node: what is sent to the other's    *)
(* address i comes from one's own address i.  Timers count the seconds of  *)
(* the tick loop down to zero; zero is due, or expired.                    *)
(***************************************************************************)
EXTENDS Integers, FiniteSets, FiniteSetsExt

CONSTANTS
    Node,               \* the two nodes
    Sender,             \* the one whose netstack keeps sending
    Path,               \* direct paths; the lower number is the faster one
    Known,              \* the endpoints control tells each node of the other
    Mapped,             \* the addresses a node advertises (local_endpoints)
    TRUST_UDP_ADDR, HEARTBEAT_INTERVAL, SESSION_ACTIVE_TIMEOUT,
    DISCO_PING_INTERVAL, CALL_ME_MAYBE_INTERVAL,
    MaxMishaps,         \* bound: changes of a path, and messages of a tunnel's own
    MaxFlight,          \* bound: messages under way when a node starts something
    NoPath

Relay == 0

ASSUME PathsAssumption ==
    /\ \E n, m \in Node : n # m /\ Node = {n, m}
    /\ Sender \in Node
    /\ Path \subseteq Nat /\ Relay \notin Path /\ NoPath \notin Path
    /\ Known \subseteq Path /\ Mapped \subseteq Path
    /\ TRUST_UDP_ADDR \in Nat \ {0}

VARIABLES
    up,                 \* the paths on which a node's packets get through
    dead,               \* seconds since they do not, up to Blackout + 1
    mishaps,
    best, trust, roamed,        \* Peer::best: address, trust_until, latency is 0
    last_heartbeat, last_ping_round, last_cmm, last_activity,
    endpoints,          \* Peer::endpoints
    net,                \* messages under way
    due,                \* nodes whose tick loop has still to run this second
    sent                \* nodes that have sent data this second

linkVars == <<up, dead>>
bestVars == <<best, trust, roamed>>
timerVars == <<last_heartbeat, last_ping_round, last_cmm, last_activity>>
pathVars == <<linkVars, mishaps, bestVars, timerVars, endpoints, net, due, sent>>

Peer(n) == CHOOSE m \in Node : m # n

\* How long a node may go on sending into a path that is dead: the peer trusts
\* it for TRUST_UDP_ADDR after the last packet that got through, and what the
\* peer sends until then renews the node's own trust.  (A trust given within a
\* second is over at the TRUST_UDP_ADDR-th tick after it.)
Blackout == 2 * (TRUST_UDP_ADDR - 1)

PathInit ==
    /\ up = [n \in Node |-> Path]
    /\ dead = [n \in Node |-> [i \in Path |-> 0]]
    /\ mishaps = 0
    /\ best = [n \in Node |-> NoPath]
    /\ trust = [n \in Node |-> 0]
    /\ roamed = [n \in Node |-> FALSE]
    /\ last_heartbeat = [n \in Node |-> 0]
    /\ last_ping_round = [n \in Node |-> 0]
    /\ last_cmm = [n \in Node |-> 0]
    /\ last_activity = [n \in Node |-> 0]
    /\ endpoints = [n \in Node |-> Known]
    /\ net = {} /\ due = {} /\ sent = {}

-----------------------------------------------------------------------------
(* Sending *)

Msg(typ, n, i, about) == [typ |-> typ, to |-> Peer(n), path |-> i, about |-> about]

\* A packet of n on path i is lost if the path is dead in this direction.
Sent(n, msgs) == {m \in msgs : m.path = Relay \/ m.path \in up[n]}

Trusted(n) == best[n] # NoPath /\ trust[n] > 0

\* send_wg: the trusted address, or the peer's home region.
Wg(n, typ) == Msg(typ, n, IF Trusted(n) THEN best[n] ELSE Relay, NoPath)

\* send_ping to address i: the transaction id is known by the address it was
\* sent to.
Ping(n, i) == Msg("ping", n, i, i)

\* maybe_start_discovery and the two rounds it starts.
PingDue(n) == ~Trusted(n) /\ last_ping_round[n] = 0
CmmDue(n) == ~Trusted(n) /\ last_cmm[n] = 0
Discovery(n) ==
    (IF PingDue(n) THEN {Ping(n, i) : i \in endpoints[n]} ELSE {})
      \cup (IF CmmDue(n) /\ Mapped # {} THEN {Msg("cmm", n, Relay, NoPath)} ELSE {})
StartDiscovery(n) ==
    /\ last_ping_round' = IF PingDue(n)
                            THEN [last_ping_round EXCEPT ![n] = DISCO_PING_INTERVAL]
                            ELSE last_ping_round
    /\ last_cmm' = IF CmmDue(n)
                     THEN [last_cmm EXCEPT ![n] = CALL_ME_MAYBE_INTERVAL]
                     ELSE last_cmm

\* send_ip.
SendIp(n) ==
    /\ n \notin sent /\ Cardinality(net) <= MaxFlight
    /\ sent' = sent \cup {n}
    /\ last_activity' = [last_activity EXCEPT ![n] = SESSION_ACTIVE_TIMEOUT]
    /\ net' = net \cup Sent(n, {Wg(n, "data")} \cup Discovery(n))
    /\ StartDiscovery(n)
    /\ UNCHANGED <<linkVars, mishaps, bestVars, last_heartbeat, endpoints, due>>

-----------------------------------------------------------------------------
(* Receiving *)

\* note_path: a tunnel packet renews the trust in the address it came from, or
\* makes it the best one if none is trusted.
NotePath(n, i) ==
    IF i = Relay \/ (Trusted(n) /\ best[n] # i)
      THEN UNCHANGED bestVars
      ELSE /\ best' = [best EXCEPT ![n] = i]
           /\ trust' = [trust EXCEPT ![n] = TRUST_UDP_ADDR]
           /\ roamed' = [roamed EXCEPT ![n] = IF best[n] = i THEN @ ELSE TRUE]

\* handle_packet: data counts as activity, a keepalive does not; a handshake
\* initiation is answered where it came from.
HandleTunnel(n, m) ==
    /\ last_activity' = IF m.typ = "data"
                          THEN [last_activity EXCEPT ![n] = SESSION_ACTIVE_TIMEOUT]
                          ELSE last_activity
    /\ NotePath(n, m.path)
    /\ net' = (net \ {m}) \cup
                Sent(n, IF m.typ = "initiation"
                          THEN {Msg("response", n, m.path, NoPath)} ELSE {})
    /\ UNCHANGED <<last_heartbeat, last_ping_round, last_cmm, endpoints>>

\* Mutant of HandlePing: a ping, too, is taken for proof that the path works.
PingIsProof(n, m) ==
    /\ NotePath(n, m.path)
    /\ net' = (net \ {m}) \cup Sent(n, {Msg("pong", n, m.path, m.about)})
    /\ UNCHANGED <<timerVars, endpoints>>

\* handle_disco: a ping is answered where it came from, and its sender probed
\* there unless that address is trusted already.
HandlePing(n, m) ==
    LET probe == IF m.path # Relay /\ ~(Trusted(n) /\ best[n] = m.path)
                   THEN {Ping(n, m.path)} ELSE {}
    IN /\ net' = (net \ {m}) \cup Sent(n, {Msg("pong", n, m.path, m.about)} \cup probe)
       /\ UNCHANGED <<bestVars, timerVars, endpoints>>

\* A pong makes the pinged address the best one, unless a trusted one is as fast.
Better(n, i) ==
    \/ ~Trusted(n)
    \/ best[n] = i
    \/ ~roamed[n] /\ i < best[n]
HandlePong(n, m) ==
    LET won == Better(n, m.about) IN
    /\ best' = [best EXCEPT ![n] = IF won THEN m.about ELSE @]
    /\ trust' = [trust EXCEPT ![n] = IF won THEN TRUST_UDP_ADDR ELSE @]
    /\ roamed' = [roamed EXCEPT ![n] = ~won /\ @]
    /\ net' = net \ {m}
    /\ UNCHANGED <<timerVars, endpoints>>

\* Mutant of HandleCallMeMaybe: only endpoints already known are pinged.
CallIgnoresNew(n, m) ==
    /\ last_ping_round' = [last_ping_round EXCEPT ![n] = DISCO_PING_INTERVAL]
    /\ net' = (net \ {m}) \cup Sent(n, {Ping(n, i) : i \in endpoints[n]})
    /\ UNCHANGED <<bestVars, last_heartbeat, last_cmm, last_activity, endpoints>>

\* Call-me-maybe: the endpoints are added, and all are pinged at once.
HandleCallMeMaybe(n, m) ==
    LET all == endpoints[n] \cup Mapped IN
    /\ endpoints' = [endpoints EXCEPT ![n] = all]
    /\ last_ping_round' = [last_ping_round EXCEPT ![n] = DISCO_PING_INTERVAL]
    /\ net' = (net \ {m}) \cup Sent(n, {Ping(n, i) : i \in all})
    /\ UNCHANGED <<bestVars, last_heartbeat, last_cmm, last_activity>>

Deliver(m) ==
    /\ \/ m.typ \in {"data", "keepalive", "initiation", "response"}
            /\ HandleTunnel(m.to, m)
       \/ m.typ = "ping" /\ HandlePing(m.to, m)
       \/ m.typ = "pong" /\ HandlePong(m.to, m)
       \/ m.typ = "cmm" /\ HandleCallMeMaybe(m.to, m)
    /\ UNCHANGED <<linkVars, mishaps, due, sent>>

-----------------------------------------------------------------------------
(* Time *)

Down(t) == [n \in Node |-> IF t[n] > 0 THEN t[n] - 1 ELSE 0]

\* A second passes.  Messages are faster than that, and each tick loop runs once.
Tick ==
    /\ net = {} /\ due = {}
    /\ trust' = Down(trust)
    /\ last_heartbeat' = Down(last_heartbeat)
    /\ last_ping_round' = Down(last_ping_round)
    /\ last_cmm' = Down(last_cmm)
    /\ last_activity' = Down(last_activity)
    /\ dead' = [n \in Node |-> [i \in Path |->
                  IF i \in up[n] THEN 0 ELSE Min({dead[n][i] + 1, Blackout + 1})]]
    /\ due' = Node /\ sent' = {}
    /\ UNCHANGED <<up, mishaps, best, roamed, endpoints, net>>

Active(n) == last_activity[n] > 0

\* tick_loop for the peer: what the tunnel's own timers send (`out'), then
\* peer_path_maintenance: an address that expired is forgotten while there is
\* traffic; a best address gets a heartbeat, no best address starts discovery.
TickLoop(n, out) ==
    LET kept == IF Active(n) /\ ~Trusted(n) THEN NoPath ELSE best[n]
        beat == Active(n) /\ kept # NoPath /\ last_heartbeat[n] = 0
        look == Active(n) /\ kept = NoPath
    IN /\ n \in due /\ Cardinality(net) <= MaxFlight
       /\ due' = due \ {n}
       /\ mishaps + Cardinality(out) <= MaxMishaps
       /\ mishaps' = mishaps + Cardinality(out)
       /\ best' = [best EXCEPT ![n] = kept]
       /\ last_heartbeat' = IF beat
                              THEN [last_heartbeat EXCEPT ![n] = HEARTBEAT_INTERVAL]
                              ELSE last_heartbeat
       /\ IF look THEN StartDiscovery(n) ELSE UNCHANGED <<last_ping_round, last_cmm>>
       /\ net' = net \cup Sent(n, {Wg(n, typ) : typ \in out}
                                    \cup (IF beat THEN {Ping(n, kept)} ELSE {})
                                    \cup (IF look THEN Discovery(n) ELSE {}))
       /\ UNCHANGED <<linkVars, trust, roamed, last_activity, endpoints, sent>>

\* A direction of a path dies or comes back.
LinkChanges(n, i) ==
    /\ mishaps < MaxMishaps
    /\ mishaps' = mishaps + 1
    /\ up' = [up EXCEPT ![n] = IF i \in @ THEN @ \ {i} ELSE @ \cup {i}]
    /\ dead' = [dead EXCEPT ![n][i] = 0]
    /\ UNCHANGED <<bestVars, timerVars, endpoints, net, due, sent>>

\* What Tunn::tick may give: nothing, a keepalive, or a new handshake.
Outs == {{}, {"keepalive"}, {"initiation"}}

PathNext ==
    \/ \E n \in Node : \/ SendIp(n)
                       \/ \E out \in Outs : TickLoop(n, out)
                       \/ \E i \in Path : LinkChanges(n, i)
    \/ \E m \in net : Deliver(m)
    \/ Tick

Message == [typ : {"data", "keepalive", "initiation", "response", "ping", "pong", "cmm"},
            to : Node, path : Path \cup {Relay}, about : Path \cup {NoPath}]

\* Every message that is not lost arrives, the tick loops run and time passes;
\* one netstack goes on sending.
PathFairness ==
    /\ \A m \in Message : WF_pathVars(m \in net /\ Deliver(m))
    /\ \A n \in Node : WF_pathVars(TickLoop(n, {}))
    /\ WF_pathVars(Tick)
    /\ WF_pathVars(SendIp(Sender))

PathSpec == PathInit /\ [][PathNext]_pathVars /\ PathFairness

-----------------------------------------------------------------------------
(* Properties *)

\* A node does not go on sending into a path that is dead, even when the other
\* direction is alive and brings packets that renew its trust: the peer, which
\* hears nothing, stops using the path first.
BlackoutBounded ==
    \A n \in Node, i \in Path :
      dead[n][i] > Blackout => ~(Trusted(n) /\ best[n] = i)

\* While there is traffic and some path works both ways, both nodes come back to
\* a direct path that works.
Works(i) == \A n \in Node : i \in up[n]
DirectReturns ==
    <>[](\E i \in Path : Works(i))
      => []<>(\A n \in Node : Trusted(n) /\ best[n] \in up[n])

\* Whatever discovery the nodes started comes to an end: again and again no
\* message is under way.  (Not so with two paths that work: two nodes that both
\* trust one of them answer a ping on the other with a ping of their own, for
\* ever.)
ProbesEnd == []<>(net = {})
=============================================================================
