-------------------------------- MODULE Tunn --------------------------------
(***************************************************************************)
(* Two WireGuard tunnels that talk to each other: `struct Tunn' of         *)
(* crates/tsnode/src/wireguard.rs on each of two nodes, over a network     *)
(* that may lose, duplicate, delay and reorder every message.              *)
(*                                                                         *)
(* Messages are never removed from the sets below.  A message may be       *)
(* received at any time after it was sent, any number of times or never,   *)
(* which covers UDP and the DERP relay and the switches between them.      *)
(*                                                                         *)
(* Cryptography is symbolic.  One number drawn from `fresh' stands for the *)
(* random receiver index and the ephemeral key that are generated together *)
(* (new_initiation, accept_initiation).  A session key is the pair of the  *)
(* two ephemerals, and each direction of it is a key of its own.  The      *)
(* timestamp of an initiation is the same number: timestamps of one run    *)
(* of the program increase.                                                *)
(*                                                                         *)
(* Time is the age of each thing the code compares with a limit, counted   *)
(* only up to that limit: the code never tells ages beyond it apart.       *)
(***************************************************************************)
EXTENDS Integers, Sequences

CONSTANTS A, B,                \* the two nodes
          Packet,              \* IP packets handed to encapsulate
          Keepalive,           \* the empty payload
          None,                \* Option::None
          REKEY_AFTER_TIME, REJECT_AFTER_TIME,
          REKEY_TIMEOUT, KEEPALIVE_TIMEOUT,
          REKEY_AFTER_MESSAGES, MAX_HANDSHAKE_ATTEMPTS,
          QUEUE_LIMIT,         \* packets queued for a session: 8 in the code
          REPLAY_BITS,         \* width of the replay window
          Restarting,          \* the nodes that may restart
          MaxFresh,            \* bound: handshake messages in a behaviour
          MaxCounter           \* bound: messages sealed by encapsulate and
                               \* tick in one session

ASSUME NodesAssumption == A # B

ASSUME PayloadAssumption == Keepalive \notin Packet

ASSUME LimitsAssumption ==
    /\ REKEY_AFTER_TIME \in Nat
    /\ REJECT_AFTER_TIME \in Nat
    /\ REKEY_TIMEOUT \in Nat
    /\ KEEPALIVE_TIMEOUT \in Nat
    /\ REKEY_AFTER_MESSAGES \in Nat
    /\ MAX_HANDSHAKE_ATTEMPTS \in Nat
    /\ QUEUE_LIMIT \in Nat \ {0}
    /\ REPLAY_BITS \in Nat
    /\ MaxFresh \in Nat
    /\ MaxCounter \in Nat

Node == {A, B}
Peer(n) == IF n = A THEN B ELSE A

VARIABLES pending, current, previous, last_initiation_ts,
          since_sent, since_received,    \* ages of last_sent, last_received
          need_keepalive, queued,
          initiations, responses, transports,   \* every message sent so far
          fresh,                         \* the next random number
          given, delivered               \* history: packets in, packets out

tunnVars == <<pending, current, previous, last_initiation_ts, since_sent,
              since_received, need_keepalive, queued>>
netVars == <<initiations, responses, transports>>
vars == <<tunnVars, netVars, fresh, given, delivered>>

Payload == Packet \cup {Keepalive}
Key == Nat \X Nat        \* ephemerals of the initiator and of the responder

PendingInitiation ==
    [local_index : Nat, age : 0 .. REKEY_TIMEOUT, attempts : Nat]

\* `last' and `seen' are the replay window: module ReplayWindow shows that the
\* bitmap of the code answers as this record does.  The flag `confirmed' is
\* written by the code and never read, so it is left out.
Session ==
    [local_index : Nat, remote_index : Nat, key : Key, is_initiator : BOOLEAN,
     send_counter : Nat, last : Nat, seen : SUBSET Nat,
     age : 0 .. REJECT_AFTER_TIME]

ASSUME NoneAssumption == None \notin Session \cup PendingInitiation

send_key(s) == <<s.key, s.is_initiator>>
recv_key(s) == <<s.key, ~s.is_initiator>>

Initiation == [from : Node, index : Nat, timestamp : Nat]
Response == [to : Node, index : Nat, receiver : Nat, key : Key]
Transport == [receiver : Nat, key : Key \X BOOLEAN, counter : Nat,
              payload : Payload]

\* Type invariant of struct Tunn, with the limit of the queue.
TypeOK ==
    /\ pending \in [Node -> PendingInitiation \cup {None}]
    /\ current \in [Node -> Session \cup {None}]
    /\ previous \in [Node -> Session \cup {None}]
    /\ last_initiation_ts \in [Node -> Nat]
    /\ since_sent \in [Node -> 0 .. KEEPALIVE_TIMEOUT]
    /\ since_received \in [Node -> 0 .. 2 * KEEPALIVE_TIMEOUT]
    /\ need_keepalive \in [Node -> BOOLEAN]
    /\ queued \in [Node -> Seq(Packet)]
    /\ \A n \in Node : Len(queued[n]) <= QUEUE_LIMIT
    /\ initiations \subseteq Initiation
    /\ responses \subseteq Response
    /\ transports \subseteq Transport
    /\ fresh \in Nat \ {0}
    /\ given \in [Node -> SUBSET Packet]
    /\ delivered \in [Node -> [Packet -> Nat]]

-----------------------------------------------------------------------------
(* Building blocks.                                                        *)

\* Tunn::new
Init ==
    /\ pending = [n \in Node |-> None]
    /\ current = [n \in Node |-> None]
    /\ previous = [n \in Node |-> None]
    /\ last_initiation_ts = [n \in Node |-> 0]
    /\ since_sent = [n \in Node |-> KEEPALIVE_TIMEOUT]
    /\ since_received = [n \in Node |-> 2 * KEEPALIVE_TIMEOUT]
    /\ need_keepalive = [n \in Node |-> FALSE]
    /\ queued = [n \in Node |-> <<>>]
    /\ initiations = {} /\ responses = {} /\ transports = {}
    /\ fresh = 1
    /\ given = [n \in Node |-> {}]
    /\ delivered = [n \in Node |-> [p \in Packet |-> 0]]

Live(s) == s # None /\ s.age < REJECT_AFTER_TIME

\* The session, or None once it is REJECT_AFTER_TIME old.
Unexpired(s) == IF Live(s) THEN s ELSE None

NewSession(local, remote, key, initiator) ==
    [local_index |-> local, remote_index |-> remote, key |-> key,
     is_initiator |-> initiator, send_counter |-> 0, last |-> 0, seen |-> {},
     age |-> 0]

\* ReplayWindow::check_and_update, by the answer it gives and by its effect.
WindowAccepts(s, counter) ==
    \/ counter > s.last
    \/ s.last - counter < REPLAY_BITS /\ counter \notin s.seen

\* Mutant: the bitmap is not marked.
WindowUpdateUnmarked(s, counter) ==
    [s EXCEPT !.last = IF counter > @ THEN counter ELSE @]

WindowUpdate(s, counter) ==
    [s EXCEPT !.last = IF counter > @ THEN counter ELSE @,
              !.seen = @ \cup {counter}]

\* seal: the message, and the session after it.
Sealed(s, payload) ==
    [receiver |-> s.remote_index, key |-> send_key(s),
     counter |-> s.send_counter, payload |-> payload]

\* Mutant: the counter is not advanced.
AfterSealStuck(s) == s

AfterSeal(s) == [s EXCEPT !.send_counter = @ + 1]

\* queue: at the limit the oldest packet makes room.
Enqueue(q, p) == Append(IF Len(q) >= QUEUE_LIMIT THEN Tail(q) ELSE q, p)

\* new_initiation
NewInitiation(n) ==
    /\ fresh <= MaxFresh
    /\ fresh' = fresh + 1
    /\ initiations' = initiations \cup
          {[from |-> n, index |-> fresh, timestamp |-> fresh]}
    /\ pending' = [pending EXCEPT ![n] =
          [local_index |-> fresh, age |-> 0,
           attempts |-> IF @ = None THEN 1 ELSE @.attempts + 1]]

\* initiate_if_needed, called when `cur' is the current session and `q' the
\* queue of n: nothing to do, giving up, or a first or repeated initiation.
HandshakeInFlight(n) == pending[n] # None /\ pending[n].age < REKEY_TIMEOUT

GivesUp(n) ==
    /\ pending[n] # None
    /\ ~HandshakeInFlight(n)
    /\ pending[n].attempts >= MAX_HANDSHAKE_ATTEMPTS

\* Mutant: the packets stay behind.
QueueKept(q) == q

\* What giving up leaves of the queue.
QueueAfterGivingUp(q) == <<>>

InitiateIfNeeded(n, cur, q) ==
    \/ /\ cur # None \/ HandshakeInFlight(n)
       /\ queued' = [queued EXCEPT ![n] = q]
       /\ UNCHANGED <<pending, initiations, fresh>>
    \/ /\ cur = None /\ GivesUp(n)
       /\ pending' = [pending EXCEPT ![n] = None]
       /\ queued' = [queued EXCEPT ![n] = QueueAfterGivingUp(q)]
       /\ UNCHANGED <<initiations, fresh>>
    \/ /\ cur = None /\ ~HandshakeInFlight(n) /\ ~GivesUp(n)
       /\ NewInitiation(n)
       /\ queued' = [queued EXCEPT ![n] = q]

-----------------------------------------------------------------------------
(* The operations of a tunnel.                                             *)

\* encapsulate without a usable session: the packet waits for a handshake.
EncapsulateQueued(n, p) ==
    /\ p \notin given[A] \cup given[B]
    /\ given' = [given EXCEPT ![n] = @ \cup {p}]
    /\ ~Live(current[n])
    /\ current' = [current EXCEPT ![n] = None]
    /\ InitiateIfNeeded(n, None, Enqueue(queued[n], p))
    /\ UNCHANGED <<previous, last_initiation_ts, since_sent, since_received,
                   need_keepalive, responses, transports, delivered>>

\* encapsulate with a session: seal, and start a rekey when it is due.
RekeyDue(n, s) ==
    /\ s.is_initiator
    /\ s.age >= REKEY_AFTER_TIME \/ s.send_counter >= REKEY_AFTER_MESSAGES
    /\ pending[n] = None

EncapsulateSealed(n, p) ==
    /\ p \notin given[A] \cup given[B]
    /\ given' = [given EXCEPT ![n] = @ \cup {p}]
    /\ Live(current[n])
    /\ current[n].send_counter < MaxCounter
    /\ transports' = transports \cup {Sealed(current[n], p)}
    /\ current' = [current EXCEPT ![n] = AfterSeal(@)]
    /\ since_sent' = [since_sent EXCEPT ![n] = 0]
    /\ need_keepalive' = [need_keepalive EXCEPT ![n] = FALSE]
    /\ IF RekeyDue(n, AfterSeal(current[n]))
         THEN NewInitiation(n)
         ELSE UNCHANGED <<pending, initiations, fresh>>
    /\ UNCHANGED <<previous, last_initiation_ts, since_received, queued,
                   responses, delivered>>

\* flush_queue: the queued packets, sealed in order by the new session.
Flushed(s, q) ==
    {[receiver |-> s.remote_index, key |-> send_key(s), counter |-> i - 1,
      payload |-> q[i]] : i \in 1 .. Len(q)}

\* consume_response: only the response to the pending initiation counts.
ConsumeResponse(n, m) ==
    LET s == NewSession(pending[n].local_index, m.index, m.key, TRUE)
    IN  /\ m.to = n
        /\ pending[n] # None
        /\ pending[n].local_index = m.receiver
        /\ pending' = [pending EXCEPT ![n] = None]
        /\ previous' = [previous EXCEPT ![n] = current[n]]
        /\ current' = [current EXCEPT ![n] =
              [s EXCEPT !.send_counter = Len(queued[n])]]
        /\ transports' = transports \cup Flushed(s, queued[n])
        /\ since_sent' = [since_sent EXCEPT ![n] =
              IF queued[n] = <<>> THEN @ ELSE 0]
        /\ queued' = [queued EXCEPT ![n] = <<>>]
        /\ UNCHANGED <<last_initiation_ts, since_received, need_keepalive,
                       initiations, responses, fresh, given, delivered>>

\* Mutant: the timestamp of the last initiation passes again.
NewerOrSame(n, m) == m.timestamp >= last_initiation_ts[n]

Newer(n, m) == m.timestamp > last_initiation_ts[n]

\* consume_initiation and accept_initiation: an initiation newer than all
\* earlier ones makes n the responder of a new session.
AcceptInitiation(n, m) ==
    /\ m.from = Peer(n)
    /\ Newer(n, m)
    /\ fresh <= MaxFresh
    /\ last_initiation_ts' = [last_initiation_ts EXCEPT ![n] = m.timestamp]
    /\ fresh' = fresh + 1
    /\ responses' = responses \cup
          {[to |-> Peer(n), index |-> fresh, receiver |-> m.index,
            key |-> <<m.index, fresh>>]}
    /\ previous' = [previous EXCEPT ![n] = current[n]]
    /\ current' = [current EXCEPT ![n] =
          NewSession(fresh, m.index, <<m.index, fresh>>, FALSE)]
    /\ pending' = [pending EXCEPT ![n] = None]
    /\ UNCHANGED <<since_sent, since_received, need_keepalive, queued,
                   initiations, transports, given, delivered>>

\* consume_transport: the checks, and what receiving does apart from the
\* session.
Opens(s, m) ==
    /\ Live(s)
    /\ s.local_index = m.receiver
    /\ recv_key(s) = m.key
    /\ WindowAccepts(s, m.counter)

Received(n, m) ==
    /\ since_received' = [since_received EXCEPT ![n] = 0]
    /\ need_keepalive' = [need_keepalive EXCEPT ![n] = @ \/ m.payload # Keepalive]
    /\ delivered' = IF m.payload = Keepalive
                      THEN delivered
                      ELSE [delivered EXCEPT ![n][m.payload] = @ + 1]
    /\ UNCHANGED <<pending, last_initiation_ts, since_sent, queued, netVars,
                   fresh, given>>

\* consume_transport on the current session drops the previous one.
ConsumeOnCurrent(n, m) ==
    /\ Opens(current[n], m)
    /\ current' = [current EXCEPT ![n] = WindowUpdate(@, m.counter)]
    /\ previous' = [previous EXCEPT ![n] = None]
    /\ Received(n, m)

\* consume_transport on the previous session, when the current one has
\* another index.
ConsumeOnPrevious(n, m) ==
    /\ ~(current[n] # None /\ current[n].local_index = m.receiver)
    /\ Opens(previous[n], m)
    /\ previous' = [previous EXCEPT ![n] = WindowUpdate(@, m.counter)]
    /\ UNCHANGED current
    /\ Received(n, m)

\* tick: expire, retry the handshake, then a passive keepalive if one is due.
KeepaliveDue(n, cur) ==
    /\ need_keepalive[n]
    /\ cur # None
    /\ since_received[n] < 2 * KEEPALIVE_TIMEOUT
    /\ since_sent[n] >= KEEPALIVE_TIMEOUT

Tick(n) ==
    LET cur == Unexpired(current[n])
    IN  /\ previous' = [previous EXCEPT ![n] = Unexpired(@)]
        /\ IF pending[n] # None \/ (queued[n] # <<>> /\ cur = None)
             THEN InitiateIfNeeded(n, cur, queued[n])
             ELSE UNCHANGED <<pending, queued, initiations, fresh>>
        /\ IF KeepaliveDue(n, cur)
             THEN /\ cur.send_counter < MaxCounter
                  /\ transports' = transports \cup {Sealed(cur, Keepalive)}
                  /\ current' = [current EXCEPT ![n] = AfterSeal(cur)]
                  /\ since_sent' = [since_sent EXCEPT ![n] = 0]
                  /\ need_keepalive' = [need_keepalive EXCEPT ![n] = FALSE]
             ELSE /\ current' = [current EXCEPT ![n] = cur]
                  /\ UNCHANGED <<transports, since_sent, need_keepalive>>
        /\ UNCHANGED <<last_initiation_ts, since_received, responses, given,
                       delivered>>

\* reset, which like a restart is the decision of a caller.
Reset(n) ==
    /\ n \in Restarting
    /\ pending' = [pending EXCEPT ![n] = None]
    /\ current' = [current EXCEPT ![n] = None]
    /\ previous' = [previous EXCEPT ![n] = None]
    /\ queued' = [queued EXCEPT ![n] = <<>>]
    /\ UNCHANGED <<last_initiation_ts, since_sent, since_received,
                   need_keepalive, netVars, fresh, given, delivered>>

\* A reboot, or a peer that leaves the network map and comes back: the tunnel
\* starts again as Tunn::new, with the same static keys.
Restart(n) ==
    /\ n \in Restarting
    /\ pending' = [pending EXCEPT ![n] = None]
    /\ current' = [current EXCEPT ![n] = None]
    /\ previous' = [previous EXCEPT ![n] = None]
    /\ last_initiation_ts' = [last_initiation_ts EXCEPT ![n] = 0]
    /\ since_sent' = [since_sent EXCEPT ![n] = KEEPALIVE_TIMEOUT]
    /\ since_received' = [since_received EXCEPT ![n] = 2 * KEEPALIVE_TIMEOUT]
    /\ need_keepalive' = [need_keepalive EXCEPT ![n] = FALSE]
    /\ queued' = [queued EXCEPT ![n] = <<>>]
    /\ UNCHANGED <<netVars, fresh, given, delivered>>

\* One unit of time passes for both nodes.
Older(age, limit) == IF age < limit THEN age + 1 ELSE age

Aged(s, limit) == IF s = None THEN None ELSE [s EXCEPT !.age = Older(@, limit)]

TimePasses ==
    /\ pending' = [n \in Node |-> Aged(pending[n], REKEY_TIMEOUT)]
    /\ current' = [n \in Node |-> Aged(current[n], REJECT_AFTER_TIME)]
    /\ previous' = [n \in Node |-> Aged(previous[n], REJECT_AFTER_TIME)]
    /\ since_sent' = [n \in Node |-> Older(since_sent[n], KEEPALIVE_TIMEOUT)]
    /\ since_received' =
          [n \in Node |-> Older(since_received[n], 2 * KEEPALIVE_TIMEOUT)]
    /\ UNCHANGED <<last_initiation_ts, need_keepalive, queued, netVars, fresh,
                   given, delivered>>

Encapsulate(n) ==
    \E p \in Packet : EncapsulateQueued(n, p) \/ EncapsulateSealed(n, p)

ConsumeTransport(n) ==
    \E m \in transports : ConsumeOnCurrent(n, m) \/ ConsumeOnPrevious(n, m)

Next ==
    \/ \E n \in Node :
          \/ Encapsulate(n)
          \/ \E m \in responses : ConsumeResponse(n, m)
          \/ \E m \in initiations : AcceptInitiation(n, m)
          \/ ConsumeTransport(n)
          \/ Tick(n)
          \/ Reset(n)
          \/ Restart(n)
    \/ TimePasses

Spec == Init /\ [][Next]_vars

-----------------------------------------------------------------------------
(* Properties.                                                             *)

Slots(n) == {s \in {current[n], previous[n]} : s # None}

\* No nonce is used twice: two messages sealed under one key with one counter
\* are the same message.  seal relies on every session starting at counter 0
\* under a key no session had before, also when responses and initiations are
\* replayed and nodes restart.
NonceUnique ==
    \A d, e \in transports :
        d.key = e.key /\ d.counter = e.counter => d = e

\* Sessions of the two nodes that share a key have opposite roles, and each
\* sends to the index under which the other receives.
SessionsAgree ==
    \A s \in Slots(A), t \in Slots(B) :
        s.key = t.key => /\ s.is_initiator # t.is_initiator
                         /\ s.local_index = t.remote_index
                         /\ s.remote_index = t.local_index

\* A node that does not restart answers an initiation at most once, however
\* often it is replayed.
AnsweredOnce ==
    \A r, q \in responses :
        r.to = q.to /\ r.receiver = q.receiver /\ Peer(r.to) \notin Restarting
            => r = q

\* A packet that waits in the queue always has a handshake in progress or a
\* session: initiate_if_needed, accept_initiation, reset and the giving up
\* after MAX_HANDSHAKE_ATTEMPTS never leave it behind alone.
QueuedHasHandshake ==
    \A n \in Node :
        queued[n] # <<>> => pending[n] # None \/ current[n] # None

\* No packet is handed to the stack twice and none that the peer did not send,
\* whatever the network repeats, across rekeys and restarts.
DeliveredOnce ==
    \A n \in Node : \A p \in Packet :
        /\ delivered[n][p] <= 1
        /\ delivered[n][p] = 1 => p \in given[Peer(n)]

\* The two tunnels together implement the channel of module PacketChannel:
\* every step of encapsulate hands one packet over, every packet that
\* consume_transport returns is a first delivery, and all other steps are
\* invisible above.
Channel == INSTANCE PacketChannel WITH given <- given, delivered <- delivered

ImplementsChannel == Channel!Spec

-----------------------------------------------------------------------------
(* What the comments of the code say, and the code does not do.            *)

\* encapsulate sends on a responder's new session at once because "the
\* initiator already treats it as current": as long as the session is usable
\* its initiator has it, or has a handshake in progress that will bring it.
ResponderInteroperates ==
    \A n \in Node :
        Live(current[n]) /\ ~current[n].is_initiator
            => \/ pending[Peer(n)] # None
               \/ \E s \in Slots(Peer(n)) : s.key = current[n].key

-----------------------------------------------------------------------------
(* The inductive invariant behind the properties above.                    *)

\* The random numbers each node has drawn so far.
drawn ==
    [n \in Node |-> {m.index : m \in {i \in initiations : i.from = n}} \cup
                    {m.index : m \in {r \in responses : r.to = Peer(n)}}]

\* The index under which the sender of a transport message receives.
SealIndex(d) == IF d.key[2] THEN d.key[1][1] ELSE d.key[1][2]

\* Numbers are drawn once, by one node.
DrawnInv ==
    /\ \A i \in drawn[A] : i \notin drawn[B]
    /\ \A n \in Node : \A i \in drawn[n] : i < fresh
    /\ \A m \in initiations : m.timestamp = m.index
    /\ \A r \in responses :
          /\ r.receiver \in drawn[r.to]
          /\ r.key = <<r.receiver, r.index>>
          /\ Peer(r.to) \notin Restarting
                => r.receiver <= last_initiation_ts[Peer(r.to)]

\* Each end of a session drew its own index and got the other from its peer.
SessionInv(n, s) ==
    s # None =>
        /\ s.local_index \in drawn[n]
        /\ s.remote_index \in drawn[Peer(n)]
        /\ s.key = IF s.is_initiator THEN <<s.local_index, s.remote_index>>
                                     ELSE <<s.remote_index, s.local_index>>
        /\ \A c \in s.seen : c <= s.last

\* A node never uses one index for two things at a time.
IndexInv(n) ==
    /\ SessionInv(n, current[n])
    /\ SessionInv(n, previous[n])
    /\ current[n] # None /\ previous[n] # None
          => current[n].local_index # previous[n].local_index
    /\ pending[n] # None =>
          /\ pending[n].local_index \in drawn[n]
          /\ current[n] # None => current[n].local_index # pending[n].local_index
          /\ previous[n] # None => previous[n].local_index # pending[n].local_index

\* The counters of the current session are ahead of all it sealed, and nothing
\* was sealed under an initiation that is still unanswered.
SealedInv ==
    \A d \in transports :
        /\ d.key[1][1] < fresh /\ d.key[1][2] < fresh
        /\ \A n \in Node :
              /\ current[n] # None /\ d.key = send_key(current[n])
                    => d.counter < current[n].send_counter
              /\ pending[n] # None /\ d.key[2]
                    => d.key[1][1] # pending[n].local_index
              /\ d.payload # Keepalive /\ SealIndex(d) \in drawn[n]
                    => d.payload \in given[n]

\* A packet is in one place: in a queue or in one message.
PacketInv ==
    /\ \A p \in given[A] : p \notin given[B]
    /\ \A n \in Node : \A i, j \in DOMAIN queued[n] :
          /\ queued[n][i] \in given[n]
          /\ queued[n][i] = queued[n][j] => i = j
          /\ \A d \in transports : d.payload # queued[n][i]
    /\ \A d \in transports :
          d.payload # Keepalive => d.payload \in given[A] \cup given[B]
    /\ \A d, e \in transports :
          d.payload = e.payload /\ d.payload # Keepalive => d = e

\* n can never open d again.
Spent(n, d) ==
    /\ current[n] # None /\ recv_key(current[n]) = d.key
          => d.counter \in current[n].seen
    /\ previous[n] # None /\ recv_key(previous[n]) = d.key
          => d.counter \in previous[n].seen
    /\ pending[n] # None /\ ~d.key[2] => d.key[1][1] # pending[n].local_index

DeliveryInv ==
    \A n \in Node : \A p \in Packet :
        delivered[n][p] # 0 =>
            /\ delivered[n][p] = 1
            /\ p \in given[Peer(n)]
            /\ \A i \in DOMAIN queued[Peer(n)] : queued[Peer(n)][i] # p
            /\ \A d \in transports : d.payload = p => Spent(n, d)

\* Together: inductive, and strong enough for every property above.
IInv ==
    /\ DrawnInv
    /\ \A n \in Node : IndexInv(n)
    /\ SealedInv
    /\ PacketInv
    /\ DeliveryInv
    /\ NonceUnique
=============================================================================
