----------------------------- MODULE TunnProofs -----------------------------
(***************************************************************************)
(* Type correctness and safety of module Tunn, for every set of packets,   *)
(* every limit and every set of restarting nodes.                          *)
(*                                                                         *)
(* The invariant IInv is shown inductive in two layers.  First every       *)
(* action is shown to move the indices, the sessions and the messages in   *)
(* one of a few ways (Draws, SlotStep, PendingStep, SealStep); then each   *)
(* conjunct of IInv is derived from these, once for all actions.           *)
(***************************************************************************)
EXTENDS Tunn, TLAPS

\* Most leaves are first-order and go to Zenon; SMT is cited where arithmetic,
\* records or functions matter.
USE ZenonT(30)

-----------------------------------------------------------------------------
(* Type correctness.                                                       *)

\* queue keeps the queue within its limit, drops only its head and appends.
LEMMA EnqueueType ==
    ASSUME NEW q \in Seq(Packet), NEW p \in Packet, Len(q) <= QUEUE_LIMIT
    PROVE  /\ Enqueue(q, p) \in Seq(Packet)
           /\ Len(Enqueue(q, p)) <= QUEUE_LIMIT
<1>1. CASE Len(q) >= QUEUE_LIMIT
  BY SMTT(30), <1>1, LimitsAssumption DEF Enqueue
<1>2. CASE ~(Len(q) >= QUEUE_LIMIT)
  BY SMTT(30), <1>2, LimitsAssumption DEF Enqueue
<1> QED
  BY <1>1, <1>2

\* new_initiation keeps the types of what it changes.
LEMMA NewInitiationType ==
    ASSUME TypeOK, NEW n \in Node, NewInitiation(n)
    PROVE  /\ pending' \in [Node -> PendingInitiation \cup {None}]
           /\ initiations' \subseteq Initiation
           /\ fresh' \in Nat \ {0}
<1>1. CASE pending[n] = None
  BY SMTT(30), <1>1, LimitsAssumption
  DEF TypeOK, NewInitiation, PendingInitiation, Initiation
<1>2. CASE pending[n] \in PendingInitiation
  <2>1. /\ pending[n].attempts + 1 \in Nat
        /\ 0 \in 0 .. REKEY_TIMEOUT
        /\ fresh \in Nat /\ fresh + 1 \in Nat \ {0}
    BY SMTT(30), <1>2, LimitsAssumption DEF TypeOK, PendingInitiation
  <2>2. pending[n] # None
    BY <1>2, NoneAssumption
  <2>3. [local_index |-> fresh, age |-> 0, attempts |-> pending[n].attempts + 1]
           \in PendingInitiation
    BY SMTT(30), <2>1 DEF PendingInitiation
  <2>4. pending' \in [Node -> PendingInitiation \cup {None}]
    BY <2>2, <2>3 DEF NewInitiation, TypeOK
  <2>5. [from |-> n, index |-> fresh, timestamp |-> fresh] \in Initiation
    BY SMTT(30), <2>1 DEF Initiation
  <2> QED
    BY <2>1, <2>4, <2>5 DEF NewInitiation, TypeOK
<1> QED
  BY <1>1, <1>2 DEF TypeOK

\* initiate_if_needed keeps the types of what it changes.
LEMMA InitiateType ==
    ASSUME TypeOK, NEW n \in Node, NEW cur, NEW q \in Seq(Packet),
           Len(q) <= QUEUE_LIMIT, InitiateIfNeeded(n, cur, q)
    PROVE  /\ pending' \in [Node -> PendingInitiation \cup {None}]
           /\ queued' \in [Node -> Seq(Packet)]
           /\ \A m \in Node : Len(queued'[m]) <= QUEUE_LIMIT
           /\ initiations' \subseteq Initiation
           /\ fresh' \in Nat \ {0}
<1>2. PICK r \in Seq(Packet) : /\ queued' = [queued EXCEPT ![n] = r]
                               /\ Len(r) <= QUEUE_LIMIT
  <2>1. <<>> \in Seq(Packet) /\ Len(<<>>) <= QUEUE_LIMIT
    BY SMTT(30), LimitsAssumption
  <2> QED
    BY <2>1 DEF InitiateIfNeeded, QueueAfterGivingUp
<1>3. /\ queued' \in [Node -> Seq(Packet)]
      /\ \A m \in Node : Len(queued'[m]) <= QUEUE_LIMIT
  BY <1>2 DEF TypeOK
<1> QED
  BY NewInitiationType, <1>3 DEF InitiateIfNeeded, QueueAfterGivingUp, TypeOK

\* The operations on one session stay within its type.
LEMMA SessionType ==
    ASSUME NEW s \in Session, NEW p \in Payload, NEW c \in Nat
    PROVE  /\ AfterSeal(s) \in Session
           /\ Sealed(s, p) \in Transport
           /\ WindowUpdate(s, c) \in Session
           /\ Unexpired(s) \in Session \cup {None}
           /\ Aged(s, REJECT_AFTER_TIME) \in Session \cup {None}
<1>1. AfterSeal(s) \in Session
  BY SMTT(30) DEF Session, AfterSeal
<1>2. Sealed(s, p) \in Transport
  BY DEF Session, Transport, Sealed, send_key
<1>3. WindowUpdate(s, c) \in Session
  BY DEF Session, WindowUpdate
<1>4. Unexpired(s) \in Session \cup {None}
  BY DEF Unexpired
<1>5. Aged(s, REJECT_AFTER_TIME) \in Session \cup {None}
  BY SMTT(30), LimitsAssumption DEF Session, Aged, Older
<1> QED
  BY <1>1, <1>2, <1>3, <1>4, <1>5

\* flush_queue produces transport messages.
LEMMA FlushedType ==
    ASSUME NEW s \in Session, NEW q \in Seq(Packet)
    PROVE  Flushed(s, q) \subseteq Transport
BY SMTT(30) DEF Flushed, Session, Transport, send_key, Payload

\* Receiving keeps the types of what it changes.
LEMMA ReceivedType ==
    ASSUME TypeOK, NEW n \in Node, NEW m \in transports, Received(n, m)
    PROVE  /\ since_received' \in [Node -> 0 .. 2 * KEEPALIVE_TIMEOUT]
           /\ need_keepalive' \in [Node -> BOOLEAN]
           /\ delivered' \in [Node -> [Packet -> Nat]]
           /\ UNCHANGED <<pending, last_initiation_ts, since_sent, queued,
                          initiations, responses, transports, fresh, given>>
<1>1. m.payload \in Packet \cup {Keepalive}
  BY DEF TypeOK, Transport, Payload
<1>2. delivered' \in [Node -> [Packet -> Nat]]
  BY SMTT(30), <1>1 DEF Received, TypeOK
<1>3. need_keepalive' \in [Node -> BOOLEAN]
  BY DEF Received, TypeOK
<1>4. since_received' \in [Node -> 0 .. 2 * KEEPALIVE_TIMEOUT]
  <2>1. 0 \in 0 .. 2 * KEEPALIVE_TIMEOUT
    BY SMTT(30), LimitsAssumption
  <2>2. since_received \in [Node -> 0 .. 2 * KEEPALIVE_TIMEOUT]
    BY DEF TypeOK
  <2>3. since_received' = [since_received EXCEPT ![n] = 0]
    BY DEF Received
  <2> QED
    BY <2>1, <2>2, <2>3
<1>5. UNCHANGED <<pending, last_initiation_ts, since_sent, queued,
                  initiations, responses, transports, fresh, given>>
  BY DEF Received, netVars
<1> QED
  BY <1>2, <1>3, <1>4, <1>5

\* Tunn::new starts within the types.
LEMMA TypeInit == Init => TypeOK
<1>1. <<>> \in Seq(Packet) /\ Len(<<>>) <= QUEUE_LIMIT
  BY SMTT(30), LimitsAssumption
<1> QED
  BY SMTT(30), <1>1, LimitsAssumption DEF Init, TypeOK

\* Every operation keeps the types.
LEMMA TypeNext == TypeOK /\ [Next]_vars => TypeOK'
<1> SUFFICES ASSUME TypeOK, [Next]_vars
             PROVE  TypeOK'
  OBVIOUS
<1>1. ASSUME NEW n \in Node, NEW p \in Packet, EncapsulateQueued(n, p)
      PROVE  TypeOK'
  <2>1. /\ Enqueue(queued[n], p) \in Seq(Packet)
        /\ Len(Enqueue(queued[n], p)) <= QUEUE_LIMIT
    BY EnqueueType DEF TypeOK
  <2>2. InitiateIfNeeded(n, None, Enqueue(queued[n], p))
    BY <1>1 DEF EncapsulateQueued
  <2>3. /\ pending' \in [Node -> PendingInitiation \cup {None}]
        /\ queued' \in [Node -> Seq(Packet)]
        /\ \A m \in Node : Len(queued'[m]) <= QUEUE_LIMIT
        /\ initiations' \subseteq Initiation
        /\ fresh' \in Nat \ {0}
    BY <2>1, <2>2, InitiateType
  <2> QED
    BY <1>1, <2>3 DEF EncapsulateQueued, TypeOK
<1>2. ASSUME NEW n \in Node, NEW p \in Packet, EncapsulateSealed(n, p)
      PROVE  TypeOK'
  <2>1. /\ current[n] \in Session
        /\ p \in Payload
    BY <1>2 DEF EncapsulateSealed, TypeOK, Live, Payload
  <2>2. /\ AfterSeal(current[n]) \in Session
        /\ Sealed(current[n], p) \in Transport
    BY <2>1, SessionType
  <2>3. /\ pending' \in [Node -> PendingInitiation \cup {None}]
        /\ initiations' \subseteq Initiation
        /\ fresh' \in Nat \ {0}
    BY <1>2, NewInitiationType DEF EncapsulateSealed, TypeOK
  <2> QED
    <3>1. /\ current' \in [Node -> Session \cup {None}]
          /\ transports' \subseteq Transport
      BY <1>2, <2>2 DEF EncapsulateSealed, TypeOK
    <3>2. /\ since_sent' \in [Node -> 0 .. KEEPALIVE_TIMEOUT]
          /\ given' \in [Node -> SUBSET Packet]
      BY SMTT(30), <1>2, LimitsAssumption DEF EncapsulateSealed, TypeOK
    <3>3. need_keepalive' \in [Node -> BOOLEAN]
      BY <1>2 DEF EncapsulateSealed, TypeOK
    <3> QED
      BY <1>2, <2>3, <3>1, <3>2, <3>3 DEF EncapsulateSealed, TypeOK
<1>3. ASSUME NEW n \in Node, NEW m \in responses, ConsumeResponse(n, m)
      PROVE  TypeOK'
  <2> DEFINE s == NewSession(pending[n].local_index, m.index, m.key, TRUE)
  <2>1. /\ s \in Session
        /\ [s EXCEPT !.send_counter = Len(queued[n])] \in Session
    <3>1. pending[n].local_index \in Nat /\ m.index \in Nat /\ m.key \in Key
      BY <1>3 DEF ConsumeResponse, TypeOK, PendingInitiation, Response
    <3>2. s \in Session
      BY SMTT(30), <3>1, LimitsAssumption DEF NewSession, Session
    <3>3. Len(queued[n]) \in Nat
      BY SMTT(30) DEF TypeOK
    <3> HIDE DEF s
    <3> QED
      BY <3>2, <3>3 DEF Session
  <2>2. Flushed(s, queued[n]) \subseteq Transport
    BY <2>1, FlushedType DEF TypeOK
  <2>3. <<>> \in Seq(Packet) /\ Len(<<>>) <= QUEUE_LIMIT
    BY SMTT(30), LimitsAssumption
  <2> HIDE DEF s
  <2>4. /\ current' = [current EXCEPT ![n] = [s EXCEPT !.send_counter = Len(queued[n])]]
        /\ transports' = transports \cup Flushed(s, queued[n])
    BY <1>3 DEF ConsumeResponse, s
  <2> QED
    <3>1. /\ current' \in [Node -> Session \cup {None}]
          /\ transports' \subseteq Transport
      BY <2>1, <2>2, <2>4 DEF TypeOK
    <3>2. since_sent' \in [Node -> 0 .. KEEPALIVE_TIMEOUT]
      BY SMTT(30), <1>3, LimitsAssumption DEF ConsumeResponse, TypeOK
    <3>3. /\ queued' \in [Node -> Seq(Packet)]
          /\ \A k \in Node : Len(queued'[k]) <= QUEUE_LIMIT
      BY <1>3, <2>3 DEF ConsumeResponse, TypeOK
    <3>4. /\ pending' \in [Node -> PendingInitiation \cup {None}]
          /\ previous' \in [Node -> Session \cup {None}]
      BY <1>3 DEF ConsumeResponse, TypeOK
    <3> QED
      BY <1>3, <3>1, <3>2, <3>3, <3>4 DEF ConsumeResponse, TypeOK
<1>4. ASSUME NEW n \in Node, NEW m \in initiations, AcceptInitiation(n, m)
      PROVE  TypeOK'
  <2>1. /\ m.index \in Nat /\ m.timestamp \in Nat /\ fresh \in Nat
        /\ Peer(n) \in Node
    BY DEF TypeOK, Initiation, Peer, Node
  <2>2. NewSession(fresh, m.index, <<m.index, fresh>>, FALSE) \in Session
    BY SMTT(30), <2>1, LimitsAssumption DEF NewSession, Session, Key
  <2>3. [to |-> Peer(n), index |-> fresh, receiver |-> m.index,
         key |-> <<m.index, fresh>>] \in Response
    BY <2>1 DEF Response, Key
  <2> QED
    <3>1. /\ pending' \in [Node -> PendingInitiation \cup {None}]
          /\ previous' \in [Node -> Session \cup {None}]
      BY <1>4 DEF AcceptInitiation, TypeOK
    <3>2. /\ current' \in [Node -> Session \cup {None}]
          /\ responses' \subseteq Response
      BY <1>4, <2>2, <2>3 DEF AcceptInitiation, TypeOK
    <3>3. /\ last_initiation_ts' \in [Node -> Nat]
          /\ fresh' \in Nat \ {0}
      BY SMTT(30), <1>4, <2>1 DEF AcceptInitiation, TypeOK
    <3> QED
      BY <1>4, <3>1, <3>2, <3>3 DEF AcceptInitiation, TypeOK
<1>5. ASSUME NEW n \in Node, NEW m \in transports, ConsumeOnCurrent(n, m)
      PROVE  TypeOK'
  <2>1. WindowUpdate(current[n], m.counter) \in Session
    BY <1>5, SessionType DEF ConsumeOnCurrent, Opens, Live, TypeOK, Transport
  <2> QED
    BY <1>5, <2>1, ReceivedType DEF ConsumeOnCurrent, TypeOK
<1>6. ASSUME NEW n \in Node, NEW m \in transports, ConsumeOnPrevious(n, m)
      PROVE  TypeOK'
  <2>1. WindowUpdate(previous[n], m.counter) \in Session
    BY <1>6, SessionType DEF ConsumeOnPrevious, Opens, Live, TypeOK, Transport
  <2> QED
    BY <1>6, <2>1, ReceivedType DEF ConsumeOnPrevious, TypeOK
<1>7. ASSUME NEW n \in Node, Tick(n)
      PROVE  TypeOK'
  <2> DEFINE cur == Unexpired(current[n])
  <2>1. /\ cur \in Session \cup {None}
        /\ Unexpired(previous[n]) \in Session \cup {None}
    BY DEF Unexpired, Live, TypeOK
  <2>2. /\ pending' \in [Node -> PendingInitiation \cup {None}]
        /\ queued' \in [Node -> Seq(Packet)]
        /\ \A m \in Node : Len(queued'[m]) <= QUEUE_LIMIT
        /\ initiations' \subseteq Initiation
        /\ fresh' \in Nat \ {0}
    <3>1. CASE InitiateIfNeeded(n, cur, queued[n])
      BY <3>1, InitiateType DEF TypeOK
    <3>2. CASE UNCHANGED <<pending, queued, initiations, fresh>>
      BY <3>2 DEF TypeOK
    <3> QED
      BY <1>7, <3>1, <3>2 DEF Tick
  <2>3. Keepalive \in Payload
    BY DEF Payload
  <2>4. KeepaliveDue(n, cur) => /\ AfterSeal(cur) \in Session
                                /\ Sealed(cur, Keepalive) \in Transport
    BY <2>1, <2>3, SessionType DEF KeepaliveDue
  <2> HIDE DEF cur
  <2>5. /\ previous' = [previous EXCEPT ![n] = Unexpired(@)]
        /\ \/ /\ KeepaliveDue(n, cur)
              /\ transports' = transports \cup {Sealed(cur, Keepalive)}
              /\ current' = [current EXCEPT ![n] = AfterSeal(cur)]
              /\ since_sent' = [since_sent EXCEPT ![n] = 0]
              /\ need_keepalive' = [need_keepalive EXCEPT ![n] = FALSE]
           \/ /\ current' = [current EXCEPT ![n] = cur]
              /\ UNCHANGED <<transports, since_sent, need_keepalive>>
        /\ UNCHANGED <<last_initiation_ts, since_received, responses, given,
                       delivered>>
    BY <1>7 DEF Tick, cur
  <2> QED
    <3>1. PICK c \in Session \cup {None} : current' = [current EXCEPT ![n] = c]
      BY <2>1, <2>4, <2>5
    <3>2. /\ current' \in [Node -> Session \cup {None}]
          /\ previous' \in [Node -> Session \cup {None}]
      BY <2>1, <2>5, <3>1 DEF TypeOK
    <3>4. transports' \subseteq Transport
      BY <2>4, <2>5 DEF TypeOK
    <3>5. 0 \in 0 .. KEEPALIVE_TIMEOUT
      BY SMTT(30), LimitsAssumption
    <3>6. since_sent' \in [Node -> 0 .. KEEPALIVE_TIMEOUT]
      BY <2>5, <3>5 DEF TypeOK
    <3>3. need_keepalive' \in [Node -> BOOLEAN]
      BY <2>5 DEF TypeOK
    <3> QED
      BY <2>2, <2>5, <3>2, <3>3, <3>4, <3>6 DEF TypeOK
<1>8. ASSUME NEW n \in Node, Reset(n)
      PROVE  TypeOK'
  <2>1. <<>> \in Seq(Packet) /\ Len(<<>>) <= QUEUE_LIMIT
    BY SMTT(30), LimitsAssumption
  <2>2. /\ pending' \in [Node -> PendingInitiation \cup {None}]
        /\ current' \in [Node -> Session \cup {None}]
        /\ previous' \in [Node -> Session \cup {None}]
    BY <1>8 DEF Reset, TypeOK
  <2>3. /\ queued' \in [Node -> Seq(Packet)]
        /\ \A k \in Node : Len(queued'[k]) <= QUEUE_LIMIT
    BY <1>8, <2>1 DEF Reset, TypeOK
  <2> QED
    BY <1>8, <2>2, <2>3 DEF Reset, netVars, TypeOK
<1>9. ASSUME NEW n \in Node, Restart(n)
      PROVE  TypeOK'
  <2>1. <<>> \in Seq(Packet) /\ Len(<<>>) <= QUEUE_LIMIT
    BY SMTT(30), LimitsAssumption
  <2>2. /\ pending' \in [Node -> PendingInitiation \cup {None}]
        /\ current' \in [Node -> Session \cup {None}]
        /\ previous' \in [Node -> Session \cup {None}]
    BY <1>9 DEF Restart, TypeOK
  <2>3. /\ queued' \in [Node -> Seq(Packet)]
        /\ \A k \in Node : Len(queued'[k]) <= QUEUE_LIMIT
    BY <1>9, <2>1 DEF Restart, TypeOK
  <2>4. /\ last_initiation_ts' \in [Node -> Nat]
        /\ since_sent' \in [Node -> 0 .. KEEPALIVE_TIMEOUT]
        /\ since_received' \in [Node -> 0 .. 2 * KEEPALIVE_TIMEOUT]
    BY SMTT(30), <1>9, LimitsAssumption DEF Restart, TypeOK
  <2>5. need_keepalive' \in [Node -> BOOLEAN]
    BY <1>9 DEF Restart, TypeOK
  <2> QED
    BY <1>9, <2>2, <2>3, <2>4, <2>5 DEF Restart, netVars, TypeOK
<1>10. CASE TimePasses
  <2>1. \A n \in Node : /\ Aged(current[n], REJECT_AFTER_TIME) \in Session \cup {None}
                        /\ Aged(previous[n], REJECT_AFTER_TIME) \in Session \cup {None}
    <3>1. \A s \in Session : Aged(s, REJECT_AFTER_TIME) \in Session \cup {None}
      BY SessionType, Keepalive \in Payload DEF Payload
    <3> QED
      BY <3>1 DEF TypeOK, Aged
  <2>2. \A n \in Node : Aged(pending[n], REKEY_TIMEOUT) \in PendingInitiation \cup {None}
    <3>1. ASSUME NEW q \in PendingInitiation
          PROVE  Aged(q, REKEY_TIMEOUT) \in PendingInitiation \cup {None}
      BY SMTT(30), LimitsAssumption DEF Aged, Older, PendingInitiation
    <3> QED
      BY <3>1 DEF TypeOK, Aged
  <2>3. \A n \in Node :
          /\ Older(since_sent[n], KEEPALIVE_TIMEOUT) \in 0 .. KEEPALIVE_TIMEOUT
          /\ Older(since_received[n], 2 * KEEPALIVE_TIMEOUT) \in 0 .. 2 * KEEPALIVE_TIMEOUT
    BY SMTT(30), LimitsAssumption DEF TypeOK, Older
  <2> QED
    BY <1>10, <2>1, <2>2, <2>3 DEF TimePasses, netVars, TypeOK
<1>11. CASE UNCHANGED vars
  BY <1>11 DEF vars, tunnVars, netVars, TypeOK
<1> QED
  BY <1>1, <1>2, <1>3, <1>4, <1>5, <1>6, <1>7, <1>8, <1>9, <1>10,
     <1>11
  DEF Next, Encapsulate, ConsumeTransport

\* Every variable of the tunnels keeps its type, and the queue its limit.
THEOREM TypeCorrect == Spec => []TypeOK
<1> QED
  BY TypeInit, TypeNext, PTL DEF Spec

-----------------------------------------------------------------------------
(* How a step may change the state.                                        *)

\* A step draws at most one random number.
DrawsAt(n) ==
    /\ fresh' = fresh + 1
    /\ drawn' = [drawn EXCEPT ![n] = @ \cup {fresh}]

Draws == (fresh' = fresh /\ drawn' = drawn) \/ \E n \in Node : DrawsAt(n)

\* t is the session s after sealing, opening or growing older.
Continues(t, s) ==
    /\ t # None /\ s # None
    /\ t.local_index = s.local_index /\ t.remote_index = s.remote_index
    /\ t.key = s.key /\ t.is_initiator = s.is_initiator
    /\ s.send_counter <= t.send_counter
    /\ s.seen \subseteq t.seen
    /\ \A c \in t.seen : c <= t.last

\* A handshake completes at n.
OpensSession(n) ==
    /\ current'[n] # None /\ pending'[n] = None /\ previous'[n] = current[n]
    /\ current'[n].seen = {}
    /\ current'[n].remote_index \in drawn[Peer(n)]
    /\ current'[n].key =
          IF current'[n].is_initiator
            THEN <<current'[n].local_index, current'[n].remote_index>>
            ELSE <<current'[n].remote_index, current'[n].local_index>>
    /\ \/ /\ current'[n].is_initiator
          /\ pending[n] # None
          /\ current'[n].local_index = pending[n].local_index
       \/ /\ ~current'[n].is_initiator
          /\ current'[n].local_index = fresh
          /\ DrawsAt(n)

KeepsSessions(n) ==
    /\ current'[n] = None \/ Continues(current'[n], current[n])
    /\ previous'[n] = None \/ Continues(previous'[n], previous[n])

SlotStep == \A n \in Node : OpensSession(n) \/ KeepsSessions(n)

PendingStep ==
    \A n \in Node :
        \/ pending'[n] = None
        \/ /\ pending'[n] # None /\ pending[n] # None
           /\ pending'[n].local_index = pending[n].local_index
        \/ /\ pending'[n] # None
           /\ pending'[n].local_index = fresh
           /\ DrawsAt(n)

\* New messages are sealed by a current session with counters it had not
\* used, and carry packets of their sender.
SealStep ==
    /\ transports \subseteq transports'
    /\ \A n \in Node : given[n] \subseteq given'[n]
    /\ \A d \in transports' \ transports : \E n \in Node :
          /\ current'[n] # None
          /\ d.key = send_key(current'[n])
          /\ d.counter < current'[n].send_counter
          /\ current[n] # None /\ current[n].local_index = current'[n].local_index
                => current[n].send_counter <= d.counter
          /\ d.payload # Keepalive => d.payload \in given'[n]
    /\ \A d, e \in transports' \ transports :
          d.key = e.key /\ d.counter = e.counter => d = e

\* Packets move from the caller to a queue or a message and from a queue to
\* a message.
Waiting(p, n) == \E i \in DOMAIN queued[n] : queued[n][i] = p

NewPacket(p) == p \notin given[A] /\ p \notin given[B]

PacketStep ==
    /\ \A n \in Node : \A i \in DOMAIN queued'[n] :
          NewPacket(queued'[n][i]) \/ Waiting(queued'[n][i], n)
    /\ \A d \in transports' \ transports :
          \/ d.payload = Keepalive
          \/ NewPacket(d.payload)
          \/ \E n \in Node : Waiting(d.payload, n)

-----------------------------------------------------------------------------
(* From steps to the invariant.                                            *)

\* The variables with one entry for each node.
LEMMA SlotTypes ==
    ASSUME TypeOK
    PROVE  /\ pending \in [Node -> PendingInitiation \cup {None}]
           /\ current \in [Node -> Session \cup {None}]
           /\ previous \in [Node -> Session \cup {None}]
           /\ last_initiation_ts \in [Node -> Nat]
           /\ queued \in [Node -> Seq(Packet)]
           /\ given \in [Node -> SUBSET Packet]
BY DEF TypeOK

\* Each of the two nodes is the other's peer.
LEMMA PeerFacts ==
    /\ A \in Node /\ B \in Node
    /\ \A n \in Node : Peer(n) \in Node /\ Peer(n) # n /\ Peer(Peer(n)) = n
    /\ \A n, m \in Node : m = n \/ m = Peer(n)
BY SMTT(30), NodesAssumption DEF Node, Peer

\* The numbers drawn are naturals.
LEMMA DrawnType ==
    ASSUME TypeOK PROVE drawn \in [Node -> SUBSET Nat]
BY SMTT(30) DEF TypeOK, drawn, Initiation, Response

\* Indices stay in single use across every kind of step.
LEMMA IndexStep ==
    ASSUME TypeOK, TypeOK', DrawnInv, \A n \in Node : IndexInv(n),
           Draws, SlotStep, PendingStep, DrawnInv'
    PROVE  \A n \in Node : IndexInv(n)'
<1> SUFFICES ASSUME NEW n \in Node PROVE IndexInv(n)'
  OBVIOUS
<1>0. Peer(n) \in Node
  BY PeerFacts
<1>1. /\ drawn[n] \subseteq drawn'[n]
      /\ drawn[Peer(n)] \subseteq drawn'[Peer(n)]
      /\ DrawsAt(n) => fresh \in drawn'[n]
  BY <1>0 DEF Draws, DrawsAt, drawn
<1>2. \A i \in drawn[n] : i # fresh
  BY SMTT(30), DrawnType DEF DrawnInv, TypeOK
<1> QED
  <2>1. CASE OpensSession(n)
    BY <1>1, <1>2, <2>1 DEF OpensSession, IndexInv, SessionInv
  <2>2. CASE KeepsSessions(n)
    BY <1>1, <1>2, <2>2 DEF KeepsSessions, Continues, IndexInv, SessionInv, PendingStep
  <2> QED
    BY <2>1, <2>2 DEF SlotStep

\* A session that opens has a key under which nothing was sealed.
LEMMA OpensUnused ==
    ASSUME TypeOK, SealedInv, NEW n \in Node, OpensSession(n),
           NEW d \in transports
    PROVE  d.key # send_key(current'[n])
BY SMTT(30) DEF TypeOK, SealedInv, OpensSession, send_key, Transport, Key

\* New messages never repeat a nonce: an old message under the same key has a
\* smaller counter, and a new session has a new key.
LEMMA NonceStep ==
    ASSUME TypeOK, TypeOK', SealedInv, NonceUnique,
           DrawnInv', \A n \in Node : IndexInv(n)', SlotStep, SealStep
    PROVE  NonceUnique'
<1>1. ASSUME NEW d \in transports, NEW e \in transports' \ transports,
             d.key = e.key, d.counter = e.counter
      PROVE  FALSE
  <2>1. PICK n \in Node :
           /\ current'[n] # None
           /\ e.key = send_key(current'[n])
           /\ current[n] # None /\ current[n].local_index = current'[n].local_index
                 => current[n].send_counter <= e.counter
    BY DEF SealStep
  <2>2. ~OpensSession(n)
    BY <1>1, <2>1, OpensUnused
  <2>3. Continues(current'[n], current[n])
    BY <2>1, <2>2 DEF SlotStep, KeepsSessions
  <2>4. d.counter < current[n].send_counter
    BY <1>1, <2>1, <2>3 DEF SealedInv, Continues, send_key
  <2> QED
    <3>1. d.counter \in Nat
      BY DEF TypeOK, Transport
    <3>2. current[n].send_counter \in Nat
      BY <2>3 DEF Continues, TypeOK, Session
    <3> QED
      BY SMTT(30), <1>1, <2>1, <2>3, <2>4, <3>1, <3>2 DEF Continues
<1> QED
  BY <1>1 DEF NonceUnique, SealStep

\* Counters stay ahead of the messages sealed across every kind of step.
LEMMA SealedStep ==
    ASSUME TypeOK, TypeOK', DrawnInv, SealedInv, \A n \in Node : IndexInv(n),
           DrawnInv', \A n \in Node : IndexInv(n)',
           Draws, SlotStep, PendingStep, SealStep
    PROVE  SealedInv'
<1>0. fresh \in Nat /\ fresh' \in Nat /\ fresh <= fresh'
  BY SMTT(30) DEF TypeOK, Draws, DrawsAt
<1>1. ASSUME NEW d \in transports', d \in transports, NEW n \in Node
      PROVE  /\ d.key[1][1] < fresh' /\ d.key[1][2] < fresh'
             /\ current'[n] # None /\ d.key = send_key(current'[n])
                    => d.counter < current'[n].send_counter
             /\ pending'[n] # None /\ d.key[2]
                    => d.key[1][1] # pending'[n].local_index
             /\ d.payload # Keepalive /\ SealIndex(d) \in drawn'[n]
                    => d.payload \in given'[n]
  <2>1. d \in Transport /\ d.key[1][1] \in Nat /\ d.key[1][2] \in Nat
    BY <1>1 DEF TypeOK, Transport, Key
  <2>2. d.key[1][1] < fresh /\ d.key[1][2] < fresh
    BY <1>1 DEF SealedInv
  <2>3. d.key[1][1] < fresh' /\ d.key[1][2] < fresh'
    BY SMTT(30), <1>0, <2>1, <2>2
  <2>4. ASSUME current'[n] # None, d.key = send_key(current'[n])
        PROVE  d.counter < current'[n].send_counter
    <3>1. Continues(current'[n], current[n])
      BY <1>1, <2>4, OpensUnused DEF SlotStep, KeepsSessions
    <3>2. d.counter < current[n].send_counter
      BY <1>1, <2>4, <3>1 DEF SealedInv, Continues, send_key
    <3> QED
      <4>1. d.counter \in Nat
        BY <2>1 DEF Transport
      <4>2. current[n].send_counter \in Nat /\ current'[n].send_counter \in Nat
        BY <3>1 DEF Continues, TypeOK, Session
      <4>3. current[n].send_counter <= current'[n].send_counter
        BY <3>1 DEF Continues
      <4> QED
        BY SMTT(30), <3>2, <4>1, <4>2, <4>3
  <2>5. ASSUME pending'[n] # None, d.key[2]
        PROVE  d.key[1][1] # pending'[n].local_index
    BY SMTT(30), <1>0, <1>1, <2>1, <2>2, <2>5 DEF PendingStep, SealedInv
  <2>6. ASSUME d.payload # Keepalive, SealIndex(d) \in drawn'[n]
        PROVE  d.payload \in given'[n]
    <3>1. SealIndex(d) # fresh
      BY SMTT(30), <1>0, <2>1, <2>2 DEF SealIndex
    <3>2. SealIndex(d) \in drawn[n]
      BY <2>6, <3>1, DrawnType DEF Draws, DrawsAt
    <3> QED
      BY <1>1, <2>6, <3>2 DEF SealedInv, SealStep
  <2> QED
    BY <2>3, <2>4, <2>5, <2>6
<1>2. ASSUME NEW d \in transports', d \notin transports, NEW n \in Node
      PROVE  /\ d.key[1][1] < fresh' /\ d.key[1][2] < fresh'
             /\ current'[n] # None /\ d.key = send_key(current'[n])
                    => d.counter < current'[n].send_counter
             /\ pending'[n] # None /\ d.key[2]
                    => d.key[1][1] # pending'[n].local_index
             /\ d.payload # Keepalive /\ SealIndex(d) \in drawn'[n]
                    => d.payload \in given'[n]
  <2>1. PICK k \in Node :
          /\ current'[k] # None
          /\ d.key = send_key(current'[k])
          /\ d.counter < current'[k].send_counter
          /\ d.payload # Keepalive => d.payload \in given'[k]
    BY <1>2 DEF SealStep
  <2>2. SessionInv(k, current[k])'
    BY DEF IndexInv
  <2>3. /\ d.key[1][1] < fresh' /\ d.key[1][2] < fresh'
        /\ SealIndex(d) = current'[k].local_index
        /\ SealIndex(d) \in drawn'[k]
    BY SMTT(30), <2>1, <2>2, PeerFacts DEF SessionInv, DrawnInv, send_key, SealIndex
  <2>4. SealIndex(d) \in drawn'[n] => n = k
    BY SMTT(30), <2>3 DEF DrawnInv, Node
  <2>5. ASSUME current'[n] # None, d.key = send_key(current'[n])
        PROVE  d.counter < current'[n].send_counter
    <3>1. SessionInv(n, current[n])'
      BY DEF IndexInv
    <3>2. SealIndex(d) \in drawn'[n]
      BY SMTT(30), <2>5, <3>1 DEF SessionInv, send_key, SealIndex
    <3> QED
      BY <2>1, <2>4, <3>2
  <2>6. ASSUME pending'[n] # None, d.key[2]
        PROVE  d.key[1][1] # pending'[n].local_index
    BY <2>1, <2>3, <2>4, <2>6 DEF IndexInv, SealIndex
  <2> QED
    BY <2>1, <2>3, <2>4, <2>5, <2>6
<1> QED
  BY <1>1, <1>2, PeerFacts DEF SealedInv

\* What the key of a message says of the session that opens it.
LEMMA RecvKey ==
    ASSUME NEW s \in Session, NEW d \in Transport, recv_key(s) = d.key
    PROVE  /\ d.key[1] = s.key
           /\ (d.key[2] <=> ~s.is_initiator)
           /\ s.is_initiator \in BOOLEAN
BY SMTT(30) DEF recv_key, Session, Transport

\* A message that cannot be opened again stays so.
LEMMA SpentStep ==
    ASSUME TypeOK, TypeOK', SealedInv, Draws, SlotStep, PendingStep,
           NEW n \in Node, NEW d \in transports, Spent(n, d)
    PROVE  Spent(n, d)'
<1>1. d \in Transport /\ d.key[1][1] \in Nat /\ d.key[1][2] \in Nat
  BY DEF TypeOK, Transport, Key
<1>2. d.key[1][1] # fresh /\ d.key[1][2] # fresh
  <2>1. d.key[1][1] < fresh /\ d.key[1][2] < fresh
    BY DEF SealedInv
  <2>2. fresh \in Nat
    BY DEF TypeOK
  <2>3. \A a \in Nat, f \in Nat : a < f => a # f
    BY SMTT(30)
  <2> QED
    BY <1>1, <2>1, <2>2, <2>3
<1>3. pending'[n] # None /\ ~d.key[2] => d.key[1][1] # pending'[n].local_index
  BY <1>2 DEF PendingStep, Spent
<1>4. CASE OpensSession(n)
  <2>1. recv_key(current'[n]) # d.key
    <3>1. current'[n] \in Session
      BY <1>4 DEF OpensSession, TypeOK
    <3>2. SUFFICES ASSUME recv_key(current'[n]) = d.key PROVE FALSE
      OBVIOUS
    <3>3. /\ d.key[1] = current'[n].key
          /\ (d.key[2] <=> ~current'[n].is_initiator)
          /\ current'[n].is_initiator \in BOOLEAN
      BY <1>1, <3>1, <3>2, RecvKey
    <3> QED
      BY SMTT(30), <1>2, <1>4, <3>3 DEF OpensSession, Spent
  <2> QED
    BY <1>3, <1>4, <2>1 DEF OpensSession, Spent
<1>5. CASE KeepsSessions(n)
  BY <1>3, <1>5 DEF KeepsSessions, Continues, Spent, recv_key
<1> QED
  BY <1>4, <1>5 DEF SlotStep

\* A step that delivers nothing keeps the delivered packets delivered once.
LEMMA QuietDelivery ==
    ASSUME TypeOK, TypeOK', SealedInv, PacketInv, DeliveryInv,
           Draws, SlotStep, PendingStep, SealStep, PacketStep,
           delivered' = delivered
    PROVE  DeliveryInv'
<1> SUFFICES ASSUME NEW n \in Node, NEW p \in Packet, delivered'[n][p] # 0
             PROVE  /\ delivered'[n][p] = 1
                    /\ p \in given'[Peer(n)]
                    /\ \A i \in DOMAIN queued'[Peer(n)] : queued'[Peer(n)][i] # p
                    /\ \A d \in transports' : d.payload = p => Spent(n, d)'
  BY DEF DeliveryInv
<1>0. Peer(n) \in Node /\ p # Keepalive
  BY PeerFacts, PayloadAssumption
<1>1. /\ delivered[n][p] = 1
      /\ p \in given[Peer(n)]
      /\ ~Waiting(p, Peer(n))
      /\ \A d \in transports : d.payload = p => Spent(n, d)
  BY DEF DeliveryInv, Waiting
<1>2. ~NewPacket(p)
  BY <1>0, <1>1 DEF NewPacket, Node
<1>3. \A m \in Node : ~Waiting(p, m)
  BY SMTT(30), <1>0, <1>1 DEF PacketInv, Waiting, Node
<1>4. \A i \in DOMAIN queued'[Peer(n)] : queued'[Peer(n)][i] # p
  BY <1>0, <1>2, <1>3 DEF PacketStep
<1>5. \A d \in transports' : d.payload = p => d \in transports
  BY <1>0, <1>2, <1>3 DEF PacketStep
<1> QED
  BY <1>0, <1>1, <1>4, <1>5, SpentStep DEF SealStep

\* A message that n opens was not spent, and is spent afterwards.
LEMMA OpenedDelivery ==
    ASSUME TypeOK, TypeOK', DrawnInv, SealedInv, PacketInv, DeliveryInv,
           \A n \in Node : IndexInv(n), \A n \in Node : IndexInv(n)',
           Draws, SlotStep, PendingStep, NEW n \in Node, NEW m \in transports,
           ConsumeOnCurrent(n, m) \/ ConsumeOnPrevious(n, m)
    PROVE  DeliveryInv'
<1> DEFINE s == IF ConsumeOnCurrent(n, m) THEN current[n] ELSE previous[n]
<1>1. /\ s \in Session /\ s # None
      /\ recv_key(s) = m.key /\ WindowAccepts(s, m.counter)
      /\ SessionInv(n, s)
      /\ Received(n, m)
  BY DEF ConsumeOnCurrent, ConsumeOnPrevious, Opens, Live, TypeOK, IndexInv
<1>2. m.counter \in Nat /\ m \in Transport
  BY DEF TypeOK, Transport
<1>3. m.counter \notin s.seen
  <2> HIDE DEF s
  <2>1. s.last \in Nat
    BY <1>1 DEF Session
  <2> QED
    BY SMTT(30), <1>1, <1>2, <2>1 DEF SessionInv, WindowAccepts
<1>4. ~Spent(n, m)
  BY <1>1, <1>3 DEF Spent, ConsumeOnCurrent, ConsumeOnPrevious
<1>5. m.payload # Keepalive => m.payload \in given[Peer(n)]
  <2>1. SealIndex(m) = s.remote_index
    <3> HIDE DEF s
    <3>1. /\ m.key[1] = s.key /\ (m.key[2] <=> ~s.is_initiator)
          /\ s.is_initiator \in BOOLEAN
      BY <1>1, <1>2, RecvKey
    <3> QED
      BY SMTT(30), <1>1, <3>1 DEF SessionInv, SealIndex
  <2>2. SealIndex(m) \in drawn[Peer(n)]
    BY <1>1, <2>1 DEF SessionInv
  <2> QED
    BY <2>2, PeerFacts DEF SealedInv
<1>6. Spent(n, m)'
  <2>1. CASE ConsumeOnCurrent(n, m)
    <3>1. /\ current'[n] = WindowUpdate(current[n], m.counter)
          /\ previous'[n] = None
          /\ pending' = pending
      BY <2>1 DEF ConsumeOnCurrent, Received, TypeOK
    <3>2. m.counter \in current'[n].seen
      BY <1>1, <2>1, <3>1 DEF WindowUpdate, Session
    <3>3. /\ current[n] # None /\ recv_key(current[n]) = m.key
          /\ current[n] \in Session
          /\ SessionInv(n, current[n])
      BY <1>1, <2>1
    <3>4. pending[n] # None /\ ~m.key[2] => m.key[1][1] # pending[n].local_index
      <4>1. /\ m.key[1] = current[n].key
            /\ m.key[2] <=> ~current[n].is_initiator
        BY <1>2, <3>3, RecvKey
      <4>2. ~m.key[2] => m.key[1][1] = current[n].local_index
        BY SMTT(30), <3>3, <4>1 DEF SessionInv
      <4> QED
        BY <3>3, <4>2 DEF IndexInv
    <3> QED
      BY <3>1, <3>2, <3>4 DEF Spent
  <2>2. CASE ConsumeOnPrevious(n, m)
    <3>1. /\ current' = current
          /\ previous'[n] = WindowUpdate(previous[n], m.counter)
          /\ pending' = pending
      BY <2>2 DEF ConsumeOnPrevious, Received, TypeOK
    <3>2. /\ previous[n] # None /\ recv_key(previous[n]) = m.key
          /\ previous[n] \in Session
          /\ SessionInv(n, previous[n]) /\ SessionInv(n, current[n])
      BY <2>2 DEF ConsumeOnPrevious, Opens, Live, IndexInv, TypeOK
    <3>3. m.counter \in previous'[n].seen
      BY <3>1, <3>2 DEF WindowUpdate, Session
    <3>4. current[n] # None => recv_key(current[n]) # m.key
      BY SMTT(30), <3>2 DEF IndexInv, SessionInv, recv_key
    <3>5. pending[n] # None /\ ~m.key[2] => m.key[1][1] # pending[n].local_index
      BY SMTT(30), <1>2, <3>2, RecvKey DEF IndexInv, SessionInv
    <3> QED
      BY <3>1, <3>3, <3>4, <3>5 DEF Spent
  <2> QED
    BY <2>1, <2>2
<1> QED
  <2> SUFFICES ASSUME NEW k \in Node, NEW p \in Packet, delivered'[k][p] # 0
               PROVE  /\ delivered'[k][p] = 1
                      /\ p \in given'[Peer(k)]
                      /\ \A i \in DOMAIN queued'[Peer(k)] : queued'[Peer(k)][i] # p
                      /\ \A d \in transports' : d.payload = p => Spent(k, d)'
    BY DEF DeliveryInv
  <2> HIDE DEF s
  <2>0. /\ given' = given /\ queued' = queued /\ transports' = transports
        /\ delivered' = IF m.payload = Keepalive THEN delivered
                          ELSE [delivered EXCEPT ![n][m.payload] = @ + 1]
    BY <1>1 DEF Received, netVars
  <2>1. CASE k = n /\ p = m.payload
    <3>0. p # Keepalive
      BY PayloadAssumption
    <3>1. delivered[n][p] = 0
      BY <1>4, <2>1 DEF DeliveryInv
    <3>2. delivered'[n][p] = 1
      BY SMTT(30), <2>0, <2>1, <3>0, <3>1 DEF TypeOK
    <3>3. \A d \in transports : d.payload = p => d = m
      BY <2>1, <3>0 DEF PacketInv
    <3>4. Peer(n) \in Node
      BY PeerFacts
    <3>5. \A i \in DOMAIN queued[Peer(n)] : queued[Peer(n)][i] # p
      BY <2>1, <3>4 DEF PacketInv
    <3> QED
      BY <1>5, <1>6, <2>0, <2>1, <3>0, <3>2, <3>3, <3>5
  <2>2. CASE ~(k = n /\ p = m.payload)
    <3>1. delivered'[k][p] = delivered[k][p]
      BY <2>0, <2>2 DEF TypeOK
    <3>2. /\ delivered[k][p] = 1
          /\ p \in given[Peer(k)]
          /\ \A i \in DOMAIN queued[Peer(k)] : queued[Peer(k)][i] # p
          /\ \A d \in transports : d.payload = p => Spent(k, d)
      BY <3>1 DEF DeliveryInv
    <3> QED
      BY <2>0, <3>1, <3>2, SpentStep
  <2> QED
    BY <2>1, <2>2

-----------------------------------------------------------------------------
(* From actions to steps: handshake messages.                              *)

\* A step that sends no handshake message draws no number.
LEMMA DrawnSame ==
    ASSUME UNCHANGED <<initiations, responses, fresh>>
    PROVE  Draws
BY DEF Draws, drawn

\* new_initiation draws one number.
LEMMA DrawnByInitiation ==
    ASSUME NEW n \in Node, NewInitiation(n), responses' = responses
    PROVE  DrawsAt(n)
<1> DEFINE new == [from |-> n, index |-> fresh, timestamp |-> fresh]
<1>1. initiations' = initiations \cup {new}
  BY DEF NewInitiation
<1>2. new.from = n /\ new.index = fresh
  OBVIOUS
<1>3. ASSUME NEW k \in Node
      PROVE  drawn'[k] = drawn[k] \cup (IF k = n THEN {fresh} ELSE {})
  <2> HIDE DEF new
  <2>1. {i \in initiations' : i.from = k} =
        {i \in initiations : i.from = k} \cup (IF k = n THEN {new} ELSE {})
    BY <1>1, <1>2
  <2>2. {m.index : m \in {i \in initiations' : i.from = k}} =
        {m.index : m \in {i \in initiations : i.from = k}}
        \cup (IF k = n THEN {fresh} ELSE {})
    BY <1>2, <2>1
  <2> QED
    BY <2>2 DEF drawn
<1> QED
  BY <1>3 DEF DrawsAt, NewInitiation, drawn

\* accept_initiation draws one number.
LEMMA DrawnByAnswer ==
    ASSUME NEW n \in Node, NEW m \in initiations, AcceptInitiation(n, m)
    PROVE  DrawsAt(n)
<1> DEFINE new == [to |-> Peer(n), index |-> fresh, receiver |-> m.index,
                   key |-> <<m.index, fresh>>]
<1>1. responses' = responses \cup {new} /\ initiations' = initiations
  BY DEF AcceptInitiation
<1>2. \A k \in Node : Peer(k) = Peer(n) <=> k = n
  BY NodesAssumption DEF Node, Peer
<1>3. new.to = Peer(n) /\ new.index = fresh
  OBVIOUS
<1>4. ASSUME NEW k \in Node
      PROVE  drawn'[k] = drawn[k] \cup (IF k = n THEN {fresh} ELSE {})
  <2> HIDE DEF new
  <2>1. {i \in responses' : i.to = Peer(k)} =
        {i \in responses : i.to = Peer(k)} \cup (IF k = n THEN {new} ELSE {})
    BY <1>1, <1>2, <1>3
  <2>2. {r.index : r \in {i \in responses' : i.to = Peer(k)}} =
        {r.index : r \in {i \in responses : i.to = Peer(k)}}
        \cup (IF k = n THEN {fresh} ELSE {})
    BY <1>3, <2>1
  <2> QED
    BY <1>1, <2>2 DEF drawn
<1> QED
  BY <1>4 DEF DrawsAt, AcceptInitiation, drawn

\* What initiate_if_needed and new_initiation may do to the handshake.
HandshakeStep(n) ==
    /\ responses' = responses
    /\ \/ UNCHANGED <<pending, initiations, fresh>>
       \/ /\ pending' = [pending EXCEPT ![n] = None]
          /\ UNCHANGED <<initiations, fresh>>
       \/ NewInitiation(n)

\* initiate_if_needed and new_initiation draw and replace as the kinds of step
\* allow.
LEMMA HandshakeFacts ==
    ASSUME TypeOK, NEW n \in Node, HandshakeStep(n)
    PROVE  Draws /\ PendingStep
<1>1. CASE UNCHANGED <<pending, initiations, fresh>>
  BY <1>1, DrawnSame DEF HandshakeStep, PendingStep
<1>2. CASE /\ pending' = [pending EXCEPT ![n] = None]
           /\ UNCHANGED <<initiations, fresh>>
  BY <1>2, DrawnSame DEF HandshakeStep, PendingStep, TypeOK
<1>3. CASE NewInitiation(n) /\ pending'[n] # None
  <2>1. DrawsAt(n)
    BY <1>3, DrawnByInitiation DEF HandshakeStep
  <2>2. pending'[n].local_index = fresh
    BY <1>3 DEF NewInitiation, TypeOK
  <2>3. \A k \in Node : k # n => pending'[k] = pending[k]
    BY <1>3 DEF NewInitiation, TypeOK
  <2> QED
    BY <1>3, <2>1, <2>2, <2>3 DEF Draws, PendingStep
<1>4. CASE NewInitiation(n) /\ pending'[n] = None
  <2>1. DrawsAt(n)
    BY <1>4, DrawnByInitiation DEF HandshakeStep
  <2>2. \A k \in Node : k # n => pending'[k] = pending[k]
    BY <1>4 DEF NewInitiation, TypeOK
  <2> QED
    BY <1>4, <2>1, <2>2 DEF Draws, PendingStep
<1> QED
  BY <1>1, <1>2, <1>3, <1>4 DEF HandshakeStep

\* The numbers stay apart and the timestamps ahead in a step that sends at
\* most an initiation.
LEMMA HandshakeDrawn ==
    ASSUME TypeOK, DrawnInv, NEW n \in Node, HandshakeStep(n),
           \A k \in Node \ Restarting :
               last_initiation_ts'[k] = last_initiation_ts[k]
    PROVE  DrawnInv'
<1>1. CASE UNCHANGED <<initiations, fresh>>
  <2>1. drawn' = drawn
    BY <1>1 DEF drawn, HandshakeStep
  <2>2. \A r \in responses : Peer(r.to) \in Node
    BY PeerFacts DEF TypeOK, Response
  <2> QED
    BY <1>1, <2>1, <2>2 DEF DrawnInv, HandshakeStep
<1>2. CASE NewInitiation(n)
  <2>1. DrawsAt(n)
    BY <1>2, DrawnByInitiation DEF HandshakeStep
  <2>2. \A k \in Node : drawn[k] \subseteq Nat
    BY DrawnType
  <2>3. \A k \in Node : drawn'[k] = IF k = n THEN drawn[k] \cup {fresh} ELSE drawn[k]
    BY <2>1, DrawnType DEF DrawsAt
  <2>4. fresh \in Nat /\ fresh' = fresh + 1
    BY <2>1 DEF DrawsAt, TypeOK
  <2>5. /\ \A i \in drawn'[A] : i \notin drawn'[B]
        /\ \A k \in Node : \A i \in drawn'[k] : i < fresh'
    BY SMTT(30), <2>2, <2>3, <2>4, NodesAssumption DEF DrawnInv, Node
  <2>6. \A m \in initiations' : m.timestamp = m.index
    BY SMTT(30), <1>2 DEF NewInitiation, DrawnInv
  <2>7. \A r \in responses : Peer(r.to) \in Node /\ r.to \in Node
    BY PeerFacts DEF TypeOK, Response
  <2> QED
    BY <2>3, <2>5, <2>6, <2>7 DEF DrawnInv, HandshakeStep
<1> QED
  BY <1>1, <1>2 DEF HandshakeStep

-----------------------------------------------------------------------------
(* From actions to steps: packets.                                         *)

\* queue adds the packet at the end and nothing else.
LEMMA EnqueueElements ==
    ASSUME NEW q \in Seq(Packet), NEW p \in Packet,
           \A i, j \in DOMAIN q : q[i] = q[j] => i = j,
           \A i \in DOMAIN q : q[i] # p
    PROVE  LET r == Enqueue(q, p)
           IN  /\ \A i \in DOMAIN r : r[i] = p \/ \E j \in DOMAIN q : r[i] = q[j]
               /\ \A i, j \in DOMAIN r : r[i] = r[j] => i = j
<1> DEFINE t == IF Len(q) >= QUEUE_LIMIT THEN Tail(q) ELSE q
           r == Enqueue(q, p)
<1>1. /\ t \in Seq(Packet)
      /\ \A i \in 1 .. Len(t) : \E j \in 1 .. Len(q) : t[i] = q[j]
      /\ \A i, j \in 1 .. Len(t) : t[i] = t[j] => i = j
  <2>1. CASE Len(q) >= QUEUE_LIMIT
    <3>1. q # <<>>
      BY SMTT(30), <2>1, LimitsAssumption
    <3>2. /\ t = Tail(q) /\ Tail(q) \in Seq(Packet)
          /\ Len(Tail(q)) = Len(q) - 1
          /\ \A i \in 1 .. Len(Tail(q)) : Tail(q)[i] = q[i + 1]
      BY SMTT(30), <2>1, <3>1
    <3> HIDE DEF t
    <3>3. /\ \A i \in 1 .. Len(t) : i + 1 \in 1 .. Len(q)
          /\ \A i \in 1 .. Len(t) : t[i] = q[i + 1]
      <4>1. Len(q) \in Nat /\ Len(t) = Len(q) - 1
        BY SMTT(30), <3>2
      <4> QED
        BY SMTT(30), <3>2, <4>1
    <3>4. ASSUME NEW i \in 1 .. Len(t), NEW j \in 1 .. Len(t), t[i] = t[j]
          PROVE  i = j
      <4>1. i + 1 = j + 1
        BY SMTT(30), <3>3, <3>4
      <4> QED
        BY SMTT(30), <4>1
    <3>5. \A i \in 1 .. Len(t) : \E j \in 1 .. Len(q) : t[i] = q[j]
      BY <3>3
    <3> QED
      BY <3>2, <3>4, <3>5
  <2>2. CASE ~(Len(q) >= QUEUE_LIMIT)
    BY SMTT(30), <2>2
  <2> QED
    BY <2>1, <2>2
<1>2. r = Append(t, p)
  BY DEF Enqueue
<1> HIDE DEF t, r
<1>3. /\ Len(r) = Len(t) + 1 /\ Len(t) \in Nat /\ DOMAIN r = 1 .. Len(r)
      /\ \A i \in 1 .. Len(t) : r[i] = t[i]
      /\ r[Len(t) + 1] = p
  BY SMTT(30), <1>1, <1>2
<1>4. \A i \in 1 .. Len(t) : t[i] # p
  BY SMTT(30), <1>1
<1>5. \A i \in DOMAIN r : r[i] = p \/ \E j \in DOMAIN q : r[i] = q[j]
  BY SMTT(30), <1>1, <1>3
<1>6. \A i, j \in DOMAIN r : r[i] = r[j] => i = j
  BY SMTT(30), <1>1, <1>3, <1>4
<1> QED
  BY <1>5, <1>6 DEF r

\* A step that takes no packet from the caller and seals only keepalives.
QuietPackets ==
    /\ given' = given
    /\ \A n \in Node : queued'[n] = queued[n] \/ queued'[n] = <<>>
    /\ transports \subseteq transports'
    /\ \A d \in transports' \ transports : d.payload = Keepalive

\* Such a step leaves every packet in one place.
LEMMA QuietPacketsInv ==
    ASSUME TypeOK, TypeOK', PacketInv, QuietPackets
    PROVE  PacketInv' /\ PacketStep
<1>1. \A n \in Node : \A i \in DOMAIN queued'[n] :
          i \in DOMAIN queued[n] /\ queued'[n] = queued[n]
  BY SMTT(30) DEF QuietPackets
<1>2. \A n \in Node : \A i \in DOMAIN queued'[n] : queued'[n][i] \in Packet
  BY SMTT(30) DEF TypeOK
<1>3. \A d \in transports' : d.payload # Keepalive => d \in transports
  BY DEF QuietPackets
<1>4. /\ \A p \in given'[A] : p \notin given'[B]
      /\ \A d \in transports' :
            d.payload # Keepalive => d.payload \in given'[A] \cup given'[B]
      /\ \A d, e \in transports' :
            d.payload = e.payload /\ d.payload # Keepalive => d = e
  BY <1>3 DEF QuietPackets, PacketInv
<1>5. ASSUME NEW n \in Node, NEW i \in DOMAIN queued'[n], NEW j \in DOMAIN queued'[n]
      PROVE  /\ queued'[n][i] \in given'[n]
             /\ queued'[n][i] = queued'[n][j] => i = j
             /\ \A d \in transports' : d.payload # queued'[n][i]
  BY SMTT(30), <1>1, <1>2, <1>3, PayloadAssumption DEF QuietPackets, PacketInv
<1>6. PacketStep
  BY <1>1 DEF PacketStep, Waiting, QuietPackets
<1> QED
  BY <1>4, <1>5, <1>6 DEF PacketInv

\* The conjuncts of IInv follow from the kinds of step.
LEMMA QuietStep ==
    ASSUME TypeOK, TypeOK', IInv, Draws, SlotStep, PendingStep, SealStep,
           PacketStep, DrawnInv', PacketInv', delivered' = delivered
    PROVE  IInv'
<1>1. \A n \in Node : IndexInv(n)'
  BY IndexStep DEF IInv
<1>2. SealedInv'
  BY <1>1, SealedStep DEF IInv
<1>3. NonceUnique'
  BY <1>1, NonceStep DEF IInv
<1>4. DeliveryInv'
  BY QuietDelivery DEF IInv
<1> QED
  BY <1>1, <1>2, <1>3, <1>4 DEF IInv

-----------------------------------------------------------------------------
(* The actions.                                                            *)

\* Sealing, opening and growing older continue a session.
LEMMA ContinuesSession ==
    ASSUME NEW s \in Session, \A c \in s.seen : c <= s.last, NEW k \in Nat
    PROVE  /\ Continues(s, s)
           /\ Continues(AfterSeal(s), s)
           /\ Continues(WindowUpdate(s, k), s)
           /\ Continues(Aged(s, REJECT_AFTER_TIME), s)
<1>0. /\ s # None /\ s.send_counter \in Nat /\ s.last \in Nat /\ s.seen \subseteq Nat
      /\ Keepalive \in Payload
  BY NoneAssumption DEF Session, Payload
<1>1. /\ AfterSeal(s) \in Session /\ WindowUpdate(s, k) \in Session
      /\ Aged(s, REJECT_AFTER_TIME) \in Session \cup {None}
  BY <1>0, SessionType
<1>2. AfterSeal(s) # None /\ WindowUpdate(s, k) # None
  BY <1>1, NoneAssumption
<1>3. Continues(s, s)
  BY SMTT(30), <1>0 DEF Continues
<1>4. Continues(AfterSeal(s), s)
  BY SMTT(30), <1>0, <1>2 DEF Continues, AfterSeal, Session
<1>5. Continues(WindowUpdate(s, k), s)
  <2>1. /\ WindowUpdate(s, k).local_index = s.local_index
        /\ WindowUpdate(s, k).remote_index = s.remote_index
        /\ WindowUpdate(s, k).key = s.key
        /\ WindowUpdate(s, k).is_initiator = s.is_initiator
        /\ WindowUpdate(s, k).send_counter = s.send_counter
        /\ WindowUpdate(s, k).seen = s.seen \cup {k}
        /\ WindowUpdate(s, k).last = IF k > s.last THEN k ELSE s.last
    BY DEF WindowUpdate, Session
  <2>2. \A c \in s.seen \cup {k} : c <= (IF k > s.last THEN k ELSE s.last)
    BY SMTT(30), <1>0
  <2> QED
    BY SMTT(30), <1>0, <1>2, <2>1, <2>2 DEF Continues
<1>6. Continues(Aged(s, REJECT_AFTER_TIME), s)
  <2>1. Aged(s, REJECT_AFTER_TIME) = [s EXCEPT !.age = Older(s.age, REJECT_AFTER_TIME)]
    BY <1>0 DEF Aged
  <2>2. [s EXCEPT !.age = Older(s.age, REJECT_AFTER_TIME)] \in Session
    BY SMTT(30), LimitsAssumption DEF Older, Session
  <2> QED
    BY SMTT(30), <1>0, <2>1, <2>2, NoneAssumption DEF Continues, Session
<1> QED
  BY <1>3, <1>4, <1>5, <1>6

\* What the invariant says of the two slots of a node.
LEMMA SlotFacts ==
    ASSUME TypeOK, IInv, NEW n \in Node
    PROVE  /\ current[n] # None =>
                 current[n] \in Session /\ \A c \in current[n].seen : c <= current[n].last
           /\ previous[n] # None =>
                 previous[n] \in Session /\ \A c \in previous[n].seen : c <= previous[n].last
BY DEF TypeOK, IInv, IndexInv, SessionInv

\* Slots that do not change, are emptied, or are replaced by a session that
\* continues the one they held.
LEMMA SlotSame ==
    ASSUME TypeOK, IInv, NEW n \in Node,
           current'[n] \in {current[n], None} \/ Continues(current'[n], current[n]),
           previous'[n] \in {previous[n], None} \/ Continues(previous'[n], previous[n])
    PROVE  KeepsSessions(n)
<1>1. current[n] # None => Continues(current[n], current[n])
  BY SlotFacts, ContinuesSession, 0 \in Nat
<1>2. previous[n] # None => Continues(previous[n], previous[n])
  BY SlotFacts, ContinuesSession, 0 \in Nat
<1> QED
  BY <1>1, <1>2 DEF KeepsSessions

\* A step of n that seals nothing.
LEMMA SilentSeal ==
    ASSUME TypeOK, transports' = transports, \A n \in Node : given[n] \subseteq given'[n]
    PROVE  SealStep
BY DEF SealStep

\* encapsulate without a session preserves the invariant.
LEMMA EncapsulateQueuedInv ==
    ASSUME TypeOK, TypeOK', IInv, NEW n \in Node, NEW p \in Packet,
           EncapsulateQueued(n, p)
    PROVE  IInv'
<1>1. HandshakeStep(n)
  BY DEF EncapsulateQueued, InitiateIfNeeded, QueueAfterGivingUp, HandshakeStep
<1>2. Draws /\ PendingStep
  BY <1>1, HandshakeFacts
<1>3. DrawnInv'
  BY <1>1, HandshakeDrawn DEF IInv, EncapsulateQueued
<1>4. SlotStep
  <2>1. \A k \in Node : current'[k] \in {current[k], None} /\ previous'[k] = previous[k]
    BY DEF EncapsulateQueued, TypeOK
  <2> QED
    BY <2>1, SlotSame DEF SlotStep
<1>5. /\ \A k \in Node : given'[k] = IF k = n THEN given[k] \cup {p} ELSE given[k]
      /\ NewPacket(p)
  BY DEF EncapsulateQueued, TypeOK, NewPacket
<1>6. SealStep
  BY SMTT(30), <1>5, SilentSeal DEF EncapsulateQueued
<1>7. \A k \in Node : \/ queued'[k] = queued[k]
                      \/ queued'[k] = <<>>
                      \/ k = n /\ queued'[k] = Enqueue(queued[k], p)
  <2>1. \/ queued' = queued
        \/ queued' = [queued EXCEPT ![n] = <<>>]
        \/ queued' = [queued EXCEPT ![n] = Enqueue(queued[n], p)]
    BY SMTT(30) DEF EncapsulateQueued, InitiateIfNeeded, QueueAfterGivingUp
  <2> QED
    BY <2>1, SlotTypes
<1>8. \A k \in Node : \A i \in DOMAIN queued[k] : queued[k][i] \in given[k] /\ queued[k][i] # p
  <2>1. \A k \in Node : \A i \in DOMAIN queued[k] : queued[k][i] \in given[k]
    BY DEF IInv, PacketInv
  <2> QED
    BY <1>5, <2>1 DEF NewPacket, Node
<1>9. ASSUME NEW k \in Node
      PROVE  /\ \A i \in DOMAIN queued'[k] :
                    (k = n /\ queued'[k][i] = p) \/ Waiting(queued'[k][i], k)
             /\ \A i, j \in DOMAIN queued'[k] :
                    queued'[k][i] = queued'[k][j] => i = j
  <2>1. CASE queued'[k] = queued[k] \/ queued'[k] = <<>>
    BY SMTT(30), <2>1 DEF IInv, PacketInv, Waiting
  <2>2. CASE k = n /\ queued'[k] = Enqueue(queued[k], p)
    <3>1. /\ queued[k] \in Seq(Packet)
          /\ \A i, j \in DOMAIN queued[k] : queued[k][i] = queued[k][j] => i = j
          /\ \A i \in DOMAIN queued[k] : queued[k][i] # p
      BY <1>8 DEF TypeOK, IInv, PacketInv
    <3> QED
      BY SMTT(30), <2>2, <3>1, EnqueueElements DEF Waiting
  <2> QED
    BY <1>7, <2>1, <2>2
<1>10. PacketStep
  BY <1>5, <1>9 DEF PacketStep, EncapsulateQueued
<1>11. PacketInv'
  <2>1. transports' = transports
    BY DEF EncapsulateQueued
  <2>2. \A d \in transports : d.payload # p
    BY <1>5, PayloadAssumption DEF IInv, PacketInv, NewPacket
  <2>3. \A q \in given'[A] : q \notin given'[B]
    BY SMTT(30), <1>5, NodesAssumption DEF IInv, PacketInv, NewPacket, Node
  <2>4. ASSUME NEW k \in Node, NEW i \in DOMAIN queued'[k]
        PROVE  /\ queued'[k][i] \in given'[k]
               /\ \A d \in transports' : d.payload # queued'[k][i]
    <3>1. CASE k = n /\ queued'[k][i] = p
      BY <1>5, <2>1, <2>2, <3>1
    <3>2. CASE Waiting(queued'[k][i], k)
      <4>1. PICK j \in DOMAIN queued[k] : queued[k][j] = queued'[k][i]
        BY <3>2 DEF Waiting
      <4>2. /\ queued[k][j] \in given[k]
            /\ \A d \in transports : d.payload # queued[k][j]
        BY DEF IInv, PacketInv
      <4> QED
        BY <1>5, <2>1, <4>1, <4>2
    <3> QED
      BY <1>9, <3>1, <3>2
  <2>5. \A d \in transports' :
          d.payload # Keepalive => d.payload \in given'[A] \cup given'[B]
    <3>1. \A d \in transports :
            d.payload # Keepalive => d.payload \in given[A] \cup given[B]
      BY DEF IInv, PacketInv
    <3>2. given[A] \subseteq given'[A] /\ given[B] \subseteq given'[B]
      BY <1>5 DEF Node
    <3> QED
      BY <2>1, <3>1, <3>2
  <2> QED
    BY <1>9, <2>1, <2>3, <2>4, <2>5 DEF IInv, PacketInv
<1> QED
  BY <1>2, <1>3, <1>4, <1>6, <1>10, <1>11, QuietStep DEF EncapsulateQueued

\* encapsulate with a session preserves the invariant.
LEMMA EncapsulateSealedInv ==
    ASSUME TypeOK, TypeOK', IInv, NEW n \in Node, NEW p \in Packet,
           EncapsulateSealed(n, p)
    PROVE  IInv'
<1> DEFINE d == Sealed(current[n], p)
<1>0. current[n] # None /\ current[n] \in Session
  BY DEF EncapsulateSealed, Live, TypeOK
<1>1. HandshakeStep(n)
  BY DEF EncapsulateSealed, HandshakeStep
<1>2. Draws /\ PendingStep
  BY <1>1, HandshakeFacts
<1>3. DrawnInv'
  BY <1>1, HandshakeDrawn DEF IInv, EncapsulateSealed
<1>4. Continues(current'[n], current[n]) /\ current'[n] = AfterSeal(current[n])
  <2>1. current'[n] = AfterSeal(current[n])
    BY DEF EncapsulateSealed, TypeOK
  <2> QED
    BY <1>0, <2>1, SlotFacts, ContinuesSession, 0 \in Nat
<1>5. SlotStep
  <2>1. \A k \in Node : k # n => current'[k] = current[k]
    BY DEF EncapsulateSealed, TypeOK
  <2>2. previous' = previous
    BY DEF EncapsulateSealed
  <2> QED
    BY <1>4, <2>1, <2>2, SlotSame DEF SlotStep
<1>6. /\ \A k \in Node : given'[k] = IF k = n THEN given[k] \cup {p} ELSE given[k]
      /\ NewPacket(p)
      /\ transports' = transports \cup {d}
      /\ queued' = queued /\ delivered' = delivered
  <2>1. /\ given' = [given EXCEPT ![n] = @ \cup {p}]
        /\ p \notin given[A] \cup given[B]
        /\ transports' = transports \cup {d}
        /\ queued' = queued /\ delivered' = delivered
    BY DEF EncapsulateSealed
  <2> QED
    BY <2>1, SlotTypes DEF NewPacket
<1>7. d.payload = p /\ d.key = send_key(current[n]) /\ d.counter = current[n].send_counter
  BY DEF Sealed
<1> HIDE DEF d
<1>8. SealStep
  <2>1. /\ current'[n] # None
        /\ send_key(current'[n]) = send_key(current[n])
    BY <1>4 DEF Continues, send_key
  <2>2. /\ current'[n].send_counter = current[n].send_counter + 1
        /\ current[n].send_counter \in Nat
    BY <1>0, <1>4 DEF AfterSeal, Session
  <2> QED
    <3>1. \A e \in transports' \ transports : e = d
      BY <1>6
    <3>2. /\ d.key = send_key(current'[n])
          /\ d.counter < current'[n].send_counter
          /\ current[n].send_counter <= d.counter
          /\ d.payload \in given'[n]
      <4>1. d.key = send_key(current'[n])
        BY <1>7, <2>1
      <4>2. d.counter < current'[n].send_counter /\ current[n].send_counter <= d.counter
        BY SMTT(30), <1>7, <2>2
      <4>3. d.payload \in given'[n]
        BY <1>6, <1>7
      <4> QED
        BY <4>1, <4>2, <4>3
    <3>3. transports \subseteq transports' /\ \A k \in Node : given[k] \subseteq given'[k]
      BY <1>6
    <3> QED
      BY <1>0, <2>1, <3>1, <3>2, <3>3 DEF SealStep
<1>9. PacketStep
  BY <1>6, <1>7 DEF PacketStep, Waiting
<1>10. PacketInv'
  <2>1. \A e \in transports : e.payload # p
    BY <1>6, PayloadAssumption DEF IInv, PacketInv, NewPacket
  <2>2. \A k \in Node : \A i \in DOMAIN queued[k] : queued[k][i] # p
    BY SMTT(30), <1>6 DEF IInv, PacketInv, NewPacket, Node
  <2>3. \A q \in given'[A] : q \notin given'[B]
    BY SMTT(30), <1>6, NodesAssumption DEF IInv, PacketInv, NewPacket, Node
  <2>4. \A k \in Node : \A i, j \in DOMAIN queued'[k] :
          /\ queued'[k][i] \in given'[k]
          /\ queued'[k][i] = queued'[k][j] => i = j
          /\ \A e \in transports' : e.payload # queued'[k][i]
    <3>1. \A e \in transports' : e \in transports \/ e = d
      BY <1>6
    <3> SUFFICES ASSUME NEW k \in Node, NEW i \in DOMAIN queued[k], NEW j \in DOMAIN queued[k]
                 PROVE  /\ queued[k][i] \in given'[k]
                        /\ queued[k][i] = queued[k][j] => i = j
                        /\ \A e \in transports' : e.payload # queued[k][i]
      BY SMTT(30), <1>6
    <3>2. /\ queued[k][i] \in given[k]
          /\ queued[k][i] = queued[k][j] => i = j
          /\ \A e \in transports : e.payload # queued[k][i]
      BY DEF IInv, PacketInv
    <3> QED
      BY <1>6, <1>7, <2>2, <3>1, <3>2
  <2>5. \A e \in transports' :
          e.payload # Keepalive => e.payload \in given'[A] \cup given'[B]
    BY <1>6, <1>7, PeerFacts DEF IInv, PacketInv, Node
  <2>6. \A e, f \in transports' :
          e.payload = f.payload /\ e.payload # Keepalive => e = f
    BY <1>6, <1>7, <2>1 DEF IInv, PacketInv
  <2> QED
    BY <2>3, <2>4, <2>5, <2>6 DEF PacketInv
<1> QED
  BY <1>2, <1>3, <1>5, <1>6, <1>8, <1>9, <1>10, QuietStep

\* consume_response, flush included, preserves the invariant.
LEMMA ConsumeResponseInv ==
    ASSUME TypeOK, TypeOK', IInv, NEW n \in Node, NEW m \in responses,
           ConsumeResponse(n, m)
    PROVE  IInv'
<1> DEFINE s == NewSession(pending[n].local_index, m.index, m.key, TRUE)
           t == [s EXCEPT !.send_counter = Len(queued[n])]
           q == queued[n]
<1>0. /\ m \in Response /\ m.to = n
      /\ pending[n] # None /\ pending[n].local_index = m.receiver
      /\ q \in Seq(Packet)
  BY DEF ConsumeResponse, TypeOK
<1>1. UNCHANGED <<initiations, responses, fresh, given, delivered, last_initiation_ts>>
  BY DEF ConsumeResponse
<1>2. /\ current'[n] = t /\ previous'[n] = current[n] /\ pending'[n] = None
      /\ queued'[n] = <<>>
      /\ transports' = transports \cup Flushed(s, q)
      /\ \A k \in Node : k # n => /\ current'[k] = current[k]
                                  /\ previous'[k] = previous[k]
                                  /\ pending'[k] = pending[k]
                                  /\ queued'[k] = queued[k]
  BY SMTT(30) DEF ConsumeResponse, TypeOK
<1>3. /\ t.local_index = pending[n].local_index /\ t.remote_index = m.index
      /\ t.key = m.key /\ t.is_initiator = TRUE /\ t.seen = {}
      /\ t.send_counter = Len(q)
      /\ send_key(s) = send_key(t)
  BY DEF NewSession, send_key
<1>4. m.key = <<m.receiver, m.index>> /\ m.index \in drawn[Peer(n)]
  <2>1. m.key = <<m.receiver, m.index>>
    BY DEF IInv, DrawnInv
  <2>2. m.index \in {r.index : r \in {i \in responses : i.to = Peer(Peer(n))}}
    BY <1>0, PeerFacts
  <2> QED
    BY <2>1, <2>2, PeerFacts DEF drawn
<1>5. t # None
  <2>1. pending[n].local_index \in Nat /\ m.index \in Nat /\ m.key \in Key
    BY <1>0 DEF TypeOK, PendingInitiation, Response
  <2>2. s \in Session
    BY SMTT(30), <2>1, LimitsAssumption DEF NewSession, Session
  <2>3. Len(q) \in Nat
    BY SMTT(30), <1>0
  <2> HIDE DEF s
  <2>4. t \in Session
    BY <2>2, <2>3 DEF Session
  <2> QED
    BY <2>4, NoneAssumption
<1> HIDE DEF t, s
<1>6. Draws
  BY <1>1, DrawnSame
<1>7. PendingStep
  BY <1>2 DEF PendingStep
<1>8. OpensSession(n)
  BY <1>0, <1>2, <1>3, <1>4, <1>5 DEF OpensSession
<1>9. SlotStep
  BY <1>2, <1>8, SlotSame DEF SlotStep
<1>10. DrawnInv'
  <2>1. drawn' = drawn
    BY <1>1 DEF drawn
  <2> QED
    BY <1>1, <2>1 DEF DrawnInv, IInv
<1>11. \A d \in Flushed(s, q) : \E i \in 1 .. Len(q) :
         d.key = send_key(t) /\ d.counter = i - 1 /\ d.payload = q[i]
  BY SMTT(30), <1>3 DEF Flushed
<1>12. \A d, e \in Flushed(s, q) :
         d.payload = e.payload \/ d.counter = e.counter => d = e
  <2>1. \A i, j \in 1 .. Len(q) : q[i] = q[j] => i = j
    BY SMTT(30), <1>0 DEF IInv, PacketInv
  <2> QED
    BY SMTT(30), <1>0, <2>1 DEF Flushed
<1>13. \A i \in 1 .. Len(q) : q[i] \in given[n]
  BY SMTT(30), <1>0 DEF IInv, PacketInv
<1>14. SealStep
  <2>1. ASSUME NEW d \in transports' \ transports
        PROVE  /\ d.key = send_key(current'[n])
               /\ d.counter < current'[n].send_counter
               /\ d.payload \in given'[n]
    <3>1. d \in Flushed(s, q)
      BY <1>2
    <3>2. PICK i \in 1 .. Len(q) :
            d.key = send_key(t) /\ d.counter = i - 1 /\ d.payload = q[i]
      BY <1>11, <3>1
    <3> QED
      BY SMTT(30), <1>0, <1>1, <1>2, <1>3, <1>13, <3>2
  <2> QED
    <3>1. \A d, e \in transports' \ transports :
            d.key = e.key /\ d.counter = e.counter => d = e
      BY <1>2, <1>12
    <3>2. \A d \in transports' \ transports : \E k \in Node :
            /\ current'[k] # None
            /\ d.key = send_key(current'[k])
            /\ d.counter < current'[k].send_counter
            /\ current[k] # None /\ current[k].local_index = current'[k].local_index
                  => current[k].send_counter <= d.counter
            /\ d.payload # Keepalive => d.payload \in given'[k]
      <4>1. current'[n] # None
        BY <1>2, <1>5
      <4> TAKE d \in transports' \ transports
      <4>2. /\ d.key = send_key(current'[n])
            /\ d.counter < current'[n].send_counter
            /\ d.payload \in given'[n]
        BY <2>1
      <4>3. current[n] # None => current[n].local_index # current'[n].local_index
        BY <1>0, <1>2, <1>3 DEF IInv, IndexInv
      <4> QED
        BY <4>1, <4>2, <4>3
    <3>3. transports \subseteq transports' /\ \A k \in Node : given[k] \subseteq given'[k]
      BY <1>1, <1>2
    <3> QED
      BY <3>1, <3>2, <3>3 DEF SealStep
<1>15. \A d \in transports' \ transports : Waiting(d.payload, n)
  BY SMTT(30), <1>0, <1>2, <1>11 DEF Waiting
<1>16. PacketStep
  BY SMTT(30), <1>2, <1>15 DEF PacketStep, Waiting
<1>17. PacketInv'
  <2>1. \A d \in transports' : d \in transports \/ d \in Flushed(s, q)
    BY <1>2
  <2>2. \A d \in Flushed(s, q) : d.payload \in given[n] /\ Waiting(d.payload, n)
    BY SMTT(30), <1>0, <1>11, <1>13 DEF Waiting
  <2>3. \A d \in Flushed(s, q), e \in transports : d.payload # e.payload
    BY SMTT(30), <2>2 DEF IInv, PacketInv, Waiting
  <2>4. \A d, e \in transports' :
          d.payload = e.payload /\ d.payload # Keepalive => d = e
    BY <1>12, <2>1, <2>3 DEF IInv, PacketInv
  <2>5. \A d \in transports' :
          d.payload # Keepalive => d.payload \in given'[A] \cup given'[B]
    BY <1>1, <2>1, <2>2 DEF IInv, PacketInv, Node
  <2>6. ASSUME NEW k \in Node, NEW i \in DOMAIN queued'[k], NEW j \in DOMAIN queued'[k]
        PROVE  /\ queued'[k][i] \in given'[k]
               /\ queued'[k][i] = queued'[k][j] => i = j
               /\ \A d \in transports' : d.payload # queued'[k][i]
    <3>1. k # n /\ queued'[k] = queued[k]
      BY SMTT(30), <1>2
    <3>2. queued[k][i] \notin given[n]
      BY <3>1 DEF IInv, PacketInv, Node
    <3> QED
      BY SMTT(30), <1>1, <2>1, <2>2, <3>1, <3>2 DEF IInv, PacketInv
  <2> QED
    BY <1>1, <2>4, <2>5, <2>6 DEF IInv, PacketInv
<1> QED
  BY <1>1, <1>6, <1>7, <1>9, <1>10, <1>14, <1>16, <1>17, QuietStep

\* accept_initiation preserves the invariant.
LEMMA AcceptInitiationInv ==
    ASSUME TypeOK, TypeOK', IInv, NEW n \in Node, NEW m \in initiations,
           AcceptInitiation(n, m)
    PROVE  IInv'
<1> DEFINE s == NewSession(fresh, m.index, <<m.index, fresh>>, FALSE)
           new == [to |-> Peer(n), index |-> fresh, receiver |-> m.index,
                   key |-> <<m.index, fresh>>]
<1>0. /\ m.from = Peer(n) /\ m.timestamp > last_initiation_ts[n]
      /\ m.index \in Nat /\ m.timestamp = m.index /\ fresh \in Nat
      /\ Peer(n) \in Node
  BY PeerFacts DEF AcceptInitiation, Newer, TypeOK, Initiation, IInv, DrawnInv
<1>1. /\ current'[n] = s /\ previous'[n] = current[n] /\ pending'[n] = None
      /\ \A k \in Node : k # n => /\ current'[k] = current[k]
                                  /\ previous'[k] = previous[k]
                                  /\ pending'[k] = pending[k]
      /\ UNCHANGED <<queued, transports, given, delivered, initiations>>
      /\ responses' = responses \cup {new}
  BY DEF AcceptInitiation, TypeOK
<1>2. DrawsAt(n)
  BY DrawnByAnswer
<1>3. Draws
  BY <1>2 DEF Draws
<1>4. PendingStep
  BY <1>1 DEF PendingStep
<1>5. /\ s.local_index = fresh /\ s.remote_index = m.index
      /\ s.key = <<m.index, fresh>> /\ s.is_initiator = FALSE /\ s.seen = {}
      /\ s # None
  <2>1. s \in Session
    BY SMTT(30), <1>0, LimitsAssumption DEF NewSession, Session, Key
  <2> QED
    BY <2>1, NoneAssumption DEF NewSession
<1>6. m.index \in drawn[Peer(n)]
  <2>1. m.index \in {i.index : i \in {j \in initiations : j.from = Peer(n)}}
    BY <1>0
  <2> QED
    BY <1>0, <2>1 DEF drawn
<1> HIDE DEF s
<1>7. OpensSession(n)
  BY <1>1, <1>2, <1>5, <1>6 DEF OpensSession
<1>8. SlotStep
  BY <1>1, <1>7, SlotSame DEF SlotStep
<1>9. SealStep
  BY <1>1, SilentSeal
<1>10. PacketInv' /\ PacketStep
  BY <1>1, QuietPacketsInv DEF IInv, QuietPackets
<1>11. DrawnInv'
  <2>1. \A k \in Node : drawn'[k] = IF k = n THEN drawn[k] \cup {fresh} ELSE drawn[k]
    BY <1>2, DrawnType DEF DrawsAt
  <2>2. \A k \in Node : drawn[k] \subseteq Nat
    BY DrawnType
  <2>3. fresh' = fresh + 1
    BY <1>2 DEF DrawsAt
  <2>4. /\ \A i \in drawn'[A] : i \notin drawn'[B]
        /\ \A k \in Node : \A i \in drawn'[k] : i < fresh'
    BY SMTT(30), <1>0, <2>1, <2>2, <2>3, NodesAssumption DEF IInv, DrawnInv, Node
  <2>5. last_initiation_ts' = [last_initiation_ts EXCEPT ![n] = m.timestamp]
    BY DEF AcceptInitiation
  <2>6. ASSUME NEW r \in responses
        PROVE  /\ r.receiver \in drawn'[r.to]
               /\ r.key = <<r.receiver, r.index>>
               /\ Peer(r.to) \notin Restarting
                     => r.receiver <= last_initiation_ts'[Peer(r.to)]
    <3>1. r.to \in Node /\ Peer(r.to) \in Node /\ r.receiver \in Nat
      BY PeerFacts DEF TypeOK, Response
    <3>2. last_initiation_ts[Peer(r.to)] \in Nat /\ last_initiation_ts[n] \in Nat
      BY <3>1 DEF TypeOK
    <3>3. last_initiation_ts[Peer(r.to)] <= last_initiation_ts'[Peer(r.to)]
      <4>1. CASE Peer(r.to) = n
        <5>1. last_initiation_ts'[n] = m.timestamp
          BY <2>5, SlotTypes
        <5> QED
          BY SMTT(30), <1>0, <3>2, <4>1, <5>1
      <4>2. CASE Peer(r.to) # n
        <5>1. last_initiation_ts'[Peer(r.to)] = last_initiation_ts[Peer(r.to)]
          BY <2>5, <3>1, <4>2 DEF TypeOK
        <5> QED
          BY SMTT(30), <3>2, <5>1
      <4> QED
        BY <4>1, <4>2
    <3>4. last_initiation_ts'[Peer(r.to)] \in Nat
      BY <3>1 DEF TypeOK
    <3>5. /\ r.receiver \in drawn[r.to]
          /\ r.key = <<r.receiver, r.index>>
          /\ Peer(r.to) \notin Restarting
                => r.receiver <= last_initiation_ts[Peer(r.to)]
      BY DEF IInv, DrawnInv
    <3>6. r.receiver \in drawn'[r.to]
      BY <2>1, <3>1, <3>5
    <3> QED
      BY SMTT(30), <3>1, <3>2, <3>3, <3>4, <3>5, <3>6
  <2>7. /\ new.receiver \in drawn'[new.to]
        /\ new.key = <<new.receiver, new.index>>
        /\ new.receiver <= last_initiation_ts'[Peer(new.to)]
    <3>1. last_initiation_ts'[n] = m.index
      BY <1>0, <2>5 DEF TypeOK
    <3> QED
      <4>1. /\ new.to = Peer(n) /\ new.receiver = m.index /\ new.index = fresh
            /\ new.key = <<m.index, fresh>>
        OBVIOUS
      <4>2. Peer(new.to) = n
        BY <4>1, PeerFacts
      <4>3. new.receiver \in drawn'[new.to]
        BY <1>0, <1>6, <2>1, <4>1
      <4> HIDE DEF new
      <4> QED
        BY SMTT(30), <1>0, <3>1, <4>1, <4>2, <4>3
  <2> HIDE DEF new
  <2> QED
    BY <1>1, <2>4, <2>6, <2>7 DEF IInv, DrawnInv
<1> QED
  BY <1>1, <1>3, <1>4, <1>8, <1>9, <1>10, <1>11, QuietStep

\* consume_transport preserves the invariant.
LEMMA ConsumeTransportInv ==
    ASSUME TypeOK, TypeOK', IInv, NEW n \in Node, NEW m \in transports,
           ConsumeOnCurrent(n, m) \/ ConsumeOnPrevious(n, m)
    PROVE  IInv'
<1>1. UNCHANGED <<pending, last_initiation_ts, queued, initiations, responses,
                  transports, fresh, given>>
  BY DEF ConsumeOnCurrent, ConsumeOnPrevious, Received, netVars
<1>2. HandshakeStep(n)
  BY <1>1 DEF HandshakeStep
<1>3. Draws /\ PendingStep
  BY <1>2, HandshakeFacts
<1>4. DrawnInv'
  BY <1>1, <1>2, HandshakeDrawn DEF IInv
<1>5. SealStep
  BY <1>1, SilentSeal
<1>6. PacketInv'
  BY <1>1, QuietPacketsInv DEF IInv, QuietPackets
<1>7. SlotStep
  <2>0. m.counter \in Nat
    BY DEF TypeOK, Transport
  <2>1. \A k \in Node : k # n => current'[k] = current[k] /\ previous'[k] = previous[k]
    BY DEF ConsumeOnCurrent, ConsumeOnPrevious, TypeOK
  <2>2. CASE ConsumeOnCurrent(n, m)
    <3>1. /\ current'[n] = WindowUpdate(current[n], m.counter)
          /\ previous'[n] = None /\ current[n] # None
      BY <2>2 DEF ConsumeOnCurrent, Opens, Live, TypeOK
    <3>2. Continues(current'[n], current[n])
      BY <2>0, <3>1, SlotFacts, ContinuesSession
    <3> QED
      BY <2>1, <3>1, <3>2, SlotSame DEF SlotStep
  <2>3. CASE ConsumeOnPrevious(n, m)
    <3>1. /\ previous'[n] = WindowUpdate(previous[n], m.counter)
          /\ current'[n] = current[n] /\ previous[n] # None
      BY <2>3 DEF ConsumeOnPrevious, Opens, Live, TypeOK
    <3>2. Continues(previous'[n], previous[n])
      BY <2>0, <3>1, SlotFacts, ContinuesSession
    <3> QED
      BY <2>1, <3>1, <3>2, SlotSame DEF SlotStep
  <2> QED
    BY <2>2, <2>3
<1>8. \A k \in Node : IndexInv(k)'
  BY <1>3, <1>4, <1>7, IndexStep DEF IInv
<1>9. SealedInv'
  BY <1>3, <1>4, <1>5, <1>7, <1>8, SealedStep DEF IInv
<1>10. NonceUnique'
  BY <1>1 DEF IInv, NonceUnique
<1>11. DeliveryInv'
  BY <1>3, <1>7, <1>8, OpenedDelivery DEF IInv
<1> QED
  BY <1>4, <1>6, <1>8, <1>9, <1>10, <1>11 DEF IInv

\* tick preserves the invariant.
LEMMA TickInv ==
    ASSUME TypeOK, TypeOK', IInv, NEW n \in Node, Tick(n)
    PROVE  IInv'
<1> DEFINE cur == Unexpired(current[n])
           d == Sealed(cur, Keepalive)
<1>1. HandshakeStep(n)
  BY DEF Tick, InitiateIfNeeded, QueueAfterGivingUp, HandshakeStep
<1>2. Draws /\ PendingStep
  BY <1>1, HandshakeFacts
<1>3. DrawnInv'
  BY <1>1, HandshakeDrawn DEF IInv, Tick
<1>4. /\ cur \in {current[n], None}
      /\ previous'[n] \in {previous[n], None}
      /\ \A k \in Node : k # n => current'[k] = current[k] /\ previous'[k] = previous[k]
      /\ given' = given /\ delivered' = delivered
  <2>1. cur \in {current[n], None} /\ Unexpired(previous[n]) \in {previous[n], None}
    BY DEF Unexpired
  <2> HIDE DEF cur
  <2>2. /\ previous' = [previous EXCEPT ![n] = Unexpired(@)]
        /\ \E t : current' = [current EXCEPT ![n] = t]
        /\ given' = given /\ delivered' = delivered
    BY DEF Tick
  <2> QED
    BY <2>1, <2>2, SlotTypes
<1>5. \A k \in Node : queued'[k] = queued[k] \/ queued'[k] = <<>>
  <2> HIDE DEF cur
  <2>1. \/ queued' = queued
        \/ queued' = [queued EXCEPT ![n] = queued[n]]
        \/ queued' = [queued EXCEPT ![n] = <<>>]
    BY DEF Tick, InitiateIfNeeded, QueueAfterGivingUp
  <2> QED
    BY <2>1, SlotTypes
<1>6. CASE current'[n] = cur /\ transports' = transports
  <2>1. SlotStep
    BY <1>4, <1>6, SlotSame DEF SlotStep
  <2>2. SealStep
    BY <1>4, <1>6, SilentSeal
  <2>3. PacketInv' /\ PacketStep
    BY <1>4, <1>5, <1>6, QuietPacketsInv DEF IInv, QuietPackets
  <2> QED
    BY <1>2, <1>3, <1>4, <2>1, <2>2, <2>3, QuietStep
<1>7. CASE /\ cur # None /\ current'[n] = AfterSeal(cur)
           /\ transports' = transports \cup {d}
  <2>1. /\ cur = current[n] /\ cur \in Session
        /\ Continues(AfterSeal(cur), cur)
    BY <1>4, <1>7, SlotFacts, ContinuesSession, 0 \in Nat
  <2>2. SlotStep
    BY <1>4, <1>7, <2>1, SlotSame DEF SlotStep
  <2>3. d.payload = Keepalive /\ d.key = send_key(cur) /\ d.counter = cur.send_counter
    BY DEF Sealed
  <2> HIDE DEF cur, d
  <2>4. /\ current'[n] # None
        /\ send_key(current'[n]) = send_key(cur)
    BY <1>7, <2>1 DEF Continues, send_key
  <2>5. /\ current'[n].send_counter = cur.send_counter + 1
        /\ cur.send_counter \in Nat
    BY <1>7, <2>1 DEF AfterSeal, Session
  <2>6. SealStep
    <3>1. \A e \in transports' \ transports : e = d
      BY <1>7
    <3>2. d.key = send_key(current'[n])
      BY <2>3, <2>4
    <3>3. d.counter < current'[n].send_counter /\ current[n].send_counter <= d.counter
      BY SMTT(30), <2>1, <2>3, <2>5
    <3>4. transports \subseteq transports' /\ \A k \in Node : given[k] \subseteq given'[k]
      BY <1>4, <1>7
    <3> QED
      BY <1>7, <2>1, <2>3, <2>4, <3>1, <3>2, <3>3, <3>4 DEF SealStep
  <2>7. PacketInv' /\ PacketStep
    BY <1>4, <1>5, <1>7, <2>3, QuietPacketsInv DEF IInv, QuietPackets
  <2> QED
    BY <1>2, <1>3, <1>4, <2>2, <2>6, <2>7, QuietStep
<1> QED
  BY <1>6, <1>7 DEF Tick, KeepaliveDue, TypeOK

\* reset and a restart preserve the invariant.
LEMMA ForgetInv ==
    ASSUME TypeOK, TypeOK', IInv, NEW n \in Node, Reset(n) \/ Restart(n)
    PROVE  IInv'
<1>1. HandshakeStep(n)
  BY DEF Reset, Restart, netVars, HandshakeStep
<1>2. Draws /\ PendingStep
  BY <1>1, HandshakeFacts
<1>3. \A k \in Node \ Restarting : last_initiation_ts'[k] = last_initiation_ts[k]
  BY DEF Reset, Restart, TypeOK
<1>4. DrawnInv'
  BY <1>1, <1>3, HandshakeDrawn DEF IInv
<1>5. \A k \in Node : current'[k] \in {current[k], None} /\ previous'[k] \in {previous[k], None}
  BY DEF Reset, Restart, TypeOK
<1>6. SlotStep
  BY <1>5, SlotSame DEF SlotStep
<1>7. /\ \A k \in Node : queued'[k] = queued[k] \/ queued'[k] = <<>>
      /\ UNCHANGED <<transports, given, delivered>>
  <2>1. /\ queued' = [queued EXCEPT ![n] = <<>>]
        /\ UNCHANGED <<transports, given, delivered>>
    BY DEF Reset, Restart, netVars
  <2> QED
    BY <2>1, SlotTypes
<1>8. SealStep
  BY <1>7, SilentSeal
<1>9. PacketInv' /\ PacketStep
  BY <1>7, QuietPacketsInv DEF IInv, QuietPackets
<1> QED
  BY <1>2, <1>4, <1>6, <1>7, <1>8, <1>9, QuietStep

\* Time preserves the invariant.
LEMMA TimePassesInv ==
    ASSUME TypeOK, TypeOK', IInv, TimePasses
    PROVE  IInv'
<1>1. UNCHANGED <<last_initiation_ts, queued, initiations, responses, transports,
                  fresh, given, delivered>>
  BY DEF TimePasses, netVars
<1>2. Draws
  BY <1>1, DrawnSame
<1>3. PendingStep
  <2> SUFFICES ASSUME NEW k \in Node
               PROVE  \/ pending'[k] = None
                      \/ /\ pending'[k] # None /\ pending[k] # None
                         /\ pending'[k].local_index = pending[k].local_index
    BY DEF PendingStep
  <2>1. CASE pending[k] = None
    BY <2>1 DEF TimePasses, Aged
  <2>2. CASE pending[k] # None
    <3>1. pending[k] \in PendingInitiation
      BY <2>2 DEF TypeOK
    <3>2. pending'[k] = [pending[k] EXCEPT !.age = Older(pending[k].age, REKEY_TIMEOUT)]
      BY <2>2 DEF TimePasses, Aged
    <3>3. pending'[k].local_index = pending[k].local_index
      BY <3>1, <3>2 DEF PendingInitiation
    <3> QED
      BY <2>2, <3>3
  <2> QED
    BY <2>1, <2>2
<1>4. SlotStep
  <2> SUFFICES ASSUME NEW k \in Node PROVE KeepsSessions(k)
    BY DEF SlotStep
  <2>1. current'[k] = None \/ Continues(current'[k], current[k])
    <3>1. current'[k] = Aged(current[k], REJECT_AFTER_TIME)
      BY DEF TimePasses
    <3>2. CASE current[k] = None
      BY <3>1, <3>2 DEF Aged
    <3>3. CASE current[k] # None
      BY <3>1, <3>3, SlotFacts, ContinuesSession, 0 \in Nat
    <3> QED
      BY <3>2, <3>3
  <2>2. previous'[k] = None \/ Continues(previous'[k], previous[k])
    <3>1. previous'[k] = Aged(previous[k], REJECT_AFTER_TIME)
      BY DEF TimePasses
    <3>2. CASE previous[k] = None
      BY <3>1, <3>2 DEF Aged
    <3>3. CASE previous[k] # None
      BY <3>1, <3>3, SlotFacts, ContinuesSession, 0 \in Nat
    <3> QED
      BY <3>2, <3>3
  <2> QED
    BY <2>1, <2>2 DEF KeepsSessions
<1>5. DrawnInv'
  <2>1. drawn' = drawn
    BY <1>1 DEF drawn
  <2> QED
    BY <1>1, <2>1 DEF IInv, DrawnInv
<1>6. SealStep
  BY <1>1, SilentSeal
<1>7. PacketInv' /\ PacketStep
  BY <1>1, QuietPacketsInv DEF IInv, QuietPackets
<1> QED
  BY <1>1, <1>2, <1>3, <1>4, <1>5, <1>6, <1>7, QuietStep

-----------------------------------------------------------------------------
(* The theorems.                                                           *)

\* Nothing has been drawn, sent or queued at the start.
LEMMA InitInv == Init => IInv
<1> SUFFICES ASSUME Init PROVE IInv
  OBVIOUS
<1>1. \A n \in Node : drawn[n] = {}
  BY DEF Init, drawn
<1>2. /\ initiations = {} /\ responses = {} /\ transports = {}
      /\ \A n \in Node : /\ pending[n] = None /\ current[n] = None
                         /\ previous[n] = None /\ queued[n] = <<>>
                         /\ given[n] = {} /\ \A p \in Packet : delivered[n][p] = 0
  BY DEF Init
<1>3. DrawnInv
  BY <1>1, <1>2, PeerFacts DEF DrawnInv
<1>4. \A n \in Node : IndexInv(n)
  BY <1>2 DEF IndexInv, SessionInv
<1>5. PacketInv
  BY SMTT(30), <1>2, PeerFacts DEF PacketInv
<1> QED
  BY <1>2, <1>3, <1>4, <1>5 DEF IInv, SealedInv, DeliveryInv, NonceUnique

\* Every operation preserves the invariant.
LEMMA NextInv == TypeOK /\ TypeOK' /\ IInv /\ [Next]_vars => IInv'
<1> SUFFICES ASSUME TypeOK, TypeOK', IInv, [Next]_vars PROVE IInv'
  OBVIOUS
<1>1. CASE UNCHANGED vars
  <2>1. UNCHANGED <<pending, current, previous, last_initiation_ts, queued,
                    initiations, responses, transports, fresh, given, delivered>>
    BY <1>1 DEF vars, tunnVars, netVars
  <2>2. drawn' = drawn
    BY <2>1 DEF drawn
  <2> QED
    <3>1. DrawnInv' /\ \A n \in Node : IndexInv(n)'
      BY <2>1, <2>2 DEF IInv, DrawnInv, IndexInv, SessionInv
    <3>2. SealedInv' /\ NonceUnique'
      BY <2>1, <2>2 DEF IInv, SealedInv, NonceUnique
    <3>3. PacketInv'
      BY SMTT(30), <2>1 DEF IInv, PacketInv
    <3>4. DeliveryInv'
      BY <2>1 DEF IInv, DeliveryInv, Spent
    <3> QED
      BY <3>1, <3>2, <3>3, <3>4 DEF IInv
<1>2. CASE Next
  BY <1>2, EncapsulateQueuedInv, EncapsulateSealedInv, ConsumeResponseInv,
     AcceptInitiationInv, ConsumeTransportInv, TickInv, ForgetInv, TimePassesInv
  DEF Next, Encapsulate, ConsumeTransport
<1> QED
  BY <1>1, <1>2

\* The types and the invariant hold in every reachable state.
LEMMA Invariance == Spec => [](TypeOK /\ IInv)
<1>1. TypeOK /\ IInv /\ [Next]_vars => (TypeOK /\ IInv)'
  BY TypeNext, NextInv
<1> QED
  BY <1>1, TypeInit, InitInv, PTL DEF Spec

\* No key and counter are ever used for two messages, however handshakes are
\* lost, repeated or crossed and however often nodes restart.
THEOREM NoncesAreUnique == Spec => []NonceUnique
<1>1. IInv => NonceUnique
  BY DEF IInv
<1> QED
  BY <1>1, Invariance, PTL

\* consume_transport hands no packet to the stack twice, and none that the
\* peer's stack did not hand to encapsulate.
THEOREM PacketsDeliveredOnce == Spec => []DeliveredOnce
<1>1. TypeOK /\ IInv => DeliveredOnce
  <2> SUFFICES ASSUME TypeOK, IInv, NEW n \in Node, NEW p \in Packet
               PROVE  /\ delivered[n][p] <= 1
                      /\ delivered[n][p] = 1 => p \in given[Peer(n)]
    BY DEF DeliveredOnce
  <2>1. delivered[n][p] = 0 \/ (delivered[n][p] = 1 /\ p \in given[Peer(n)])
    BY DEF IInv, DeliveryInv
  <2> QED
    BY SMTT(30), <2>1
<1> QED
  BY <1>1, Invariance, PTL

\* The sessions of both ends of a key fit together.
THEOREM SessionsFit == Spec => []SessionsAgree
<1>1. TypeOK /\ IInv => SessionsAgree
  <2> SUFFICES ASSUME TypeOK, IInv, NEW s \in Slots(A), NEW t \in Slots(B), s.key = t.key
               PROVE  /\ s.is_initiator # t.is_initiator
                      /\ s.local_index = t.remote_index
                      /\ s.remote_index = t.local_index
    BY DEF SessionsAgree
  <2>1. /\ s \in Session /\ s # None /\ SessionInv(A, s)
        /\ t \in Session /\ t # None /\ SessionInv(B, t)
    BY SMTT(30), PeerFacts DEF Slots, TypeOK, IInv, IndexInv
  <2>2. /\ s.is_initiator \in BOOLEAN /\ t.is_initiator \in BOOLEAN
    BY <2>1 DEF Session
  <2>3. s.local_index # t.local_index
    BY <2>1 DEF SessionInv, IInv, DrawnInv
  <2>4. s.is_initiator # t.is_initiator
    BY SMTT(30), <2>1, <2>2, <2>3 DEF SessionInv
  <2>5. s.local_index = t.remote_index /\ s.remote_index = t.local_index
    BY SMTT(30), <2>1, <2>2, <2>4 DEF SessionInv
  <2> QED
    BY <2>4, <2>5
<1> QED
  BY <1>1, Invariance, PTL

\* accept_initiation answers no initiation twice while its node keeps
\* last_initiation_ts.
THEOREM AnswersAreUnique == Spec => []AnsweredOnce
<1>1. Init => AnsweredOnce
  BY DEF Init, AnsweredOnce
<1>2. TypeOK /\ IInv /\ AnsweredOnce /\ [Next]_vars => AnsweredOnce'
  <2> SUFFICES ASSUME TypeOK, IInv, AnsweredOnce, [Next]_vars PROVE AnsweredOnce'
    OBVIOUS
  <2>1. ASSUME NEW n \in Node, NEW m \in initiations, AcceptInitiation(n, m)
        PROVE  AnsweredOnce'
    <3> DEFINE new == [to |-> Peer(n), index |-> fresh, receiver |-> m.index,
                       key |-> <<m.index, fresh>>]
    <3>1. responses' = responses \cup {new}
      BY <2>1 DEF AcceptInitiation
    <3>2. new.to = Peer(n) /\ new.receiver = m.index
      OBVIOUS
    <3> HIDE DEF new
    <3>3. /\ m.index \in Nat /\ last_initiation_ts[n] \in Nat
          /\ m.index > last_initiation_ts[n]
      BY <2>1 DEF AcceptInitiation, Newer, TypeOK, Initiation, IInv, DrawnInv
    <3>4. ASSUME NEW r \in responses, r.to = Peer(n), r.receiver = m.index,
                 n \notin Restarting
          PROVE  FALSE
      <4>1. r.receiver <= last_initiation_ts[n]
        BY <3>4, PeerFacts DEF IInv, DrawnInv
      <4> QED
        BY SMTT(30), <3>3, <3>4, <4>1
    <3>5. Peer(Peer(n)) = n
      BY PeerFacts
    <3> QED
      BY SMTT(30), <3>1, <3>2, <3>4, <3>5 DEF AnsweredOnce
  <2>2. CASE responses' = responses
    BY <2>2 DEF AnsweredOnce
  <2>3. \/ responses' = responses
        \/ \E n \in Node : \E m \in initiations : AcceptInitiation(n, m)
    <3>1. ASSUME NEW n \in Node, Encapsulate(n)
          PROVE  responses' = responses
      BY <3>1 DEF Encapsulate, EncapsulateQueued, EncapsulateSealed
    <3>2. ASSUME NEW n \in Node, ConsumeTransport(n)
          PROVE  responses' = responses
      <4>1. PICK m \in transports :
               ConsumeOnCurrent(n, m) \/ ConsumeOnPrevious(n, m)
        BY <3>2 DEF ConsumeTransport
      <4>2. CASE ConsumeOnCurrent(n, m)
        BY <4>2 DEF ConsumeOnCurrent, Received, netVars
      <4>3. CASE ConsumeOnPrevious(n, m)
        BY <4>3 DEF ConsumeOnPrevious, Received, netVars
      <4> QED
        BY <4>1, <4>2, <4>3
    <3>3. ASSUME NEW n \in Node, NEW m \in responses, ConsumeResponse(n, m)
          PROVE  responses' = responses
      BY <3>3 DEF ConsumeResponse
    <3>4. ASSUME NEW n \in Node, Tick(n)
          PROVE  responses' = responses
      BY <3>4 DEF Tick
    <3>5. ASSUME NEW n \in Node, Reset(n) \/ Restart(n)
          PROVE  responses' = responses
      BY <3>5 DEF Reset, Restart, netVars
    <3>6. CASE TimePasses \/ UNCHANGED vars
      BY <3>6 DEF TimePasses, vars, netVars
    <3> QED
      BY <3>1, <3>2, <3>3, <3>4, <3>5, <3>6 DEF Next
  <2> QED
    BY <2>1, <2>2, <2>3
<1> QED
  BY <1>1, <1>2, Invariance, PTL DEF Spec

\* Every step of the two tunnels is a step of the channel or leaves it alone.
THEOREM TunnelImplementsChannel == Spec => ImplementsChannel
<1>1. Init => Channel!Init
  BY DEF Init, Channel!Init, Node, Channel!Node
<1>2. TypeOK /\ IInv /\ IInv' /\ [Next]_vars => [Channel!Next]_(Channel!vars)
  <2> SUFFICES ASSUME TypeOK, IInv, IInv', [Next]_vars
               PROVE  [Channel!Next]_(Channel!vars)
    OBVIOUS
  <2>1. ASSUME NEW n \in Node, NEW p \in Packet,
               EncapsulateQueued(n, p) \/ EncapsulateSealed(n, p)
        PROVE  Channel!Send(n, p)
    BY <2>1 DEF EncapsulateQueued, EncapsulateSealed, Channel!Send
  <2>2. ASSUME NEW n \in Node, NEW m \in transports,
               ConsumeOnCurrent(n, m) \/ ConsumeOnPrevious(n, m),
               m.payload # Keepalive
        PROVE  m.payload \in Packet /\ Channel!Deliver(n, m.payload)
    <3>1. m.payload \in Packet
      BY <2>2 DEF TypeOK, Transport, Payload
    <3>2. /\ given' = given
          /\ delivered' = [delivered EXCEPT ![n][m.payload] = @ + 1]
      BY <2>2 DEF ConsumeOnCurrent, ConsumeOnPrevious, Received
    <3>3. delivered[n][m.payload] \in Nat
      BY <3>1 DEF TypeOK
    <3>4. delivered'[n][m.payload] = delivered[n][m.payload] + 1
      BY <3>1, <3>2 DEF TypeOK
    <3>5. delivered'[n][m.payload] = 1 /\ m.payload \in given'[Peer(n)]
      BY SMTT(30), <3>1, <3>3, <3>4 DEF IInv, DeliveryInv
    <3>6. delivered[n][m.payload] = 0
      BY SMTT(30), <3>3, <3>4, <3>5
    <3>7. delivered' = [delivered EXCEPT ![n][m.payload] = 1]
      BY SMTT(30), <3>2, <3>6
    <3> QED
      BY <3>1, <3>2, <3>5, <3>6, <3>7 DEF Channel!Deliver, Channel!Peer, Peer
  <2>3. ASSUME NEW n \in Node, NEW m \in transports,
               ConsumeOnCurrent(n, m) \/ ConsumeOnPrevious(n, m),
               m.payload = Keepalive
        PROVE  UNCHANGED <<given, delivered>>
    BY <2>3 DEF ConsumeOnCurrent, ConsumeOnPrevious, Received
  <2>4. \/ \E n \in Node : \E p \in Packet :
               EncapsulateQueued(n, p) \/ EncapsulateSealed(n, p)
        \/ \E n \in Node : \E m \in transports :
               ConsumeOnCurrent(n, m) \/ ConsumeOnPrevious(n, m)
        \/ UNCHANGED <<given, delivered>>
    BY DEF Next, Encapsulate, ConsumeTransport, ConsumeResponse,
           AcceptInitiation, Tick, Reset, Restart, TimePasses, vars
  <2> QED
    BY <2>1, <2>2, <2>3, <2>4
    DEF Channel!Next, Channel!vars, Channel!Node, Node
<1> QED
  BY <1>1, <1>2, Invariance, PTL DEF Spec, ImplementsChannel, Channel!Spec

\* Growing older never loses a session or an initiation.
LEMMA AgedExists ==
    /\ \A s \in Session : Aged(s, REJECT_AFTER_TIME) # None
    /\ \A q \in PendingInitiation : Aged(q, REKEY_TIMEOUT) # None
<1>1. ASSUME NEW s \in Session
      PROVE  [s EXCEPT !.age = Older(s.age, REJECT_AFTER_TIME)] \in Session
  BY SMTT(30), LimitsAssumption DEF Older, Session
<1>2. ASSUME NEW q \in PendingInitiation
      PROVE  [q EXCEPT !.age = Older(q.age, REKEY_TIMEOUT)] \in PendingInitiation
  BY SMTT(30), LimitsAssumption DEF Older, PendingInitiation
<1> QED
  BY <1>1, <1>2, NoneAssumption DEF Aged

\* A queued packet always has a handshake or a session to wait for.
THEOREM QueuedIsServed == Spec => []QueuedHasHandshake
<1>1. Init => QueuedHasHandshake
  BY DEF Init, QueuedHasHandshake
<1>2. TypeOK /\ TypeOK' /\ QueuedHasHandshake /\ [Next]_vars => QueuedHasHandshake'
  <2> SUFFICES ASSUME TypeOK, TypeOK', QueuedHasHandshake, [Next]_vars,
                      NEW k \in Node, queued'[k] # <<>>
               PROVE  pending'[k] # None \/ current'[k] # None
    BY DEF QueuedHasHandshake
  <2>0. queued[k] # <<>> => pending[k] # None \/ current[k] # None
    BY DEF QueuedHasHandshake
  <2>1. ASSUME NEW n \in Node, NewInitiation(n)
        PROVE  pending'[n] # None /\ \A m \in Node : m # n => pending'[m] = pending[m]
    <3>1. pending'[n] = [local_index |-> fresh, age |-> 0,
                         attempts |-> IF pending[n] = None THEN 1
                                      ELSE pending[n].attempts + 1]
      BY <2>1 DEF NewInitiation, TypeOK
    <3>2. pending'[n] \in PendingInitiation
      <4>1. pending[n] # None => pending[n].attempts \in Nat
        BY DEF TypeOK, PendingInitiation
      <4>2. fresh \in Nat /\ 0 \in 0 .. REKEY_TIMEOUT
        BY SMTT(30), LimitsAssumption DEF TypeOK
      <4> QED
        BY SMTT(30), <3>1, <4>1, <4>2 DEF PendingInitiation
    <3> QED
      BY <2>1, <3>2, NoneAssumption DEF NewInitiation, TypeOK
  <2>2. ASSUME NEW n \in Node, NEW cur, NEW q, InitiateIfNeeded(n, cur, q)
        PROVE  /\ queued'[n] # <<>> => pending'[n] # None \/ cur # None
               /\ \A m \in Node : m # n => /\ queued'[m] = queued[m]
                                           /\ pending'[m] = pending[m]
    BY <2>1, <2>2 DEF InitiateIfNeeded, QueueAfterGivingUp, HandshakeInFlight, TypeOK
  <2>3. ASSUME NEW n \in Node, NEW p \in Packet, EncapsulateQueued(n, p)
        PROVE  pending'[k] # None \/ current'[k] # None
    <3>1. InitiateIfNeeded(n, None, Enqueue(queued[n], p))
      BY <2>3 DEF EncapsulateQueued
    <3>2. \A m \in Node : m # n => current'[m] = current[m]
      BY <2>3 DEF EncapsulateQueued, TypeOK
    <3> QED
      BY <2>0, <2>2, <3>1, <3>2
  <2>4. ASSUME NEW n \in Node, NEW p \in Packet, EncapsulateSealed(n, p)
        PROVE  pending'[k] # None \/ current'[k] # None
    <3>1. current[n] \in Session /\ current[n] # None /\ Keepalive \in Payload
      BY <2>4 DEF EncapsulateSealed, Live, TypeOK, Payload
    <3>2. current'[n] = AfterSeal(current[n]) /\ queued' = queued
      BY <2>4 DEF EncapsulateSealed, TypeOK
    <3>3. current'[n] # None
      BY <3>1, <3>2, SessionType, NoneAssumption, 0 \in Nat
    <3>4. k # n => pending'[k] = pending[k] /\ current'[k] = current[k]
      BY <2>1, <2>4 DEF EncapsulateSealed, TypeOK
    <3> QED
      BY <2>0, <3>2, <3>3, <3>4
  <2>5. ASSUME NEW n \in Node, NEW m \in responses, ConsumeResponse(n, m)
        PROVE  pending'[k] # None \/ current'[k] # None
    BY <2>0, <2>5 DEF ConsumeResponse, TypeOK
  <2>6. ASSUME NEW n \in Node, NEW m \in initiations, AcceptInitiation(n, m)
        PROVE  pending'[k] # None \/ current'[k] # None
    <3>1. current'[n] = NewSession(fresh, m.index, <<m.index, fresh>>, FALSE)
      BY <2>6 DEF AcceptInitiation, TypeOK
    <3>2. NewSession(fresh, m.index, <<m.index, fresh>>, FALSE) \in Session
      <4>1. m.index \in Nat /\ fresh \in Nat
        BY DEF TypeOK, Initiation
      <4> QED
        BY SMTT(30), <4>1, LimitsAssumption DEF NewSession, Session, Key
    <3>3. current'[n] # None
      BY <3>1, <3>2, NoneAssumption
    <3> QED
      BY <2>0, <2>6, <3>3 DEF AcceptInitiation, TypeOK
  <2>7. ASSUME NEW n \in Node, NEW m \in transports,
               ConsumeOnCurrent(n, m) \/ ConsumeOnPrevious(n, m)
        PROVE  pending'[k] # None \/ current'[k] # None
    <3>1. queued' = queued /\ pending' = pending
      BY <2>7 DEF ConsumeOnCurrent, ConsumeOnPrevious, Received
    <3>2. ASSUME ConsumeOnCurrent(n, m)
          PROVE  current'[n] # None
      <4>1. current[n] \in Session /\ m.counter \in Nat /\ Keepalive \in Payload
        BY <3>2 DEF ConsumeOnCurrent, Opens, Live, TypeOK, Transport, Payload
      <4>2. current'[n] = WindowUpdate(current[n], m.counter)
        BY <3>2 DEF ConsumeOnCurrent, TypeOK
      <4> QED
        BY <4>1, <4>2, SessionType, NoneAssumption
    <3>3. current'[k] # None \/ current'[k] = current[k]
      BY <2>7, <3>2 DEF ConsumeOnCurrent, ConsumeOnPrevious, TypeOK
    <3> QED
      BY <2>0, <3>1, <3>3
  <2>8. ASSUME NEW n \in Node, Tick(n)
        PROVE  pending'[k] # None \/ current'[k] # None
    <3> DEFINE cur == Unexpired(current[n])
    <3>1. k # n => queued'[k] = queued[k] /\ pending'[k] = pending[k] /\ current'[k] = current[k]
      <4>0. \E t : current' = [current EXCEPT ![n] = t]
        BY <2>8 DEF Tick
      <4>1. CASE InitiateIfNeeded(n, cur, queued[n])
        BY <2>2, <4>0, <4>1, SlotTypes
      <4>2. CASE UNCHANGED <<pending, queued>>
        BY <4>0, <4>2, SlotTypes
      <4> QED
        BY <2>8, <4>1, <4>2 DEF Tick
    <3>2. cur # None => current'[n] # None
      <4>1. ASSUME cur # None
            PROVE  cur \in Session /\ AfterSeal(cur) # None
        <5>1. cur \in Session /\ Keepalive \in Payload
          BY <4>1 DEF Unexpired, Live, TypeOK, Payload
        <5> HIDE DEF cur
        <5> QED
          BY <5>1, SessionType, NoneAssumption, 0 \in Nat
      <4>2. current'[n] = cur \/ current'[n] = AfterSeal(cur)
        BY <2>8 DEF Tick, TypeOK
      <4> HIDE DEF cur
      <4> QED
        BY <4>1, <4>2
    <3>3. queued'[n] # <<>> => pending'[n] # None \/ cur # None
      <4>1. CASE InitiateIfNeeded(n, cur, queued[n])
        <5> HIDE DEF cur
        <5> QED
          BY <2>2, <4>1
      <4>2. CASE /\ UNCHANGED <<pending, queued>>
                 /\ ~(pending[n] # None \/ (queued[n] # <<>> /\ cur = None))
        BY <4>2
      <4> QED
        BY <2>8, <4>1, <4>2 DEF Tick
    <3> QED
      BY <2>0, <3>1, <3>2, <3>3
  <2>9. ASSUME NEW n \in Node, Reset(n) \/ Restart(n)
        PROVE  pending'[k] # None \/ current'[k] # None
    <3>1. /\ queued' = [queued EXCEPT ![n] = <<>>]
          /\ pending' = [pending EXCEPT ![n] = None]
          /\ current' = [current EXCEPT ![n] = None]
      BY <2>9 DEF Reset, Restart
    <3> QED
      BY <2>0, <3>1, SlotTypes
  <2>10. CASE TimePasses
    <3>1. /\ queued' = queued
          /\ pending'[k] = Aged(pending[k], REKEY_TIMEOUT)
          /\ current'[k] = Aged(current[k], REJECT_AFTER_TIME)
      BY <2>10 DEF TimePasses
    <3>2. current[k] # None => current'[k] # None
      BY <3>1, AgedExists DEF TypeOK
    <3>3. pending[k] # None => pending'[k] # None
      BY <3>1, AgedExists DEF TypeOK
    <3> QED
      BY <2>0, <3>1, <3>2, <3>3
  <2>11. CASE UNCHANGED vars
    BY <2>0, <2>11 DEF vars, tunnVars
  <2> QED
    BY <2>3, <2>4, <2>5, <2>6, <2>7, <2>8, <2>9, <2>10, <2>11
    DEF Next, Encapsulate, ConsumeTransport
<1> QED
  BY <1>1, <1>2, Invariance, PTL DEF Spec
=============================================================================
