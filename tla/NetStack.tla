------------------------------ MODULE NetStack ------------------------------
(***************************************************************************)
(* The userspace TCP stack of crates/tsnode/src/netstack.rs as a server:   *)
(* poll_loop on its own thread, the ConnState records it shares with the   *)
(* threads that hold TcpStreams, and the wake flag that tells it about     *)
(* work.  An operation of TcpStream is an action of a thread t on a        *)
(* connection c; the threads here call them in any order.                  *)
(*                                                                         *)
(* The TCP sockets of smoltcp are not part of the repository.  A socket is *)
(* modelled by its state and the fill of its two buffers, and moves as RFC *)
(* 793 says.  The other end is a client that opens one connection, sends,  *)
(* acknowledges, and closes or resets at any time.  Packets lost on the    *)
(* way, or dropped at the limit of `inbound', are sent again by TCP.       *)
(*                                                                         *)
(* Bytes are counted, not named: all buffers are queues.  One unit stands  *)
(* for the chunk of 1024 bytes poll_loop moves at a time.                  *)
(***************************************************************************)
EXTENDS Integers, Sequences

CONSTANTS Conn,            \* the connections clients may open
          Thread,          \* the threads that hold TcpStreams
          INBOUND_LIMIT,   \* packets inject keeps for the poll loop: 256
          SOCK_BUF,        \* RX_BUF and TX_BUF of a socket
          USER_RX_LIMIT, USER_TX_LIMIT,
          MaxSent          \* bound: units a client sends

ASSUME LimitsAssumption ==
    /\ INBOUND_LIMIT \in Nat \ {0}
    /\ SOCK_BUF \in Nat \ {0}
    /\ USER_RX_LIMIT \in Nat \ {0}
    /\ USER_TX_LIMIT \in Nat \ {0}
    /\ MaxSent \in Nat

VARIABLES
    inbound, wake,           \* struct State
    device_rx,               \* TunDevice::rx
    poll,                    \* where the poll thread is
    todo,                    \* connections this round has still to visit
    conns,                   \* the entries of poll_loop
    queue,                   \* ListenerShared::queue
    rx, tx, peer_closed, local_closed, dead,     \* struct ConnState
    owing,                   \* threads that changed a ConnState and have not
                             \* yet called wake
    sock, sock_rx, sock_tx,  \* the sockets
    sent, got                \* history: units the socket took, units read

stackVars == <<inbound, wake, device_rx, poll, todo, conns, queue>>
connVars == <<rx, tx, peer_closed, local_closed, dead, owing>>
sockVars == <<sock, sock_rx, sock_tx, sent>>
vars == <<stackVars, connVars, sockVars, got>>

\* Listen stands for a connection that was not opened yet.
SockState == {"Listen", "SynReceived", "Established", "CloseWait", "FinWait",
              "LastAck", "Closed"}

Segment == {"SYN", "ACK", "DATA", "FIN", "RST"}

\* NetStack::start, with the listener of the bridge in place.
Init ==
    /\ inbound = <<>> /\ wake = FALSE /\ device_rx = <<>>
    /\ poll = "pull" /\ todo = {} /\ conns = {} /\ queue = <<>>
    /\ rx = [c \in Conn |-> 0] /\ tx = [c \in Conn |-> 0]
    /\ peer_closed = [c \in Conn |-> FALSE]
    /\ local_closed = [c \in Conn |-> FALSE]
    /\ dead = [c \in Conn |-> FALSE]
    /\ owing = {}
    /\ sock = [c \in Conn |-> "Listen"]
    /\ sock_rx = [c \in Conn |-> 0] /\ sock_tx = [c \in Conn |-> 0]
    /\ sent = [c \in Conn |-> 0] /\ got = [c \in Conn |-> 0]

\* The connections that were handed to the listener.
Opened == conns \cup {c \in Conn : dead[c]}

Least(m, n) == IF m < n THEN m ELSE n

-----------------------------------------------------------------------------
(* The sockets, external.                                                  *)

\* A connection that has left LISTEN and was not handed to accept yet.  There
\* is one listening socket, so until then other clients are refused.
Fresh(c) == sock[c] \notin {"Listen", "Closed"} /\ c \notin conns

Listening == \A c \in Conn : ~Fresh(c)

\* What iface.poll does to the state of socket c when a segment arrives.
AfterSegment(c, seg) ==
    CASE seg = "SYN" /\ sock[c] = "Listen" /\ Listening -> "SynReceived"
      [] seg = "ACK" /\ sock[c] = "SynReceived" -> "Established"
      [] seg = "ACK" /\ sock[c] = "LastAck" /\ sock_tx[c] = 0 -> "Closed"
      [] seg = "FIN" /\ sock[c] = "Established" -> "CloseWait"
      [] seg = "FIN" /\ sock[c] = "FinWait" -> "Closed"
      [] seg = "RST" /\ sock[c] # "Listen" -> "Closed"
      [] OTHER -> sock[c]

TakesData(c, seg) ==
    /\ seg = "DATA"
    /\ sock[c] \in {"Established", "FinWait"}
    /\ sock_rx[c] < SOCK_BUF
    /\ sent[c] < MaxSent

IfacePoll(c, seg) ==
    /\ sock' = [sock EXCEPT ![c] = AfterSegment(c, seg)]
    /\ sock_rx' = [sock_rx EXCEPT ![c] = IF TakesData(c, seg) THEN @ + 1 ELSE @]
    /\ sent' = [sent EXCEPT ![c] = IF TakesData(c, seg) THEN @ + 1 ELSE @]
    /\ sock_tx' = [sock_tx EXCEPT ![c] =
          IF seg = "ACK" /\ @ > 0 THEN @ - 1 ELSE @]

may_recv(s, buffered) == s \in {"Established", "FinWait"} \/ buffered > 0

\* sock.close
Closing(s) ==
    CASE s \in {"SynReceived", "Established"} -> "FinWait"
      [] s = "CloseWait" -> "LastAck"
      [] OTHER -> s

-----------------------------------------------------------------------------
(* The poll thread.                                                        *)

\* wake = true and cv.notify_all, under the lock of the state.
Notify ==
    /\ wake' = TRUE
    /\ poll' = IF poll = "asleep" THEN "pull" ELSE poll

HasRoom == Len(inbound) < INBOUND_LIMIT

\* inject, for a segment that the client c has a reason to send.
Inject(c, seg) ==
    /\ seg = "SYN" <=> sock[c] = "Listen"
    /\ seg = "DATA" => sent[c] < MaxSent
    /\ sock[c] # "Closed"
    /\ <<c, seg>> \notin {inbound[i] : i \in DOMAIN inbound}
    /\ inbound' = IF HasRoom THEN Append(inbound, <<c, seg>>) ELSE inbound
    /\ Notify
    /\ UNCHANGED <<device_rx, todo, conns, queue, connVars, sockVars, got>>

\* The top of a round, under the lock of the state.
PollPull ==
    /\ poll = "pull"
    /\ wake' = FALSE
    /\ device_rx' = inbound
    /\ inbound' = <<>>
    /\ poll' = "iface"
    /\ UNCHANGED <<todo, conns, queue, connVars, sockVars, got>>

\* iface.poll, one packet.
PollIface ==
    /\ poll = "iface"
    /\ device_rx # <<>>
    /\ device_rx' = Tail(device_rx)
    /\ IfacePoll(Head(device_rx)[1], Head(device_rx)[2])
    /\ UNCHANGED <<inbound, wake, poll, todo, conns, queue, connVars, got>>

\* The listener: a socket that left the LISTEN state is a connection, and one
\* that was reset before it was looked at listens again.
PollListener ==
    /\ poll = "iface"
    /\ device_rx = <<>>
    /\ LET reset == {c \in Conn : sock[c] = "Closed" /\ ~dead[c] /\ c \notin conns}
       IN  /\ sock' = [c \in Conn |-> IF c \in reset THEN "Listen" ELSE sock[c]]
           /\ sock_rx' = [c \in Conn |-> IF c \in reset THEN 0 ELSE sock_rx[c]]
           /\ sent' = [c \in Conn |-> IF c \in reset THEN 0 ELSE sent[c]]
    /\ \/ /\ Listening
          /\ UNCHANGED <<queue, conns>>
       \/ \E c \in Conn : /\ Fresh(c)
                          /\ queue' = Append(queue, c)
                          /\ conns' = conns \cup {c}
    /\ poll' = "visit"
    /\ todo' = conns'
    /\ UNCHANGED <<inbound, wake, device_rx, connVars, sock_tx, got>>

Connecting(s) == s = "SynReceived"

\* Mutant: a dead connection does not count as closed by the peer, or nothing
\* else does.
PeerDoneAlive(s, buffered) == ~may_recv(s, buffered) /\ ~Connecting(s)

PeerDoneDead(s, buffered) == s = "Closed"

\* Whether the peer will send no more.
PeerDone(s, buffered) ==
    s = "Closed" \/ (~may_recv(s, buffered) /\ ~Connecting(s))

\* Mutant: the socket is closed with data still queued.
MayCloseEarly(c, queued) == local_closed[c]

MayClose(c, queued) == local_closed[c] /\ queued = 0

\* One connection of the round, under its lock: move bytes both ways, close,
\* and tell the threads what became of the socket.
PollConn(c) ==
    LET in == Least(sock_rx[c], USER_RX_LIMIT - rx[c])
        can_send == sock[c] \in {"Established", "CloseWait"}
        out == IF can_send THEN Least(tx[c], SOCK_BUF - sock_tx[c]) ELSE 0
        s == IF MayClose(c, tx[c] - out) THEN Closing(sock[c]) ELSE sock[c]
        left == s = "Closed"
    IN  /\ poll = "visit"
        /\ c \in todo
        /\ todo' = todo \ {c}
        /\ rx' = [rx EXCEPT ![c] = @ + in]
        /\ sock_rx' = [sock_rx EXCEPT ![c] = @ - in]
        /\ tx' = [tx EXCEPT ![c] = @ - out]
        /\ sock_tx' = [sock_tx EXCEPT ![c] = @ + out]
        /\ sock' = [sock EXCEPT ![c] = s]
        /\ peer_closed' = [peer_closed EXCEPT ![c] =
              @ \/ PeerDone(s, sock_rx[c] - in)]
        /\ dead' = [dead EXCEPT ![c] = @ \/ left]
        /\ conns' = IF left THEN conns \ {c} ELSE conns
        /\ UNCHANGED <<inbound, wake, device_rx, poll, queue, local_closed, owing, sent,
                       got>>

\* Mutant: the flag is not looked at again.
MustNotSleepNever == FALSE

MustNotSleep == wake

\* The end of a round, under the lock of the state: sleep unless woken.
PollSleep ==
    /\ poll = "visit"
    /\ todo = {}
    /\ poll' = IF MustNotSleep THEN "pull" ELSE "asleep"
    /\ UNCHANGED <<inbound, wake, device_rx, todo, conns, queue, connVars,
                   sockVars, got>>

\* The delay of at most 500 ms is over.
PollWake ==
    /\ poll = "asleep"
    /\ poll' = "pull"
    /\ UNCHANGED <<inbound, wake, device_rx, todo, conns, queue, connVars,
                   sockVars, got>>

-----------------------------------------------------------------------------
(* The operations of TcpStream and TcpListener.                            *)

\* accept
Accept(c) ==
    /\ queue # <<>>
    /\ c = Head(queue)
    /\ queue' = Tail(queue)
    /\ UNCHANGED <<inbound, wake, device_rx, poll, todo, conns, connVars, sockVars, got>>

WasFull(c) == rx[c] >= USER_RX_LIMIT

\* read when there are bytes.
ReadSome(t, c) ==
    /\ rx[c] > 0
    /\ \E n \in 1 .. rx[c] :
          /\ rx' = [rx EXCEPT ![c] = @ - n]
          /\ got' = [got EXCEPT ![c] = @ + n]
    /\ owing' = IF WasFull(c) THEN owing \cup {t} ELSE owing
    /\ UNCHANGED <<stackVars, tx, peer_closed, local_closed, dead, sockVars>>

\* read returns Ok(0).
ReadsEof(c) == rx[c] = 0 /\ (peer_closed[c] \/ dead[c])

\* write_all queues what there is room for; it fails once the connection is
\* closed or dead and waits while the queue is full.
Unwritable(c) == dead[c] \/ local_closed[c]

WriteSome(t, c) ==
    /\ ~Unwritable(c)
    /\ tx[c] < USER_TX_LIMIT
    /\ tx' = [tx EXCEPT ![c] = @ + 1]
    /\ owing' = owing \cup {t}
    /\ UNCHANGED <<stackVars, rx, peer_closed, local_closed, dead, sockVars, got>>

\* close, also by Drop.
CloseStream(t, c) ==
    /\ local_closed' = [local_closed EXCEPT ![c] = TRUE]
    /\ owing' = owing \cup {t}
    /\ UNCHANGED <<stackVars, rx, tx, peer_closed, dead, sockVars, got>>

\* NetStack::wake, after the lock of the connection was released.
Wake(t) ==
    /\ t \in owing
    /\ owing' = owing \ {t}
    /\ Notify
    /\ UNCHANGED <<inbound, device_rx, todo, conns, queue, rx, tx, peer_closed,
                   local_closed, dead, sockVars, got>>

-----------------------------------------------------------------------------

Poll ==
    \/ PollPull \/ PollIface \/ PollListener \/ PollSleep \/ PollWake
    \/ \E c \in Conn : PollConn(c)

\* A thread finishes an operation, wake included, before it begins another.
User(t) ==
    \/ Wake(t)
    \/ /\ t \notin owing
       /\ \E c \in Conn :
             \/ Accept(c)
             \/ /\ c \in Opened \ {queue[i] : i \in DOMAIN queue}
                /\ ReadSome(t, c) \/ WriteSome(t, c) \/ CloseStream(t, c)

Next ==
    \/ Poll
    \/ \E c \in Conn, seg \in Segment : Inject(c, seg)
    \/ \E t \in Thread : User(t)

Spec == Init /\ [][Next]_vars

\* The poll thread and the threads in the middle of an operation go on.
FairSpec ==
    /\ Spec
    /\ WF_vars(Poll)
    /\ \A t \in Thread : WF_vars(Wake(t))

-----------------------------------------------------------------------------
(* Properties.                                                             *)

\* What the poll loop could do for connection c right now.
WorkOn(c) ==
    \/ sock_rx[c] > 0 /\ rx[c] < USER_RX_LIMIT
    \/ /\ tx[c] > 0 /\ sock_tx[c] < SOCK_BUF
       /\ sock[c] \in {"Established", "CloseWait"}
    \/ /\ local_closed[c] /\ tx[c] = 0
       /\ sock[c] \in {"SynReceived", "Established", "CloseWait"}

\* No wakeup is lost: the poll thread goes to sleep, or stays asleep, only
\* when every packet was taken in and there is nothing to move or to close,
\* or a thread that made work is about to wake it.  The flag is cleared before
\* the round and tested under the lock after it for this reason.
NoLostWakeup ==
    poll = "asleep" /\ owing = {} =>
        inbound = <<>> /\ \A c \in conns : ~WorkOn(c)

\* No end of a stream overtakes its data.  read reports the end only when every
\* byte that arrived before the client closed was read (a reset alone may cut it
\* short), and what was written before close is handed to the socket before that
\* is closed.
DataBeforeEnd ==
    \A c \in Conn :
        /\ ReadsEof(c) /\ sock[c] \in {"SynReceived", "Established", "CloseWait"}
              => sock[c] = "CloseWait" /\ got[c] = sent[c]
        /\ sock[c] \in {"FinWait", "LastAck"} => tx[c] = 0

\* A client that closed or died is noticed, unless the reader leaves rx full:
\* the flag the bridge waits for is set although packets keep coming.
CloseNoticed ==
    \A c \in Conn :
        c \in conns /\ sock[c] \in {"CloseWait", "Closed"}
            ~> peer_closed[c] \/ rx[c] >= USER_RX_LIMIT

\* The stack keeps the promises of module Streams.
Promise == INSTANCE Streams WITH opened <- Opened

ImplementsStreams == Promise!StreamsSpec
=============================================================================
