------------------------------- MODULE Streams -------------------------------
(***************************************************************************)
(* What TcpListener and TcpStream of crates/tsnode/src/netstack.rs promise *)
(* to the threads that use them: the ConnState of every connection, the    *)
(* operations of the threads on it, and as much as they may rely on of     *)
(* what the stack does in between.  Module NetStack, the stack itself,     *)
(* implements this specification; module Bridge is a user of it.           *)
(*                                                                         *)
(* Bytes are counted, not named: all buffers are queues.                   *)
(***************************************************************************)
EXTENDS Integers, Sequences

CONSTANTS Conn,                          \* connections clients may open
          USER_RX_LIMIT, USER_TX_LIMIT   \* capacity of rx and tx

VARIABLES opened,      \* connections that were handed to the listener
          queue,       \* ListenerShared::queue
          rx, tx, peer_closed, local_closed, dead     \* ConnState

streamVars == <<opened, queue, rx, tx, peer_closed, local_closed, dead>>

StreamsInit ==
    /\ opened = {} /\ queue = <<>>
    /\ rx = [c \in Conn |-> 0] /\ tx = [c \in Conn |-> 0]
    /\ peer_closed = [c \in Conn |-> FALSE]
    /\ local_closed = [c \in Conn |-> FALSE]
    /\ dead = [c \in Conn |-> FALSE]

-----------------------------------------------------------------------------
(* The stack.                                                              *)

\* A client connects.
Arrive(c) ==
    /\ c \notin opened
    /\ opened' = opened \cup {c}
    /\ queue' = Append(queue, c)
    /\ UNCHANGED <<rx, tx, peer_closed, local_closed, dead>>

\* The stack works on a connection: it delivers and sends, and may find that
\* the peer has closed or that the connection is dead.  Nothing is delivered
\* after the end of the stream was reported, and no report is taken back.
Progress(c) ==
    /\ c \in opened /\ ~dead[c]
    /\ \E r \in rx[c] .. USER_RX_LIMIT, s \in 0 .. tx[c], p, d \in BOOLEAN :
          /\ peer_closed[c] => p /\ r = rx[c]
          /\ d => p
          /\ rx' = [rx EXCEPT ![c] = r]
          /\ tx' = [tx EXCEPT ![c] = s]
          /\ peer_closed' = [peer_closed EXCEPT ![c] = p]
          /\ dead' = [dead EXCEPT ![c] = d]
    /\ UNCHANGED <<opened, queue, local_closed>>

-----------------------------------------------------------------------------
(* The operations of TcpListener and TcpStream.                            *)

Accept(c) ==
    /\ queue # <<>>
    /\ c = Head(queue)
    /\ queue' = Tail(queue)
    /\ UNCHANGED <<opened, rx, tx, peer_closed, local_closed, dead>>

\* read when there are bytes.
ReadSome(c) ==
    /\ rx[c] > 0
    /\ \E r \in 0 .. rx[c] - 1 : rx' = [rx EXCEPT ![c] = r]
    /\ UNCHANGED <<opened, queue, tx, peer_closed, local_closed, dead>>

\* read returns Ok(0).
ReadsEof(c) == rx[c] = 0 /\ (peer_closed[c] \/ dead[c])

\* Mutant: a dead connection is written to.
UnwritableIfClosed(c) == local_closed[c]

\* write_all queues what there is room for; it fails once the connection is
\* closed or dead and waits while the queue is full.
Unwritable(c) == dead[c] \/ local_closed[c]

Room(c) == USER_TX_LIMIT - tx[c]

WriteSome(c) ==
    /\ ~Unwritable(c)
    /\ \E n \in 1 .. Room(c) : tx' = [tx EXCEPT ![c] = @ + n]
    /\ UNCHANGED <<opened, queue, rx, peer_closed, local_closed, dead>>

\* is_closed
IsClosed(c) == dead[c] \/ peer_closed[c]

\* close, also by Drop.
CloseStream(c) ==
    /\ local_closed' = [local_closed EXCEPT ![c] = TRUE]
    /\ UNCHANGED <<opened, queue, rx, tx, peer_closed, dead>>

Held == opened \ {queue[i] : i \in DOMAIN queue}

StreamsNext ==
    \E c \in Conn :
        \/ Arrive(c) \/ Progress(c) \/ Accept(c)
        \/ c \in Held /\ (ReadSome(c) \/ WriteSome(c) \/ CloseStream(c))

StreamsSpec == StreamsInit /\ [][StreamsNext]_streamVars
=============================================================================
