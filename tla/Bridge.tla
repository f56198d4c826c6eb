------------------------------- MODULE Bridge -------------------------------
(***************************************************************************)
(* The bridge between one TCP client and the USB serial console:           *)
(* firmware/src/bridge.rs on top of the TCP streams of module Streams.     *)
(*                                                                         *)
(* Three threads: bridge-accept takes connections and turns a second       *)
(* client away, the main thread serves one client at a time and copies TCP *)
(* to serial, and bridge-rx, one per session, copies serial to TCP.  The   *)
(* serial side is an oracle: read returns bytes or times out, and write    *)
(* ends after its timeout at the latest and leaves no trace here (module   *)
(* UsbHost).                                                               *)
(***************************************************************************)
EXTENDS Streams

VARIABLES
    BUSY,
    acceptor, offered,      \* bridge-accept, and the connection it holds
    channel,                \* the sync_channel(1)
    main, conn,             \* the main thread, and the client it serves
    receiver, rx_conn,      \* bridge-rx, and the connection it writes to
    stop, rx_done           \* the flags of the session

NoConn == "none"

acceptVars == <<acceptor, offered>>
mainVars == <<main, conn, stop>>
rxVars == <<receiver, rx_conn, rx_done>>
vars == <<streamVars, BUSY, channel, acceptVars, mainVars, rxVars>>

Init ==
    /\ StreamsInit
    /\ BUSY = FALSE
    /\ acceptor = "accept" /\ offered = NoConn /\ channel = <<>>
    /\ main = "recv" /\ conn = NoConn
    /\ receiver = "off" /\ rx_conn = NoConn
    /\ stop = FALSE /\ rx_done = FALSE

-----------------------------------------------------------------------------
(* bridge-accept.                                                          *)

AcceptConn ==
    /\ acceptor = "accept"
    /\ \E c \in Conn : Accept(c) /\ offered' = c
    /\ acceptor' = "swap"
    /\ UNCHANGED <<BUSY, channel, mainVars, rxVars>>

\* Mutant: the flag is read and set later.
SwapLate ==
    /\ acceptor = "swap"
    /\ acceptor' = IF BUSY THEN "refuse" ELSE "send"
    /\ UNCHANGED <<streamVars, BUSY, offered, channel, mainVars, rxVars>>

\* BUSY.swap
Swap ==
    /\ acceptor = "swap"
    /\ BUSY' = TRUE
    /\ acceptor' = IF BUSY THEN "refuse" ELSE "send"
    /\ UNCHANGED <<streamVars, offered, channel, mainVars, rxVars>>

\* tx.send.  The receiving end is never gone here: see BusyExact.
SendConn ==
    /\ acceptor = "send"
    /\ Len(channel) < 1
    /\ channel' = Append(channel, offered)
    /\ acceptor' = "accept"
    /\ offered' = NoConn
    /\ UNCHANGED <<streamVars, BUSY, mainVars, rxVars>>

\* The message to the client, if it is still there.
Refuse ==
    /\ acceptor = "refuse"
    /\ IF Unwritable(offered) THEN UNCHANGED streamVars ELSE WriteSome(offered)
    /\ acceptor' = "close"
    /\ UNCHANGED <<BUSY, offered, channel, mainVars, rxVars>>

CloseRefused ==
    /\ acceptor = "close"
    /\ CloseStream(offered)
    /\ acceptor' = "accept"
    /\ offered' = NoConn
    /\ UNCHANGED <<BUSY, channel, mainVars, rxVars>>

-----------------------------------------------------------------------------
(* The main thread: run and serve.                                         *)

RecvConn ==
    /\ main = "recv"
    /\ channel # <<>>
    /\ channel' = Tail(channel)
    /\ conn' = Head(channel)
    /\ main' = "spawn"
    /\ UNCHANGED <<streamVars, BUSY, acceptVars, stop, rxVars>>

SpawnRx ==
    /\ main = "spawn"
    /\ stop' = FALSE /\ rx_done' = FALSE
    /\ receiver' = "read" /\ rx_conn' = conn
    /\ main' = "read"
    /\ UNCHANGED <<streamVars, BUSY, channel, acceptVars, conn>>

\* No memory for the thread: run returns the error, the stream is dropped, and
\* BUSY stays set.
SpawnFails ==
    /\ main = "spawn"
    /\ CloseStream(conn)
    /\ main' = "exited"
    /\ conn' = NoConn
    /\ UNCHANGED <<BUSY, channel, acceptVars, stop, rxVars>>

\* TCP to serial.
MainRead ==
    /\ main = "read"
    /\ ReadSome(conn)
    /\ UNCHANGED <<BUSY, channel, acceptVars, mainVars, rxVars>>

MainEof ==
    /\ main = "read"
    /\ ReadsEof(conn)
    /\ stop' = TRUE
    /\ main' = "wait"
    /\ UNCHANGED <<streamVars, BUSY, channel, acceptVars, conn, rxVars>>

\* Mutant: the session ends without waiting for bridge-rx.
RxFinishedUnchecked == TRUE

RxFinished == rx_done

MainWait ==
    /\ main = "wait"
    /\ RxFinished
    /\ main' = "close"
    /\ UNCHANGED <<streamVars, BUSY, channel, acceptVars, conn, stop, rxVars>>

MainClose ==
    /\ main = "close"
    /\ CloseStream(conn)
    /\ main' = "free"
    /\ UNCHANGED <<BUSY, channel, acceptVars, conn, stop, rxVars>>

MainFree ==
    /\ main = "free"
    /\ BUSY' = FALSE
    /\ main' = "recv"
    /\ conn' = NoConn
    /\ UNCHANGED <<streamVars, channel, acceptVars, stop, rxVars>>

-----------------------------------------------------------------------------
(* bridge-rx: serial to TCP.                                               *)

\* The loop condition, and a read that brings bytes or times out.
RxRead ==
    /\ receiver = "read"
    /\ receiver' \in IF stop THEN {"done"} ELSE {"write", "check"}
    /\ UNCHANGED <<streamVars, BUSY, channel, acceptVars, mainVars, rx_conn, rx_done>>

RxWrite ==
    /\ receiver = "write"
    /\ \/ Unwritable(rx_conn) /\ receiver' = "done" /\ UNCHANGED streamVars
       \/ WriteSome(rx_conn) /\ receiver' = "check"
    /\ UNCHANGED <<BUSY, channel, acceptVars, mainVars, rx_conn, rx_done>>

RxCheck ==
    /\ receiver = "check"
    /\ receiver' = IF IsClosed(rx_conn) THEN "done" ELSE "read"
    /\ UNCHANGED <<streamVars, BUSY, channel, acceptVars, mainVars, rx_conn, rx_done>>

RxDone ==
    /\ receiver = "done"
    /\ rx_done' = TRUE
    /\ receiver' = "off"
    /\ rx_conn' = NoConn
    /\ UNCHANGED <<streamVars, BUSY, channel, acceptVars, mainVars>>

-----------------------------------------------------------------------------

bridgeVars == <<BUSY, channel, acceptVars, mainVars, rxVars>>

StackStep == (\E c \in Conn : Arrive(c) \/ Progress(c)) /\ UNCHANGED bridgeVars

Acceptor ==
    AcceptConn \/ Swap \/ SendConn \/ Refuse \/ CloseRefused
Main ==
    \/ RecvConn \/ SpawnRx \/ SpawnFails \/ MainRead \/ MainEof \/ MainWait
    \/ MainClose \/ MainFree
Receiver == RxRead \/ RxWrite \/ RxCheck \/ RxDone

Next == StackStep \/ Acceptor \/ Main \/ Receiver

Spec == Init /\ [][Next]_vars

\* The client takes what is queued for it, or the connection dies: at the
\* latest after DEAD_PEER_TIMEOUT without an acknowledgement.
Drain(c) ==
    /\ tx[c] > 0
    /\ Progress(c)
    /\ tx'[c] < tx[c] \/ dead'[c]
    /\ UNCHANGED bridgeVars

\* Every thread goes on whenever it can.  Nothing is assumed of the client but
\* that its end of TCP takes what it is sent, or dies.
FairSpec ==
    /\ Spec
    /\ WF_vars(Acceptor) /\ WF_vars(Main) /\ WF_vars(Receiver)
    /\ \A c \in Conn : WF_vars(Drain(c))

-----------------------------------------------------------------------------
(* Properties.                                                             *)

\* The reasons for BUSY to be set.
Claims ==
    <<acceptor = "send", channel # <<>>, main \notin {"recv", "exited"},
      main = "exited">>

\* BUSY is set exactly while one client is on its way to the main thread or
\* being served, and for good once run has failed.  So one client at a time
\* has the console, tx.send never blocks, and no client is turned away by a
\* bridge that is free.
BusyExact ==
    /\ BUSY <=> \E i \in DOMAIN Claims : Claims[i]
    /\ \A i, j \in DOMAIN Claims : Claims[i] /\ Claims[j] => i = j

\* The bridge-rx thread of a session never outlives it: a leftover would take
\* bytes from the serial queue that belong to the next client.
RxWithinSession ==
    receiver # "off" => main \in {"read", "wait"} /\ rx_conn = conn

\* Once the client of the session has closed or died, the session ends and the
\* bridge is free for the next client, even if bridge-rx is blocked in
\* write_all at that moment.
SessionEnds ==
    \A c \in Conn :
        conn = c /\ peer_closed[c] ~> conn # c

=============================================================================
