--------------------------- MODULE NetStackProofs ---------------------------
(***************************************************************************)
(* Theorems about the TCP stack, for any number of connections and threads *)
(* and any size of the buffers: no wakeup is lost, no end of a stream      *)
(* overtakes its data, and the stack implements module Streams.            *)
(***************************************************************************)
EXTENDS NetStack, TLAPS

Packet == Conn \X Segment

Types ==
    /\ inbound \in Seq(Packet) /\ device_rx \in Seq(Packet)
    /\ wake \in BOOLEAN
    /\ poll \in {"pull", "iface", "visit", "asleep"}
    /\ todo \subseteq conns /\ conns \subseteq Conn
    /\ queue \in Seq(Conn)
    /\ rx \in [Conn -> 0 .. USER_RX_LIMIT]
    /\ tx \in [Conn -> 0 .. USER_TX_LIMIT]
    /\ peer_closed \in [Conn -> BOOLEAN]
    /\ local_closed \in [Conn -> BOOLEAN]
    /\ dead \in [Conn -> BOOLEAN]
    /\ sock \in [Conn -> SockState]
    /\ sock_rx \in [Conn -> 0 .. SOCK_BUF]
    /\ sock_tx \in [Conn -> 0 .. SOCK_BUF]
    /\ sent \in [Conn -> Nat] /\ got \in [Conn -> Nat]

\* How the record of a connection and its socket fit together: what is left of
\* a dead connection is a closed socket, nobody touched the record of a
\* connection that was not handed over yet, bytes are somewhere between client
\* and reader, a reported end of the stream is one, and a socket that was closed
\* left nothing behind.
Fits(c) ==
    /\ dead[c] => sock[c] = "Closed" /\ c \notin conns
    /\ c \in conns => sock[c] # "Listen"
    /\ c \notin Opened => /\ rx[c] = 0 /\ got[c] = 0
                          /\ ~peer_closed[c] /\ ~local_closed[c]
    /\ sent[c] = got[c] + rx[c] + sock_rx[c]
    /\ peer_closed[c] /\ ~dead[c] =>
          sock_rx[c] = 0 /\ sock[c] \in {"CloseWait", "LastAck", "Closed"}
    /\ sock[c] \in {"FinWait", "LastAck"} => tx[c] = 0 /\ local_closed[c]

\* There is one listening socket.
OneFresh == \A c, d \in Conn : Fresh(c) /\ Fresh(d) => c = d

Inv == Types /\ OneFresh /\ \A c \in Conn : Fits(c)

-----------------------------------------------------------------------------
(* The invariant *)

\* What the types say of one connection.
LEMMA Counts ==
    ASSUME Types, NEW c \in Conn
    PROVE  /\ rx[c] \in Nat /\ rx[c] <= USER_RX_LIMIT
           /\ tx[c] \in Nat /\ tx[c] <= USER_TX_LIMIT
           /\ sock_rx[c] \in Nat /\ sock_tx[c] \in Nat
           /\ sent[c] \in Nat /\ got[c] \in Nat
BY LimitsAssumption DEF Types

\* Nothing is open at the start.
LEMMA InitInv == Init => Inv
<1> SUFFICES ASSUME Init PROVE Inv
  OBVIOUS
<1>1. Types
  <2>1. <<>> \in Seq(Packet) /\ <<>> \in Seq(Conn)
    OBVIOUS
  <2>2. 0 \in 0 .. USER_RX_LIMIT /\ 0 \in 0 .. USER_TX_LIMIT /\ 0 \in 0 .. SOCK_BUF
    BY LimitsAssumption
  <2> QED
    BY ZenonT(30), <2>1, <2>2 DEF Init, Types, SockState
<1>2. OneFresh
  BY DEF Init, OneFresh, Fresh
<1>3. ASSUME NEW c \in Conn PROVE Fits(c)
  <2>1. /\ sock[c] = "Listen" /\ ~dead[c] /\ c \notin conns /\ ~peer_closed[c]
        /\ ~local_closed[c] /\ rx[c] = 0 /\ got[c] = 0 /\ sent[c] = 0 /\ sock_rx[c] = 0
    BY DEF Init
  <2>2. sent[c] = got[c] + rx[c] + sock_rx[c]
    BY <2>1
  <2> QED
    BY <2>1, <2>2 DEF Fits
<1> QED
  BY <1>1, <1>2, <1>3 DEF Inv

\* Steps that leave the records of connections and sockets alone.
LEMMA QuietStep ==
    ASSUME Inv, Types',
           UNCHANGED <<conns, rx, tx, peer_closed, local_closed, dead, sockVars, got>>
    PROVE  Inv'
<1>1. OneFresh'
  BY DEF Inv, OneFresh, Fresh, sockVars
<1>2. \A c \in Conn : Fits(c)'
  BY DEF Inv, Fits, Opened, sockVars
<1> QED
  BY <1>1, <1>2 DEF Inv

\* A segment that arrives at a socket.
LEMMA IfaceStep == Inv /\ PollIface => Inv'
<1> SUFFICES ASSUME Inv, PollIface PROVE Inv'
  OBVIOUS
<1>1. PICK c \in Conn, seg \in Segment :
         IfacePoll(c, seg) /\ device_rx' = Tail(device_rx) /\ device_rx # <<>>
  <2>1. device_rx # <<>> /\ device_rx \in Seq(Packet)
    BY DEF PollIface, Inv, Types
  <2>2. Head(device_rx) \in Packet
    BY <2>1
  <2>3. Head(device_rx)[1] \in Conn /\ Head(device_rx)[2] \in Segment
    BY <2>2 DEF Packet
  <2> QED
    BY <2>1, <2>3 DEF PollIface
<1>2. UNCHANGED <<inbound, wake, poll, todo, conns, queue, rx, tx, peer_closed,
                  local_closed, dead, got>>
  BY DEF PollIface, connVars
<1>3. \A d \in Conn \ {c} : /\ sock'[d] = sock[d] /\ sock_rx'[d] = sock_rx[d]
                            /\ sent'[d] = sent[d]
  BY <1>1 DEF IfacePoll, Inv, Types
<1>4. /\ sock[c] \in SockState /\ sock_rx[c] \in 0 .. SOCK_BUF
      /\ sock_tx[c] \in 0 .. SOCK_BUF /\ sent[c] \in Nat
      /\ sock'[c] = AfterSegment(c, seg)
      /\ sock_rx'[c] = IF TakesData(c, seg) THEN sock_rx[c] + 1 ELSE sock_rx[c]
      /\ sent'[c] = IF TakesData(c, seg) THEN sent[c] + 1 ELSE sent[c]
      /\ sock_tx'[c] = IF seg = "ACK" /\ sock_tx[c] > 0 THEN sock_tx[c] - 1 ELSE sock_tx[c]
  BY <1>1 DEF IfacePoll, Inv, Types
<1>5. AfterSegment(c, seg) \in SockState
  BY <1>4 DEF AfterSegment, SockState
<1>6. Types'
  <2>1. device_rx' \in Seq(Packet)
    BY <1>1 DEF Inv, Types
  <2>2. sock' \in [Conn -> SockState]
    BY <1>1, <1>5 DEF IfacePoll, Inv, Types
  <2>3. sock_rx' \in [Conn -> 0 .. SOCK_BUF]
    <3>1. sock_rx'[c] \in 0 .. SOCK_BUF
      BY <1>4, LimitsAssumption DEF TakesData
    <3>2. sock_rx' = [sock_rx EXCEPT ![c] = sock_rx'[c]]
      BY <1>1, <1>4 DEF IfacePoll, Inv, Types
    <3> QED
      BY ZenonT(30), <3>1, <3>2 DEF Inv, Types
  <2>4. sock_tx' \in [Conn -> 0 .. SOCK_BUF]
    <3>1. sock_tx'[c] \in 0 .. SOCK_BUF
      BY <1>4, LimitsAssumption
    <3>2. sock_tx' = [sock_tx EXCEPT ![c] = sock_tx'[c]]
      BY <1>1, <1>4 DEF IfacePoll, Inv, Types
    <3> QED
      BY ZenonT(30), <3>1, <3>2 DEF Inv, Types
  <2>5. sent' \in [Conn -> Nat]
    <3>1. sent'[c] \in Nat
      BY <1>4
    <3>2. sent' = [sent EXCEPT ![c] = sent'[c]]
      BY <1>1, <1>4 DEF IfacePoll, Inv, Types
    <3> QED
      BY ZenonT(30), <3>1, <3>2 DEF Inv, Types
  <2> QED
    BY ZenonT(30), <1>2, <2>1, <2>2, <2>3, <2>4, <2>5 DEF Inv, Types
<1>7. /\ sock[c] = "Closed" => sock'[c] = "Closed"
      /\ sock[c] # "Listen" => sock'[c] # "Listen"
      /\ sock'[c] \in {"FinWait", "LastAck"} => sock[c] = sock'[c]
      /\ sock[c] \in {"CloseWait", "LastAck", "Closed"} =>
            sock'[c] \in {"CloseWait", "LastAck", "Closed"} /\ ~TakesData(c, seg)
      /\ sock[c] = "Listen" => sock'[c] = "Listen" \/ Listening
  BY <1>4 DEF AfterSegment, SockState, TakesData
<1>8. OneFresh'
  <2>1. CASE Fresh(c) \/ ~Fresh(c)'
    BY <1>2, <1>3, <2>1 DEF Inv, OneFresh, Fresh
  <2>2. CASE ~Fresh(c) /\ Fresh(c)'
    <3>1. sock[c] = "Listen" /\ Listening
      BY <1>2, <1>4, <1>7, <2>2 DEF Fresh
    <3> QED
      BY <1>2, <1>3, <3>1 DEF OneFresh, Listening, Fresh
  <2> QED
    BY <2>1, <2>2
<1>9. ASSUME NEW d \in Conn PROVE Fits(d)'
  <2>1. CASE d # c
    BY <1>2, <1>3, <2>1 DEF Inv, Fits, Opened
  <2>2. CASE d = c
    <3>1. Fits(c)
      BY DEF Inv
    <3>2. /\ rx[c] \in Nat /\ got[c] \in Nat /\ sock_rx[c] \in Nat
          /\ rx'[c] = rx[c] /\ got'[c] = got[c]
      BY ZenonT(30), <1>2, Counts DEF Inv
    <3>3. sent'[c] = got'[c] + rx'[c] + sock_rx'[c]
      BY <1>4, <3>1, <3>2 DEF Fits
    <3>4. (c \notin Opened)' => c \notin Opened
      BY <1>2 DEF Opened
    <3>5. peer_closed[c] /\ ~dead[c] =>
             sock_rx'[c] = 0 /\ sock'[c] \in {"CloseWait", "LastAck", "Closed"}
      BY ZenonT(30), <1>4, <1>7, <3>1 DEF Fits
    <3>6. sock'[c] \in {"FinWait", "LastAck"} => tx[c] = 0 /\ local_closed[c]
      BY <1>7, <3>1 DEF Fits
    <3>7. /\ dead[c] => sock'[c] = "Closed" /\ c \notin conns
          /\ c \in conns => sock'[c] # "Listen"
      BY <1>7, <3>1 DEF Fits
    <3>8. c \notin Opened => /\ rx[c] = 0 /\ got[c] = 0
                             /\ ~peer_closed[c] /\ ~local_closed[c]
      BY <3>1 DEF Fits
    <3> QED
      BY <1>2, <2>2, <3>3, <3>4, <3>5, <3>6, <3>7, <3>8 DEF Fits
  <2> QED
    BY <2>1, <2>2
<1> QED
  BY <1>6, <1>8, <1>9 DEF Inv

\* The listener hands over one connection at most.
LEMMA ListenerHandsOver ==
    ASSUME Inv, PollListener
    PROVE  /\ conns' = conns \cup {c \in Conn : Fresh(c)}
           /\ \/ queue' = queue /\ conns' = conns
              \/ \E c \in Conn : /\ Fresh(c) /\ conns' = conns \cup {c}
                                 /\ queue' = Append(queue, c)
<1>1. CASE Listening /\ UNCHANGED <<queue, conns>>
  BY <1>1 DEF Listening
<1>2. ASSUME NEW c \in Conn, Fresh(c), queue' = Append(queue, c),
             conns' = conns \cup {c}
      PROVE  {d \in Conn : Fresh(d)} = {c}
  BY <1>2 DEF Inv, OneFresh
<1> QED
  BY <1>1, <1>2 DEF PollListener

\* The listener's part of a round.
LEMMA ListenerStep == Inv /\ PollListener => Inv'
<1> SUFFICES ASSUME Inv, PollListener PROVE Inv'
  OBVIOUS
<1> DEFINE Reset(c) == sock[c] = "Closed" /\ ~dead[c] /\ c \notin conns
<1>1. /\ conns' = conns \cup {c \in Conn : Fresh(c)} /\ todo' = conns'
      /\ poll' = "visit"
      /\ sock' = [c \in Conn |-> IF Reset(c) THEN "Listen" ELSE sock[c]]
      /\ sock_rx' = [c \in Conn |-> IF Reset(c) THEN 0 ELSE sock_rx[c]]
      /\ sent' = [c \in Conn |-> IF Reset(c) THEN 0 ELSE sent[c]]
      /\ UNCHANGED <<inbound, wake, device_rx, rx, tx, peer_closed, local_closed,
                     dead, sock_tx, got>>
  BY ListenerHandsOver DEF PollListener, connVars
<1>2. queue' \in Seq(Conn)
  <2>1. queue \in Seq(Conn)
    BY DEF Inv, Types
  <2>2. queue' = queue \/ \E c \in Conn : queue' = Append(queue, c)
    BY ListenerHandsOver
  <2> QED
    BY <2>1, <2>2
<1>3. Types'
  <2>1. sock' \in [Conn -> SockState]
    BY <1>1 DEF Inv, Types, SockState
  <2>2. sock_rx' \in [Conn -> 0 .. SOCK_BUF]
    BY <1>1, LimitsAssumption DEF Inv, Types
  <2>3. sent' \in [Conn -> Nat]
    BY <1>1 DEF Inv, Types
  <2> QED
    BY ZenonT(30), <1>1, <1>2, <2>1, <2>2, <2>3 DEF Inv, Types
<1>4. OneFresh'
  BY <1>1 DEF OneFresh, Fresh
<1>5. ASSUME NEW c \in Conn PROVE Fits(c)'
  <2>1. Fits(c)
    BY DEF Inv
  <2>2. CASE Reset(c)
    <3>1. c \notin Opened /\ ~Fresh(c)
      BY <2>2 DEF Opened, Fresh
    <3>2. sock'[c] = "Listen" /\ sock_rx'[c] = 0 /\ sent'[c] = 0 /\ c \notin conns'
      BY <1>1, <2>2, <3>1
    <3>3. rx[c] = 0 /\ got[c] = 0 /\ ~peer_closed[c] /\ ~local_closed[c] /\ ~dead[c]
      BY ZenonT(30), <2>1, <2>2, <3>1 DEF Fits
    <3> QED
      BY <1>1, <3>2, <3>3 DEF Fits
  <2>3. CASE ~Reset(c)
    <3>1. sock'[c] = sock[c] /\ sock_rx'[c] = sock_rx[c] /\ sent'[c] = sent[c]
      BY <1>1, <2>3
    <3>2. /\ c \in conns => c \in conns'
          /\ c \in conns' => c \in conns \/ Fresh(c)
      BY <1>1
    <3>3. (c \notin Opened)' => c \notin Opened
      BY <1>1, <3>2 DEF Opened
    <3> QED
      BY ZenonT(30), <1>1, <2>1, <3>1, <3>2, <3>3 DEF Fits, Fresh
  <2> QED
    BY <2>2, <2>3
<1> QED
  BY ZenonT(30), <1>3, <1>4, <1>5 DEF Inv

\* What the visit of a connection does to its record and socket.
Visit(c) ==
    /\ c \in todo /\ c \in conns /\ ~dead[c] /\ todo' = todo \ {c}
    /\ rx'[c] \in rx[c] .. USER_RX_LIMIT /\ sock_rx'[c] \in 0 .. sock_rx[c]
    /\ rx'[c] + sock_rx'[c] = rx[c] + sock_rx[c]
    /\ sock_rx'[c] = 0 \/ rx'[c] = USER_RX_LIMIT
    /\ tx'[c] \in 0 .. tx[c] /\ sock_tx'[c] \in sock_tx[c] .. SOCK_BUF
    /\ sock[c] \in {"Established", "CloseWait"} => tx'[c] = 0 \/ sock_tx'[c] = SOCK_BUF
    /\ sock'[c] = IF local_closed[c] /\ tx'[c] = 0 THEN Closing(sock[c]) ELSE sock[c]
    /\ peer_closed'[c] <=> peer_closed[c] \/ PeerDone(sock'[c], sock_rx'[c])
    /\ dead'[c] <=> sock'[c] = "Closed"
    /\ conns' = IF sock'[c] = "Closed" THEN conns \ {c} ELSE conns
    /\ \A d \in Conn \ {c} :
          /\ rx'[d] = rx[d] /\ tx'[d] = tx[d] /\ peer_closed'[d] = peer_closed[d]
          /\ dead'[d] = dead[d] /\ sock'[d] = sock[d]
          /\ sock_rx'[d] = sock_rx[d] /\ sock_tx'[d] = sock_tx[d]
    /\ UNCHANGED <<inbound, wake, device_rx, poll, queue, local_closed, owing, sent, got>>

LEMMA VisitFacts ==
    ASSUME Inv, NEW c \in Conn, PollConn(c)
    PROVE  Visit(c) /\ Types'
<1> DEFINE in == Least(sock_rx[c], USER_RX_LIMIT - rx[c])
           can_send == sock[c] \in {"Established", "CloseWait"}
           out == IF can_send THEN Least(tx[c], SOCK_BUF - sock_tx[c]) ELSE 0
           s == IF MayClose(c, tx[c] - out) THEN Closing(sock[c]) ELSE sock[c]
<1>1. /\ rx[c] \in 0 .. USER_RX_LIMIT /\ tx[c] \in 0 .. USER_TX_LIMIT
      /\ sock_rx[c] \in 0 .. SOCK_BUF /\ sock_tx[c] \in 0 .. SOCK_BUF
      /\ sock[c] \in SockState /\ dead[c] \in BOOLEAN /\ peer_closed[c] \in BOOLEAN
  BY DEF Inv, Types
<1>2. /\ rx[c] + in \in rx[c] .. USER_RX_LIMIT /\ sock_rx[c] - in \in 0 .. sock_rx[c]
      /\ (rx[c] + in) + (sock_rx[c] - in) = rx[c] + sock_rx[c]
      /\ sock_rx[c] - in = 0 \/ rx[c] + in = USER_RX_LIMIT
  BY <1>1, LimitsAssumption DEF Least
<1>3. /\ tx[c] - out \in 0 .. tx[c] /\ sock_tx[c] + out \in sock_tx[c] .. SOCK_BUF
      /\ can_send => tx[c] - out = 0 \/ sock_tx[c] + out = SOCK_BUF
  BY <1>1, LimitsAssumption DEF Least
<1>4. s \in SockState
  BY ZenonT(30), <1>1 DEF Closing, SockState
<1>5. PeerDone(s, sock_rx[c] - in) \in BOOLEAN
  BY ZenonT(30) DEF PeerDone, may_recv, Connecting
<1>6. /\ c \in todo /\ todo' = todo \ {c}
      /\ rx' = [rx EXCEPT ![c] = @ + in]
      /\ sock_rx' = [sock_rx EXCEPT ![c] = @ - in]
      /\ tx' = [tx EXCEPT ![c] = @ - out]
      /\ sock_tx' = [sock_tx EXCEPT ![c] = @ + out]
      /\ sock' = [sock EXCEPT ![c] = s]
      /\ peer_closed' = [peer_closed EXCEPT ![c] = @ \/ PeerDone(s, sock_rx[c] - in)]
      /\ dead' = [dead EXCEPT ![c] = @ \/ s = "Closed"]
      /\ conns' = IF s = "Closed" THEN conns \ {c} ELSE conns
      /\ UNCHANGED <<inbound, wake, device_rx, poll, queue, local_closed, owing, sent, got>>
  BY ZenonT(30) DEF PollConn
<1> HIDE DEF in, out, s
<1>7. /\ rx'[c] = rx[c] + in /\ sock_rx'[c] = sock_rx[c] - in
      /\ tx'[c] = tx[c] - out /\ sock_tx'[c] = sock_tx[c] + out
      /\ sock'[c] = s /\ peer_closed'[c] = (peer_closed[c] \/ PeerDone(s, sock_rx[c] - in))
      /\ dead'[c] = (dead[c] \/ s = "Closed")
  BY ZenonT(30), <1>6 DEF Inv, Types
<1>8. \A d \in Conn \ {c} :
         /\ rx'[d] = rx[d] /\ tx'[d] = tx[d] /\ peer_closed'[d] = peer_closed[d]
         /\ dead'[d] = dead[d] /\ sock'[d] = sock[d]
         /\ sock_rx'[d] = sock_rx[d] /\ sock_tx'[d] = sock_tx[d]
  BY ZenonT(30), <1>6 DEF Inv, Types
<1>9. c \in conns /\ ~dead[c]
  BY ZenonT(30), <1>6 DEF Inv, Types, Fits
<1>10. sock'[c] = IF local_closed[c] /\ tx'[c] = 0 THEN Closing(sock[c]) ELSE sock[c]
  BY SMTT(30), <1>7 DEF s, MayClose
<1>11. Visit(c)
  BY ZenonT(30), <1>2, <1>3, <1>6, <1>7, <1>8, <1>9, <1>10 DEF Visit
<1>12. /\ rx' \in [Conn -> 0 .. USER_RX_LIMIT] /\ sock_rx' \in [Conn -> 0 .. SOCK_BUF]
  <2>1. rx[c] + in \in 0 .. USER_RX_LIMIT /\ sock_rx[c] - in \in 0 .. SOCK_BUF
    BY <1>1, <1>2, LimitsAssumption
  <2> QED
    BY ZenonT(30), <1>6, <2>1 DEF Inv, Types
<1>13. /\ tx' \in [Conn -> 0 .. USER_TX_LIMIT] /\ sock_tx' \in [Conn -> 0 .. SOCK_BUF]
  <2>1. tx[c] - out \in 0 .. USER_TX_LIMIT /\ sock_tx[c] + out \in 0 .. SOCK_BUF
    BY <1>1, <1>3, LimitsAssumption
  <2> QED
    BY ZenonT(30), <1>6, <2>1 DEF Inv, Types
<1>14. /\ sock' \in [Conn -> SockState] /\ peer_closed' \in [Conn -> BOOLEAN]
       /\ dead' \in [Conn -> BOOLEAN]
  BY ZenonT(30), <1>1, <1>4, <1>5, <1>6 DEF Inv, Types
<1>15. todo' \subseteq conns' /\ conns' \subseteq Conn
  BY ZenonT(30), <1>6 DEF Inv, Types
<1>16. Types'
  BY ZenonT(30), <1>6, <1>12, <1>13, <1>14, <1>15 DEF Inv, Types
<1> QED
  BY <1>11, <1>16

\* A connection's part of a round.
LEMMA ConnStep ==
    ASSUME Inv, NEW c \in Conn, PollConn(c)
    PROVE  Inv'
<1>1. Visit(c) /\ Types'
  BY VisitFacts
<1>2. /\ sock[c] \in SockState /\ sock[c] # "Listen" /\ Fits(c)
  BY <1>1 DEF Visit, Inv, Types, Fits
<1>3. /\ sock'[c] # "Listen"
      /\ sock[c] \in {"CloseWait", "LastAck", "Closed"} =>
            sock'[c] \in {"CloseWait", "LastAck", "Closed"}
      /\ sock'[c] = "Closed" => sock[c] = "Closed"
      /\ sock'[c] \in {"FinWait", "LastAck"} =>
            \/ sock[c] = sock'[c]
            \/ local_closed[c] /\ tx'[c] = 0
  BY <1>1, <1>2 DEF Visit, Closing, SockState
<1>4. OneFresh'
  <2>1. \A d \in Conn : Fresh(d)' => Fresh(d)
    BY ZenonT(30), <1>1 DEF Visit, Fresh
  <2> QED
    BY <2>1 DEF Inv, OneFresh
<1>5. ASSUME NEW d \in Conn PROVE Fits(d)'
  <2>1. Fits(d)
    BY SMTT(30) DEF Inv
  <2>2. CASE d # c
    <3>1. /\ d \in conns' <=> d \in conns
          /\ (d \in Opened)' <=> d \in Opened
      <4>1. conns' \in {conns, conns \ {c}} /\ dead'[d] = dead[d]
        BY ZenonT(30), <1>1, <2>2 DEF Visit
      <4> QED
        BY <2>2, <4>1 DEF Opened
    <3> QED
      BY ZenonT(30), <1>1, <2>1, <2>2, <3>1 DEF Visit, Fits
  <2>3. CASE d = c
    <3>1. /\ rx[c] \in Nat /\ got[c] \in Nat /\ sock_rx[c] \in Nat /\ sent[c] \in Nat
          /\ rx'[c] \in Nat /\ sock_rx'[c] \in Nat /\ tx[c] \in Nat
      <4>1. rx'[c] \in 0 .. USER_RX_LIMIT /\ sock_rx'[c] \in 0 .. SOCK_BUF
        BY ZenonT(30), <1>1 DEF Types
      <4>2. rx'[c] \in Nat /\ sock_rx'[c] \in Nat
        BY SMTT(30), <4>1, LimitsAssumption
      <4> QED
        BY ZenonT(30), <4>2, Counts DEF Inv
    <3>2. sent'[c] = got'[c] + rx'[c] + sock_rx'[c]
      <4>1. /\ sent[c] = got[c] + rx[c] + sock_rx[c]
            /\ rx'[c] + sock_rx'[c] = rx[c] + sock_rx[c]
            /\ sent'[c] = sent[c] /\ got'[c] = got[c]
        BY ZenonT(30), <1>1, <1>2 DEF Visit, Fits
      <4> QED
        BY SMTT(30), <3>1, <4>1
    <3>3. (c \in Opened)'
      <4>1. /\ c \in conns /\ (dead'[c] <=> sock'[c] = "Closed")
            /\ conns' = IF sock'[c] = "Closed" THEN conns \ {c} ELSE conns
        BY ZenonT(30), <1>1 DEF Visit
      <4>2. c \in conns' \/ dead'[c]
        BY ZenonT(30), <4>1
      <4> QED
        BY <4>2 DEF Opened
    <3>4. sock'[c] \in {"FinWait", "LastAck"} => tx'[c] = 0 /\ local_closed'[c]
      BY <1>1, <1>2, <1>3, <3>1 DEF Visit, Fits
    <3>5. ASSUME peer_closed'[c], ~dead'[c]
          PROVE  sock_rx'[c] = 0 /\ sock'[c] \in {"CloseWait", "LastAck", "Closed"}
      <4>1. CASE peer_closed[c]
        <5>1. /\ sock_rx[c] = 0 /\ sock[c] \in {"CloseWait", "LastAck", "Closed"}
              /\ sock_rx'[c] \in 0 .. sock_rx[c]
          BY ZenonT(30), <1>1, <1>2, <4>1 DEF Visit, Fits
        <5>2. sock_rx'[c] = 0
          BY <5>1
        <5> QED
          BY ZenonT(30), <1>3, <5>1, <5>2
      <4>2. CASE ~peer_closed[c]
        <5>1. PeerDone(sock'[c], sock_rx'[c]) /\ sock'[c] # "Closed"
          BY ZenonT(30), <1>1, <3>5, <4>2 DEF Visit
        <5>2. sock'[c] \in SockState
          BY ZenonT(30), <1>1 DEF Types
        <5>3. ~(sock_rx'[c] > 0) /\ sock'[c] \in {"CloseWait", "LastAck", "Closed"}
          BY ZenonT(30), <1>3, <5>1, <5>2 DEF PeerDone, may_recv, Connecting, SockState
        <5>4. sock_rx'[c] = 0
          BY SMTT(30), <3>1, <5>3
        <5> QED
          BY ZenonT(30), <5>3, <5>4
      <4> QED
        BY ZenonT(30), <4>1, <4>2
    <3>6. /\ dead'[c] => sock'[c] = "Closed" /\ c \notin conns'
          /\ c \in conns' => sock'[c] # "Listen"
      BY <1>1, <1>3 DEF Visit
    <3> QED
      BY ZenonT(30), <2>3, <3>2, <3>3, <3>4, <3>5, <3>6 DEF Fits
  <2> QED
    BY <2>2, <2>3
<1> QED
  BY <1>1, <1>4, <1>5 DEF Inv

\* The operations of TcpStream, on a connection that was handed over.
LEMMA UserStep ==
    ASSUME Inv, NEW t \in Thread, NEW c \in Conn, c \in Opened,
           ReadSome(t, c) \/ WriteSome(t, c) \/ CloseStream(t, c)
    PROVE  Inv'
<1>1. /\ UNCHANGED <<stackVars, peer_closed, dead, sockVars>>
      /\ Opened' = Opened
  BY DEF ReadSome, WriteSome, CloseStream, Opened, stackVars
<1>2. OneFresh'
  BY <1>1 DEF Inv, OneFresh, Fresh, stackVars, sockVars
<1>3. CASE ReadSome(t, c)
  <2>1. PICK n \in 1 .. rx[c] : /\ rx' = [rx EXCEPT ![c] = @ - n]
                                /\ got' = [got EXCEPT ![c] = @ + n]
    BY ZenonT(30), <1>3 DEF ReadSome
  <2>2. rx[c] \in 0 .. USER_RX_LIMIT /\ got[c] \in Nat
    BY DEF Inv, Types
  <2>3. rx[c] - n \in 0 .. USER_RX_LIMIT /\ got[c] + n \in Nat
    BY <2>1, <2>2, LimitsAssumption
  <2>4. Types'
    BY ZenonT(30), <1>1, <1>3, <2>1, <2>3 DEF ReadSome, Inv, Types, stackVars, sockVars
  <2>5. ASSUME NEW d \in Conn PROVE Fits(d)'
    <3>1. /\ Fits(d) /\ rx[d] \in Nat /\ got[d] \in Nat /\ sock_rx[d] \in Nat
          /\ sent[d] \in Nat
      BY ZenonT(30), Counts DEF Inv
    <3>2. /\ d # c => rx'[d] = rx[d] /\ got'[d] = got[d]
          /\ d = c => rx'[d] = rx[d] - n /\ got'[d] = got[d] + n
      BY SMTT(30), <2>1 DEF Inv, Types
    <3>3. sent[d] = got'[d] + rx'[d] + sock_rx[d]
      <4>1. sent[d] = got[d] + rx[d] + sock_rx[d]
        BY ZenonT(30), <3>1 DEF Fits
      <4>2. n \in Nat
        BY <2>1, <2>2
      <4>3. CASE d = c
        <5>1. rx'[d] = rx[d] - n /\ got'[d] = got[d] + n
          BY ZenonT(30), <3>2, <4>3
        <5> QED
          BY <3>1, <4>1, <4>2, <5>1
      <4>4. CASE d # c
        BY <3>2, <4>1, <4>4
      <4> QED
        BY ZenonT(30), <4>3, <4>4
    <3> QED
      BY ZenonT(30), <1>1, <1>3, <3>1, <3>2, <3>3 DEF ReadSome, Fits, stackVars, sockVars
  <2> QED
    BY <1>2, <2>4, <2>5 DEF Inv
<1>4. CASE WriteSome(t, c)
  <2>1. /\ ~local_closed[c] /\ tx[c] < USER_TX_LIMIT /\ tx' = [tx EXCEPT ![c] = @ + 1]
        /\ UNCHANGED <<rx, local_closed, got>>
    BY <1>4 DEF WriteSome, Unwritable
  <2>2. tx[c] + 1 \in 0 .. USER_TX_LIMIT
    <3>1. tx[c] \in Nat
      BY ZenonT(30), Counts DEF Inv
    <3> QED
      BY <2>1, <3>1, LimitsAssumption
  <2>3. Types'
    BY ZenonT(30), <1>1, <2>1, <2>2 DEF Inv, Types, stackVars, sockVars
  <2>4. ASSUME NEW d \in Conn PROVE Fits(d)'
    BY <1>1, <2>1 DEF Inv, Types, Fits, stackVars, sockVars
  <2> QED
    BY ZenonT(30), <1>2, <2>3, <2>4 DEF Inv
<1>5. CASE CloseStream(t, c)
  <2>1. /\ local_closed' = [local_closed EXCEPT ![c] = TRUE]
        /\ UNCHANGED <<rx, tx, got>>
    BY ZenonT(30), <1>5 DEF CloseStream
  <2>2. Types'
    BY ZenonT(30), <1>1, <2>1 DEF Inv, Types, stackVars, sockVars
  <2>3. ASSUME NEW d \in Conn PROVE Fits(d)'
    BY ZenonT(30), <1>1, <2>1 DEF Inv, Types, Fits, stackVars, sockVars
  <2> QED
    BY <1>2, <2>2, <2>3 DEF Inv
<1> QED
  BY ZenonT(30), <1>3, <1>4, <1>5

\* Every step keeps the invariant.
LEMMA NextInv == Inv /\ [Next]_vars => Inv'
<1> SUFFICES ASSUME Inv, [Next]_vars PROVE Inv'
  OBVIOUS
<1>1. CASE PollPull
  <2>1. <<>> \in Seq(Packet)
    OBVIOUS
  <2>2. Types'
    BY ZenonT(30), <1>1, <2>1 DEF PollPull, connVars, sockVars, Inv, Types
  <2> QED
    BY <1>1, <2>2, QuietStep DEF PollPull, connVars
<1>2. CASE PollIface
  BY <1>2, IfaceStep
<1>3. CASE PollListener
  BY <1>3, ListenerStep
<1>4. ASSUME NEW c \in Conn, PollConn(c) PROVE Inv'
  BY <1>4, ConnStep
<1>5. CASE PollSleep \/ PollWake
  BY ZenonT(30), <1>5, QuietStep DEF PollSleep, PollWake, connVars, sockVars, Inv, Types
<1>6. ASSUME NEW c \in Conn, NEW seg \in Segment, Inject(c, seg) PROVE Inv'
  <2>1. <<c, seg>> \in Packet /\ inbound \in Seq(Packet)
    BY ZenonT(30) DEF Packet, Inv, Types
  <2>2. inbound' \in Seq(Packet)
    <3>1. Append(inbound, <<c, seg>>) \in Seq(Packet)
      BY <2>1
    <3> QED
      BY ZenonT(30), <1>6, <2>1, <3>1 DEF Inject
  <2>3. Types'
    BY ZenonT(30), <1>6, <2>2 DEF Inject, Notify, connVars, sockVars, Inv, Types
  <2> QED
    BY ZenonT(30), <1>6, <2>3, QuietStep DEF Inject, connVars
<1>7. ASSUME NEW t \in Thread, Wake(t) PROVE Inv'
  BY ZenonT(30), <1>7, QuietStep DEF Wake, Notify, sockVars, Inv, Types
<1>8. ASSUME NEW c \in Conn, Accept(c) PROVE Inv'
  <2>1. queue' \in Seq(Conn)
    BY <1>8 DEF Accept, Inv, Types
  <2>2. Types'
    BY ZenonT(30), <1>8, <2>1 DEF Accept, connVars, sockVars, Inv, Types
  <2> QED
    BY <1>8, <2>2, QuietStep DEF Accept, connVars
<1>9. ASSUME NEW t \in Thread, NEW c \in Conn, c \in Opened,
             ReadSome(t, c) \/ WriteSome(t, c) \/ CloseStream(t, c)
      PROVE  Inv'
  BY <1>9, UserStep
<1>10. CASE UNCHANGED vars
  BY ZenonT(30), <1>10, QuietStep DEF vars, stackVars, connVars, sockVars, Inv, Types
<1> QED
  BY ZenonT(30), <1>1, <1>2, <1>3, <1>4, <1>5, <1>6, <1>7, <1>8, <1>9, <1>10 DEF Next, Poll, User

\* The inductive invariant.
THEOREM InvHolds == Spec => []Inv
BY InitInv, NextInv, PTL DEF Spec

\* read reports the end only after all the data, and the socket is closed only
\* after it was handed all that was written.
THEOREM DataComesFirst == Spec => []DataBeforeEnd
<1>1. Inv => DataBeforeEnd
  <2> SUFFICES ASSUME Inv, NEW c \in Conn
               PROVE  /\ ReadsEof(c) /\ sock[c] \in {"SynReceived", "Established", "CloseWait"}
                            => sock[c] = "CloseWait" /\ got[c] = sent[c]
                      /\ sock[c] \in {"FinWait", "LastAck"} => tx[c] = 0
    BY ZenonT(30) DEF DataBeforeEnd
  <2>1. Fits(c) /\ rx[c] \in Nat /\ got[c] \in Nat /\ sock_rx[c] \in Nat
    BY ZenonT(30), Counts DEF Inv
  <2>2. /\ dead[c] => sock[c] = "Closed"
        /\ sent[c] = got[c] + rx[c] + sock_rx[c]
        /\ peer_closed[c] /\ ~dead[c] =>
              sock_rx[c] = 0 /\ sock[c] \in {"CloseWait", "LastAck", "Closed"}
        /\ sock[c] \in {"FinWait", "LastAck"} => tx[c] = 0
    BY ZenonT(30), <2>1 DEF Fits
  <2>3. ASSUME ReadsEof(c), sock[c] \in {"SynReceived", "Established", "CloseWait"}
        PROVE  sock[c] = "CloseWait" /\ rx[c] = 0 /\ sock_rx[c] = 0
    BY <2>2, <2>3 DEF ReadsEof
  <2>4. rx[c] = 0 /\ sock_rx[c] = 0 => got[c] = sent[c]
    BY <2>1, <2>2
  <2> QED
    BY ZenonT(30), <2>2, <2>3, <2>4
<1> QED
  BY <1>1, InvHolds, PTL

-----------------------------------------------------------------------------
(* The stack implements Streams *)

\* Steps that threads with streams do not see.
LEMMA Hidden ==
    ASSUME UNCHANGED <<conns, queue, rx, tx, peer_closed, local_closed, dead>>
    PROVE  UNCHANGED Promise!streamVars
BY ZenonT(30) DEF Promise!streamVars, Opened

\* Every step of the stack is one that Streams allows.
LEMMA NextImplements ==
    Inv /\ [Next]_vars => [Promise!StreamsNext]_Promise!streamVars
<1> SUFFICES ASSUME Inv, [Next]_vars
             PROVE  Promise!StreamsNext \/ UNCHANGED Promise!streamVars
  BY ZenonT(30)
<1>1. CASE PollPull \/ PollIface \/ PollSleep \/ PollWake \/ UNCHANGED vars
  BY ZenonT(30), <1>1, Hidden
     DEF PollPull, PollIface, PollSleep, PollWake, vars, stackVars, connVars
<1>2. ASSUME NEW c \in Conn, NEW seg \in Segment, Inject(c, seg)
      PROVE  UNCHANGED Promise!streamVars
  BY <1>2, Hidden DEF Inject, connVars
<1>3. ASSUME NEW t \in Thread, Wake(t)
      PROVE  UNCHANGED Promise!streamVars
  BY <1>3, Hidden DEF Wake
<1>4. CASE PollListener
  <2>1. UNCHANGED <<rx, tx, peer_closed, local_closed, dead>>
    BY ZenonT(30), <1>4 DEF PollListener, connVars
  <2>2. CASE conns' = conns /\ queue' = queue
    BY <2>1, <2>2, Hidden
  <2>3. ASSUME NEW c \in Conn, Fresh(c), conns' = conns \cup {c},
               queue' = Append(queue, c)
        PROVE  Promise!StreamsNext
    <3>1. c \notin Opened
      BY <2>3 DEF Fresh, Opened, Inv, Fits
    <3>2. Opened' = Opened \cup {c}
      BY <2>1, <2>3 DEF Opened
    <3>3. Promise!Arrive(c)
      BY <2>1, <2>3, <3>1, <3>2 DEF Promise!Arrive
    <3> QED
      BY ZenonT(30), <3>3 DEF Promise!StreamsNext
  <2> QED
    BY SMTT(30), <1>4, <2>2, <2>3, ListenerHandsOver
<1>5. ASSUME NEW c \in Conn, PollConn(c)
      PROVE  Promise!StreamsNext
  <2>1. Visit(c) /\ Types'
    BY SMTT(30), <1>5, VisitFacts
  <2>2. c \in Opened /\ ~dead[c] /\ Opened' = Opened
    BY ZenonT(30), <2>1 DEF Visit, Opened, Types
  <2>3. /\ rx' = [rx EXCEPT ![c] = rx'[c]] /\ tx' = [tx EXCEPT ![c] = tx'[c]]
        /\ peer_closed' = [peer_closed EXCEPT ![c] = peer_closed'[c]]
        /\ dead' = [dead EXCEPT ![c] = dead'[c]]
    BY ZenonT(30), <2>1 DEF Visit, Inv, Types
  <2>4. /\ rx'[c] \in rx[c] .. USER_RX_LIMIT /\ tx'[c] \in 0 .. tx[c]
        /\ peer_closed'[c] \in BOOLEAN /\ dead'[c] \in BOOLEAN
        /\ UNCHANGED <<queue, local_closed>>
    BY ZenonT(30), <2>1 DEF Visit, Types
  <2>5. peer_closed[c] => peer_closed'[c] /\ rx'[c] = rx[c]
    <3>1. rx[c] \in Nat /\ rx'[c] \in Nat /\ sock_rx'[c] \in Nat
      <4>1. rx'[c] \in 0 .. USER_RX_LIMIT /\ sock_rx'[c] \in 0 .. SOCK_BUF
        BY ZenonT(30), <2>1 DEF Types
      <4>2. rx[c] \in Nat
        BY ZenonT(30), Counts DEF Inv
      <4> QED
        BY <4>1, <4>2, LimitsAssumption
    <3>2. peer_closed[c] => sock_rx[c] = 0
      BY SMTT(30), <2>2 DEF Inv, Fits
    <3>3. /\ peer_closed[c] => peer_closed'[c]
          /\ sock_rx'[c] \in 0 .. sock_rx[c]
          /\ rx'[c] + sock_rx'[c] = rx[c] + sock_rx[c]
      BY ZenonT(30), <2>1 DEF Visit
    <3> QED
      BY <3>1, <3>2, <3>3
  <2>6. dead'[c] => peer_closed'[c]
    BY ZenonT(30), <2>1 DEF Visit, PeerDone
  <2>7. Promise!Progress(c)
    BY <2>2, <2>3, <2>4, <2>5, <2>6 DEF Promise!Progress
  <2> QED
    BY <2>7 DEF Promise!StreamsNext
<1>6. ASSUME NEW c \in Conn, Accept(c)
      PROVE  Promise!StreamsNext
  BY ZenonT(30), <1>6 DEF Accept, Promise!StreamsNext, Promise!Accept, Opened, connVars
<1>7. ASSUME NEW t \in Thread, NEW c \in Opened \ {queue[i] : i \in DOMAIN queue},
             c \in Conn, ReadSome(t, c) \/ WriteSome(t, c) \/ CloseStream(t, c)
      PROVE  Promise!StreamsNext
  <2>1. c \in Promise!Held
    BY ZenonT(30), <1>7 DEF Promise!Held
  <2>2. UNCHANGED <<queue, Opened>>
    BY ZenonT(30), <1>7 DEF ReadSome, WriteSome, CloseStream, stackVars, Opened
  <2>3. CASE ReadSome(t, c)
    <3>1. PICK n \in 1 .. rx[c] : rx' = [rx EXCEPT ![c] = @ - n]
      BY ZenonT(30), <2>3 DEF ReadSome
    <3>2. rx[c] - n \in 0 .. rx[c] - 1
      <4>1. rx[c] \in Nat
        BY ZenonT(30), <1>7, Counts DEF Inv
      <4> QED
        BY <3>1, <4>1
    <3>3. Promise!ReadSome(c)
      BY ZenonT(30), <2>2, <2>3, <3>1, <3>2 DEF ReadSome, Promise!ReadSome
    <3> QED
      BY SMTT(30), <1>7, <2>1, <3>3 DEF Promise!StreamsNext
  <2>4. CASE WriteSome(t, c)
    <3>1. 1 \in 1 .. Promise!Room(c)
      <4>1. tx[c] \in Nat
        BY ZenonT(30), <1>7, Counts DEF Inv
      <4>2. tx[c] < USER_TX_LIMIT
        BY <2>4 DEF WriteSome
      <4> QED
        BY SMTT(30), <4>1, <4>2, LimitsAssumption DEF Promise!Room
    <3>2. Promise!WriteSome(c)
      BY ZenonT(30), <2>2, <2>4, <3>1 DEF WriteSome, Unwritable, Promise!WriteSome, Promise!Unwritable
    <3> QED
      BY ZenonT(30), <1>7, <2>1, <3>2 DEF Promise!StreamsNext
  <2>5. CASE CloseStream(t, c)
    <3>1. Promise!CloseStream(c)
      BY <2>2, <2>5 DEF CloseStream, Promise!CloseStream
    <3> QED
      BY ZenonT(30), <1>7, <2>1, <3>1 DEF Promise!StreamsNext
  <2> QED
    BY ZenonT(30), <1>7, <2>3, <2>4, <2>5
<1> QED
  BY <1>1, <1>2, <1>3, <1>4, <1>5, <1>6, <1>7 DEF Next, Poll, User

\* The poll thread, the threads with streams and the flags between them
\* implement the streams that the bridge is built on.
THEOREM StackImplementsStreams == Spec => ImplementsStreams
<1>1. Init => Promise!StreamsInit
  BY ZenonT(30) DEF Init, Promise!StreamsInit, Opened
<1> QED
  BY <1>1, InvHolds, NextImplements, PTL
     DEF Spec, ImplementsStreams, Promise!StreamsSpec

-----------------------------------------------------------------------------
(* No lost wakeup *)

\* A packet that waits has set the flag; the flag keeps the poll thread awake;
\* and what there is to do for a connection that this round has visited was
\* made by a thread that has set the flag or is about to.
Awake ==
    /\ inbound # <<>> => wake
    /\ poll = "asleep" => ~wake /\ todo = {}
    /\ poll \in {"visit", "asleep"} =>
          \A c \in conns \ todo : WorkOn(c) => wake \/ owing # {}

\* A visit leaves nothing to do.
LEMMA VisitFinishes ==
    ASSUME Inv, NEW c \in Conn, Visit(c), Types'
    PROVE  ~WorkOn(c)'
<1>1. /\ rx'[c] \in 0 .. USER_RX_LIMIT /\ sock_rx'[c] \in 0 .. SOCK_BUF
      /\ tx'[c] \in 0 .. USER_TX_LIMIT /\ sock_tx'[c] \in 0 .. SOCK_BUF
      /\ sock[c] \in SockState
  BY ZenonT(30) DEF Inv, Types
<1>2. ~(sock_rx'[c] > 0 /\ rx'[c] < USER_RX_LIMIT)
  <2>1. sock_rx'[c] = 0 \/ rx'[c] = USER_RX_LIMIT
    BY ZenonT(30) DEF Visit
  <2> QED
    BY <1>1, <2>1, LimitsAssumption
<1>3. sock'[c] \in {"Established", "CloseWait"} => sock[c] = sock'[c]
  BY ZenonT(30), <1>1 DEF Visit, Closing, SockState
<1>4. ~(tx'[c] > 0 /\ sock_tx'[c] < SOCK_BUF /\ sock'[c] \in {"Established", "CloseWait"})
  <2>1. sock'[c] \in {"Established", "CloseWait"} => tx'[c] = 0 \/ sock_tx'[c] = SOCK_BUF
    BY ZenonT(30), <1>3 DEF Visit
  <2> QED
    BY <1>1, <2>1, LimitsAssumption
<1>5. ~(/\ local_closed'[c] /\ tx'[c] = 0
        /\ sock'[c] \in {"SynReceived", "Established", "CloseWait"})
  BY SMTT(30), <1>1 DEF Visit, Closing, SockState
<1> QED
  BY ZenonT(30), <1>2, <1>4, <1>5 DEF WorkOn

\* An operation of a thread makes work only if it will call wake.
LEMMA UserOwes ==
    ASSUME Inv, NEW t \in Thread, NEW c \in Conn,
           ReadSome(t, c) \/ WriteSome(t, c) \/ CloseStream(t, c),
           NEW d \in Conn, WorkOn(d)', owing' = {}
    PROVE  WorkOn(d) /\ owing = {}
<1>1. /\ ReadSome(t, c) /\ ~WasFull(c) /\ owing' = owing
      /\ UNCHANGED <<tx, local_closed, sock, sock_rx, sock_tx>>
  BY ZenonT(30) DEF ReadSome, WriteSome, CloseStream, sockVars
<1>2. rx[d] < USER_RX_LIMIT \/ rx'[d] = rx[d]
  <2>1. rx[c] < USER_RX_LIMIT
    <3>1. rx[c] \in 0 .. USER_RX_LIMIT
      BY ZenonT(30) DEF Inv, Types
    <3> QED
      BY <1>1, <3>1, LimitsAssumption DEF WasFull
  <2>2. d # c => rx'[d] = rx[d]
    BY SMTT(30), <1>1 DEF ReadSome, Inv, Types
  <2> QED
    BY <2>1, <2>2
<1> QED
  BY ZenonT(30), <1>1, <1>2 DEF WorkOn

\* Every step keeps it.
LEMMA NextAwake == Inv /\ Awake /\ [Next]_vars => Awake'
<1> SUFFICES ASSUME Inv, Awake, [Next]_vars PROVE Awake'
  OBVIOUS
<1>1. CASE PollPull
  BY <1>1 DEF PollPull, Awake
<1>2. CASE PollIface
  BY <1>2 DEF PollIface, Awake
<1>3. CASE PollListener
  BY ZenonT(30), <1>3 DEF PollListener, Awake
<1>4. ASSUME NEW c \in Conn, PollConn(c) PROVE Awake'
  <2>1. Visit(c) /\ Types' /\ poll = "visit"
    BY ZenonT(30), <1>4, VisitFacts DEF PollConn
  <2>2. ~WorkOn(c)'
    BY SMTT(30), <2>1, VisitFinishes
  <2>3. ASSUME NEW d \in Conn \ {c} PROVE WorkOn(d)' <=> WorkOn(d)
    <3>1. /\ rx'[d] = rx[d] /\ tx'[d] = tx[d] /\ local_closed' = local_closed
          /\ sock'[d] = sock[d] /\ sock_rx'[d] = sock_rx[d] /\ sock_tx'[d] = sock_tx[d]
      BY ZenonT(30), <2>1 DEF Visit
    <3> QED
      BY ZenonT(30), <3>1 DEF WorkOn
  <2>4. conns' \ todo' \subseteq (conns \ todo) \cup {c} /\ conns \subseteq Conn
    BY ZenonT(30), <2>1 DEF Visit, Inv, Types
  <2>5. UNCHANGED <<inbound, wake, poll, owing>>
    BY ZenonT(30), <2>1 DEF Visit
  <2>6. \A d \in conns' \ todo' : WorkOn(d)' => wake' \/ owing' # {}
    BY <2>1, <2>2, <2>3, <2>4, <2>5 DEF Awake
  <2> QED
    BY SMTT(30), <2>1, <2>5, <2>6 DEF Awake
<1>5. CASE PollSleep
  BY ZenonT(30), <1>5 DEF PollSleep, MustNotSleep, Awake, WorkOn, connVars, sockVars
<1>6. CASE PollWake
  BY ZenonT(30), <1>6 DEF PollWake, Awake
<1>7. ASSUME NEW c \in Conn, NEW seg \in Segment, Inject(c, seg) PROVE Awake'
  BY ZenonT(30), <1>7 DEF Inject, Notify, Awake
<1>8. ASSUME NEW t \in Thread, Wake(t) PROVE Awake'
  BY ZenonT(30), <1>8 DEF Wake, Notify, Awake
<1>9. ASSUME NEW c \in Conn, Accept(c) PROVE Awake'
  BY <1>9 DEF Accept, Awake, WorkOn, connVars, sockVars
<1>10. ASSUME NEW t \in Thread, NEW c \in Conn,
              ReadSome(t, c) \/ WriteSome(t, c) \/ CloseStream(t, c)
       PROVE  Awake'
  <2>1. UNCHANGED stackVars
    BY <1>10 DEF ReadSome, WriteSome, CloseStream
  <2>2. \A d \in Conn : WorkOn(d)' /\ owing' = {} => WorkOn(d) /\ owing = {}
    BY <1>10, UserOwes
  <2>3. conns \subseteq Conn
    BY ZenonT(30) DEF Inv, Types
  <2> QED
    BY ZenonT(30), <2>1, <2>2, <2>3 DEF Awake, stackVars
<1>11. CASE UNCHANGED vars
  BY <1>11 DEF vars, stackVars, connVars, sockVars, Awake, WorkOn
<1> QED
  BY ZenonT(30), <1>1, <1>2, <1>3, <1>4, <1>5, <1>6, <1>7, <1>8, <1>9, <1>10, <1>11
     DEF Next, Poll, User

\* The poll thread never sleeps while there is work that nobody will wake it for.
THEOREM WakeupsAreNotLost == Spec => []NoLostWakeup
<1>1. Init => Awake
  BY DEF Init, Awake
<1>2. Awake => NoLostWakeup
  BY DEF Awake, NoLostWakeup
<1>3. Spec => []Awake
  BY <1>1, InvHolds, NextAwake, PTL DEF Spec
<1> QED
  BY <1>2, <1>3, PTL
=============================================================================
