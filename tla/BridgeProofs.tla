---------------------------- MODULE BridgeProofs ----------------------------
(***************************************************************************)
(* Theorems about the bridge's flag and threads, for any number of clients *)
(* and any size of the buffers of a stream.                                *)
(*                                                                         *)
(* BusyExact needs to know that the channel holds one client at most;      *)
(* RxWithinSession needs that a session without its bridge-rx thread has   *)
(* rx_done set, and one with it has not.                                   *)
(***************************************************************************)
EXTENDS Bridge, TLAPS

\* The reasons for BUSY to be set, by name.
Offering == acceptor = "send"
Waiting == channel # <<>>
Serving == main \notin {"recv", "exited"}
Failed == main = "exited"

Types ==
    /\ BUSY \in BOOLEAN
    /\ acceptor \in {"accept", "swap", "send", "refuse", "close"}
    /\ acceptor # "accept" => offered \in Conn
    /\ channel \in Seq(Conn) /\ Len(channel) <= 1
    /\ main \in {"recv", "spawn", "read", "wait", "close", "free", "exited"}
    /\ receiver \in {"off", "read", "write", "check", "done"}

Flag ==
    /\ BUSY <=> Offering \/ Waiting \/ Serving \/ Failed
    /\ ~(Offering /\ Waiting) /\ ~(Offering /\ Serving) /\ ~(Offering /\ Failed)
    /\ ~(Waiting /\ Serving) /\ ~(Waiting /\ Failed)

Session ==
    /\ receiver # "off" => main \in {"read", "wait"} /\ rx_conn = conn /\ ~rx_done
    /\ receiver = "off" /\ main \in {"read", "wait"} => rx_done

Inv == Types /\ Flag /\ Session

-----------------------------------------------------------------------------

\* A channel of one place that is not empty is full.
LEMMA OneElement ==
    ASSUME NEW S, NEW s \in Seq(S), Len(s) <= 1, s # <<>>
    PROVE  Len(s) = 1
<1>1. Len(s) \in Nat
  OBVIOUS
<1>2. Len(s) # 0
  OBVIOUS
<1>3. \A n \in Nat : n <= 1 /\ n # 0 => n = 1
  OBVIOUS
<1> QED
  BY <1>1, <1>2, <1>3

\* At the start nobody is served.
LEMMA InitInv == Init => Inv
<1> SUFFICES ASSUME Init PROVE Inv
  OBVIOUS
<1>1. <<>> \in Seq(Conn) /\ Len(<<>>) <= 1
  OBVIOUS
<1>2. Types
  BY ZenonT(30), <1>1 DEF Init, Types
<1>3. Flag
  BY DEF Init, Flag, Offering, Waiting, Serving, Failed
<1>4. Session
  BY DEF Init, Session
<1> QED
  BY <1>2, <1>3, <1>4 DEF Inv

\* Every step keeps the invariant.  What the stack does to a stream changes
\* nothing the invariant speaks of.
LEMMA NextInv == Inv /\ [Next]_vars => Inv'
<1> SUFFICES ASSUME Inv, [Next]_vars PROVE Inv'
  OBVIOUS
<1> USE DEF Inv, Types, Flag, Session, Offering, Waiting, Serving, Failed
<1>1. CASE UNCHANGED bridgeVars
  BY <1>1 DEF bridgeVars, acceptVars, mainVars, rxVars
<1>2. CASE AcceptConn
  BY <1>2 DEF AcceptConn, mainVars, rxVars
<1>3. CASE Swap
  BY <1>3 DEF Swap, mainVars, rxVars
<1>4. CASE SendConn
  <2>1. channel = <<>> /\ offered \in Conn
    BY <1>4 DEF SendConn
  <2>2. channel' = <<offered>>
    BY <1>4, <2>1 DEF SendConn
  <2>3. channel' \in Seq(Conn) /\ Len(channel') = 1 /\ channel' # <<>>
    BY <2>1, <2>2
  <2> QED
    BY <1>4, <2>3 DEF SendConn, mainVars, rxVars
<1>5. CASE Refuse
  BY <1>5 DEF Refuse, mainVars, rxVars
<1>6. CASE CloseRefused
  BY <1>6 DEF CloseRefused, mainVars, rxVars
<1>7. CASE RecvConn
  <2>1. channel \in Seq(Conn) /\ Len(channel) = 1
    BY <1>7, OneElement DEF RecvConn
  <2>2. channel' \in Seq(Conn) /\ Len(channel') = 0
    BY <1>7, <2>1 DEF RecvConn
  <2>3. channel' = <<>>
    BY <2>2
  <2> QED
    BY <1>7, <2>2, <2>3 DEF RecvConn, acceptVars, rxVars
<1>8. CASE SpawnRx
  BY <1>8 DEF SpawnRx, acceptVars
<1>9. CASE SpawnFails
  BY <1>9 DEF SpawnFails, acceptVars, rxVars
<1>10. CASE MainRead
  BY <1>10 DEF MainRead, acceptVars, mainVars, rxVars
<1>11. CASE MainEof
  BY <1>11 DEF MainEof, acceptVars, rxVars
<1>12. CASE MainWait
  BY <1>12 DEF MainWait, RxFinished, acceptVars, rxVars
<1>13. CASE MainClose
  BY <1>13 DEF MainClose, acceptVars, rxVars
<1>14. CASE MainFree
  BY ZenonT(30), <1>14 DEF MainFree, acceptVars, rxVars
<1>15. CASE RxRead
  BY <1>15 DEF RxRead, acceptVars, mainVars
<1>16. CASE RxWrite
  BY <1>16 DEF RxWrite, acceptVars, mainVars
<1>17. CASE RxCheck
  BY <1>17 DEF RxCheck, acceptVars, mainVars
<1>18. CASE RxDone
  BY <1>18 DEF RxDone, acceptVars, mainVars
<1>19. StackStep \/ UNCHANGED vars => UNCHANGED bridgeVars
  BY DEF StackStep, vars, bridgeVars
<1> QED
  BY ZenonT(30), <1>1, <1>2, <1>3, <1>4, <1>5, <1>6, <1>7, <1>8, <1>9, <1>10, <1>11, <1>12,
     <1>13, <1>14, <1>15, <1>16, <1>17, <1>18, <1>19
     DEF Next, Acceptor, Main, Receiver

\* The inductive invariant.
THEOREM InvHolds == Spec => []Inv
BY InitInv, NextInv, PTL DEF Spec

-----------------------------------------------------------------------------

\* BUSY is set exactly while one client, and no other, is on its way to the
\* main thread or being served, or run has failed.
THEOREM BusyIsExact == Spec => []BusyExact
<1>1. Inv => BusyExact
  <2> SUFFICES ASSUME Inv PROVE BusyExact
    OBVIOUS
  <2>1. /\ DOMAIN Claims = {1, 2, 3, 4}
        /\ Claims[1] = Offering /\ Claims[2] = Waiting
        /\ Claims[3] = Serving /\ Claims[4] = Failed
    BY DEF Claims, Offering, Waiting, Serving, Failed
  <2>2. ~(Serving /\ Failed)
    BY DEF Serving, Failed
  <2> QED
    BY <2>1, <2>2 DEF BusyExact, Inv, Flag
<1> QED
  BY <1>1, InvHolds, PTL

\* A bridge-rx thread belongs to the session that is served, and ends before it.
THEOREM RxStaysInSession == Spec => []RxWithinSession
<1>1. Inv => RxWithinSession
  BY DEF Inv, Session, RxWithinSession
<1> QED
  BY <1>1, InvHolds, PTL
=============================================================================
