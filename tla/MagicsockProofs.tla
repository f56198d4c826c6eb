-------------------------- MODULE MagicsockProofs ---------------------------
(***************************************************************************)
(* Theorems about the two halves of magicsock.rs that keep timers and      *)
(* threads: the handles of the DERP connections (Derp), for any number of  *)
(* regions and threads and any size of the channels, and the trust in      *)
(* direct paths (DiscoPath), for any number of paths and any timeouts.     *)
(*                                                                         *)
(* HandleServed is not inductive: a thread leaves when it finds Close in   *)
(* its channel, so the invariant adds that the channel of a thread whose   *)
(* handle is in the map holds none.                                        *)
(*                                                                         *)
(* BlackoutBounded is not either: it speaks of one direction of a path,    *)
(* and trust is renewed by the other.  The invariant relates the trust a   *)
(* node has left to how long each direction has been dead, and says of     *)
(* every message under way what it is proof of (PathInv).                  *)
(***************************************************************************)
EXTENDS Derp, DiscoPath, TLAPS

Cmd == {"send", "prefer", "close"}
NoClose(rx) == \A i \in 1 .. Len(rx) : rx[i] # "close"

\* Handles lead to threads that still take commands and were not asked to close.
Served ==
    \A r \in Region : derps[r] # None =>
        /\ thread[derps[r]].region = r
        /\ thread[derps[r]].pc \notin {"exit", "done"}
        /\ NoClose(thread[derps[r]].rx)

KeysFresh == \A r \in Region : derps[r] # None => ~thread[derps[r]].stale_key

Inv == TypeOK /\ Served /\ KeyCurrent

-----------------------------------------------------------------------------
(* Channels *)

\* try_send keeps the limit and adds no Close of its own.
LEMMA TrySendFacts ==
    ASSUME NEW rx \in Seq(Cmd), NEW cmd \in Cmd, Len(rx) <= DERP_QUEUE_LIMIT
    PROVE  /\ TrySend(rx, cmd) \in Seq(Cmd)
           /\ Len(TrySend(rx, cmd)) <= DERP_QUEUE_LIMIT
           /\ NoClose(rx) /\ cmd # "close" => NoClose(TrySend(rx, cmd))
BY DerpAssumption DEF TrySend, NoClose

\* Taking a command from a channel.
LEMMA TailFacts ==
    ASSUME NEW rx \in Seq(Cmd), rx # <<>>, Len(rx) <= DERP_QUEUE_LIMIT
    PROVE  /\ Head(rx) \in Cmd
           /\ Tail(rx) \in Seq(Cmd)
           /\ Len(Tail(rx)) <= DERP_QUEUE_LIMIT
           /\ NoClose(rx) => Head(rx) # "close" /\ NoClose(Tail(rx))
BY DerpAssumption DEF NoClose

-----------------------------------------------------------------------------
(* Handles *)

\* What a step on the handles and threads must keep.
Kept ==
    /\ derps' \in [Region -> Slot \cup {None}]
    /\ thread' \in [Slot -> ThreadRec]
    /\ \A t \in Slot : Len(thread'[t].rx) <= DERP_QUEUE_LIMIT
    /\ Served'
    /\ KeysFresh => KeysFresh'

\* derp_send and connect_home_derp: a command for a region's thread, or a new
\* thread for it.  No other region loses its handle.
LEMMA CommandStep ==
    ASSUME Inv, NEW r \in Region, NEW cmd \in {"send", "prefer"}, Command(r, cmd)
    PROVE  Kept /\ \A q \in Region : derps[q] # None => derps'[q] = derps[q]
<1>1. CASE Vacant(r) /\ UNCHANGED <<derps, thread>>
  BY <1>1 DEF Kept, Inv, TypeOK, Served, KeysFresh
<1>2. ASSUME Vacant(r), NEW t \in Slot, thread[t].pc = "done",
             derps' = [derps EXCEPT ![r] = t],
             thread' = [thread EXCEPT ![t] = [Spawned(r) EXCEPT !.rx = TrySend(@, cmd)]]
      PROVE  Kept /\ \A q \in Region : derps[q] # None => derps'[q] = derps[q]
  <2> DEFINE rec == [Spawned(r) EXCEPT !.rx = TrySend(@, cmd)]
  <2>1. /\ TrySend(<<>>, cmd) \in Seq(Cmd)
        /\ Len(TrySend(<<>>, cmd)) <= DERP_QUEUE_LIMIT
        /\ NoClose(TrySend(<<>>, cmd))
    <3>1. <<>> \in Seq(Cmd) /\ Len(<<>>) <= DERP_QUEUE_LIMIT /\ NoClose(<<>>)
      BY DerpAssumption DEF NoClose
    <3> QED
      BY ZenonT(30), <3>1, TrySendFacts DEF Cmd
  <2>2. /\ rec \in ThreadRec /\ rec.region = r /\ rec.pc = "connect"
        /\ rec.rx = TrySend(<<>>, cmd) /\ rec.stale_key = FALSE
    BY ZenonT(30), <2>1 DEF Spawned, Done, ThreadRec, Cmd
  <2> HIDE DEF rec
  <2>3. \A q \in Region : derps[q] # t
    BY <1>2, DerpAssumption DEF Inv, Served, TypeOK
  <2>4. /\ derps' \in [Region -> Slot \cup {None}]
        /\ thread' \in [Slot -> ThreadRec]
        /\ thread'[t] = rec
        /\ \A u \in Slot \ {t} : thread'[u] = thread[u]
        /\ derps'[r] = t
        /\ \A q \in Region \ {r} : derps'[q] = derps[q]
    BY <1>2, <2>2 DEF Inv, TypeOK, rec
  <2>5. \A u \in Slot : Len(thread'[u].rx) <= DERP_QUEUE_LIMIT
    BY <2>1, <2>2, <2>4 DEF Inv, TypeOK
  <2>6. Served'
    BY <2>1, <2>2, <2>3, <2>4 DEF Inv, TypeOK, Served
  <2>7. KeysFresh => KeysFresh'
    BY <2>2, <2>3, <2>4 DEF Inv, TypeOK, KeysFresh
  <2> QED
    BY <1>2, <2>4, <2>5, <2>6, <2>7 DEF Kept, Vacant
<1>3. CASE /\ ~Vacant(r) /\ derps' = derps
           /\ thread' = [thread EXCEPT ![derps[r]].rx = TrySend(@, cmd)]
  <2>1. derps[r] \in Slot
    BY <1>3 DEF Vacant, Inv, TypeOK
  <2>2. PICK t \in Slot : t = derps[r]
    BY <2>1
  <2>3. thread[t] \in ThreadRec /\ Len(thread[t].rx) <= DERP_QUEUE_LIMIT
    BY DEF Inv, TypeOK
  <2>4. /\ TrySend(thread[t].rx, cmd) \in Seq(Cmd)
        /\ Len(TrySend(thread[t].rx, cmd)) <= DERP_QUEUE_LIMIT
        /\ NoClose(thread[t].rx) => NoClose(TrySend(thread[t].rx, cmd))
    BY <2>3, TrySendFacts DEF ThreadRec, Cmd
  <2>5. /\ thread' = [thread EXCEPT ![t] = [thread[t] EXCEPT !.rx = TrySend(thread[t].rx, cmd)]]
    BY <1>3, <2>2
  <2>6. /\ thread' \in [Slot -> ThreadRec]
        /\ thread'[t].rx = TrySend(thread[t].rx, cmd)
        /\ thread'[t].region = thread[t].region
        /\ thread'[t].pc = thread[t].pc
        /\ thread'[t].stale_key = thread[t].stale_key
        /\ \A u \in Slot \ {t} : thread'[u] = thread[u]
    BY ZenonT(30), <2>3, <2>4, <2>5 DEF Inv, TypeOK, ThreadRec, Cmd
  <2>7. Served'
    <3> SUFFICES ASSUME NEW q \in Region, derps[q] # None
                 PROVE  /\ thread'[derps[q]].region = q
                        /\ thread'[derps[q]].pc \notin {"exit", "done"}
                        /\ NoClose(thread'[derps[q]].rx)
      BY <1>3 DEF Served
    <3>1. /\ derps[q] \in Slot
          /\ thread[derps[q]].region = q
          /\ thread[derps[q]].pc \notin {"exit", "done"}
          /\ NoClose(thread[derps[q]].rx)
      BY DEF Inv, TypeOK, Served
    <3>2. CASE derps[q] = t
      BY <3>1, <3>2, <2>4, <2>6
    <3>3. CASE derps[q] # t
      BY <3>1, <3>3, <2>6
    <3> QED
      BY <3>2, <3>3
  <2>8. KeysFresh => KeysFresh'
    BY <1>3, <2>6 DEF Inv, TypeOK, KeysFresh
  <2>9. \A u \in Slot : Len(thread'[u].rx) <= DERP_QUEUE_LIMIT
    BY <2>4, <2>6 DEF Inv, TypeOK
  <2> QED
    BY <1>3, <2>6, <2>7, <2>8, <2>9 DEF Kept, Inv, TypeOK
<1> QED
  BY <1>1, <1>2, <1>3 DEF Command

\* Handles taken out of the map: the others are untouched.
LEMMA ClosedStep ==
    ASSUME Inv, NEW gone \in SUBSET Region, Closed(gone)
    PROVE  /\ Kept
           /\ \A q \in Region \ gone : derps'[q] = derps[q]
           /\ \A q \in gone : derps'[q] = None
<1>1. \A q \in Region : derps'[q] = IF q \in gone THEN None ELSE derps[q]
  BY DEF Closed
<1>2. derps' \in [Region -> Slot \cup {None}]
  BY DEF Closed, Inv, TypeOK
<1>3. ASSUME NEW t \in Slot
      PROVE  /\ thread'[t] \in ThreadRec
             /\ Len(thread'[t].rx) <= DERP_QUEUE_LIMIT
             /\ thread'[t].stale_key = thread[t].stale_key
  <2>1. thread[t] \in ThreadRec /\ Len(thread[t].rx) <= DERP_QUEUE_LIMIT
    BY DEF Inv, TypeOK
  <2>2. /\ TrySend(thread[t].rx, "close") \in Seq(Cmd)
        /\ Len(TrySend(thread[t].rx, "close")) <= DERP_QUEUE_LIMIT
    BY <2>1, TrySendFacts DEF ThreadRec, Cmd
  <2>3. CASE thread'[t] = thread[t]
    BY <2>1, <2>3
  <2>4. CASE thread'[t] = [thread[t] EXCEPT !.rx = TrySend(thread[t].rx, "close")]
    BY <2>1, <2>2, <2>4 DEF ThreadRec, Cmd
  <2> QED
    BY <2>3, <2>4 DEF Closed
<1>4. thread' \in [Slot -> ThreadRec]
  BY <1>3 DEF Closed
<1>5. ASSUME NEW q \in Region \ gone, derps[q] # None
      PROVE  derps[q] \in Slot /\ thread'[derps[q]] = thread[derps[q]]
  <2>1. derps[q] \in Slot
    BY <1>5 DEF Inv, TypeOK
  <2>2. ~\E p \in gone : derps[p] = derps[q]
    BY <1>5 DEF Inv, Served
  <2> QED
    BY <2>1, <2>2 DEF Closed
<1>6. Served'
  BY <1>1, <1>5 DEF Inv, Served
<1>7. KeysFresh => KeysFresh'
  BY <1>1, <1>5 DEF KeysFresh
<1> QED
  BY <1>1, <1>2, <1>3, <1>4, <1>6, <1>7 DEF Kept

\* A step of derp_loop on its own thread: it stays with its region, does not
\* leave while its handle is in the map, and does not make a connection stale.
LEMMA ThreadOwnStep ==
    ASSUME Inv, NEW t \in Slot, NEW rec \in ThreadRec, Thread(t, rec),
           rec.region = thread[t].region,
           Len(rec.rx) <= DERP_QUEUE_LIMIT,
           rec.stale_key => thread[t].stale_key,
           Held(t) => rec.pc \notin {"exit", "done"} /\ NoClose(rec.rx)
    PROVE  Inv' /\ derps' = derps
<1>1. /\ thread' \in [Slot -> ThreadRec]
      /\ thread'[t] = rec
      /\ \A u \in Slot \ {t} : thread'[u] = thread[u]
      /\ derps' = derps /\ control' = control
      /\ UNCHANGED <<home_derp, derp_map, tick>>
  BY DEF Thread, Inv, TypeOK
<1>2. TypeOK'
  BY <1>1 DEF Inv, TypeOK
<1>3. Served'
  <2> SUFFICES ASSUME NEW q \in Region, derps[q] # None
               PROVE  /\ thread'[derps[q]].region = q
                      /\ thread'[derps[q]].pc \notin {"exit", "done"}
                      /\ NoClose(thread'[derps[q]].rx)
    BY <1>1 DEF Served
  <2>1. /\ derps[q] \in Slot
        /\ thread[derps[q]].region = q
        /\ thread[derps[q]].pc \notin {"exit", "done"}
        /\ NoClose(thread[derps[q]].rx)
    BY DEF Inv, TypeOK, Served
  <2>2. CASE derps[q] = t
    BY <1>1, <2>1, <2>2 DEF Held
  <2>3. CASE derps[q] # t
    BY <1>1, <2>1, <2>3
  <2> QED
    BY <2>2, <2>3
<1>4. KeyCurrent'
  BY <1>1 DEF Inv, TypeOK, KeyCurrent
<1> QED
  BY <1>1, <1>2, <1>3, <1>4 DEF Inv

\* A thread whose handle is in the map stays, and has no Close to come.
LEMMA HeldFacts ==
    ASSUME Inv, NEW t \in Slot
    PROVE  /\ thread[t] \in ThreadRec
           /\ thread[t].rx \in Seq(Cmd)
           /\ Len(thread[t].rx) <= DERP_QUEUE_LIMIT
           /\ Held(t) => NoClose(thread[t].rx) /\ thread[t].pc # "exit"
BY DerpAssumption DEF Inv, TypeOK, Served, Held, ThreadRec, Cmd

-----------------------------------------------------------------------------
(* One step                                                                *)

\* What HandleKept says of a step.
HandleStep ==
    \A r \in Region :
        derps[r] # None /\ derps'[r] # derps[r]
           => \/ control = "rotate" /\ control' = "idle"
              \/ tick.pc = "idle" /\ r # tick.home

\* Every step of a thread's own keeps the invariant, and no thread takes away
\* a handle.
LEMMA ThreadStepKeeps ==
    ASSUME Inv, NEW t \in Slot, ThreadStep(t) \/ LinkDies(t) \/ TimePasses(t)
    PROVE  Inv' /\ HandleStep
<1> DEFINE Ok(rec) == /\ rec \in ThreadRec
                      /\ rec.region = thread[t].region
                      /\ Len(rec.rx) <= DERP_QUEUE_LIMIT
                      /\ rec.stale_key => thread[t].stale_key
                      /\ Held(t) => rec.pc \notin {"exit", "done"} /\ NoClose(rec.rx)
<1>a. ASSUME NEW rec, Ok(rec), Thread(t, rec)
      PROVE  Inv' /\ HandleStep
  BY <1>a, ThreadOwnStep DEF HandleStep
<1>b. /\ thread[t] \in ThreadRec
      /\ thread[t].rx \in Seq(Cmd)
      /\ Len(thread[t].rx) <= DERP_QUEUE_LIMIT
      /\ Held(t) => NoClose(thread[t].rx) /\ thread[t].pc # "exit"
  BY HeldFacts
<1>c. ASSUME NEW pc \in {"connect", "dial", "backoff", "recv", "drain"}
      PROVE  Ok([thread[t] EXCEPT !.pc = pc])
  BY <1>b, <1>c DEF ThreadRec
<1>d. Ok(Broken(thread[t]))
  BY ZenonT(30), <1>b DEF ThreadRec, Broken
<1>e. ~Held(t) => Ok(Leaving(t))
  <2>1. <<>> \in Seq(Cmd) /\ Len(<<>>) <= DERP_QUEUE_LIMIT
    BY DerpAssumption
  <2>2. /\ Leaving(t) \in ThreadRec /\ Leaving(t).region = thread[t].region
        /\ Leaving(t).rx = <<>> /\ Leaving(t).stale_key = FALSE
    BY ZenonT(30), <1>b, <2>1 DEF Leaving, Done, ThreadRec, Cmd
  <2> QED
    BY <2>1, <2>2
<1>1. CASE ReadKey(t)
  BY ZenonT(30), <1>1, <1>a, <1>c DEF ReadKey
<1>2. CASE DialOk(t)
  BY ZenonT(30), <1>2, <1>a, <1>c DEF DialOk
<1>3. CASE DialFails(t)
  BY ZenonT(30), <1>3, <1>a, <1>c DEF DialFails
<1>4. CASE BackoffRecv(t)
  <2>1. /\ Head(thread[t].rx) \in Cmd
        /\ Tail(thread[t].rx) \in Seq(Cmd)
        /\ Len(Tail(thread[t].rx)) <= DERP_QUEUE_LIMIT
        /\ Held(t) => Head(thread[t].rx) # "close" /\ NoClose(Tail(thread[t].rx))
    BY <1>4, <1>b, TailFacts DEF BackoffRecv
  <2>2. CASE Head(thread[t].rx) = "close"
    BY <1>4, <1>a, <1>e, <2>1, <2>2 DEF BackoffRecv
  <2>3. CASE Head(thread[t].rx) # "close"
    <3> DEFINE rec == [thread[t] EXCEPT
                          !.rx = Tail(@),
                          !.preferred = @ \/ Head(thread[t].rx) = "prefer"]
    <3>1. (thread[t].preferred \/ Head(thread[t].rx) = "prefer") \in BOOLEAN
      BY <1>b DEF ThreadRec
    <3>2. thread[t].pc = "backoff" /\ Thread(t, rec)
      BY <1>4, <2>3 DEF BackoffRecv
    <3>3. Ok(rec)
      BY ZenonT(30), <1>b, <2>1, <3>1, <3>2 DEF ThreadRec, Cmd
    <3> QED
      BY ZenonT(30), <1>a, <3>2, <3>3
  <2> QED
    BY <2>2, <2>3
<1>5. CASE BackoffEnds(t)
  BY <1>5, <1>a, <1>e DEF BackoffEnds
<1>6. CASE BackoffOver(t)
  BY ZenonT(30), <1>6, <1>a, <1>c DEF BackoffOver
<1>7. CASE Recv(t)
  BY ZenonT(30), <1>7, <1>a, <1>c DEF Recv
<1>8. CASE RecvFails(t)
  BY <1>8, <1>a, <1>d DEF RecvFails
<1>9. CASE Drain(t)
  <2> DEFINE rest == [thread[t] EXCEPT !.rx = Tail(@)]
  <2>1. /\ Head(thread[t].rx) \in Cmd
        /\ Tail(thread[t].rx) \in Seq(Cmd)
        /\ Len(Tail(thread[t].rx)) <= DERP_QUEUE_LIMIT
        /\ Held(t) => Head(thread[t].rx) # "close" /\ NoClose(Tail(thread[t].rx))
    BY <1>9, <1>b, TailFacts DEF Drain
  <2>2. thread[t].pc = "drain"
    BY <1>9 DEF Drain
  <2>3. Ok(rest)
    BY ZenonT(30), <1>b, <2>1, <2>2 DEF ThreadRec, Cmd
  <2>4. Ok(Broken(rest))
    BY ZenonT(30), <1>b, <2>1, <2>2 DEF ThreadRec, Cmd, Broken
  <2>5. Ok([rest EXCEPT !.preferred = TRUE])
    BY ZenonT(30), <1>b, <2>1, <2>2 DEF ThreadRec, Cmd
  <2>6. CASE Thread(t, rest)
    BY ZenonT(30), <1>a, <2>3, <2>6
  <2>7. CASE Thread(t, Broken(rest))
    BY <1>a, <2>4, <2>7
  <2>8. CASE Thread(t, [rest EXCEPT !.preferred = TRUE])
    BY ZenonT(30), <1>a, <2>5, <2>8
  <2>9. CASE Head(thread[t].rx) = "close" /\ Thread(t, Leaving(t))
    BY <1>a, <1>e, <2>1, <2>9
  <2> QED
    BY <1>9, <2>6, <2>7, <2>8, <2>9 DEF Drain
<1>10. CASE DrainEnds(t)
  BY <1>10, <1>a, <1>e DEF DrainEnds
<1>11. CASE CheckPing(t)
  <2>1. Ok([thread[t] EXCEPT !.pc = "recv",
                             !.link = IF @ = "idle" THEN "pinged" ELSE @])
    BY ZenonT(30), <1>b DEF ThreadRec
  <2> QED
    BY ZenonT(30), <1>11, <1>a, <1>d, <2>1 DEF CheckPing
<1>12. CASE Exit(t)
  <2>1. ~Held(t)
    BY <1>12, <1>b DEF Exit
  <2>2. derps' = derps
    BY <1>12, <2>1 DEF Exit, Held, Inv, TypeOK
  <2>3. Done \in ThreadRec /\ Len(Done.rx) <= DERP_QUEUE_LIMIT
    BY DerpAssumption DEF Done, ThreadRec
  <2>4. /\ thread' \in [Slot -> ThreadRec]
        /\ \A u \in Slot : Len(thread'[u].rx) <= DERP_QUEUE_LIMIT
        /\ \A u \in Slot \ {t} : thread'[u] = thread[u]
    BY <1>12, <2>3 DEF Exit, Inv, TypeOK
  <2>5. \A q \in Region : derps[q] # None => derps[q] \in Slot \ {t}
    BY <2>1 DEF Held, Inv, TypeOK
  <2>6. TypeOK'
    BY <1>12, <2>2, <2>4 DEF Exit, Inv, TypeOK
  <2>7. Served'
    BY <2>2, <2>4, <2>5 DEF Inv, Served
  <2>8. KeyCurrent'
    BY <1>12, <2>2, <2>4, <2>5 DEF Exit, Inv, KeyCurrent
  <2> QED
    BY <2>2, <2>6, <2>7, <2>8 DEF Inv, HandleStep
<1>13. CASE LinkDies(t)
  <2>1. \A link \in {"silent", "pinged"} : Ok([thread[t] EXCEPT !.link = link])
    BY <1>13, <1>b DEF ThreadRec, LinkDies, Connected
  <2> QED
    BY ZenonT(30), <1>13, <1>a, <2>1 DEF LinkDies
<1>14. CASE TimePasses(t)
  <2>1. \A link \in {"idle", "overdue"} : Ok([thread[t] EXCEPT !.link = link])
    BY <1>14, <1>b DEF ThreadRec, TimePasses, Connected
  <2> QED
    BY ZenonT(30), <1>14, <1>a, <2>1 DEF TimePasses
<1> HIDE DEF Ok
<1> QED
  BY <1>1, <1>2, <1>3, <1>4, <1>5, <1>6, <1>7, <1>8, <1>9, <1>10, <1>11, <1>12,
     <1>13, <1>14 DEF ThreadStep

\* Every step keeps the invariant and takes handles away only as HandleKept says.
LEMMA NextKeeps ==
    ASSUME Inv, Next
    PROVE  Inv' /\ HandleStep
<1>a. KeysFresh \/ control = "rotate"
  BY DEF Inv, KeyCurrent, KeysFresh
<1>1. ASSUME NEW r \in Region, DerpSend(r)
      PROVE  Inv' /\ HandleStep
  <2>1. /\ Kept /\ \A q \in Region : derps[q] # None => derps'[q] = derps[q]
        /\ UNCHANGED <<home_derp, derp_map, tick, control>>
    BY <1>1, CommandStep DEF DerpSend
  <2> QED
    BY <1>a, <2>1 DEF Kept, Inv, TypeOK, KeyCurrent, KeysFresh, HandleStep
<1>2. ASSUME NEW r \in Region, ChooseHome(r)
      PROVE  Inv' /\ HandleStep
  BY <1>2, DerpAssumption
     DEF ChooseHome, Inv, TypeOK, Served, KeyCurrent, HandleStep
<1>3. ASSUME NEW m \in SUBSET Region, SetDerpMap(m)
      PROVE  Inv' /\ HandleStep
  BY <1>3 DEF SetDerpMap, Inv, TypeOK, Served, KeyCurrent, HandleStep
<1>4. CASE ControlConnects
  <2>1. home_derp \in Region
    BY <1>4 DEF ControlConnects, Inv, TypeOK
  <2>2. /\ Kept /\ \A q \in Region : derps[q] # None => derps'[q] = derps[q]
        /\ control = "connect" /\ control' = "idle"
        /\ UNCHANGED <<home_derp, derp_map, tick>>
    BY <1>4, <2>1, CommandStep DEF ControlConnects
  <2> QED
    BY <1>a, <2>2 DEF Kept, Inv, TypeOK, KeyCurrent, KeysFresh, HandleStep
<1>5. CASE RotateKey
  <2>1. \A t \in Slot : Connected(t) \in BOOLEAN /\ thread[t] \in ThreadRec
    BY DEF Connected, Inv, TypeOK
  <2>2. ASSUME NEW t \in Slot
        PROVE  /\ thread'[t] \in ThreadRec /\ thread'[t].rx = thread[t].rx
               /\ thread'[t].region = thread[t].region
               /\ thread'[t].pc = thread[t].pc
    BY <1>5, <2>1, <2>2 DEF RotateKey, ThreadRec
  <2>3. /\ thread' \in [Slot -> ThreadRec]
        /\ control' = "rotate" /\ derps' = derps
        /\ UNCHANGED <<home_derp, derp_map, tick>>
    BY SMTT(30), <1>5, <2>2 DEF RotateKey
  <2>4. TypeOK'
    BY <2>2, <2>3 DEF Inv, TypeOK
  <2>5. Served'
    BY <2>2, <2>3 DEF Inv, TypeOK, Served
  <2> QED
    BY <2>3, <2>4, <2>5 DEF Inv, KeyCurrent, HandleStep
<1>6. CASE CloseAll
  <2>1. /\ Kept /\ \A q \in Region : derps'[q] = None
        /\ control = "rotate" /\ control' = "idle"
        /\ UNCHANGED <<home_derp, derp_map, tick>>
    BY <1>6, ClosedStep DEF CloseAll
  <2> QED
    BY <2>1 DEF Kept, Inv, TypeOK, KeyCurrent, HandleStep
<1>7. CASE TickCheck
  BY <1>7 DEF TickCheck, Inv, TypeOK, Served, KeyCurrent, HandleStep
<1>8. CASE TickConnects
  <2>1. tick.home \in Region
    BY <1>8 DEF TickConnects, Inv, TypeOK
  <2>2. /\ Kept /\ \A q \in Region : derps[q] # None => derps'[q] = derps[q]
        /\ tick' = [tick EXCEPT !.pc = "idle"]
        /\ UNCHANGED <<home_derp, derp_map, control>>
    BY <1>8, <2>1, CommandStep DEF TickConnects
  <2> QED
    BY <1>a, <2>2 DEF Kept, Inv, TypeOK, KeyCurrent, KeysFresh, HandleStep
<1>9. CASE TickCloseIdle
  <2>1. PICK idle \in SUBSET (Region \ {tick.home}) : Closed(idle)
    BY <1>9 DEF TickCloseIdle
  <2>2. /\ Kept /\ \A q \in Region \ idle : derps'[q] = derps[q]
        /\ tick.pc = "idle" /\ tick' = [pc |-> "sleep", home |-> None]
        /\ UNCHANGED <<home_derp, derp_map, control>>
    BY <1>9, <2>1, ClosedStep DEF TickCloseIdle
  <2> QED
    BY <1>a, <2>1, <2>2 DEF Kept, Inv, TypeOK, KeyCurrent, KeysFresh, HandleStep
<1>10. ASSUME NEW t \in Slot, ThreadStep(t) \/ LinkDies(t) \/ TimePasses(t)
       PROVE  Inv' /\ HandleStep
  BY <1>10, ThreadStepKeeps
<1> QED
  BY <1>1, <1>2, <1>3, <1>4, <1>5, <1>6, <1>7, <1>8, <1>9, <1>10
     DEF Next, ControlStep, TickStep

\* The invariant holds at the start.
LEMMA InitInv == Init => Inv
BY DerpAssumption
   DEF Init, Inv, TypeOK, Served, KeyCurrent, Done, ThreadRec

-----------------------------------------------------------------------------
(* The theorems *)

\* The inductive invariant.
THEOREM InvHolds == Spec => []Inv
<1>1. Inv /\ UNCHANGED vars => Inv'
  BY DEF Inv, TypeOK, Served, KeyCurrent, vars
<1>2. Inv /\ [Next]_vars => Inv'
  BY <1>1, NextKeeps
<1> QED
  BY <1>2, InitInv, PTL DEF Spec

\* derp_send never feeds a channel nobody reads: a handle in the map is that of
\* a thread of its region that is not on its way out.
THEOREM HandlesAreServed == Spec => []HandleServed
<1>1. Inv => HandleServed
  BY DEF Inv, Served, HandleServed
<1> QED
  BY <1>1, InvHolds, PTL

\* set_node_key leaves no connection of the old key in the map.
THEOREM KeysAreCurrent == Spec => []KeyCurrent
<1>1. Inv => KeyCurrent
  BY DEF Inv
<1> QED
  BY <1>1, InvHolds, PTL

\* Only set_node_key and the round over the idle connections take a handle out
\* of the map: no thread that ends removes its successor's.
THEOREM HandlesAreKept == Spec => HandleKept
<1>1. Inv /\ [Next]_vars => [HandleStep]_vars
  BY NextKeeps
<1>2. Spec => [][HandleStep]_vars
  BY <1>1, InvHolds, PTL DEF Spec
<1> QED
  BY <1>2 DEF HandleKept, HandleStep

-----------------------------------------------------------------------------
(* Direct paths: the inductive invariant *)

PathTypes ==
    /\ up \in [Node -> SUBSET Path] /\ best \in [Node -> Path \cup {NoPath}]
    /\ trust \in [Node -> Nat] /\ dead \in [Node -> [Path -> Nat]]
    /\ endpoints \in [Node -> SUBSET Path]

Alive == \A n \in Node : \A i \in up[n] : dead[n][i] = 0

\* A message was sent within this second: the path worked then, and the address
\* a tunnel packet or a pong speaks for has not been dead for as long as its
\* sender would have gone on trusting it.
Recent(m) ==
    /\ m \in Message
    /\ m.typ \in {"ping", "pong"} => m.path \in Path /\ m.about = m.path
    /\ m.path # Relay => dead[Peer(m.to)][m.path] = 0
    /\ m.path # Relay /\ m.typ # "ping" => dead[m.to][m.path] < TRUST_UDP_ADDR

\* The trust left and the time a path has been dead add up.  Towards the node
\* itself: it got its trust from a message that arrived, so the path was alive
\* then.  Away from it: the message's sender had at most TRUST_UDP_ADDR of trust
\* left from the last one it heard.
Hears ==
    \A n \in Node, i \in Path :
      Trusted(n) /\ best[n] = i =>
         /\ trust[n] + dead[Peer(n)][i] <= TRUST_UDP_ADDR
         /\ trust[n] + dead[n][i] < 2 * TRUST_UDP_ADDR

PathInv == PathTypes /\ Alive /\ (\A m \in net : Recent(m)) /\ Hears

-----------------------------------------------------------------------------

LEMMA Peers ==
    ASSUME NEW n \in Node
    PROVE  Peer(n) \in Node /\ Peer(n) # n /\ Peer(Peer(n)) = n
<1>1. PICK a \in Node, b \in Node : a # b /\ Node = {a, b}
  BY PathsAssumption
<1>2. \A x \in Node : Peer(x) \in Node /\ Peer(x) # x
  BY <1>1 DEF Peer
<1> QED BY <1>1, <1>2

\* What a node sends, and does not lose, is recent.
LEMMA SentIsRecent ==
    ASSUME PathInv, NEW n \in Node,
           NEW typ \in {"data", "keepalive", "initiation", "response", "ping", "pong", "cmm"},
           NEW i \in Path \cup {Relay}, i = Relay \/ i \in up[n],
           NEW about \in Path \cup {NoPath},
           typ \in {"ping", "pong"} => i \in Path /\ about = i,
           i # Relay /\ typ # "ping" => dead[Peer(n)][i] < TRUST_UDP_ADDR
    PROVE  Recent(Msg(typ, n, i, about))
<1> DEFINE m == Msg(typ, n, i, about)
<1>1. m.typ = typ /\ m.to = Peer(n) /\ m.path = i /\ m.about = about
  BY DEF Msg
<1>2. m \in Message
  BY Peers DEF Msg, Message
<1>3. i # Relay => dead[n][i] = 0
  BY DEF PathInv, Alive
<1>4. Peer(m.to) = n
  BY <1>1, Peers
<1> HIDE DEF m
<1>5. Recent(m)
  BY <1>1, <1>2, <1>3, <1>4 DEF Recent
<1> QED BY <1>5 DEF m

LEMMA WgIsRecent ==
    ASSUME PathInv, NEW n \in Node, NEW typ \in {"data", "keepalive", "initiation"},
           Wg(n, typ).path = Relay \/ Wg(n, typ).path \in up[n]
    PROVE  Recent(Wg(n, typ))
<1> DEFINE i == IF Trusted(n) THEN best[n] ELSE Relay
<1>1. Wg(n, typ) = Msg(typ, n, i, NoPath) /\ Wg(n, typ).path = i
  BY DEF Wg, Msg
<1>2. i \in Path \cup {Relay}
  BY DEF Trusted, PathInv, PathTypes
<1>3. ASSUME i # Relay PROVE dead[Peer(n)][i] < TRUST_UDP_ADDR
  <2>1. Trusted(n) /\ best[n] = i /\ i \in Path
    BY <1>2, <1>3
  <2>2. trust[n] + dead[Peer(n)][i] <= TRUST_UDP_ADDR
    BY <2>1 DEF PathInv, Hears
  <2> HIDE DEF i
  <2>3. trust[n] \in Nat /\ trust[n] > 0 /\ TRUST_UDP_ADDR \in Nat
    BY <2>1, PathsAssumption DEF PathInv, PathTypes, Trusted
  <2>4. dead[Peer(n)][i] \in Nat
    BY <2>1, Peers DEF PathInv, PathTypes
  <2> QED BY <2>2, <2>3, <2>4
<1> HIDE DEF i
<1> QED BY <1>1, <1>2, <1>3, SentIsRecent

LEMMA PingIsRecent ==
    ASSUME PathInv, NEW n \in Node, NEW i \in Path,
           Ping(n, i).path = Relay \/ Ping(n, i).path \in up[n]
    PROVE  Recent(Ping(n, i))
<1>1. Ping(n, i) = Msg("ping", n, i, i) /\ Ping(n, i).path = i
  BY DEF Ping, Msg
<1>2. Recent(Msg("ping", n, i, i))
  BY <1>1, SentIsRecent
<1> QED BY <1>1, <1>2

LEMMA DiscoveryIsRecent ==
    ASSUME PathInv, NEW n \in Node, NEW m \in Sent(n, Discovery(n))
    PROVE  Recent(m)
<1>1. m \in Discovery(n) /\ (m.path = Relay \/ m.path \in up[n])
  BY DEF Sent
<1>2. CASE \E i \in endpoints[n] : m = Ping(n, i)
  <2>1. PICK i \in Path : m = Ping(n, i)
    BY <1>2 DEF PathInv, PathTypes
  <2> QED BY <1>1, <2>1, PingIsRecent
<1>3. CASE m = Msg("cmm", n, Relay, NoPath)
  BY <1>3, SentIsRecent
<1> QED BY ZenonT(30), <1>1, <1>2, <1>3 DEF Discovery

\* Within a second a step of a node sends recent messages and takes others away.
LEMMA NodeStep ==
    ASSUME PathInv, UNCHANGED linkVars, PathTypes', Hears',
           \A m \in net' : m \in net \/ Recent(m)
    PROVE  PathInv'
<1>1. Alive'
  BY DEF PathInv, Alive, linkVars
<1>2. ASSUME NEW m \in net' PROVE Recent(m)'
  <2>1. Recent(m)
    BY DEF PathInv
  <2> QED BY ZenonT(30), <2>1 DEF Recent, linkVars
<1> QED BY <1>1, <1>2 DEF PathInv

\* What a node heard within this second is proof that the path works.
LEMMA HeardFrom ==
    ASSUME PathInv, NEW m \in net, m.path # Relay, m.typ # "ping"
    PROVE  /\ m.to \in Node /\ m.path \in Path
           /\ dead[Peer(m.to)][m.path] = 0 /\ dead[m.to][m.path] < TRUST_UDP_ADDR
  BY DEF PathInv, Recent, Message

\* It may trust it for the full time.
LEMMA TrustGiven ==
    ASSUME PathInv, NEW n \in Node, NEW i \in Path, UNCHANGED linkVars,
           dead[Peer(n)][i] = 0, dead[n][i] < TRUST_UDP_ADDR,
           best' = [best EXCEPT ![n] = i], trust' = [trust EXCEPT ![n] = TRUST_UDP_ADDR]
    PROVE  Hears' /\ best' \in [Node -> Path \cup {NoPath}] /\ trust' \in [Node -> Nat]
<1>0. TRUST_UDP_ADDR \in Nat /\ dead[n][i] \in Nat
  BY PathsAssumption DEF PathInv, PathTypes
<1>1. best' \in [Node -> Path \cup {NoPath}] /\ trust' \in [Node -> Nat]
  BY <1>0 DEF PathInv, PathTypes
<1>2. ASSUME NEW k \in Node, NEW j \in Path, Trusted(k)', best'[k] = j
      PROVE  /\ trust'[k] + dead'[Peer(k)][j] <= TRUST_UDP_ADDR
             /\ trust'[k] + dead'[k][j] < 2 * TRUST_UDP_ADDR
  <2>1. CASE k = n
    <3>1. j = i /\ trust'[k] = TRUST_UDP_ADDR /\ dead' = dead
      BY <1>2, <2>1 DEF PathInv, PathTypes, linkVars
    <3> QED BY <1>0, <2>1, <3>1
  <2>2. CASE k # n
    <3>1. best'[k] = best[k] /\ trust'[k] = trust[k] /\ dead' = dead
      BY <2>2 DEF PathInv, PathTypes, linkVars
    <3> QED BY <1>2, <3>1 DEF PathInv, Hears, Trusted
  <2> QED BY <2>1, <2>2
<1> QED BY <1>1, <1>2 DEF Hears

-----------------------------------------------------------------------------
(* Direct paths: one lemma per action *)

LEMMA SendIpKeeps ==
    ASSUME PathInv, NEW n \in Node, SendIp(n)
    PROVE  PathInv'
<1>1. UNCHANGED linkVars /\ UNCHANGED bestVars /\ UNCHANGED endpoints
  BY DEF SendIp
<1>2. net' = net \cup Sent(n, {Wg(n, "data")} \cup Discovery(n))
  BY DEF SendIp
<1>3. ASSUME NEW m \in net' PROVE m \in net \/ Recent(m)
  <2>1. \/ m \in net \/ m \in Sent(n, Discovery(n))
        \/ m = Wg(n, "data") /\ (m.path = Relay \/ m.path \in up[n])
    BY <1>2 DEF Sent
  <2> QED BY <2>1, DiscoveryIsRecent, WgIsRecent
<1>4. PathTypes'
  BY <1>1 DEF PathInv, PathTypes, linkVars, bestVars
<1>5. Hears'
  BY ZenonT(30), <1>1 DEF PathInv, Hears, Trusted, linkVars, bestVars
<1> QED BY <1>1, <1>3, <1>4, <1>5, NodeStep

LEMMA HandleTunnelKeeps ==
    ASSUME PathInv, NEW m \in net, UNCHANGED linkVars, HandleTunnel(m.to, m),
           m.typ \in {"data", "keepalive", "initiation", "response"}
    PROVE  PathInv'
<1> DEFINE n == m.to
           i == m.path
<1>1. n \in Node /\ i \in Path \cup {Relay}
  BY DEF PathInv, Recent, Message
<1>2. endpoints' = endpoints /\ NotePath(n, i)
      /\ net' = (net \ {m}) \cup
                  Sent(n, IF m.typ = "initiation"
                            THEN {Msg("response", n, i, NoPath)} ELSE {})
  BY DEF HandleTunnel
<1>3. i # Relay => i \in Path /\ dead[Peer(n)][i] = 0 /\ dead[n][i] < TRUST_UDP_ADDR
  BY HeardFrom
<1>4. TRUST_UDP_ADDR \in Nat /\ 0 < TRUST_UDP_ADDR
  BY PathsAssumption
<1> HIDE DEF n, i
<1>5. ASSUME NEW k \in net' PROVE k \in net \/ Recent(k)
  <2>1. \/ k \in net
        \/ k = Msg("response", n, i, NoPath) /\ (k.path = Relay \/ k.path \in up[n])
    BY SMTT(30), <1>2 DEF Sent
  <2>2. Msg("response", n, i, NoPath).path = i
    BY DEF Msg
  <2>3. i # Relay => dead[Peer(n)][i] < TRUST_UDP_ADDR
    BY <1>3, <1>4
  <2> QED BY SMTT(30), <1>1, <2>1, <2>2, <2>3, SentIsRecent
<1>6. Hears' /\ best' \in [Node -> Path \cup {NoPath}] /\ trust' \in [Node -> Nat]
  <2>1. CASE UNCHANGED bestVars
    <3>1. best' = best /\ trust' = trust /\ dead' = dead
      BY <2>1 DEF bestVars, linkVars
    <3>2. Hears'
      BY ZenonT(30), <3>1 DEF PathInv, Hears, Trusted
    <3> QED BY <3>1, <3>2 DEF PathInv, PathTypes
  <2>2. CASE ~(UNCHANGED bestVars)
    <3>1. /\ i # Relay /\ best' = [best EXCEPT ![n] = i]
          /\ trust' = [trust EXCEPT ![n] = TRUST_UDP_ADDR]
      BY ZenonT(30), <1>2, <2>2 DEF NotePath
    <3> QED BY ZenonT(30), <1>1, <1>3, <3>1, TrustGiven
  <2> QED BY <2>1, <2>2
<1>7. PathTypes'
  BY <1>2, <1>6 DEF PathInv, PathTypes, linkVars
<1> QED BY <1>5, <1>6, <1>7, NodeStep

LEMMA HandlePingKeeps ==
    ASSUME PathInv, NEW m \in net, UNCHANGED linkVars, HandlePing(m.to, m), m.typ = "ping"
    PROVE  PathInv'
<1> DEFINE n == m.to
           i == m.path
<1>1. n \in Node /\ i \in Path /\ m.about = i /\ i # Relay /\ dead[Peer(n)][i] = 0
  BY PathsAssumption DEF PathInv, Recent, Message
<1>2. endpoints' = endpoints /\ UNCHANGED bestVars
  BY DEF HandlePing
<1>3. \A k \in net' : \/ k \in net
                      \/ /\ k.path = Relay \/ k.path \in up[n]
                         /\ k = Msg("pong", n, i, m.about) \/ k = Ping(n, i)
  BY DEF HandlePing, Sent
<1>4. dead[Peer(n)][i] < TRUST_UDP_ADDR
  BY <1>1, PathsAssumption
<1> HIDE DEF n, i
<1>5. ASSUME NEW k \in net' PROVE k \in net \/ Recent(k)
  <2>1. CASE k \in net
    BY <2>1
  <2>2. CASE k = Msg("pong", n, i, i) /\ (k.path = Relay \/ k.path \in up[n])
    <3>1. k.path = i
      BY <2>2 DEF Msg
    <3> QED BY <1>1, <1>4, <2>2, <3>1, SentIsRecent
  <2>3. CASE k = Ping(n, i) /\ (k.path = Relay \/ k.path \in up[n])
    BY <1>1, <2>3, PingIsRecent
  <2> QED BY ZenonT(30), <1>1, <1>3, <2>1, <2>2, <2>3
<1>6. PathTypes'
  BY <1>2 DEF PathInv, PathTypes, linkVars, bestVars
<1>7. Hears'
  BY ZenonT(30), <1>2 DEF PathInv, Hears, Trusted, linkVars, bestVars
<1> QED BY <1>5, <1>6, <1>7, NodeStep

LEMMA HandlePongKeeps ==
    ASSUME PathInv, NEW m \in net, UNCHANGED linkVars, HandlePong(m.to, m), m.typ = "pong"
    PROVE  PathInv'
<1> DEFINE n == m.to
           i == m.path
<1>1. n \in Node /\ i \in Path /\ m.about = i /\ i # Relay
  BY PathsAssumption DEF PathInv, Recent, Message
<1>2. dead[Peer(n)][i] = 0 /\ dead[n][i] < TRUST_UDP_ADDR
  BY <1>1, HeardFrom
<1>3. endpoints' = endpoints /\ net' \subseteq net
  BY DEF HandlePong
<1>4. /\ best' = [best EXCEPT ![n] = IF Better(n, i) THEN i ELSE best[n]]
      /\ trust' = [trust EXCEPT ![n] = IF Better(n, i) THEN TRUST_UDP_ADDR ELSE trust[n]]
  BY ZenonT(30), <1>1 DEF HandlePong
<1> HIDE DEF n, i
<1>5. Hears' /\ best' \in [Node -> Path \cup {NoPath}] /\ trust' \in [Node -> Nat]
  <2>1. CASE Better(n, i)
    <3>1. best' = [best EXCEPT ![n] = i] /\ trust' = [trust EXCEPT ![n] = TRUST_UDP_ADDR]
      BY ZenonT(30), <1>4, <2>1
    <3> QED BY ZenonT(30), <1>1, <1>2, <3>1, TrustGiven
  <2>2. CASE ~Better(n, i)
    <3>1. best' = best /\ trust' = trust /\ dead' = dead
      BY <1>4, <2>2 DEF PathInv, PathTypes, linkVars
    <3>2. Hears'
      BY ZenonT(30), <3>1 DEF PathInv, Hears, Trusted
    <3> QED BY <3>1, <3>2 DEF PathInv, PathTypes
  <2> QED BY <2>1, <2>2
<1>6. PathTypes'
  BY <1>3, <1>5 DEF PathInv, PathTypes, linkVars
<1> QED BY <1>3, <1>5, <1>6, NodeStep

LEMMA HandleCallMeMaybeKeeps ==
    ASSUME PathInv, NEW m \in net, UNCHANGED linkVars, HandleCallMeMaybe(m.to, m)
    PROVE  PathInv'
<1> DEFINE n == m.to
           all == endpoints[n] \cup Mapped
<1>1. n \in Node
  BY DEF PathInv, Recent, Message
<1>2. all \subseteq Path
  BY ZenonT(30), <1>1, PathsAssumption DEF PathInv, PathTypes
<1>3. /\ endpoints' = [endpoints EXCEPT ![n] = all] /\ UNCHANGED bestVars
      /\ net' = (net \ {m}) \cup Sent(n, {Ping(n, i) : i \in all})
  BY DEF HandleCallMeMaybe
<1> HIDE DEF n, all
<1>4. ASSUME NEW k \in net' PROVE k \in net \/ Recent(k)
  <2>1. CASE k \in net
    BY <2>1
  <2>2. CASE k \notin net
    <3>1. k \in {Ping(n, i) : i \in all} /\ (k.path = Relay \/ k.path \in up[n])
      BY <1>3, <2>2 DEF Sent
    <3>2. PICK i \in Path : k = Ping(n, i)
      BY <1>2, <3>1
    <3> QED BY <1>1, <3>1, <3>2, PingIsRecent
  <2> QED BY <2>1, <2>2
<1>5. PathTypes'
  BY <1>1, <1>2, <1>3 DEF PathInv, PathTypes, linkVars, bestVars
<1>6. Hears'
  BY ZenonT(30), <1>3 DEF PathInv, Hears, Trusted, linkVars, bestVars
<1> QED BY <1>4, <1>5, <1>6, NodeStep

LEMMA TickLoopKeeps ==
    ASSUME PathInv, NEW n \in Node, NEW out \in Outs, TickLoop(n, out)
    PROVE  PathInv'
<1> DEFINE kept == IF Active(n) /\ ~Trusted(n) THEN NoPath ELSE best[n]
<1>1. UNCHANGED linkVars /\ trust' = trust /\ endpoints' = endpoints
      /\ best' = [best EXCEPT ![n] = kept]
  BY DEF TickLoop
<1>2. \A m \in net' : \/ m \in net
                      \/ /\ m.path = Relay \/ m.path \in up[n]
                         /\ \/ \E typ \in out : m = Wg(n, typ)
                            \/ m = Ping(n, kept) /\ kept # NoPath
                            \/ m \in Discovery(n)
  BY DEF TickLoop, Sent
<1>3. kept \in {best[n], NoPath}
  OBVIOUS
<1> HIDE DEF kept
<1>4. ASSUME NEW m \in net' PROVE m \in net \/ Recent(m)
  <2>1. CASE m \in net
    BY <2>1
  <2>2. CASE (m.path = Relay \/ m.path \in up[n]) /\ \E typ \in out : m = Wg(n, typ)
    <3>1. PICK typ \in {"data", "keepalive", "initiation"} : m = Wg(n, typ)
      BY SMTT(30), <2>2 DEF Outs
    <3> QED BY SMTT(30), <2>2, <3>1, WgIsRecent
  <2>3. CASE (m.path = Relay \/ m.path \in up[n]) /\ m = Ping(n, kept) /\ kept # NoPath
    <3>1. kept \in Path
      BY <1>3, <2>3 DEF PathInv, PathTypes
    <3> QED BY <2>3, <3>1, PingIsRecent
  <2>4. CASE (m.path = Relay \/ m.path \in up[n]) /\ m \in Discovery(n)
    BY <2>4, DiscoveryIsRecent DEF Sent
  <2> QED BY <1>2, <2>1, <2>2, <2>3, <2>4
<1>5. PathTypes'
  BY <1>1, <1>3 DEF PathInv, PathTypes, linkVars
<1>6. ASSUME NEW k \in Node, NEW i \in Path, Trusted(k)', best'[k] = i
      PROVE  Trusted(k) /\ best[k] = i
  <2>1. best'[k] \in {best[k], NoPath}
    BY <1>1, <1>3 DEF PathInv, PathTypes
  <2>2. best'[k] # NoPath
    BY <1>6, PathsAssumption
  <2> QED BY <1>1, <1>6, <2>1, <2>2 DEF Trusted
<1>7. Hears'
  <2>1. dead' = dead /\ trust' = trust
    BY ZenonT(30), <1>1 DEF linkVars
  <2> QED BY ZenonT(30), <1>6, <2>1 DEF PathInv, Hears
<1> QED BY SMTT(30), <1>1, <1>4, <1>5, <1>7, NodeStep

\* A path that dies was alive until now, and one that comes back is.
LEMMA LinkChangesKeeps ==
    ASSUME PathInv, NEW n \in Node, NEW i \in Path, LinkChanges(n, i)
    PROVE  PathInv'
<1>1. /\ up' = [up EXCEPT ![n] = IF i \in up[n] THEN up[n] \ {i} ELSE up[n] \cup {i}]
      /\ dead' = [dead EXCEPT ![n][i] = 0]
      /\ best' = best /\ trust' = trust /\ endpoints' = endpoints /\ net' = net
  BY DEF LinkChanges, bestVars
<1>2. PathTypes'
  BY <1>1 DEF PathInv, PathTypes
<1>3. \A k \in Node, j \in Path :
        dead'[k][j] \in Nat /\ dead[k][j] \in Nat /\ dead'[k][j] <= dead[k][j]
  BY <1>1 DEF PathInv, PathTypes
<1>4. Alive'
  <2>1. SUFFICES ASSUME NEW k \in Node, NEW j \in up'[k] PROVE dead'[k][j] = 0
    BY DEF Alive
  <2>2. j \in Path /\ (j \in up[k] \/ (k = n /\ j = i))
    BY <1>1, <2>1 DEF PathInv, PathTypes
  <2>3. j \in up[k] => dead[k][j] = 0
    BY DEF PathInv, Alive
  <2>4. k = n /\ j = i => dead'[k][j] = 0
    BY <1>1 DEF PathInv, PathTypes
  <2> QED BY <1>3, <2>2, <2>3, <2>4
<1>5. ASSUME NEW m \in net' PROVE Recent(m)'
  <2>1. Recent(m) /\ m.to \in Node /\ Peer(m.to) \in Node /\ (m.path # Relay => m.path \in Path)
    BY <1>1, Peers DEF PathInv, Recent, Message
  <2>2. TRUST_UDP_ADDR \in Nat
    BY PathsAssumption
  <2>3. m.path # Relay => dead'[Peer(m.to)][m.path] = 0
    BY SMTT(30), <1>3, <2>1 DEF Recent
  <2>4. m.path # Relay /\ m.typ # "ping" => dead'[m.to][m.path] < TRUST_UDP_ADDR
    BY SMTT(30), <1>3, <2>1, <2>2 DEF Recent
  <2> QED BY ZenonT(30), <2>1, <2>3, <2>4 DEF Recent
<1>6. ASSUME NEW k \in Node, NEW j \in Path, Trusted(k)', best'[k] = j
      PROVE  /\ trust'[k] + dead'[Peer(k)][j] <= TRUST_UDP_ADDR
             /\ trust'[k] + dead'[k][j] < 2 * TRUST_UDP_ADDR
  <2>1. /\ trust[k] + dead[Peer(k)][j] <= TRUST_UDP_ADDR
        /\ trust[k] + dead[k][j] < 2 * TRUST_UDP_ADDR
    BY <1>1, <1>6 DEF PathInv, Hears, Trusted
  <2>2. Peer(k) \in Node /\ TRUST_UDP_ADDR \in Nat /\ trust[k] \in Nat /\ trust'[k] = trust[k]
    BY <1>1, Peers, PathsAssumption DEF PathInv, PathTypes
  <2> QED BY <1>3, <2>1, <2>2
<1> QED BY <1>2, <1>4, <1>5, <1>6 DEF PathInv, Hears

LEMMA TickKeeps ==
    ASSUME PathInv, Tick
    PROVE  PathInv'
<1>1. /\ net' = {} /\ up' = up /\ best' = best /\ endpoints' = endpoints
      /\ trust' = [n \in Node |-> IF trust[n] > 0 THEN trust[n] - 1 ELSE 0]
      /\ dead' = [n \in Node |-> [i \in Path |->
                    IF i \in up[n] THEN 0 ELSE Min({dead[n][i] + 1, Blackout + 1})]]
  BY DEF Tick, Down
<1>2. TRUST_UDP_ADDR \in Nat /\ Blackout + 1 \in Nat
  BY PathsAssumption DEF Blackout
<1>3. \A a, b \in Nat : Min({a, b}) \in Nat /\ Min({a, b}) <= a
  BY DEF Min
<1>4. \A k \in Node, j \in Path :
        dead'[k][j] \in Nat /\ dead[k][j] \in Nat /\ dead'[k][j] <= dead[k][j] + 1
  <2> SUFFICES ASSUME NEW k \in Node, NEW j \in Path
               PROVE  dead'[k][j] \in Nat /\ dead[k][j] \in Nat /\ dead'[k][j] <= dead[k][j] + 1
    OBVIOUS
  <2>1. dead[k][j] \in Nat
    BY DEF PathInv, PathTypes
  <2>2. dead'[k][j] = IF j \in up[k] THEN 0 ELSE Min({dead[k][j] + 1, Blackout + 1})
    BY <1>1
  <2> QED BY <1>2, <1>3, <2>1, <2>2
<1>5. trust' \in [Node -> Nat]
      /\ \A k \in Node : /\ trust[k] \in Nat
                         /\ trust'[k] > 0 => trust'[k] = trust[k] - 1 /\ trust[k] > 0
  BY <1>1 DEF PathInv, PathTypes
<1>6. PathTypes'
  <2>1. dead' \in [Node -> [Path -> Nat]]
    <3>1. \A k \in Node : dead'[k] \in [Path -> Nat]
      <4> SUFFICES ASSUME NEW k \in Node PROVE dead'[k] \in [Path -> Nat]
        OBVIOUS
      <4>1. dead'[k] = [i \in Path |-> IF i \in up[k]
                                        THEN 0 ELSE Min({dead[k][i] + 1, Blackout + 1})]
        BY <1>1
      <4> QED BY <1>4, <4>1
    <3> QED BY <1>1, <3>1
  <2> QED BY ZenonT(30), <1>1, <1>5, <2>1 DEF PathInv, PathTypes
<1>7. Alive'
  BY <1>1 DEF PathInv, PathTypes, Alive
<1>8. ASSUME NEW k \in Node, NEW j \in Path, Trusted(k)', best'[k] = j
      PROVE  /\ trust'[k] + dead'[Peer(k)][j] <= TRUST_UDP_ADDR
             /\ trust'[k] + dead'[k][j] < 2 * TRUST_UDP_ADDR
  <2>1. trust'[k] > 0 /\ best[k] # NoPath /\ best[k] = j
    BY <1>1, <1>8 DEF Trusted
  <2>2. trust[k] \in Nat /\ trust'[k] = trust[k] - 1 /\ trust[k] > 0
    BY <1>5, <2>1
  <2>3. /\ trust[k] + dead[Peer(k)][j] <= TRUST_UDP_ADDR
        /\ trust[k] + dead[k][j] < 2 * TRUST_UDP_ADDR
    BY <2>1, <2>2 DEF PathInv, Hears, Trusted
  <2>4. Peer(k) \in Node
    BY Peers
  <2> QED BY <1>2, <1>4, <2>2, <2>3, <2>4
<1> QED BY ZenonT(30), <1>1, <1>6, <1>7, <1>8 DEF PathInv, Hears

LEMMA PathInvHolds == PathSpec => []PathInv
<1>1. PathInit => PathInv
  <2> SUFFICES ASSUME PathInit PROVE PathInv
    OBVIOUS
  <2>1. PathTypes
    BY PathsAssumption DEF PathInit, PathTypes
  <2>2. Alive /\ net = {} /\ \A n \in Node : ~Trusted(n)
    BY DEF PathInit, Alive, Trusted
  <2> QED BY <2>1, <2>2 DEF PathInv, Hears
<1>2. PathInv /\ [PathNext]_pathVars => PathInv'
  <2> SUFFICES ASSUME PathInv, [PathNext]_pathVars PROVE PathInv'
    OBVIOUS
  <2>1. CASE \E n \in Node : SendIp(n)
    BY <2>1, SendIpKeeps
  <2>2. CASE \E n \in Node, out \in Outs : TickLoop(n, out)
    BY <2>2, TickLoopKeeps
  <2>3. CASE \E n \in Node, i \in Path : LinkChanges(n, i)
    BY <2>3, LinkChangesKeeps
  <2>4. CASE \E m \in net : Deliver(m)
    BY <2>4, HandleTunnelKeeps, HandlePingKeeps, HandlePongKeeps, HandleCallMeMaybeKeeps
    DEF Deliver
  <2>5. CASE Tick
    BY <2>5, TickKeeps
  <2>6. CASE UNCHANGED pathVars
    <3>1. UNCHANGED linkVars /\ UNCHANGED bestVars /\ endpoints' = endpoints /\ net' = net
      BY <2>6 DEF pathVars
    <3>2. PathTypes'
      BY <3>1 DEF PathInv, PathTypes, linkVars, bestVars
    <3>3. Hears'
      BY ZenonT(30), <3>1 DEF PathInv, Hears, Trusted, linkVars, bestVars
    <3> QED BY <3>1, <3>2, <3>3, NodeStep
  <2> QED BY <2>1, <2>2, <2>3, <2>4, <2>5, <2>6 DEF PathNext
<1> QED BY <1>1, <1>2, PTL DEF PathSpec

\* For any number of paths and any TRUST_UDP_ADDR: a node stops sending on a
\* direct path (Peer::best, note_path, handle_disco) within Blackout seconds of
\* the path's death in that direction, whatever still arrives on it.
THEOREM BlackoutsAreBounded == PathSpec => []BlackoutBounded
<1>1. PathInv => BlackoutBounded
  <2> SUFFICES ASSUME PathInv, NEW n \in Node, NEW i \in Path, dead[n][i] > Blackout,
                      Trusted(n) /\ best[n] = i
               PROVE  FALSE
    BY DEF BlackoutBounded
  <2>1. trust[n] \in Nat /\ trust[n] > 0 /\ dead[n][i] \in Nat /\ TRUST_UDP_ADDR \in Nat
    BY SMTT(30), PathsAssumption DEF PathInv, PathTypes, Trusted
  <2>2. trust[n] + dead[n][i] < 2 * TRUST_UDP_ADDR
    BY DEF PathInv, Hears
  <2> QED BY <2>1, <2>2 DEF Blackout
<1> QED BY <1>1, PathInvHolds, PTL
=============================================================================
