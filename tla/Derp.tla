-------------------------------- MODULE Derp --------------------------------
(***************************************************************************)
(* The DERP relay connections of crates/tsnode/src/magicsock.rs: the map   *)
(* `derps' of handles, one thread for each handle (derp_loop), the callers *)
(* of derp_send, the control thread (connect_home_derp, set_node_key) and  *)
(* the part of tick_loop that looks after the connections.                 *)
(*                                                                         *)
(* A handle holds the sending end of its thread's channel, so a handle     *)
(* that leaves `derps' disconnects the channel.  A handle is named by the  *)
(* slot of its thread; a slot is used again once its thread is done.  Of a *)
(* node key only matters whether it is the one in use.  A connection's     *)
(* ping timers are followed once its server is silent; before that the     *)
(* check may go either way.  Any connection may have been idle for long.   *)
(***************************************************************************)
EXTENDS Naturals, Sequences

CONSTANTS Region,            \* DERP regions
          None,              \* no region, no thread
          DERP_QUEUE_LIMIT,  \* capacity of a thread's channel: 64 in the code
          Slot               \* bound: threads that exist at one time, numbered

ASSUME DerpAssumption ==
    None \notin Slot /\ None \notin Region /\ DERP_QUEUE_LIMIT \in Nat

VARIABLES home_derp,   \* the home region
          derp_map,    \* the regions the DERP map has a node for
          derps,       \* region -> slot of the handle's thread
          thread,      \* the threads
          tick,        \* the tick thread: where it is, the home it loaded
          control      \* the control thread: what it is doing

vars == <<home_derp, derp_map, derps, thread, tick, control>>

Done == [region |-> None, pc |-> "done", rx |-> <<>>, preferred |-> FALSE,
         stale_key |-> FALSE, link |-> "up"]

Connected(t) == thread[t].pc \in {"recv", "drain"}
Held(t) == \E r \in Region : derps[r] = t
Vacant(r) == derps[r] = None

-----------------------------------------------------------------------------
(* Handles.                                                                *)

\* try_send: a full channel drops the command.
TrySend(rx, cmd) == IF Len(rx) < DERP_QUEUE_LIMIT THEN Append(rx, cmd) ELSE rx

\* spawn_derp: a new thread, which connects first.
Spawned(r) == [Done EXCEPT !.region = r, !.pc = "connect"]

\* A command for region r's thread, which a first one spawns; the map may have
\* no node for the region, and the thread may fail to start.
Command(r, cmd) ==
    \/ /\ Vacant(r) /\ r \in derp_map
       /\ \E t \in Slot :
             /\ thread[t].pc = "done"
             /\ \A u \in Slot : u < t => thread[u].pc # "done"
             /\ derps' = [derps EXCEPT ![r] = t]
             /\ thread' = [thread EXCEPT ![t] =
                   [Spawned(r) EXCEPT !.rx = TrySend(@, cmd)]]
    \/ /\ Vacant(r)
       /\ UNCHANGED <<derps, thread>>
    \/ /\ ~Vacant(r)
       /\ thread' = [thread EXCEPT ![derps[r]].rx = TrySend(@, cmd)]
       /\ UNCHANGED derps

\* Takes the handles of some regions out of the map and asks their threads to
\* close; the handles are dropped.
Closed(gone) ==
    /\ derps' = [r \in Region |-> IF r \in gone THEN None ELSE derps[r]]
    /\ thread' = [t \in Slot |->
                    IF \E r \in gone : derps[r] = t
                      THEN [thread[t] EXCEPT !.rx = TrySend(@, "close")]
                      ELSE thread[t]]

\* derp_send, from any thread that has a packet for region r.
DerpSend(r) ==
    /\ Command(r, "send")
    /\ UNCHANGED <<home_derp, derp_map, tick, control>>

-----------------------------------------------------------------------------
(* The control thread.                                                     *)

\* connect_home_derp stores the region first; the region is the stored one,
\* the one with the best latency or the fallback.
ChooseHome(r) ==
    /\ control = "idle" /\ home_derp = None
    /\ home_derp' = r
    /\ control' = "connect"
    /\ UNCHANGED <<derp_map, derps, thread, tick>>

\* handle_map_response with a DERP map: connects to a home that is known.
SetDerpMap(m) ==
    /\ control = "idle"
    /\ derp_map' = m
    /\ control' = IF home_derp = None THEN "idle" ELSE "connect"
    /\ UNCHANGED <<home_derp, derps, thread, tick>>

\* connect_home_derp, the part under the locks.
ControlConnects ==
    /\ control = "connect"
    /\ Command(home_derp, "prefer")
    /\ control' = "idle"
    /\ UNCHANGED <<home_derp, derp_map, tick>>

\* set_node_key: the new key, then ...  derp_loop holds the read lock of the
\* key while it dials and, when that fails, while it waits: the lock guard is a
\* temporary of the match.
RotateKey ==
    /\ control = "idle"
    /\ \A t \in Slot : thread[t].pc \notin {"dial", "backoff"}
    /\ thread' = [t \in Slot |-> [thread[t] EXCEPT !.stale_key = Connected(t)]]
    /\ control' = "rotate"
    /\ UNCHANGED <<home_derp, derp_map, derps, tick>>

\* Mutant: the home connection is left alone.
CloseAllButHome ==
    /\ control = "rotate"
    /\ Closed(Region \ {home_derp})
    /\ control' = "idle"
    /\ UNCHANGED <<home_derp, derp_map, tick>>

\* ... every connection is closed.
CloseAll ==
    /\ control = "rotate"
    /\ Closed(Region)
    /\ control' = "idle"
    /\ UNCHANGED <<home_derp, derp_map, tick>>

-----------------------------------------------------------------------------
(* The end of a round of tick_loop.                                        *)

\* Mutant: a home whose connection is missing is left alone.
TickCheckNever ==
    /\ tick.pc = "sleep"
    /\ tick' = [pc |-> "idle", home |-> home_derp]
    /\ UNCHANGED <<home_derp, derp_map, derps, thread, control>>

\* Loads the home region and looks whether its connection is missing.
TickCheck ==
    /\ tick.pc = "sleep"
    /\ tick' = [pc |-> IF home_derp # None /\ Vacant(home_derp)
                         THEN "connect" ELSE "idle",
                home |-> home_derp]
    /\ UNCHANGED <<home_derp, derp_map, derps, thread, control>>

\* connect_home_derp(home); storing the home again changes nothing.
TickConnects ==
    /\ tick.pc = "connect"
    /\ Command(tick.home, "prefer")
    /\ tick' = [tick EXCEPT !.pc = "idle"]
    /\ UNCHANGED <<home_derp, derp_map, control>>

\* The connections idle for DERP_IDLE_TIMEOUT are closed, never the home one.
TickCloseIdle ==
    /\ tick.pc = "idle"
    /\ \E idle \in SUBSET (Region \ {tick.home}) : Closed(idle)
    /\ tick' = [pc |-> "sleep", home |-> None]
    /\ UNCHANGED <<home_derp, derp_map, control>>

-----------------------------------------------------------------------------
(* derp_loop, the thread of a handle.                                      *)

Thread(t, rec) ==
    /\ thread' = [thread EXCEPT ![t] = rec]
    /\ UNCHANGED <<home_derp, derp_map, derps, tick, control>>

\* The key is read once, before the connection is made.
ReadKey(t) ==
    /\ thread[t].pc = "connect"
    /\ Thread(t, [thread[t] EXCEPT !.pc = "dial"])

\* DerpClient::connect succeeds; a preferred connection says so to the server.
DialOk(t) ==
    /\ thread[t].pc = "dial"
    /\ Thread(t, [thread[t] EXCEPT !.pc = "recv"])

DialFails(t) ==
    /\ thread[t].pc = "dial"
    /\ Thread(t, [thread[t] EXCEPT !.pc = "backoff"])

\* What is left of a thread that leaves 'outer.
Leaving(t) == [Done EXCEPT !.region = thread[t].region, !.pc = "exit"]

\* One command taken from the channel while the thread waits to try again:
\* packets are dropped.
BackoffRecv(t) ==
    /\ thread[t].pc = "backoff" /\ thread[t].rx # <<>>
    /\ LET cmd == Head(thread[t].rx) IN
       Thread(t, IF cmd = "close" THEN Leaving(t)
                 ELSE [thread[t] EXCEPT !.rx = Tail(@),
                                        !.preferred = @ \/ cmd = "prefer"])

\* Mutant: a disconnected channel is taken for a timeout.
BackoffEndsNever(t) ==
    /\ thread[t].pc = "backoff" /\ thread[t].rx = <<>> /\ ~Held(t)
    /\ Thread(t, [thread[t] EXCEPT !.pc = "connect"])

\* The channel is disconnected.
BackoffEnds(t) ==
    /\ thread[t].pc = "backoff" /\ thread[t].rx = <<>> /\ ~Held(t)
    /\ Thread(t, Leaving(t))

\* The wait is over.
BackoffOver(t) ==
    /\ thread[t].pc = "backoff"
    /\ Thread(t, [thread[t] EXCEPT !.pc = "connect"])

\* The connection is given up; the thread connects again.
Broken(rec) == [rec EXCEPT !.pc = "connect", !.stale_key = FALSE, !.link = "up"]

\* recv: nothing within 20 ms, or a frame.
Recv(t) ==
    /\ thread[t].pc = "recv"
    /\ Thread(t, [thread[t] EXCEPT !.pc = "drain"])

\* recv: the server restarts, or the connection is at its end.
RecvFails(t) ==
    /\ thread[t].pc = "recv"
    /\ Thread(t, Broken(thread[t]))

\* One command taken from the channel while the connection is up.
Drain(t) ==
    /\ thread[t].pc = "drain" /\ thread[t].rx # <<>>
    /\ LET cmd == Head(thread[t].rx)
           rest == [thread[t] EXCEPT !.rx = Tail(@)]
       IN  \/ cmd = "send" /\ Thread(t, rest)
           \/ cmd = "send" /\ Thread(t, Broken(rest))
           \/ /\ cmd = "prefer"
              /\ Thread(t, [rest EXCEPT !.preferred = TRUE])
           \/ cmd = "close" /\ Thread(t, Leaving(t))

\* The channel is empty and disconnected.
DrainEnds(t) ==
    /\ thread[t].pc = "drain" /\ thread[t].rx = <<>> /\ ~Held(t)
    /\ Thread(t, Leaving(t))

\* Mutant: a ping that was not answered is sent again.
CheckPingAgain(t) ==
    /\ thread[t].pc = "drain" /\ thread[t].rx = <<>> /\ Held(t)
    /\ \/ Thread(t, [thread[t] EXCEPT !.pc = "recv",
                                      !.link = IF @ = "up" THEN @ ELSE "pinged"])
       \/ thread[t].link = "up" /\ Thread(t, Broken(thread[t]))

\* The channel is empty: the ping that tells a silent connection from a dead
\* one.  Sending it may fail, and a server that is up may answer too late.
CheckPing(t) ==
    /\ thread[t].pc = "drain" /\ thread[t].rx = <<>> /\ Held(t)
    /\ \/ /\ thread[t].link # "overdue"
          /\ Thread(t, [thread[t] EXCEPT !.pc = "recv",
                                         !.link = IF @ = "idle" THEN "pinged" ELSE @])
       \/ /\ thread[t].link \in {"up", "idle", "overdue"}
          /\ Thread(t, Broken(thread[t]))

\* The thread ends and removes its own handle, if it is still in the map.
Exit(t) ==
    /\ thread[t].pc = "exit"
    /\ derps' = [r \in Region |-> IF derps[r] = t THEN None ELSE derps[r]]
    /\ thread' = [thread EXCEPT ![t] = Done]
    /\ UNCHANGED <<home_derp, derp_map, tick, control>>

ThreadStep(t) ==
    \/ ReadKey(t) \/ DialOk(t) \/ DialFails(t) \/ BackoffRecv(t)
    \/ BackoffEnds(t) \/ BackoffOver(t) \/ Recv(t) \/ RecvFails(t) \/ Drain(t)
    \/ DrainEnds(t) \/ CheckPing(t) \/ Exit(t)

-----------------------------------------------------------------------------
(* The network and the clock.                                              *)

\* The server, or the way to it, is lost without a word; a ping may be under
\* way at that time.
LinkDies(t) ==
    /\ Connected(t) /\ thread[t].link = "up"
    /\ \E link \in {"silent", "pinged"} :
          Thread(t, [thread[t] EXCEPT !.link = link])

\* DERP_PING_IDLE passes in silence, or DERP_PING_TIMEOUT after a ping.
TimePasses(t) ==
    /\ Connected(t)
    /\ \/ /\ thread[t].link = "silent"
          /\ Thread(t, [thread[t] EXCEPT !.link = "idle"])
       \/ /\ thread[t].link = "pinged"
          /\ Thread(t, [thread[t] EXCEPT !.link = "overdue"])

Init ==
    /\ home_derp = None /\ derp_map = {}
    /\ derps = [r \in Region |-> None]
    /\ thread = [t \in Slot |-> Done]
    /\ tick = [pc |-> "sleep", home |-> None]
    /\ control = "idle"

ControlStep ==
    \/ \E r \in Region : ChooseHome(r)
    \/ \E m \in SUBSET Region : SetDerpMap(m)
    \/ ControlConnects \/ RotateKey \/ CloseAll

TickStep == TickCheck \/ TickConnects \/ TickCloseIdle

Next ==
    \/ \E r \in Region : DerpSend(r)
    \/ ControlStep
    \/ TickStep
    \/ \E t \in Slot : ThreadStep(t) \/ LinkDies(t) \/ TimePasses(t)

\* Threads are scheduled, dialling ends, and the clock runs.  The control
\* thread finishes what it began; nothing makes it begin.  A server that
\* accepts connections again and again lets one of them live for 20 ms.  The
\* wait after a failed dial takes what is in the channel.  Packets do not come
\* faster for ever than a connection takes them.  A thread that cannot be
\* started now can be started some time.
Fairness ==
    /\ WF_vars(TickStep)
    /\ SF_vars(TickConnects /\ derps' # derps)
    /\ WF_vars(ControlConnects \/ CloseAll)
    /\ \A t \in Slot : /\ WF_vars(ThreadStep(t))
                     /\ WF_vars(TimePasses(t))
                     /\ SF_vars(Recv(t)) /\ SF_vars(BackoffRecv(t) \/ BackoffEnds(t))
                     /\ SF_vars(DrainEnds(t) \/ CheckPing(t))
                     /\ []<>(thread[t].pc = "drain" => thread[t].rx = <<>>)

Spec == Init /\ [][Next]_vars /\ Fairness

-----------------------------------------------------------------------------
(* Properties.                                                             *)

\* What is known of a thread.
ThreadRec == [region : Region \cup {None},
              pc : {"connect", "dial", "backoff", "recv", "drain", "exit", "done"},
              rx : Seq({"send", "prefer", "close"}), preferred : BOOLEAN,
              stale_key : BOOLEAN,
              link : {"up", "silent", "idle", "pinged", "overdue"}]

\* Type invariant: channels hold at most DERP_QUEUE_LIMIT commands, and a region
\* to connect to is there.
TypeOK ==
    /\ home_derp \in Region \cup {None}
    /\ derp_map \subseteq Region
    /\ derps \in [Region -> Slot \cup {None}]
    /\ thread \in [Slot -> ThreadRec]
    /\ \A t \in Slot : Len(thread[t].rx) <= DERP_QUEUE_LIMIT
    /\ tick \in [pc : {"sleep", "connect", "idle"}, home : Region \cup {None}]
    /\ tick.pc = "connect" => tick.home # None
    /\ control \in {"idle", "connect", "rotate"}
    /\ control = "connect" => home_derp # None

\* A handle in the map belongs to a thread of its region that will still take
\* commands: derp_send never feeds a channel nobody reads, also while the
\* threads of earlier handles of the region are on their way out.
HandleServed ==
    \A r \in Region : derps[r] # None =>
        /\ thread[derps[r]].region = r
        /\ thread[derps[r]].pc \notin {"exit", "done"}

\* A connection is taken away from its region only by set_node_key and by the
\* tick thread's round over the idle ones.  Above all, the thread of an earlier
\* handle of the region that ends late leaves its successor alone.
HandleKept ==
    [][\A r \in Region :
          derps[r] # None /\ derps'[r] # derps[r]
             => \/ control = "rotate" /\ control' = "idle"
                \/ tick.pc = "idle" /\ r # tick.home]_vars

\* Outside set_node_key, every connection in the map was made with the node key
\* in use: closing the handles after the new key is stored misses none,
\* whenever its thread read the key.
KeyCurrent ==
    control # "rotate" =>
        \A r \in Region :
            derps[r] # None => ~thread[derps[r]].stale_key

\* A thread whose handle was dropped ends, even when its channel was too full
\* to take the Close command.
DroppedEnds ==
    \A t \in Slot : (thread[t].pc # "done" /\ ~Held(t)) ~> thread[t].pc = "done"

\* A connection the server silently left is given up.
DeadLinkNoticed ==
    \A t \in Slot : (Connected(t) /\ thread[t].link # "up")
                       ~> (~Connected(t) \/ thread[t].link = "up")

\* The connection to the home region, once the DERP map has a node for it, is
\* made, and comes back after it was lost, unless the map loses the region.
HomeReturns ==
    (home_derp # None /\ home_derp \in derp_map)
       ~> (home_derp \notin derp_map \/ ~Vacant(home_derp))

\* What connect_home_derp promises: "a connection to the home DERP exists and
\* is marked preferred".  With nothing left to do for the control thread, the
\* tick thread or the connection's channel, the server has been told.
HomePreferred ==
    (home_derp # None /\ control = "idle" /\ tick.pc \in {"sleep", "idle"})
       => \A t \in Slot : /\ derps[home_derp] = t
                             /\ thread[t].pc = "drain" /\ thread[t].rx = <<>>
                             => thread[t].preferred
=============================================================================
