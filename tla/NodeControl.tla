---------------------------- MODULE NodeControl ----------------------------
(***************************************************************************)
(* The control client of crates/tsnode/src/node.rs: control_loop with      *)
(* registration, key rotation and the map stream, and the endpoints that   *)
(* magicsock's UDP thread learns meanwhile.                                *)
(*                                                                         *)
(* A request and the server's decision on it are one step; a request that  *)
(* fails may have reached the server or not.  The control server is        *)
(* external: it sends a DERP map with some region as the first message of  *)
(* a stream, refuses keys it does not know or that expired, and a user may *)
(* approve a key it waits for.                                             *)
(***************************************************************************)
EXTENDS Naturals

CONSTANTS Key,         \* node keys; one that nobody holds any more is drawn again
          Region,      \* DERP regions
          Endpoint,    \* public endpoints STUN may find
          None,        \* no region, no endpoint, no key
          MaxMishaps   \* bound: reboots and keys that expire or are removed

VARIABLES store,     \* flash: registration flag, node key, home region
          key,       \* the node key in use
          home,      \* magicsock's home region
          mapped,    \* the public endpoint STUN found
          notify,    \* the UDP thread is about to report a new endpoint
          dirty,     \* endpoints_dirty
          derp_map,  \* the regions of the DERP map
          state,     \* NodeStatus.state
          pc,        \* where the control thread is
          req,       \* what its map request says of home and endpoint
          new_key,   \* the key it rotates to, and whether control authorized it
          greeted,   \* the stream's first DERP map was handled
          chosen,    \* history: home was chosen since the last boot
          status,    \* server: what it holds of each key
          view,      \* server: what it was last told of home and endpoint
          mishaps

thread == <<pc, req, new_key, greeted, chosen>>
ram == <<key, home, mapped, notify, dirty, derp_map>>
server == <<status, view>>
vars == <<store, ram, state, thread, server, mishaps>>

Current == [home |-> home, endpoint |-> mapped]
Nothing == [home |-> None, endpoint |-> None]

InStream == pc \in {"clear", "next", "choose", "lite", "lite_req", "lite_send"}

-----------------------------------------------------------------------------
(* control_loop and register.                                              *)

\* The loop goes round; its first statement is set_state.
Again ==
    /\ pc \in {"backoff", "poll"}
    /\ pc' = "connect" /\ state' = "ConnectingControl"
    /\ UNCHANGED <<store, ram, req, new_key, greeted, chosen, server, mishaps>>

\* What every error ends with: set_state and sleep_backoff.
Fails == pc' = "backoff" /\ state' = "Error"

ConnectOk ==
    /\ pc = "connect"
    /\ IF store.registered
         THEN pc' = "map" /\ UNCHANGED state
         ELSE pc' = "register" /\ state' = "Registering"
    /\ UNCHANGED <<store, ram, req, new_key, greeted, chosen, server, mishaps>>

ConnectFails ==
    /\ pc = "connect" /\ Fails
    /\ UNCHANGED <<store, ram, req, new_key, greeted, chosen, server, mishaps>>

\* What the server makes of a key it is asked to register: an auth key is
\* accepted at once, or a user has to approve.
Decides(old) == IF old \in {"unknown", "removed"} THEN {"pending", "authorized"} ELSE {old}

RegisterAnswered ==
    /\ pc = "register"
    /\ \E decided \in Decides(status[key]) :
          /\ status' = [status EXCEPT ![key] = decided]
          /\ \/ /\ decided = "authorized"
                /\ pc' = "flag" /\ UNCHANGED state
             \/ /\ decided = "pending"
                /\ pc' = "poll" /\ state' = "NeedsLogin"
             \/ /\ decided = "expired"
                /\ pc' = "rotate" /\ UNCHANGED state
    /\ UNCHANGED <<store, ram, req, new_key, greeted, chosen, view, mishaps>>

RegisterFails ==
    /\ pc = "register" /\ Fails
    /\ \E decided \in Decides(status[key]) \cup {status[key]} :
          status' = [status EXCEPT ![key] = decided]
    /\ UNCHANGED <<store, ram, req, new_key, greeted, chosen, view, mishaps>>

\* The second request, with a new key in place of the expired one.
RotateAnswered ==
    /\ pc = "rotate"
    /\ \E k \in Key \ {key, store.key}, decided \in {"pending", "authorized"} :
          /\ status' = [status EXCEPT ![k] = decided]
          /\ new_key' = [key |-> k, authorized |-> decided = "authorized"]
    /\ pc' = "store_key"
    /\ UNCHANGED <<store, ram, state, req, greeted, chosen, view, mishaps>>

RotateFails ==
    /\ pc = "rotate" /\ Fails
    /\ UNCHANGED <<store, ram, req, new_key, greeted, chosen, server, mishaps>>

\* Mutant: the new key is not stored.
StoreKeyNever ==
    /\ pc = "store_key" /\ pc' = "install"
    /\ UNCHANGED <<store, ram, state, req, new_key, greeted, chosen, server, mishaps>>

StoreKey ==
    /\ pc = "store_key"
    /\ store' = [store EXCEPT !.key = new_key.key]
    /\ pc' = "install"
    /\ UNCHANGED <<ram, state, req, new_key, greeted, chosen, server, mishaps>>

StoreKeyFails ==
    /\ pc = "store_key" /\ Fails /\ new_key' = None
    /\ UNCHANGED <<store, ram, req, greeted, chosen, server, mishaps>>

InstallKey ==
    /\ pc = "install"
    /\ key' = new_key.key /\ new_key' = None
    /\ pc' = IF new_key.authorized THEN "flag" ELSE "poll"
    /\ UNCHANGED <<store, home, mapped, notify, dirty, derp_map, state, req,
                   greeted, chosen, server, mishaps>>

\* Sets KEY_REGISTERED.
Flag ==
    /\ pc = "flag"
    /\ store' = [store EXCEPT !.registered = TRUE]
    /\ pc' = "map"
    /\ UNCHANGED <<ram, state, req, new_key, greeted, chosen, server, mishaps>>

-----------------------------------------------------------------------------
(* run_map_stream and handle_map_response.                                 *)

\* The home region of an earlier boot is restored; map_request.
PrepareMap ==
    /\ pc = "map"
    /\ home' = IF home = None THEN store.home ELSE home
    /\ req' = [home |-> home', endpoint |-> mapped]
    /\ pc' = "open"
    /\ UNCHANGED <<store, key, mapped, notify, dirty, derp_map, state, new_key,
                   greeted, chosen, server, mishaps>>

OpenOk ==
    /\ pc = "open" /\ status[key] = "authorized"
    /\ view' = req /\ req' = Nothing
    /\ pc' = "clear"
    /\ UNCHANGED <<store, ram, state, new_key, greeted, chosen, status, mishaps>>

OpenFails ==
    /\ pc = "open" /\ Fails /\ req' = Nothing
    /\ view' \in IF status[key] = "authorized" THEN {view, req} ELSE {view}
    /\ UNCHANGED <<store, ram, new_key, greeted, chosen, status, mishaps>>

\* Mutant: the registration is kept.
OpenRefusedKept ==
    /\ pc = "open" /\ status[key] # "authorized" /\ Fails
    /\ UNCHANGED <<store, ram, req, new_key, greeted, chosen, server, mishaps>>

\* HTTP 401 or 403, or a message about the key: the node registers again.
OpenRefused ==
    /\ pc = "open" /\ status[key] # "authorized"
    /\ store' = [store EXCEPT !.registered = FALSE]
    /\ pc' = "backoff" /\ req' = Nothing
    /\ UNCHANGED <<ram, state, new_key, greeted, chosen, server, mishaps>>

\* The stream is open: set_state, endpoints_dirty is cleared.
Clear ==
    /\ pc = "clear"
    /\ state' = "Running" /\ dirty' = FALSE /\ greeted' = FALSE
    /\ pc' = "next"
    /\ UNCHANGED <<store, key, home, mapped, notify, derp_map, req, new_key,
                   chosen, server, mishaps>>

\* Mutant: a home that is known is not announced again.
NextMapSilent(m) ==
    /\ pc = "next"
    /\ derp_map' = m /\ greeted' = TRUE
    /\ pc' = IF home # None THEN "lite" ELSE "choose"
    /\ UNCHANGED <<store, key, home, mapped, notify, dirty, state, req, new_key,
                   chosen, server, mishaps>>

\* A message with a DERP map.
NextMap(m) ==
    /\ pc = "next"
    /\ derp_map' = m /\ greeted' = TRUE
    /\ IF home # None
         THEN dirty' = TRUE /\ pc' = "lite"
         ELSE UNCHANGED dirty /\ pc' = "choose"
    /\ UNCHANGED <<store, key, home, mapped, notify, state, req, new_key,
                   chosen, server, mishaps>>

\* Without a home: probe_derp_regions, or else fallback_region.
ChooseHome ==
    /\ pc = "choose"
    /\ \E r \in derp_map : home' = r /\ store' = [store EXCEPT !.home = r]
    /\ dirty' = TRUE /\ chosen' = TRUE
    /\ pc' = "lite"
    /\ UNCHANGED <<key, mapped, notify, derp_map, state, req, new_key, greeted,
                   server, mishaps>>

\* A message without a DERP map, or none within five seconds.
NextOther ==
    /\ pc = "next" /\ pc' = "lite"
    /\ UNCHANGED <<store, ram, state, req, new_key, greeted, chosen, server, mishaps>>

\* The stream ends, fails, or is silent for MAP_KEEPALIVE_TIMEOUT.
NextFails ==
    /\ pc = "next" /\ Fails
    /\ UNCHANGED <<store, ram, req, new_key, greeted, chosen, server, mishaps>>

\* No endpoint update now: nothing changed, or the last one was just sent.
LiteSkip ==
    /\ pc = "lite" /\ pc' = "next"
    /\ UNCHANGED <<store, ram, state, req, new_key, greeted, chosen, server, mishaps>>

LiteStart ==
    /\ pc = "lite" /\ dirty
    /\ dirty' = FALSE
    /\ pc' = "lite_req"
    /\ UNCHANGED <<store, key, home, mapped, notify, derp_map, state, req,
                   new_key, greeted, chosen, server, mishaps>>

\* map_request
LiteRequest ==
    /\ pc = "lite_req"
    /\ req' = Current
    /\ pc' = "lite_send"
    /\ UNCHANGED <<store, ram, state, new_key, greeted, chosen, server, mishaps>>

LiteOk ==
    /\ pc = "lite_send" /\ status[key] = "authorized"
    /\ view' = req /\ req' = Nothing
    /\ pc' = "next"
    /\ UNCHANGED <<store, ram, state, new_key, greeted, chosen, status, mishaps>>

\* Mutant: a failed update is not tried again.
LiteFailsSilent ==
    /\ pc = "lite_send" /\ pc' = "next"
    /\ UNCHANGED <<store, ram, state, req, new_key, greeted, chosen, server, mishaps>>

LiteFails ==
    /\ pc = "lite_send"
    /\ dirty' = TRUE /\ req' = Nothing
    /\ view' \in IF status[key] = "authorized" THEN {view, req} ELSE {view}
    /\ pc' = "next"
    /\ UNCHANGED <<store, key, home, mapped, notify, derp_map, state, new_key, greeted, chosen, status, mishaps>>

-----------------------------------------------------------------------------
(* The UDP thread, the server and its users, and the power supply.         *)

\* handle_stun: another endpoint than before; the lock is released ...
NewEndpoint(e) ==
    /\ ~notify /\ e # mapped
    /\ mapped' = e /\ notify' = TRUE
    /\ UNCHANGED <<store, key, home, dirty, derp_map, state, thread, server, mishaps>>

\* ... and the callback sets endpoints_dirty.
EndpointsChanged ==
    /\ notify
    /\ notify' = FALSE /\ dirty' = TRUE
    /\ UNCHANGED <<store, key, home, mapped, derp_map, state, thread, server, mishaps>>

\* A user who is shown the URL approves the key.
Approve ==
    /\ status[key] = "pending" /\ state = "NeedsLogin"
    /\ status' = [status EXCEPT ![key] = "authorized"]
    /\ UNCHANGED <<store, ram, state, thread, view, mishaps>>

\* The node key expires, or the node is removed from the tailnet.
Withdraw(to) ==
    /\ mishaps < MaxMishaps /\ mishaps' = mishaps + 1
    /\ status[key] = "authorized"
    /\ status' = [status EXCEPT ![key] = to]
    /\ UNCHANGED <<store, ram, state, thread, view>>

\* Power loss and start: keys come from the store, all else starts anew.
Reboot ==
    /\ mishaps < MaxMishaps /\ mishaps' = mishaps + 1
    /\ key' = store.key
    /\ home' = None /\ mapped' = None /\ notify' = FALSE /\ dirty' = FALSE
    /\ derp_map' = {}
    /\ state' = "ConnectingControl" /\ pc' = "connect" /\ req' = Nothing
    /\ new_key' = None
    /\ greeted' = FALSE /\ chosen' = FALSE
    /\ UNCHANGED <<store, server>>

Init ==
    /\ \E k \in Key :
          /\ store = [registered |-> FALSE, key |-> k, home |-> None]
          /\ key = k
    /\ home = None /\ mapped = None /\ notify = FALSE /\ dirty = FALSE
    /\ derp_map = {} /\ new_key = None
    /\ state = "ConnectingControl" /\ pc = "connect" /\ req = Nothing
    /\ greeted = FALSE /\ chosen = FALSE
    /\ status = [k \in Key |-> "unknown"] /\ view = Nothing
    /\ mishaps = 0

DerpMaps == SUBSET Region \ {{}}

ControlStep ==
    \/ Again \/ ConnectOk \/ ConnectFails
    \/ RegisterAnswered \/ RegisterFails \/ RotateAnswered \/ RotateFails
    \/ StoreKey \/ StoreKeyFails \/ InstallKey \/ Flag
    \/ PrepareMap \/ OpenOk \/ OpenFails \/ OpenRefused \/ Clear
    \/ \E m \in DerpMaps : NextMap(m)
    \/ ChooseHome \/ NextOther \/ NextFails
    \/ LiteSkip \/ LiteStart \/ LiteRequest \/ LiteOk \/ LiteFails

Next ==
    \/ ControlStep
    \/ \E e \in Endpoint : NewEndpoint(e)
    \/ EndpointsChanged
    \/ Approve
    \/ \E to \in {"expired", "removed"} : Withdraw(to)
    \/ Reboot

\* Threads run.  What is tried again and again succeeds in the end: requests,
\* writing the key, an update three seconds after the last one.  A stream that
\* stays open brings its DERP map, and users approve what they are shown.
Fairness ==
    /\ WF_vars(ControlStep) /\ WF_vars(EndpointsChanged) /\ SF_vars(Approve)
    /\ SF_vars(ConnectOk) /\ SF_vars(RegisterAnswered) /\ SF_vars(RotateAnswered)
    /\ SF_vars(StoreKey) /\ SF_vars(OpenOk \/ OpenRefused)
    /\ SF_vars(~greeted /\ \E m \in DerpMaps : NextMap(m))
    /\ SF_vars(LiteStart) /\ SF_vars(LiteOk)

Spec == Init /\ [][Next]_vars /\ Fairness

-----------------------------------------------------------------------------
(* Properties.                                                             *)

\* The key a registered node would start with after a power loss is the one
\* that was registered: whenever the power goes during a rotation, no key is
\* used as registered that the server never took.
RegisteredKeyStored ==
    store.registered => /\ key = store.key
                        /\ status[key] \notin {"unknown", "pending"}

\* Between two endpoint updates the server knows the current endpoint and home,
\* or an update is due.  The update that endpoints_dirty may lose when it is
\* cleared after the stream's request was built is made up for by the first
\* DERP map.
UpdateDue == pc = "next" /\ greeted => view = Current \/ dirty \/ notify

\* An endpoint that stays is told to the server if the stream stays up and the
\* key stays valid.
EndpointsReach ==
    \A e \in Endpoint : 
        <>[](InStream /\ mapped = e /\ status[key] = "authorized")
           => <>[](view.endpoint = e)

\* The node is back on the map stream after every reboot, expired key and
\* removal; a user whose approval it takes is told, also when the key is the
\* product of a rotation.
RunsAgain == []<>(pc = "next")

\* "The home DERP region is chosen at boot by STUN round-trip time to each
\* region": once the map was handled, a choice was made since the boot.
HomeChosenAtBoot == pc = "next" /\ greeted => chosen
=============================================================================
