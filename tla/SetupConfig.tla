---------------------------- MODULE SetupConfig ----------------------------
(***************************************************************************)
(* The configuration in flash and the threads that write it: the setup     *)
(* shells (adapter-core/src/shell.rs with firmware/src/platform.rs), the   *)
(* control thread's registration flag, and the thread that removes the     *)
(* auth key after use.  Power may be lost between any two writes.          *)
(*                                                                         *)
(* One key of firmware/src/nvs_store.rs is one field of `flash'; a write   *)
(* of one key is atomic.  `host' stands for the settings that are treated  *)
(* alike (host name, port, baud rate, USB interface and driver).  Of the   *)
(* node key only matters whether the server has registered it; keys that   *)
(* are lost are drawn again when the node starts.                          *)
(***************************************************************************)
EXTENDS Naturals, Sequences

CONSTANTS Net,       \* Wi-Fi networks
          Host,      \* values of a setting
          AuthKey,   \* auth keys
          None,      \* a key that is not in flash
          Shell,     \* consoles
          Uart,      \* the console that is there in both modes
          FlashFails, \* whether a write to flash may fail
          MaxLosses  \* bound: power losses, besides reboots by command

ASSUME ConsoleAssumption == Uart \in Shell /\ FlashFails \in BOOLEAN

VARIABLES flash,   \* what NVS holds
          mode,    \* how the device booted
          node,    \* the Tailscale node: its control thread, auth key and node key
          scrub,   \* the authkey-scrub thread
          shell,   \* the shells
          reg_key, \* history: the auth key of the last registration
          torn,    \* history: a first save was cut off, or an erase failed
          losses

vars == <<flash, mode, node, scrub, shell, reg_key, torn, losses>>

\* A key that was removed.
Blank == [nets |-> {}, legacy |-> None, host |-> None, auth |-> None,
          node_key |-> "none", registered |-> FALSE]

\* SavedConfig::default(), with the old network keys that a save removes.
Default == [nets |-> {}, legacy |-> None, host |-> None, auth |-> None]

Idle == [pc |-> "idle", cfg |-> Default, drop |-> None, unregister |-> FALSE,
         step |-> 0]
Off == [pc |-> "off", auth |-> None, key |-> "none"]

-----------------------------------------------------------------------------
(* nvs_store: load_config and save_config.                                 *)

\* The networks of load_config, with the one of the old single-network keys.
Known(f) == f.nets \cup (IF f.legacy = None THEN {} ELSE {f.legacy})

Configured(f) == Known(f) # {}

\* config().unwrap_or_default(): without a network, all settings read as unset.
Loaded(f) ==
    IF Configured(f)
      THEN [nets |-> Known(f), legacy |-> None, host |-> f.host, auth |-> f.auth]
      ELSE Default

\* Mutant: a first configuration leaves the registration flag alone.
IdentityChangedIfKey(f, cfg) == cfg.auth # None /\ Loaded(f).auth # cfg.auth

\* Whether save_config clears the registration flag.
IdentityChanged(f, cfg) ==
    Configured(f) => cfg.auth # None /\ f.auth # cfg.auth

\* Mutant: the old keys go first.
SaveOrderLegacyFirst == <<"legacy", "nets", "host", "auth">>

SaveOrder == <<"nets", "legacy", "host", "auth">>

\* ALL_KEYS
ResetOrder == <<"legacy", "nets", "auth", "host", "node_key", "registered">>

-----------------------------------------------------------------------------
(* The shells.                                                             *)

Other == <<mode, node, scrub, reg_key, torn, losses>>

\* In normal mode the USB port is not a console.
Present(s) == mode = "setup" \/ s = Uart

\* set_field, set_wifi and `wifi forget': load, change one thing, save.
\* `drop' is the network the command forgets.
Edit(s, cfg, drop) ==
    /\ Present(s) /\ shell[s].pc = "idle"
    /\ shell' = [shell EXCEPT ![s] = [Idle EXCEPT !.pc = "load", !.cfg = cfg,
                                                  !.drop = drop]]
    /\ UNCHANGED <<flash, Other>>

SetHost(s) == \E h \in Host : Edit(s, [Loaded(flash) EXCEPT !.host = h], None)
SetAuthKey(s) == \E k \in AuthKey : Edit(s, [Loaded(flash) EXCEPT !.auth = k], None)

\* After the network was joined.
SetWifi(s) == \E n \in Net : Edit(s, [Loaded(flash) EXCEPT !.nets = @ \cup {n}], None)

ForgetWifi(s) ==
    \E n \in Loaded(flash).nets : Edit(s, [Loaded(flash) EXCEPT !.nets = @ \ {n}], n)

\* save_config loads the old configuration first ...
SaveLoad(s) ==
    /\ shell[s].pc = "load"
    /\ shell' = [shell EXCEPT ![s].pc = "save", ![s].step = 1,
                              ![s].unregister = IdentityChanged(flash, shell[s].cfg)]
    /\ UNCHANGED <<flash, Other>>

\* ... writes key by key ...
SaveWrite(s) ==
    /\ shell[s].pc = "save" /\ shell[s].step \in 1 .. Len(SaveOrder)
    /\ flash' = [flash EXCEPT ![SaveOrder[shell[s].step]] =
                                 shell[s].cfg[SaveOrder[shell[s].step]]]
    /\ shell' = [shell EXCEPT ![s].step = @ + 1]
    /\ UNCHANGED Other

\* ... and clears the registration flag last.
SaveEnds(s) ==
    /\ shell[s].pc = "save" /\ shell[s].step > Len(SaveOrder)
    /\ flash' = [flash EXCEPT !.registered = @ /\ ~shell[s].unregister]
    /\ shell' = [shell EXCEPT ![s] = Idle]
    /\ UNCHANGED Other

\* A save that had to clear the flag, half-way.
HalfSaved(s) == shell[s].pc = "save" /\ shell[s].unregister /\ shell[s].step > 1

\* The flash refuses a write, the ones of port to USB driver (after the auth key)
\* included; what was written stays.  Failures to remove a key are ignored.
SaveFails(s) ==
    /\ FlashFails
    /\ shell[s].pc = "save"
    /\ LET cfg == shell[s].cfg
           Removed == IF cfg.auth = None THEN {"legacy", "auth"} ELSE {"legacy"}
       IN shell[s].step \in DOMAIN SaveOrder => SaveOrder[shell[s].step] \notin Removed
    /\ shell' = [shell EXCEPT ![s] = Idle]
    /\ torn' = (torn \/ HalfSaved(s))
    /\ UNCHANGED <<flash, mode, node, scrub, reg_key, losses>>

\* login: start_node, which is done only once.  Keys that are not in flash are
\* made.
Started(f) ==
    [pc |-> "connect", auth |-> f.auth,
     key |-> IF f.node_key = "none" THEN "new" ELSE f.node_key]

Login(s) ==
    /\ Present(s) /\ shell[s].pc = "idle"
    /\ Configured(flash) /\ node = Off
    /\ node' = Started(flash)
    /\ flash' = [flash EXCEPT !.node_key = Started(flash).key]
    /\ scrub' = IF flash.auth # None THEN "wait" ELSE "off"
    /\ UNCHANGED <<mode, shell, reg_key, torn, losses>>

\* reset: factory_reset removes key by key ...
Reset(s) ==
    /\ Present(s) /\ shell[s].pc = "idle"
    /\ shell' = [shell EXCEPT ![s] = [Idle EXCEPT !.pc = "reset", !.step = 1]]
    /\ UNCHANGED <<flash, Other>>

ResetRemove(s) ==
    /\ shell[s].pc = "reset" /\ shell[s].step \in 1 .. Len(ResetOrder)
    /\ flash' = [flash EXCEPT ![ResetOrder[shell[s].step]] =
                                 Blank[ResetOrder[shell[s].step]]]
    /\ shell' = [shell EXCEPT ![s].step = @ + 1]
    /\ UNCHANGED Other

EraseFails(s) ==
    /\ FlashFails
    /\ shell[s].pc = "reset" /\ shell[s].step > Len(ResetOrder)
    /\ shell' = [shell EXCEPT ![s] = Idle]
    /\ torn' = TRUE
    /\ UNCHANGED <<flash, mode, node, scrub, reg_key, losses>>

-----------------------------------------------------------------------------
(* The control thread, as far as it uses the flash, and authkey-scrub.     *)

ControlConnects ==
    /\ node.pc = "connect"
    /\ node' = [node EXCEPT !.pc = IF flash.registered THEN "map" ELSE "register"]
    /\ UNCHANGED <<flash, mode, scrub, shell, reg_key, torn, losses>>

\* The server registers the node key, by the auth key or a user's approval.
ControlRegisters ==
    /\ node.pc = "register"
    /\ node' = [node EXCEPT !.pc = "flag", !.key = "registered"]
    /\ flash' = [flash EXCEPT !.node_key = IF @ = "none" THEN @ ELSE "registered"]
    /\ reg_key' = node.auth
    /\ UNCHANGED <<mode, scrub, shell, torn, losses>>

\* No approval yet, or an error.
ControlWaits ==
    /\ node.pc = "register"
    /\ node' = [node EXCEPT !.pc = "connect"]
    /\ UNCHANGED <<flash, mode, scrub, shell, reg_key, torn, losses>>

ControlSetsFlag ==
    /\ node.pc = "flag"
    /\ flash' = [flash EXCEPT !.registered = TRUE]
    /\ node' = [node EXCEPT !.pc = "map"]
    /\ UNCHANGED <<mode, scrub, shell, reg_key, torn, losses>>

ControlRuns ==
    /\ node.pc = "map" /\ node.key = "registered"
    /\ node' = [node EXCEPT !.pc = "running"]
    /\ UNCHANGED <<flash, mode, scrub, shell, reg_key, torn, losses>>

ControlRefused ==
    /\ node.pc = "map" /\ node.key # "registered"
    /\ flash' = [flash EXCEPT !.registered = FALSE]
    /\ node' = [node EXCEPT !.pc = "connect"]
    /\ UNCHANGED <<mode, scrub, shell, reg_key, torn, losses>>

\* The stream ends, or cannot be opened.
StreamEnds ==
    /\ node.pc \in {"map", "running"}
    /\ node' = [node EXCEPT !.pc = "connect"]
    /\ UNCHANGED <<flash, mode, scrub, shell, reg_key, torn, losses>>

ScrubSees ==
    /\ scrub = "wait" /\ node.pc = "running"
    /\ scrub' = "forget"
    /\ UNCHANGED <<flash, mode, node, shell, reg_key, torn, losses>>

\* forget_auth_key
ScrubForgets ==
    /\ scrub = "forget"
    /\ flash' = [flash EXCEPT !.auth = None]
    /\ scrub' = "off"
    /\ UNCHANGED <<mode, node, shell, reg_key, torn, losses>>

\* The thread does not try twice.
ScrubFails ==
    /\ FlashFails /\ scrub = "forget"
    /\ scrub' = "off"
    /\ UNCHANGED <<flash, mode, node, shell, reg_key, torn, losses>>

-----------------------------------------------------------------------------
(* Power and boot.                                                         *)

\* main: setup mode when the button is held, or Wi-Fi or the registration is
\* missing; in normal mode the node starts at once.
Boot(f, button) ==
    /\ shell' = [s \in Shell |-> Idle]
    /\ IF button \/ ~Configured(f) \/ ~f.registered
         THEN /\ mode' = "setup" /\ node' = Off /\ scrub' = "off"
              /\ flash' = f
         ELSE /\ mode' = "normal" /\ node' = Started(f)
              /\ flash' = [f EXCEPT !.node_key = Started(f).key]
              /\ scrub' = IF f.auth # None THEN "wait" ELSE "off"

PowerLoss ==
    /\ losses < MaxLosses /\ losses' = losses + 1
    /\ \E button \in BOOLEAN : Boot(flash, button)
    /\ torn' = (torn \/ \E s \in Shell : HalfSaved(s))
    /\ UNCHANGED reg_key

Restart(f) ==
    /\ Boot(f, FALSE)
    /\ torn' = (torn \/ \E s \in Shell : HalfSaved(s))
    /\ UNCHANGED <<reg_key, losses>>

\* reboot by command
Reboot(s) == Present(s) /\ shell[s].pc = "idle" /\ Restart(flash)

\* ... then erases the whole partition, and the shell reboots.
ResetEnds(s) ==
    shell[s].pc = "reset" /\ shell[s].step > Len(ResetOrder) /\ Restart(Blank)

\* A new device, or one with a network under the old keys.
Init ==
    /\ \E n \in Net \cup {None} : flash = [Blank EXCEPT !.legacy = n]
    /\ mode = "setup" /\ node = Off /\ scrub = "off"
    /\ shell = [s \in Shell |-> Idle]
    /\ reg_key = None /\ torn = FALSE /\ losses = 0

SaveStep(s) == SaveLoad(s) \/ SaveWrite(s) \/ SaveEnds(s) \/ SaveFails(s)
ResetStep(s) == ResetRemove(s) \/ EraseFails(s) \/ ResetEnds(s)
ScrubStep == ScrubSees \/ ScrubForgets \/ ScrubFails
ControlStep ==
    \/ ControlConnects \/ ControlRegisters \/ ControlSetsFlag
    \/ ControlRuns \/ ControlRefused

Next ==
    \/ \E s \in Shell :
          \/ SetHost(s) \/ SetAuthKey(s) \/ SetWifi(s) \/ ForgetWifi(s)
          \/ SaveStep(s) \/ Login(s) \/ Reset(s) \/ ResetStep(s) \/ Reboot(s)
    \/ ControlStep \/ ControlWaits \/ StreamEnds \/ ScrubStep
    \/ PowerLoss

\* Threads run.
Fairness ==
    /\ WF_vars(ControlStep) /\ WF_vars(ScrubStep)
    /\ \A s \in Shell : WF_vars(SaveStep(s) \/ ResetStep(s))

Spec == Init /\ [][Next]_vars /\ Fairness

-----------------------------------------------------------------------------
(* Properties.                                                             *)

\* A network that is known stays known, whenever the power is lost, also while
\* it moves from the old keys to the list, until a shell forgets it or the
\* device is reset.
NetworksKept ==
    [][\A n \in Known(flash) \ Known(flash)' :
          \E s \in Shell : \/ shell[s].pc = "reset"
                           \/ shell[s].pc = "save" /\ shell[s].drop = n]_vars

\* A device boots into normal mode only with a node key the server has
\* registered.  A reset that was cut off may leave the flag without the key;
\* the first save after it clears the flag.
NormalIsRegistered == mode = "normal" /\ ~torn => node.key = "registered"

\* save_config: "A new auth key means the node must register again, so the
\* registration flag is cleared in that case."
NewKeyRegisters ==
    (\A s \in Shell : shell[s].pc = "idle") /\ flash.auth # None /\ flash.registered
       => reg_key = flash.auth

\* "An auth key ... is removed from NVS once registration succeeds."
KeyForgotten ==
    LET Kept == /\ node.pc = "running" /\ flash.registered
                /\ flash.auth # None /\ flash.auth = reg_key
    IN Kept ~> ~Kept
=============================================================================
