------------------------- MODULE NodeControlProofs --------------------------
(***************************************************************************)
(* Theorems about the control client, for any keys, regions and endpoints  *)
(* and any number of reboots and keys that expire or are removed.          *)
(*                                                                         *)
(* RegisteredKeyStored needs to know where in a rotation the flag, the key *)
(* in flash and the key in use stand to each other; UpdateDue, what the    *)
(* request of an update that is under way says.                            *)
(***************************************************************************)
EXTENDS NodeControl, TLAPS

Taken(k) == status[k] \notin {"unknown", "pending"}

Types ==
    /\ store \in [registered : BOOLEAN, key : Key, home : Region \cup {None}]
    /\ key \in Key
    /\ derp_map \subseteq Region
    /\ status \in [Key -> {"unknown", "pending", "authorized", "expired", "removed"}]
    /\ pc \in {"store_key", "install"} =>
          new_key \in [key : Key, authorized : BOOLEAN]

\* The flag is clear from the decision to register until it is set, the two
\* keys differ only between StoreKey and InstallKey, and the server took the
\* key that the flag will be set for.
Rotation ==
    /\ pc \in {"register", "rotate", "store_key", "install", "flag", "poll"}
          => ~store.registered
    /\ key # store.key => pc = "install"
    /\ pc = "install" => store.key = new_key.key
    /\ pc \in {"store_key", "install"} /\ new_key.authorized => Taken(new_key.key)
    /\ pc = "flag" \/ store.registered => Taken(key)

KeyInv == Types /\ Rotation

-----------------------------------------------------------------------------
(* The registered key *)

\* At the start nothing is registered.
LEMMA InitKeys == Init => KeyInv
BY SMTT(30) DEF Init, KeyInv, Types, Rotation, Taken

\* Every step keeps the invariant on the keys.
LEMMA NextKeys == KeyInv /\ [Next]_vars => KeyInv'
<1> SUFFICES ASSUME KeyInv, [Next]_vars PROVE KeyInv'
  OBVIOUS
<1> USE DEF KeyInv, Types, Rotation, Taken
<1>1. CASE Again
  BY <1>1 DEF Again, ram, server
<1>2. CASE ConnectOk
  BY <1>2 DEF ConnectOk, ram, server
<1>3. CASE ConnectFails
  BY <1>3 DEF ConnectFails, Fails, ram, server
<1>4. CASE RegisterAnswered
  BY <1>4 DEF RegisterAnswered, Decides, ram
<1>5. CASE RegisterFails
  BY <1>5 DEF RegisterFails, Decides, Fails, ram
<1>6. CASE RotateAnswered
  BY <1>6 DEF RotateAnswered, ram
<1>7. CASE RotateFails
  BY <1>7 DEF RotateFails, Fails, ram, server
<1>8. CASE StoreKey
  BY <1>8 DEF StoreKey, ram, server
<1>9. CASE StoreKeyFails
  BY <1>9 DEF StoreKeyFails, Fails, ram, server
<1>10. CASE InstallKey
  BY <1>10 DEF InstallKey, server
<1>11. CASE Flag
  BY ZenonT(30), <1>11 DEF Flag, ram, server
<1>12. CASE PrepareMap
  BY <1>12 DEF PrepareMap, server
<1>13. CASE OpenOk
  BY <1>13 DEF OpenOk, ram
<1>14. CASE OpenFails
  BY <1>14 DEF OpenFails, Fails, ram
<1>15. CASE OpenRefused
  BY ZenonT(30), <1>15 DEF OpenRefused, ram, server
<1>16. CASE Clear
  BY <1>16 DEF Clear, server
<1>17. ASSUME NEW m \in DerpMaps, NextMap(m) PROVE KeyInv'
  BY <1>17 DEF NextMap, DerpMaps, server
<1>18. CASE ChooseHome
  <2>1. PICK r \in derp_map : store' = [store EXCEPT !.home = r]
    BY <1>18 DEF ChooseHome
  <2> QED
    BY <1>18, <2>1 DEF ChooseHome, server
<1>19. CASE NextOther \/ NextFails \/ LiteSkip \/ LiteStart \/ LiteRequest
  BY <1>19 DEF NextOther, NextFails, Fails, LiteSkip, LiteStart, LiteRequest, ram, server
<1>20. CASE LiteOk \/ LiteFails
  BY <1>20 DEF LiteOk, LiteFails, ram
<1>21. ASSUME NEW e \in Endpoint, NewEndpoint(e) PROVE KeyInv'
  BY <1>21 DEF NewEndpoint, thread, server
<1>22. CASE EndpointsChanged
  BY <1>22 DEF EndpointsChanged, thread, server
<1>23. CASE Approve
  BY <1>23 DEF Approve, ram, thread
<1>24. ASSUME NEW to \in {"expired", "removed"}, Withdraw(to) PROVE KeyInv'
  BY <1>24 DEF Withdraw, ram, thread
<1>25. CASE Reboot
  BY <1>25 DEF Reboot, server
<1>26. CASE UNCHANGED vars
  BY <1>26 DEF vars, ram, thread, server
<1> QED
  BY ZenonT(30), <1>1, <1>2, <1>3, <1>4, <1>5, <1>6, <1>7, <1>8, <1>9, <1>10, <1>11, <1>12,
     <1>13, <1>14, <1>15, <1>16, <1>17, <1>18, <1>19, <1>20, <1>21, <1>22, <1>23,
     <1>24, <1>25, <1>26
     DEF Next, ControlStep

\* The key a registered node would start with is in use, and the server took it.
THEOREM KeysAreRegistered == Spec => []RegisteredKeyStored
<1>1. KeyInv => RegisteredKeyStored
  BY DEF KeyInv, Types, Rotation, Taken, RegisteredKeyStored
<1>2. Spec => []KeyInv
  BY InitKeys, NextKeys, PTL DEF Spec
<1> QED
  BY <1>1, <1>2, PTL

-----------------------------------------------------------------------------
(* Endpoint updates *)

\* Whatever the server does not know of home and endpoint is in the request of
\* the update under way, or an update is due.
Due == dirty \/ notify
UpdateInv ==
    /\ pc \in {"next", "lite"} /\ greeted => view = Current \/ Due
    /\ pc = "lite_send" => req = Current \/ Due

\* Steps that leave the record of what is to be told alone, and the thread not
\* in front of an update it was not in front of before.
LEMMA QuietStep ==
    ASSUME UpdateInv, Due => Due', UNCHANGED <<home, mapped, view, greeted>>,
           pc' \in {"next", "lite"} => pc \in {"next", "lite"},
           pc' = "lite_send" => pc = "lite_send" /\ req' = req
    PROVE  UpdateInv'
BY DEF UpdateInv, Current

\* Every step keeps it.
LEMMA NextUpdates == UpdateInv /\ [Next]_vars => UpdateInv'
<1> SUFFICES ASSUME UpdateInv, [Next]_vars PROVE UpdateInv'
  OBVIOUS
<1> USE DEF Due
<1>1. CASE pc' \notin {"next", "lite", "lite_send"}
  BY <1>1 DEF UpdateInv
<1>2. CASE Again \/ ConnectOk \/ ConnectFails \/ RegisterAnswered \/ RegisterFails
  BY <1>2, <1>1 DEF Again, ConnectOk, ConnectFails, RegisterAnswered, RegisterFails, Fails
<1>3. CASE RotateAnswered \/ RotateFails \/ StoreKey \/ StoreKeyFails \/ InstallKey \/ Flag
  BY <1>3, <1>1 DEF RotateAnswered, RotateFails, StoreKey, StoreKeyFails, InstallKey, Flag, Fails
<1>4. CASE PrepareMap \/ OpenOk \/ OpenFails \/ OpenRefused \/ NextFails \/ LiteStart \/ Reboot
  BY <1>4, <1>1 DEF PrepareMap, OpenOk, OpenFails, OpenRefused, NextFails, LiteStart, Reboot, Fails
<1>5. CASE Clear
  BY <1>5 DEF Clear, UpdateInv
<1>6. ASSUME NEW m \in DerpMaps, NextMap(m) PROVE UpdateInv'
  BY <1>6 DEF NextMap, UpdateInv
<1>7. CASE ChooseHome
  BY <1>7 DEF ChooseHome, UpdateInv
<1>8. CASE NextOther \/ LiteSkip
  BY <1>8, QuietStep DEF NextOther, LiteSkip, ram, server
<1>9. CASE LiteRequest
  BY <1>9 DEF LiteRequest, UpdateInv, Current, ram
<1>10. CASE LiteOk
  BY <1>10 DEF LiteOk, UpdateInv, Current, ram
<1>11. CASE LiteFails
  BY <1>11 DEF LiteFails, UpdateInv
<1>12. ASSUME NEW e \in Endpoint, NewEndpoint(e) PROVE UpdateInv'
  BY <1>12 DEF NewEndpoint, UpdateInv, thread
<1>13. CASE EndpointsChanged
  BY <1>13 DEF EndpointsChanged, UpdateInv, thread
<1>14. CASE Approve
  BY <1>14, QuietStep DEF Approve, ram, thread
<1>15. ASSUME NEW to \in {"expired", "removed"}, Withdraw(to) PROVE UpdateInv'
  BY <1>15, QuietStep DEF Withdraw, ram, thread
<1>16. CASE UNCHANGED vars
  BY <1>16, QuietStep DEF vars, ram, thread, server
<1> QED
  BY <1>2, <1>3, <1>4, <1>5, <1>6, <1>7, <1>8, <1>9, <1>10, <1>11, <1>12, <1>13,
     <1>14, <1>15, <1>16
     DEF Next, ControlStep

\* Once a stream's first DERP map was handled, no change of endpoint or home is
\* forgotten between two updates.
THEOREM UpdatesAreDue == Spec => []UpdateDue
<1>1. Init => UpdateInv
  BY DEF Init, UpdateInv
<1>2. UpdateInv => UpdateDue
  BY DEF UpdateInv, UpdateDue, Due
<1> QED
  BY <1>1, <1>2, NextUpdates, PTL DEF Spec
=============================================================================
