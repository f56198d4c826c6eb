--------------------------- MODULE FirmwareProofs ---------------------------
(***************************************************************************)
(* The USB host and the configuration of the adapter, for any number of    *)
(* plug-ins, any sorts of devices, any networks, settings and keys.        *)
(***************************************************************************)
EXTENDS UsbHost, SetupConfig, TLAPS

-----------------------------------------------------------------------------
(* The USB host: the inductive invariant *)

OpenerOwns == IF opener \in {"opened", "closing"} THEN opener_hdl ELSE 0
WriterOwns == IF writer = "closing" THEN writer_hdl ELSE 0

UsbTypes ==
    /\ plugs \in 0 .. MaxPlugs /\ device \in {0, plugs}
    /\ kind \in [Plugging -> Kind]
    /\ open \subseteq 1 .. plugs /\ gone \subseteq open
    /\ closes \in [Plugging -> 0 .. 1]
    /\ handle \in 0 .. plugs /\ pending_close \in 0 .. plugs /\ callback_hdl \in 0 .. plugs
    /\ opener_hdl \in 0 .. plugs /\ writer_hdl \in 0 .. plugs

\* The open handles are those of the owners, each of a place of its own.
OneOwner ==
    /\ open = {handle, pending_close, callback_hdl, OpenerOwns, WriterOwns} \ {0}
    /\ handle # 0 => handle \notin {pending_close, callback_hdl, OpenerOwns, WriterOwns}
    /\ pending_close # 0 => pending_close \notin {callback_hdl, OpenerOwns, WriterOwns}
    /\ callback_hdl # 0 => callback_hdl \notin {OpenerOwns, WriterOwns}
    /\ OpenerOwns # 0 => OpenerOwns # WriterOwns
    /\ opener \in {"opened", "closing"} => opener_hdl # 0
    /\ writer = "closing" => writer_hdl # 0

\* What waits to be closed, and what was closed, belongs to a device that left.
Left ==
    /\ gone # {} => device = 0
    /\ device # 0 => device \notin {pending_close, callback_hdl, WriterOwns}
    /\ device # 0 /\ opener = "closing" => opener_hdl # device
    /\ \A h \in Plugging : closes[h] = 1 => h \notin open /\ h # device /\ h <= plugs

\* There is one device at a time: a parked handle leaves no other one behind,
\* and nothing is published while a device is attached.
OneDevice ==
    /\ pending_close # 0 => handle = 0
    /\ opener # "idle" => ~attached
    /\ opener \in {"idle", "opened", "closing"} /\ ~attached => handle = 0

\* A thread that uses a handle has marked it, and nobody else uses it; the
\* handle is where it was taken from, or parked.
InUse ==
    /\ overlap \in BOOLEAN
    /\ ~overlap =>
         /\ opener \in {"published", "configuring"} =>
           /\ in_use = TRUE /\ writer # "sending"
           /\ opener_hdl # 0 /\ opener_hdl \in {handle, pending_close}
         /\ writer = "sending" =>
           in_use = TRUE /\ writer_hdl # 0 /\ writer_hdl \in {handle, pending_close}

\* The ids are those of the last device, and the driver is chosen by them.
Selected ==
    /\ plugs # 0 => ids = kind[plugs]
    /\ opener = "configuring" /\ handle # 0 /\ handle = device => driver = kind[handle]

Ownership == UsbTypes /\ OneOwner /\ Left /\ OneDevice

-----------------------------------------------------------------------------

\* A handle that is open and whose device has left is closed for the first time.
LEMMA FirstClose ==
    ASSUME UsbTypes, Left, NEW h \in open, h # device, Close(h), UNCHANGED <<device, plugs>>
    PROVE  /\ open' = open \ {h} /\ gone' = gone \ {h}
           /\ open' \subseteq 1 .. plugs /\ gone' \subseteq open'
           /\ closes' \in [Plugging -> 0 .. 1]
           /\ \A g \in Plugging : closes'[g] = 1 => g \notin open' /\ g # device /\ g <= plugs
<1>1. h \in Plugging /\ closes[h] = 0 /\ h <= plugs
  BY BoundsAssumption DEF UsbTypes, Left, Plugging
<1>2. open' = open \ {h} /\ gone' = gone \ {h} /\ closes' = [closes EXCEPT ![h] = 1]
  BY <1>1 DEF Close, UsbTypes
<1> QED BY <1>1, <1>2 DEF UsbTypes, Left

LEMMA OwnershipInit == UsbInit => Ownership
  BY SMTT(30), BoundsAssumption
     DEF UsbInit, Ownership, UsbTypes, OneOwner, Left, OneDevice, OpenerOwns, WriterOwns, Plugging

\* The hardware, and the steps that neither open nor close.
LEMMA HardwareOwnership ==
    ASSUME Ownership, Unplug \/ \E k \in Kind : Plug(k)
    PROVE  Ownership'
<1> USE DEF Ownership, UsbTypes, OneOwner, Left, OneDevice, OpenerOwns, WriterOwns
<1>1. CASE Unplug
  <2>1. /\ device' = 0 /\ gone' = gone \cup (open \cap {device})
        /\ UNCHANGED <<plugs, kind, open, closes, handle, pending_close, callback_hdl, attached,
                       opener, opener_hdl, writer, writer_hdl>>
    BY ZenonT(30), <1>1 DEF Unplug, devVars, openerVars, writerVars
  <2>2. UsbTypes' /\ Left'
    BY <2>1, BoundsAssumption DEF Left, Plugging
  <2> QED BY ZenonT(30), <2>1, <2>2
<1>2. ASSUME NEW k \in Kind, Plug(k) PROVE Ownership'
  <2>1. /\ device = 0 /\ gone = {} /\ callback_hdl = 0 /\ plugs < MaxPlugs
        /\ plugs' = plugs + 1 /\ device' = plugs + 1 /\ kind' = [kind EXCEPT ![plugs + 1] = k]
        /\ UNCHANGED <<open, gone, closes, handle, pending_close, callback_hdl, attached,
                       opener, opener_hdl, writer, writer_hdl>>
    BY ZenonT(30), <1>2 DEF Plug, devVars, openerVars, writerVars
  <2>2. plugs' \in 0 .. MaxPlugs
    BY <2>1, BoundsAssumption
  <2>3. kind' \in [Plugging -> Kind]
    BY ZenonT(30), <2>1
  <2>4. UsbTypes'
    BY <2>1, <2>2, <2>3
  <2>5. Left'
    BY <2>1, BoundsAssumption DEF Left, Plugging
  <2> QED BY ZenonT(30), <2>1, <2>4, <2>5
<1> QED BY <1>1, <1>2

LEMMA CallbackOwnership ==
    ASSUME Ownership, EventCbClose \/ \E h \in Plugging : EventCb(h)
    PROVE  Ownership'
<1> USE DEF Ownership, UsbTypes, OneOwner, OneDevice, OpenerOwns, WriterOwns
<1>1. CASE \E h \in Plugging : EventCb(h)
  BY <1>1 DEF EventCb, MustPark, openerVars, writerVars, Left
<1>2. CASE EventCbClose
  <2>1. callback_hdl \in open /\ callback_hdl # device /\ Close(callback_hdl) /\ UNCHANGED <<device, plugs>>
    BY <1>2 DEF EventCbClose, Left
  <2>2. /\ open' = open \ {callback_hdl} /\ gone' = gone \ {callback_hdl}
        /\ open' \subseteq 1 .. plugs /\ gone' \subseteq open'
        /\ closes' \in [Plugging -> 0 .. 1]
        /\ \A g \in Plugging : closes'[g] = 1 => g \notin open' /\ g # device /\ g <= plugs
    BY SMTT(30), <2>1, FirstClose
  <2> QED BY <2>2, <1>2 DEF EventCbClose, devVars, openerVars, writerVars, Left
<1> QED BY <1>1, <1>2

\* The opener takes over a handle, hands it to `dev', and closes what is parked.
LEMMA OpenerOwnership ==
    ASSUME Ownership, Opener
    PROVE  Ownership'
<1> USE DEF Ownership, UsbTypes, OneOwner, OneDevice, OpenerOwns, WriterOwns
<1>1. CASE TryOpen
  <2>1. /\ opener = "idle" /\ attached = FALSE /\ device # 0 /\ device \notin open
        /\ open' = open \cup {device} /\ opener' = "opened" /\ opener_hdl' = device
        /\ UNCHANGED <<device, plugs, kind, gone, closes, handle, pending_close, attached, writer,
                       writer_hdl, callback_hdl>>
    BY SMTT(30), <1>1 DEF TryOpen, devVars, writerVars
  <2> QED BY <2>1 DEF Left
<1>2. CASE Publish
  <2>1. CASE pending_close = 0
    BY ZenonT(30), <1>2, <2>1 DEF Publish, CloseParked, writerVars, Left
  <2>2. CASE pending_close # 0
    <3>1. /\ pending_close \in open /\ pending_close # device /\ Close(pending_close)
          /\ UNCHANGED <<device, plugs>>
      BY <1>2, <2>2 DEF Publish, CloseParked, Left
    <3>2. /\ open' = open \ {pending_close} /\ gone' = gone \ {pending_close}
          /\ open' \subseteq 1 .. plugs /\ gone' \subseteq open'
          /\ closes' \in [Plugging -> 0 .. 1]
          /\ \A g \in Plugging : closes'[g] = 1 => g \notin open' /\ g # device /\ g <= plugs
      BY <3>1, FirstClose
    <3> QED BY <2>2, <3>2, <1>2 DEF Publish, writerVars, Left
  <2> QED BY <2>1, <2>2
<1>3. CASE SelectDriver
  BY <1>3 DEF SelectDriver, hwVars, devVars, writerVars, Left
<1>4. CASE ConfigureDone
  BY <1>4 DEF ConfigureDone, LeftDuringSetup, hwVars, writerVars, Left
<1>5. CASE OpenerClose
  <2>1. opener_hdl \in open /\ opener_hdl # device /\ Close(opener_hdl) /\ UNCHANGED <<device, plugs>>
    BY <1>5 DEF OpenerClose, Left
  <2>2. /\ open' = open \ {opener_hdl} /\ gone' = gone \ {opener_hdl}
        /\ open' \subseteq 1 .. plugs /\ gone' \subseteq open'
        /\ closes' \in [Plugging -> 0 .. 1]
        /\ \A g \in Plugging : closes'[g] = 1 => g \notin open' /\ g # device /\ g <= plugs
    BY SMTT(30), <2>1, FirstClose
  <2> QED BY <2>2, <1>5 DEF OpenerClose, devVars, writerVars, Left
<1> QED BY ZenonT(30), <1>1, <1>2, <1>3, <1>4, <1>5 DEF Opener

\* The writer takes the parked handle and closes it.
LEMMA WriterOwnership ==
    ASSUME Ownership, Writer
    PROVE  Ownership'
<1> USE DEF Ownership, UsbTypes, OneOwner, OneDevice, OpenerOwns, WriterOwns
<1>1. CASE WriteStart
  BY SMTT(30), <1>1 DEF WriteStart, hwVars, openerVars, Left
<1>2. CASE WriteEnd
  BY <1>2 DEF WriteEnd, hwVars, openerVars, Left
<1>3. CASE WriterClose
  <2>1. writer_hdl \in open /\ writer_hdl # device /\ Close(writer_hdl) /\ UNCHANGED <<device, plugs>>
    BY <1>3 DEF WriterClose, Left
  <2>2. /\ open' = open \ {writer_hdl} /\ gone' = gone \ {writer_hdl}
        /\ open' \subseteq 1 .. plugs /\ gone' \subseteq open'
        /\ closes' \in [Plugging -> 0 .. 1]
        /\ \A g \in Plugging : closes'[g] = 1 => g \notin open' /\ g # device /\ g <= plugs
    BY <2>1, FirstClose
  <2> QED BY <2>2, <1>3 DEF WriterClose, devVars, openerVars, Left
<1> QED BY <1>1, <1>2, <1>3 DEF Writer

LEMMA OwnershipNext == Ownership /\ [UsbNext]_usbVars => Ownership'
<1> SUFFICES ASSUME Ownership, [UsbNext]_usbVars PROVE Ownership'
  OBVIOUS
<1>1. CASE UNCHANGED <<hwVars, devVars, attached, openerVars, writerVars, callback_hdl>>
  BY ZenonT(30), <1>1 DEF Ownership, UsbTypes, OneOwner, Left, OneDevice, OpenerOwns, WriterOwns,
                          hwVars, devVars, openerVars, writerVars
<1>2. DataCb \/ Read \/ UNCHANGED usbVars
        => UNCHANGED <<hwVars, devVars, attached, openerVars, writerVars, callback_hdl>>
  BY ZenonT(30) DEF DataCb, Read, usbVars
<1> QED BY ZenonT(30), <1>1, <1>2, HardwareOwnership, CallbackOwnership, OpenerOwnership,
           WriterOwnership DEF UsbNext, DriverTask

LEMMA OwnershipInvariant == UsbSpec => []Ownership
  BY OwnershipInit, OwnershipNext, PTL DEF UsbSpec

\* Whatever the order of plugging, callbacks, opens and writes, every open
\* handle has exactly one place in usb_host.rs that will close it, and no
\* handle is closed twice.
THEOREM HandlesAreOwned == UsbSpec => []HandleOwned
<1>1. Ownership => HandleOwned
  <2> SUFFICES ASSUME Ownership PROVE HandleOwned
    OBVIOUS
  <2> USE DEF Ownership
  <2>1. Owners = <<handle, pending_close, callback_hdl, OpenerOwns, WriterOwns>>
    BY DEF Owners, OpenerOwns, WriterOwns
  <2>2. DOMAIN Owners = 1 .. 5
    BY <2>1
  <2>3. /\ Owners[1] = handle /\ Owners[2] = pending_close /\ Owners[3] = callback_hdl
        /\ Owners[4] = OpenerOwns /\ Owners[5] = WriterOwns
    BY <2>1
  <2> HIDE DEF Ownership
  <2>4. ASSUME NEW h \in Plugging
        PROVE  h \in open <=> \E i \in DOMAIN Owners : Owners[i] = h
    <3>1. h # 0
      BY BoundsAssumption DEF Plugging
    <3>2. h \in open <=> h \in {handle, pending_close, callback_hdl, OpenerOwns, WriterOwns}
      BY <3>1 DEF Ownership, OneOwner
    <3>3. h \in {handle, pending_close, callback_hdl, OpenerOwns, WriterOwns}
            <=> \E i \in 1 .. 5 : Owners[i] = h
      BY <2>3
    <3> QED BY <2>2, <3>2, <3>3
  <2>5. ASSUME NEW i \in 1 .. 5, NEW j \in 1 .. 5, Owners[i] = Owners[j], Owners[i] # 0
        PROVE  i = j
    BY <2>3, <2>5 DEF Ownership, OneOwner
  <2>6. \A h \in Plugging : closes[h] <= 1
    BY DEF Ownership, UsbTypes
  <2> QED BY <2>2, <2>4, <2>5, <2>6 DEF HandleOwned
<1> QED BY <1>1, OwnershipInvariant, PTL

\* Each thread keeps the handle it uses marked until it is done.
LEMMA InUseNext ==
    ASSUME Ownership, InUse, [UsbNext]_usbVars
    PROVE  InUse'
<1> USE DEF InUse
<1>1. CASE UNCHANGED <<devVars, openerVars, writerVars, overlap>>
  BY ZenonT(30), <1>1 DEF devVars, openerVars, writerVars
<1>2. \/ Unplug \/ (\E k \in Kind : Plug(k)) \/ DataCb \/ EventCbClose \/ Read \/ UNCHANGED usbVars
        => UNCHANGED <<devVars, openerVars, writerVars, overlap>>
  BY ZenonT(30) DEF Unplug, Plug, DataCb, EventCbClose, Read, usbVars
<1>3. CASE \E h \in Plugging : EventCb(h)
  BY <1>3 DEF EventCb, MustPark, openerVars, writerVars, Ownership, OneDevice
<1>4. CASE TryOpen
  BY <1>4 DEF TryOpen, devVars, writerVars
<1>5. CASE Publish
  BY ZenonT(30), <1>5 DEF Publish, writerVars, Ownership, OneOwner
<1>6. CASE SelectDriver
  BY <1>6 DEF SelectDriver, devVars, writerVars
<1>7. CASE ConfigureDone
  BY <1>7 DEF ConfigureDone, LeftDuringSetup, writerVars
<1>8. CASE OpenerClose
  BY <1>8 DEF OpenerClose, devVars, writerVars
<1>9. CASE WriteStart
  BY <1>9 DEF WriteStart, openerVars
<1>10. CASE WriteEnd
  BY <1>10 DEF WriteEnd, openerVars
<1>11. CASE WriterClose
  BY <1>11 DEF WriterClose, devVars, openerVars
<1> QED BY ZenonT(30), <1>1, <1>2, <1>3, <1>4, <1>5, <1>6, <1>7, <1>8, <1>9, <1>10, <1>11
           DEF UsbNext, Opener, DriverTask, Writer

\* Unless a device was opened while a write to its predecessor was in flight, no
\* handle is closed under the thread that has a transfer on it.
THEOREM UsedHandlesAreOpen == UsbSpec => []UsedHandleOpen
<1>1. Ownership /\ InUse => UsedHandleOpen
  BY DEF Ownership, OneOwner, InUse, UsedHandleOpen, Using
<1>2. UsbInit => InUse
  BY ZenonT(30) DEF UsbInit, InUse
<1>3. Ownership /\ InUse /\ [UsbNext]_usbVars => InUse'
  BY InUseNext
<1> QED BY <1>1, <1>2, <1>3, OwnershipInvariant, PTL DEF UsbSpec

-----------------------------------------------------------------------------
(* The receive queue *)

\* What data_cb queues from a device whose driver is the chosen one is the one
\* serial byte of the packet.
LEMMA PacketStripped ==
    ASSUME UsbTypes, device # 0, NEW p \in Packet(device), Stripped(p) # <<>>
    PROVE  /\ Stripped(p) \in Seq(Byte)
           /\ driver = kind[device] => Stripped(p) = <<device>>
<1>1. device \in Byte /\ 0 \in Byte
  BY BoundsAssumption DEF UsbTypes, Byte
<1>2. CASE p = <<Status>>
  <2>1. p \in Seq(Byte) /\ Tail(p) = <<>> /\ Len(p) = 1
    BY <1>1, <1>2 DEF Status
  <2>2. driver # Ftdi /\ Stripped(p) = p
    BY <2>1 DEF Stripped
  <2>3. kind[device] = Ftdi
    BY <1>1, <1>2 DEF Packet, Status, Byte
  <2> QED BY <2>1, <2>2, <2>3
<1>3. CASE p = <<Status, device>>
  <2>1. p \in Seq(Byte) /\ Tail(p) = <<device>> /\ Len(p) = 2 /\ <<device>> \in Seq(Byte)
    BY <1>1, <1>3 DEF Status
  <2>2. kind[device] = Ftdi
    BY <1>1, <1>3 DEF Packet, Status, Byte
  <2> QED BY <2>1, <2>2 DEF Stripped
<1>4. CASE p = <<device>>
  <2>1. p \in Seq(Byte) /\ Tail(p) = <<>>
    BY <1>1, <1>4
  <2> QED BY <1>4, <2>1 DEF Stripped
<1> QED BY <1>2, <1>3, <1>4 DEF Packet

\* The queue drops from its front only.
LEMMA QueuedBytes ==
    ASSUME NEW q \in Seq(Byte), NEW p \in Seq(Byte)
    PROVE  /\ Queued(q, p) \in Seq(Byte)
           /\ \A i \in DOMAIN Queued(q, p) :
                 \/ \E j \in DOMAIN q : Queued(q, p)[i] = q[j]
                 \/ \E j \in DOMAIN p : Queued(q, p)[i] = p[j]
<1> DEFINE excess == Len(q) + Len(p) - RX_QUEUE_LIMIT
           drop_n == IF excess < Len(q) THEN excess ELSE Len(q)
           kept == IF excess > 0 THEN SubSeq(q, drop_n + 1, Len(q)) ELSE q
<1>1. Queued(q, p) = kept \o p
  BY DEF Queued
<1>2. excess \in Int /\ Len(q) \in Nat
  BY BoundsAssumption
<1>3. kept \in Seq(Byte) /\ \A i \in DOMAIN kept : \E j \in DOMAIN q : kept[i] = q[j]
  <2>1. CASE excess > 0
    <3>1. drop_n \in Nat /\ drop_n <= Len(q) /\ kept = SubSeq(q, drop_n + 1, Len(q))
      BY SMTT(30), <1>2, <2>1
    <3> HIDE DEF drop_n, kept
    <3>2. Len(kept) = Len(q) - drop_n /\ kept \in Seq(Byte)
      BY <1>2, <3>1
    <3>3. \A i \in 1 .. Len(kept) : kept[i] = q[drop_n + i] /\ drop_n + i \in 1 .. Len(q)
      BY <1>2, <3>1, <3>2
    <3> QED BY <3>2, <3>3
  <2>2. CASE ~ (excess > 0)
    BY <2>2
  <2> QED BY SMTT(30), <2>1, <2>2
<1> HIDE DEF excess, drop_n, kept
<1>4. kept \o p \in Seq(Byte) /\ Len(kept \o p) = Len(kept) + Len(p)
  BY <1>3
<1>5. \A i \in 1 .. Len(kept \o p) :
         \/ i \in DOMAIN kept /\ (kept \o p)[i] = kept[i]
         \/ i - Len(kept) \in DOMAIN p /\ (kept \o p)[i] = p[i - Len(kept)]
  BY <1>3, <1>4
<1>6. DOMAIN (kept \o p) = 1 .. Len(kept \o p)
  BY <1>4
<1>7. ASSUME NEW i \in DOMAIN (kept \o p)
      PROVE  \/ \E j \in DOMAIN q : (kept \o p)[i] = q[j]
             \/ \E j \in DOMAIN p : (kept \o p)[i] = p[j]
  BY ZenonT(30), <1>3, <1>5, <1>6
<1> QED BY ZenonT(30), <1>1, <1>4, <1>7

RxInv == rx \in Seq(Byte) /\ Selected /\ RxClean

LEMMA RxNext ==
    ASSUME Ownership, RxInv, [UsbNext]_usbVars
    PROVE  RxInv'
<1> USE DEF RxInv
<1>1. CASE UNCHANGED <<device, plugs, kind, ids, handle, opener, attached, driver, rx>>
  BY ZenonT(30), <1>1 DEF Selected, RxClean
<1>2. \/ EventCbClose \/ OpenerClose \/ Writer \/ UNCHANGED usbVars
        => UNCHANGED <<device, plugs, kind, ids, handle, attached, driver, rx>>
  BY ZenonT(30) DEF EventCbClose, OpenerClose, Writer, WriteStart, WriteEnd, WriterClose,
                    usbVars, hwVars, devVars
<1>3. EventCbClose \/ Writer \/ UNCHANGED usbVars => UNCHANGED opener
  BY ZenonT(30) DEF EventCbClose, Writer, WriteStart, WriteEnd, WriterClose, usbVars, openerVars
<1>4. CASE OpenerClose
  <2>1. opener' # "configuring"
    BY <1>4 DEF OpenerClose
  <2>2. UNCHANGED <<device, plugs, kind, ids, handle, attached, driver, rx>>
    BY <1>2, <1>4
  <2> QED BY ZenonT(30), <2>1, <2>2 DEF Selected, RxClean
<1>5. ASSUME NEW k \in Kind, Plug(k) PROVE RxInv'
  <2>1. /\ plugs' = plugs + 1 /\ device' = plugs + 1 /\ ids' = k
        /\ kind' = [kind EXCEPT ![plugs + 1] = k] /\ plugs + 1 \in Plugging
        /\ UNCHANGED <<handle, rx, attached, driver, opener>>
    BY <1>5, BoundsAssumption DEF Plug, devVars, openerVars, Plugging, Ownership, UsbTypes
  <2>2. handle # device'
    BY <2>1 DEF Ownership, UsbTypes
  <2>3. kind'[plugs'] = k
    BY <2>1 DEF Ownership, UsbTypes
  <2> QED BY ZenonT(30), <2>1, <2>2, <2>3 DEF Selected, RxClean
<1>6. CASE Unplug
  <2>1. device' = 0 /\ UNCHANGED <<plugs, kind, ids, handle, rx, attached, driver, opener>>
    BY <1>6 DEF Unplug, devVars, openerVars
  <2> QED BY ZenonT(30), <2>1 DEF Selected, RxClean
<1>7. CASE DataCb
  <2>1. UNCHANGED <<device, plugs, kind, ids, handle, opener, attached, driver>>
    BY <1>7 DEF DataCb, hwVars, devVars, openerVars
  <2>2. device # 0
    BY <1>7 DEF DataCb, Ownership, UsbTypes
  <2>3. PICK p \in Packet(device) : Stripped(p) # <<>> /\ rx' = Queued(rx, Stripped(p))
    BY <1>7 DEF DataCb
  <2>4. Stripped(p) \in Seq(Byte) /\ (driver = kind[device] => Stripped(p) = <<device>>)
    BY <2>2, <2>3, PacketStripped DEF Ownership
  <2> DEFINE q == Stripped(p)
  <2>5. /\ rx' \in Seq(Byte)
        /\ \A i \in DOMAIN rx' : \/ \E j \in DOMAIN rx : rx'[i] = rx[j]
                                \/ \E j \in DOMAIN q : rx'[i] = q[j]
    <3>1. rx \in Seq(Byte) /\ q \in Seq(Byte) /\ rx' = Queued(rx, q)
      BY <2>3, <2>4
    <3> HIDE DEF q
    <3> QED BY ZenonT(30), <3>1, QueuedBytes
  <2>6. ASSUME attached, handle # 0, handle = device
        PROVE  driver = kind[handle] /\ \A i \in DOMAIN rx' : rx'[i] = handle
    <3>1. driver = kind[handle] /\ \A i \in DOMAIN rx : rx[i] = handle
      BY <2>6 DEF RxClean
    <3>2. Stripped(p) = <<handle>>
      BY <2>4, <2>6, <3>1
    <3>3. \A i \in DOMAIN q : q[i] = handle
      BY <3>2
    <3> HIDE DEF q
    <3>4. \A i \in DOMAIN rx' : rx'[i] = handle
      BY ZenonT(30), <2>5, <3>1, <3>3
    <3> QED BY <3>1, <3>4
  <2> QED BY ZenonT(30), <2>1, <2>5, <2>6 DEF Selected, RxClean
<1>8. CASE \E h \in Plugging : EventCb(h)
  <2>1. attached' = FALSE /\ handle' = 0 /\ UNCHANGED <<device, plugs, kind, ids, rx, driver, opener>>
    BY ZenonT(30), <1>8 DEF EventCb, openerVars
  <2> QED BY ZenonT(30), <2>1 DEF Selected, RxClean
<1>9. CASE TryOpen \/ Publish
  <2>1. /\ opener' # "configuring" /\ ~ attached
        /\ UNCHANGED <<device, plugs, kind, ids, attached, rx, driver>>
    BY ZenonT(30), <1>9 DEF TryOpen, Publish, Ownership, OneDevice
  <2> QED BY ZenonT(30), <2>1 DEF Selected, RxClean
<1>10. CASE SelectDriver
  <2>1. /\ driver' = ids /\ ~ attached
        /\ UNCHANGED <<device, plugs, kind, ids, handle, attached, rx>>
    BY ZenonT(30), <1>10 DEF SelectDriver, hwVars, devVars, Ownership, OneDevice
  <2>2. handle # 0 /\ handle = device => handle = plugs
    BY DEF Ownership, UsbTypes
  <2> QED BY ZenonT(30), <2>1, <2>2 DEF Selected, RxClean
<1>11. CASE ConfigureDone
  <2>1. /\ opener = "configuring" /\ opener' # "configuring" /\ ~ attached
        /\ UNCHANGED <<device, plugs, kind, ids, driver>>
        /\ \/ rx' = rx /\ ~ attached'
           \/ handle' = handle /\ rx' = <<>>
    BY <1>11 DEF ConfigureDone, RxAtAttach, hwVars, Ownership, OneDevice
  <2>2. rx' = <<>> => rx' \in Seq(Byte) /\ \A i \in DOMAIN rx' : FALSE
    OBVIOUS
  <2> QED BY ZenonT(30), <2>1, <2>2 DEF Selected, RxClean
<1>12. CASE Read
  <2>1. UNCHANGED <<device, plugs, kind, ids, handle, opener, attached, driver>>
    BY <1>12 DEF Read, hwVars, devVars, openerVars
  <2>2. PICK n \in 1 .. Len(rx) : rx' = SubSeq(rx, n + 1, Len(rx))
    BY <1>12 DEF Read
  <2>3. Len(rx') = Len(rx) - n /\ rx' \in Seq(Byte)
    BY <2>2
  <2>4. \A i \in 1 .. Len(rx') : rx'[i] = rx[n + i] /\ n + i \in 1 .. Len(rx)
    BY <2>2, <2>3
  <2>5. DOMAIN rx' = 1 .. Len(rx') /\ DOMAIN rx = 1 .. Len(rx)
    BY <2>3
  <2>6. \A i \in DOMAIN rx' : \E j \in DOMAIN rx : rx'[i] = rx[j]
    BY ZenonT(30), <2>4, <2>5
  <2> QED BY ZenonT(30), <2>1, <2>3, <2>6 DEF Selected, RxClean
<1> QED BY ZenonT(30), <1>1, <1>2, <1>3, <1>4, <1>5, <1>6, <1>7, <1>8, <1>9, <1>10, <1>11, <1>12
           DEF UsbNext, Opener, DriverTask

\* What the queue holds while a device is attached came from that device and
\* has no status bytes in it, for any number and sorts of devices plugged in
\* one after the other.
THEOREM RxIsClean == UsbSpec => []RxClean
<1>1. UsbInit => RxInv
  BY DEF UsbInit, RxInv, Selected, RxClean
<1>2. Ownership /\ RxInv /\ [UsbNext]_usbVars => RxInv'
  BY RxNext
<1>3. RxInv => RxClean
  BY SMTT(30) DEF RxInv
<1> QED BY <1>1, <1>2, <1>3, OwnershipInvariant, PTL DEF UsbSpec

-----------------------------------------------------------------------------
(* The configuration in flash: the inductive invariant *)

Flash ==
    [nets : SUBSET Net, legacy : Net \cup {None}, host : Host \cup {None},
     auth : AuthKey \cup {None}, node_key : {"none", "new", "registered"},
     registered : BOOLEAN]
Config ==
    [nets : SUBSET Net, legacy : Net \cup {None}, host : Host \cup {None},
     auth : AuthKey \cup {None}]
Command ==
    [pc : {"idle", "load", "save", "reset"}, cfg : Config, drop : Net \cup {None},
     unregister : BOOLEAN, step : Nat]
Node ==
    [pc : {"off", "connect", "register", "flag", "map", "running"},
     auth : AuthKey \cup {None}, key : {"none", "new", "registered"}]

SetupTypes ==
    /\ flash \in Flash /\ mode \in {"setup", "normal"} /\ node \in Node
    /\ shell \in [Shell -> Command] /\ torn \in BOOLEAN

\* A save carries every network that is in flash, but the one it forgets, and
\* has written the list from its second step on.  It leaves the flag alone
\* only when it found a configuration.
Saves ==
    /\ shell[Uart].pc \in {"load", "save"} =>
          /\ shell[Uart].cfg.legacy = None
          /\ \A n \in Known(flash) : n \in shell[Uart].cfg.nets \/ n = shell[Uart].drop
    /\ shell[Uart].pc = "save" =>
          /\ shell[Uart].step >= 1
          /\ shell[Uart].step = 1 /\ ~ shell[Uart].unregister => Configured(flash)
          /\ shell[Uart].step >= 2 => flash.nets = shell[Uart].cfg.nets

\* A reset removes the networks before the node key and the flag.
Resets ==
    shell[Uart].pc = "reset" =>
          /\ shell[Uart].step >= 1
          /\ shell[Uart].step >= 2 => flash.legacy = None
          /\ shell[Uart].step >= 3 => flash.nets = {}

Runs ==
    /\ mode = "normal" => node.pc # "off"
    /\ node.pc = "flag" => node.key = "registered"
    /\ node.pc # "off" => node.key # "none"

\* With a network in flash, the flag stands for a registered node key, unless a
\* save is about to clear it; the node that runs has the key that is in flash,
\* unless a reset has just removed it.
Keys ==
    ~ torn =>
      /\ Configured(flash) /\ flash.registered =>
            flash.node_key = "registered" \/ HalfSaved(Uart)
      /\ node.pc # "off" =>
            \/ flash.node_key = node.key
            \/ shell[Uart].pc = "reset" /\ shell[Uart].step >= 6
      /\ mode = "normal" => node.key = "registered"

SetupInv == SetupTypes /\ Saves /\ Resets /\ Runs /\ Keys

\* One console.  In setup mode the USB port is a second one, and two shells that
\* save or reset at the same time undo each other's writes.
OneShell == Shell = {Uart}

-----------------------------------------------------------------------------

LEMMA Records ==
    /\ Idle \in Command /\ Idle.pc = "idle"
    /\ Off \in Node /\ Off.pc = "off" /\ Off.key = "none"
    /\ Default \in Config /\ Default.legacy = None /\ Default.nets = {}
    /\ Blank \in Flash /\ Blank.nets = {} /\ Blank.legacy = None
    /\ Blank.registered = FALSE /\ Blank.node_key = "none"
  BY ZenonT(30) DEF Idle, Command, Off, Node, Default, Config, Blank, Flash

LEMMA Orders ==
    /\ SaveOrder[1] = "nets" /\ SaveOrder[2] = "legacy" /\ SaveOrder[3] = "host"
    /\ SaveOrder[4] = "auth"
    /\ ResetOrder[1] = "legacy" /\ ResetOrder[2] = "nets" /\ ResetOrder[3] = "auth"
    /\ ResetOrder[4] = "host" /\ ResetOrder[5] = "node_key" /\ ResetOrder[6] = "registered"
    /\ Len(SaveOrder) = 4 /\ Len(ResetOrder) = 6
  BY DEF SaveOrder, ResetOrder

\* A command starts from the networks that are known.
LEMMA LoadedConfig ==
    ASSUME flash \in Flash
    PROVE  /\ Loaded(flash) \in Config
           /\ Loaded(flash).legacy = None /\ Loaded(flash).nets = Known(flash)
<1>1. Known(flash) \subseteq Net
  BY DEF Known, Flash
<1>2. CASE Configured(flash)
  BY SMTT(30), <1>1, <1>2 DEF Loaded, Flash, Config
<1>3. CASE ~ Configured(flash)
  BY <1>3, Records DEF Loaded, Configured
<1> QED BY <1>2, <1>3

LEMMA SetupInit == OneShell /\ Init => SetupInv
<1> SUFFICES ASSUME OneShell, Init PROVE SetupInv
  OBVIOUS
<1>1. /\ shell \in [Shell -> Command] /\ shell[Uart].pc = "idle"
      /\ node \in Node /\ node.pc = "off" /\ mode = "setup" /\ torn = FALSE
  BY Records, ConsoleAssumption DEF Init
<1>2. flash \in Flash /\ flash.registered = FALSE
  BY ZenonT(30) DEF Init, Flash, Blank
<1> QED BY ZenonT(30), <1>1, <1>2 DEF SetupInv, SetupTypes, Saves, Resets, Runs, Keys

\* A command is entered, or save_config reads the configuration it replaces.
LEMMA CommandStarts ==
    ASSUME SetupInv, UNCHANGED <<flash, Other>>,
           NEW c \in Command, shell' = [shell EXCEPT ![Uart] = c],
           c.pc # "idle", shell[Uart].pc # "reset", shell[Uart].pc # "save",
           c.pc = "reset" => c.step = 1,
           c.pc \in {"load", "save"} =>
             /\ c.cfg.legacy = None
             /\ \A n \in Known(flash) : n \in c.cfg.nets \/ n = c.drop,
           c.pc = "save" => c.step = 1 /\ (~ c.unregister => Configured(flash))
    PROVE  SetupInv'
<1>1. shell'[Uart] = c /\ shell' \in [Shell -> Command]
  BY SMTT(30), ConsoleAssumption DEF SetupInv, SetupTypes
<1>2. UNCHANGED <<flash, mode, node, torn>>
  BY DEF Other
<1>3. SetupTypes' /\ Runs'
  BY ZenonT(30), <1>1, <1>2 DEF SetupInv, SetupTypes, Runs
<1>4. Saves' /\ Resets'
  BY <1>1, <1>2 DEF Saves, Resets, Known, Configured
<1>5. Keys'
  BY ZenonT(30), <1>1, <1>2 DEF SetupInv, Keys, HalfSaved, Known, Configured
<1> QED BY SMTT(30), <1>3, <1>4, <1>5 DEF SetupInv

LEMMA Enters ==
    ASSUME SetupInv, SetHost(Uart) \/ SetAuthKey(Uart) \/ SetWifi(Uart) \/ ForgetWifi(Uart)
    PROVE  SetupInv'
<1> DEFINE old == Loaded(flash)
<1>1. old \in Config /\ old.legacy = None /\ old.nets = Known(flash)
  BY LoadedConfig DEF SetupInv, SetupTypes
<1>2. ASSUME NEW cfg \in Config, NEW drop \in Net \cup {None}, Edit(Uart, cfg, drop),
             cfg.legacy = None, \A n \in Known(flash) : n \in cfg.nets \/ n = drop
      PROVE  SetupInv'
  <2> DEFINE c == [Idle EXCEPT !.pc = "load", !.cfg = cfg, !.drop = drop]
  <2>1. c \in Command /\ c.pc = "load" /\ c.cfg = cfg /\ c.drop = drop
    BY ZenonT(30), Records DEF Command
  <2>2. /\ shell[Uart].pc = "idle" /\ shell' = [shell EXCEPT ![Uart] = c]
        /\ UNCHANGED <<flash, Other>>
    BY <1>2 DEF Edit
  <2> HIDE DEF c
  <2> QED BY ZenonT(30), <1>2, <2>1, <2>2, CommandStarts
<1> HIDE DEF old
<1>3. ASSUME NEW h \in Host, Edit(Uart, [old EXCEPT !.host = h], None) PROVE SetupInv'
  <2> DEFINE cfg == [old EXCEPT !.host = h]
  <2>1. cfg \in Config /\ cfg.legacy = None /\ cfg.nets = Known(flash)
    BY <1>1 DEF Config
  <2> HIDE DEF cfg
  <2> QED BY ZenonT(30), <1>2, <1>3, <2>1 DEF cfg
<1>4. ASSUME NEW k \in AuthKey, Edit(Uart, [old EXCEPT !.auth = k], None) PROVE SetupInv'
  <2> DEFINE cfg == [old EXCEPT !.auth = k]
  <2>1. cfg \in Config /\ cfg.legacy = None /\ cfg.nets = Known(flash)
    BY <1>1 DEF Config
  <2> HIDE DEF cfg
  <2> QED BY ZenonT(30), <1>2, <1>4, <2>1 DEF cfg
<1>5. ASSUME NEW n \in Net, Edit(Uart, [old EXCEPT !.nets = @ \cup {n}], None) PROVE SetupInv'
  <2> DEFINE cfg == [old EXCEPT !.nets = @ \cup {n}]
  <2>1. cfg \in Config /\ cfg.legacy = None /\ cfg.nets = Known(flash) \cup {n}
    BY <1>1 DEF Config
  <2> HIDE DEF cfg
  <2> QED BY ZenonT(30), <1>2, <1>5, <2>1 DEF cfg
<1>6. ASSUME NEW n \in old.nets, Edit(Uart, [old EXCEPT !.nets = @ \ {n}], n) PROVE SetupInv'
  <2> DEFINE cfg == [old EXCEPT !.nets = @ \ {n}]
  <2>1. cfg \in Config /\ cfg.legacy = None /\ cfg.nets = Known(flash) \ {n} /\ n \in Net
    BY <1>1 DEF Config
  <2> HIDE DEF cfg
  <2> QED BY ZenonT(30), <1>2, <1>6, <2>1 DEF cfg
<1> QED BY ZenonT(30), <1>3, <1>4, <1>5, <1>6 DEF SetHost, SetAuthKey, SetWifi, ForgetWifi, old

LEMMA SaveLoads ==
    ASSUME SetupInv, SaveLoad(Uart)
    PROVE  SetupInv'
<1> DEFINE old == shell[Uart]
           c == [old EXCEPT !.pc = "save", !.step = 1, !.unregister = IdentityChanged(flash, old.cfg)]
<1>1. old \in Command /\ old.pc = "load" /\ UNCHANGED <<flash, Other>>
  BY ConsoleAssumption DEF SetupInv, SetupTypes, SaveLoad
<1>2. shell' = [shell EXCEPT ![Uart] = c]
  BY ZenonT(30) DEF SaveLoad
<1> HIDE DEF old
<1>3. IdentityChanged(flash, old.cfg) \in BOOLEAN
  BY DEF IdentityChanged, Configured
<1>4. /\ c \in Command /\ c.pc = "save" /\ c.step = 1 /\ c.cfg = old.cfg /\ c.drop = old.drop
      /\ c.unregister = IdentityChanged(flash, old.cfg)
  BY ZenonT(30), <1>1, <1>3 DEF Command
<1>5. ~ c.unregister => Configured(flash)
  BY ZenonT(30), <1>4 DEF IdentityChanged
<1>6. c.cfg.legacy = None /\ \A n \in Known(flash) : n \in c.cfg.nets \/ n = c.drop
  BY <1>1, <1>4 DEF SetupInv, Saves, old
<1> HIDE DEF c
<1> QED BY ZenonT(30), <1>1, <1>2, <1>4, <1>5, <1>6, CommandStarts DEF old

LEMMA ResetStarts ==
    ASSUME SetupInv, Reset(Uart)
    PROVE  SetupInv'
<1> DEFINE c == [Idle EXCEPT !.pc = "reset", !.step = 1]
<1>1. c \in Command /\ c.pc = "reset" /\ c.step = 1
  BY ZenonT(30), Records DEF Command
<1>2. /\ shell[Uart].pc = "idle" /\ shell' = [shell EXCEPT ![Uart] = c]
      /\ UNCHANGED <<flash, Other>>
  BY DEF Reset
<1> HIDE DEF c
<1> QED BY ZenonT(30), <1>1, <1>2, CommandStarts

\* The command ends without success, or with the flag cleared if it had to be.
LEMMA CommandEnds ==
    ASSUME SetupInv, SaveEnds(Uart) \/ SaveFails(Uart) \/ EraseFails(Uart)
    PROVE  SetupInv'
<1>1. shell'[Uart].pc = "idle" /\ shell' \in [Shell -> Command]
  BY ConsoleAssumption, Records DEF SetupInv, SetupTypes, SaveEnds, SaveFails, EraseFails
<1>2. UNCHANGED <<mode, node>>
  BY DEF SaveEnds, SaveFails, EraseFails, Other
<1>3. Saves' /\ Resets'
  BY <1>1 DEF Saves, Resets
<1>4. Runs'
  BY ZenonT(30), <1>2 DEF SetupInv, Runs
<1>5. CASE SaveEnds(Uart)
  <2>1. /\ shell[Uart].pc = "save" /\ torn' = torn
        /\ flash' = [flash EXCEPT !.registered = @ /\ ~ shell[Uart].unregister]
    BY <1>5 DEF SaveEnds, Other
  <2>2. shell[Uart].unregister \in BOOLEAN /\ shell[Uart].step > 4
    BY <1>5, ConsoleAssumption DEF SetupInv, SetupTypes, Command, SaveEnds, SaveOrder
  <2>3. /\ flash' \in Flash /\ flash'.nets = flash.nets /\ flash'.legacy = flash.legacy
        /\ flash'.node_key = flash.node_key
        /\ flash'.registered => flash.registered /\ ~ shell[Uart].unregister
    BY ZenonT(30), <2>1, <2>2 DEF SetupInv, SetupTypes, Flash
  <2>4. SetupTypes'
    BY ZenonT(30), <1>1, <1>2, <2>1, <2>3 DEF SetupInv, SetupTypes
  <2>5. Keys'
    BY ZenonT(30), <1>1, <1>2, <2>1, <2>3 DEF SetupInv, Keys, HalfSaved, Known, Configured
  <2> QED BY <1>3, <1>4, <2>4, <2>5 DEF SetupInv
<1>6. CASE SaveFails(Uart)
  <2>1. flash' = flash /\ shell[Uart].pc = "save" /\ torn' = (torn \/ HalfSaved(Uart))
    BY <1>6 DEF SaveFails
  <2>2. torn' \in BOOLEAN /\ (~ torn' => ~ torn /\ ~ HalfSaved(Uart))
    BY ZenonT(30), <2>1 DEF SetupInv, SetupTypes
  <2>3. SetupTypes'
    BY ZenonT(30), <1>1, <1>2, <2>1, <2>2 DEF SetupInv, SetupTypes
  <2>4. Keys'
    BY ZenonT(30), <1>1, <1>2, <2>1, <2>2 DEF SetupInv, Keys, Known, Configured
  <2> QED BY <1>3, <1>4, <2>3, <2>4 DEF SetupInv
<1>7. CASE EraseFails(Uart)
  <2>1. flash' = flash /\ torn' = TRUE
    BY <1>7 DEF EraseFails
  <2>2. SetupTypes' /\ Keys'
    BY ZenonT(30), <1>1, <1>2, <2>1 DEF SetupInv, SetupTypes, Keys
  <2> QED BY <1>3, <1>4, <2>2 DEF SetupInv
<1> QED BY <1>5, <1>6, <1>7

\* save_config writes the list before it removes the old keys.
LEMMA SaveWrites ==
    ASSUME SetupInv, SaveWrite(Uart)
    PROVE  /\ SetupInv'
           /\ \A n \in Known(flash) \ Known(flash)' : n = shell[Uart].drop
<1> DEFINE sh == shell[Uart]
<1>1. /\ sh \in Command /\ sh.pc = "save" /\ sh.step \in 1 .. 4
      /\ UNCHANGED <<mode, node, torn>>
  BY ConsoleAssumption, Orders DEF SetupInv, SetupTypes, SaveWrite, Other
<1>2. shell' = [shell EXCEPT ![Uart].step = @ + 1]
  BY DEF SaveWrite
<1>3. /\ shell' \in [Shell -> Command] /\ shell'[Uart].pc = "save"
      /\ shell'[Uart].step = sh.step + 1 /\ shell'[Uart].cfg = sh.cfg
      /\ shell'[Uart].drop = sh.drop /\ shell'[Uart].unregister = sh.unregister
  BY SMTT(30), <1>1, <1>2, ConsoleAssumption DEF SetupInv, SetupTypes, Command
<1>4. /\ sh.cfg.legacy = None /\ sh.cfg \in Config
      /\ \A n \in Known(flash) : n \in sh.cfg.nets \/ n = sh.drop
      /\ sh.step = 1 /\ ~ sh.unregister => Configured(flash)
      /\ sh.step >= 2 => flash.nets = sh.cfg.nets
  BY <1>1 DEF SetupInv, Saves, Command
<1>5. /\ flash' \in Flash /\ flash'.registered = flash.registered
      /\ flash'.node_key = flash.node_key /\ flash'.nets = sh.cfg.nets
      /\ flash'.legacy = flash.legacy \/ flash'.legacy = None
  <2>0. flash' = [flash EXCEPT ![SaveOrder[sh.step]] = sh.cfg[SaveOrder[sh.step]]]
    BY DEF SaveWrite
  <2>9. flash \in Flash
    BY DEF SetupInv, SetupTypes
  <2>1. CASE sh.step = 1
    <3>1. flash' = [flash EXCEPT !.nets = sh.cfg.nets]
      BY ZenonT(30), <2>0, <2>1, Orders
    <3> QED BY ZenonT(30), <1>4, <2>9, <3>1 DEF Flash, Config
  <2>2. CASE sh.step = 2
    <3>1. flash' = [flash EXCEPT !.legacy = sh.cfg.legacy]
      BY ZenonT(30), <2>0, <2>2, Orders
    <3>2. flash.nets = sh.cfg.nets
      BY <1>4, <2>2
    <3> QED BY ZenonT(30), <1>4, <2>9, <3>1, <3>2 DEF Flash, Config
  <2>3. CASE sh.step = 3
    <3>1. flash' = [flash EXCEPT !.host = sh.cfg.host]
      BY ZenonT(30), <2>0, <2>3, Orders
    <3>2. flash.nets = sh.cfg.nets
      BY <1>4, <2>3
    <3> QED BY ZenonT(30), <1>4, <2>9, <3>1, <3>2 DEF Flash, Config
  <2>4. CASE sh.step = 4
    <3>1. flash' = [flash EXCEPT !.auth = sh.cfg.auth]
      BY ZenonT(30), <2>0, <2>4, Orders
    <3>2. flash.nets = sh.cfg.nets
      BY <1>4, <2>4
    <3> QED BY ZenonT(30), <1>4, <2>9, <3>1, <3>2 DEF Flash, Config
  <2>5. sh.step = 1 \/ sh.step = 2 \/ sh.step = 3 \/ sh.step = 4
    BY <1>1
  <2> QED BY ZenonT(30), <2>1, <2>2, <2>3, <2>4, <2>5
<1>6. \A n \in Known(flash)' : n \in sh.cfg.nets \/ n \in Known(flash)
  BY <1>5 DEF Known
<1>7. SetupTypes' /\ Runs'
  BY ZenonT(30), <1>1, <1>3, <1>5 DEF SetupInv, SetupTypes, Runs
<1>8. Saves' /\ Resets'
  <2>1. shell'[Uart].step >= 1 /\ shell'[Uart].step # 1
    BY <1>1, <1>3
  <2> QED BY ZenonT(30), <1>3, <1>4, <1>5, <1>6, <2>1 DEF Saves, Resets
<1>9. Keys'
  <2>1. sh.unregister => HalfSaved(Uart)'
    BY SMTT(30), <1>1, <1>3 DEF HalfSaved
  <2>2. ~ sh.unregister /\ Configured(flash)' => Configured(flash)
    <3>1. CASE sh.step = 1
      BY SMTT(30), <1>4, <3>1
    <3>2. CASE sh.step >= 2
      BY SMTT(30), <1>4, <1>5, <3>2 DEF Configured, Known
    <3> QED BY SMTT(30), <1>1, <3>1, <3>2
  <2>3. ~ sh.unregister => ~ HalfSaved(Uart)
    BY SMTT(30) DEF HalfSaved
  <2>4. UNCHANGED <<mode, node, torn>> /\ sh.pc # "reset"
    BY SMTT(30), <1>1
  <2> QED BY ZenonT(30), <1>5, <2>1, <2>2, <2>3, <2>4 DEF SetupInv, Keys
<1>10. \A n \in Known(flash) \ Known(flash)' : n = sh.drop
  BY ZenonT(30), <1>4, <1>5 DEF Known
<1> QED BY <1>7, <1>8, <1>9, <1>10 DEF SetupInv

LEMMA ResetRemoves ==
    ASSUME SetupInv, ResetRemove(Uart)
    PROVE  SetupInv'
<1> DEFINE sh == shell[Uart]
<1>1. /\ sh \in Command /\ sh.pc = "reset" /\ sh.step \in 1 .. 6
      /\ UNCHANGED <<mode, node, torn>>
  BY ConsoleAssumption, Orders DEF SetupInv, SetupTypes, ResetRemove, Other
<1>2. shell' = [shell EXCEPT ![Uart].step = @ + 1]
  BY DEF ResetRemove
<1>3. /\ shell' \in [Shell -> Command] /\ shell'[Uart].pc = "reset"
      /\ shell'[Uart].step = sh.step + 1
  BY SMTT(30), <1>1, <1>2, ConsoleAssumption DEF SetupInv, SetupTypes, Command
<1>4. (sh.step >= 2 => flash.legacy = None) /\ (sh.step >= 3 => flash.nets = {})
  BY SMTT(30), <1>1 DEF SetupInv, Resets
<1>5. /\ flash' \in Flash
      /\ flash'.legacy = None
      /\ flash'.nets = IF sh.step >= 2 THEN {} ELSE flash.nets
      /\ flash'.registered => flash.registered
      /\ sh.step < 5 => flash'.node_key = flash.node_key
  <2>0. flash \in Flash
    BY DEF SetupInv, SetupTypes
  <2>4. flash' = [flash EXCEPT ![ResetOrder[sh.step]] = Blank[ResetOrder[sh.step]]]
    BY DEF ResetRemove
  <2>5. Blank.legacy = None /\ Blank.nets = {} /\ Blank.node_key = "none" /\ Blank.registered = FALSE
    BY Records
  <2>1. CASE sh.step = 1
    <3>1. flash' = [flash EXCEPT !.legacy = None]
      BY ZenonT(30), <2>4, <2>5, <2>1, Orders
    <3>2. /\ flash' \in Flash /\ flash'.legacy = None /\ flash'.nets = flash.nets
          /\ flash'.registered = flash.registered /\ flash'.node_key = flash.node_key
      BY ZenonT(30), <2>0, <3>1 DEF Flash
    <3> QED BY <2>1, <3>2
  <2>2. CASE sh.step = 2
    <3>1. flash' = [flash EXCEPT !.nets = {}]
      BY ZenonT(30), <2>4, <2>5, <2>2, Orders
    <3>2. /\ flash' \in Flash /\ flash'.legacy = flash.legacy /\ flash'.nets = {}
          /\ flash'.registered = flash.registered /\ flash'.node_key = flash.node_key
      BY ZenonT(30), <2>0, <3>1 DEF Flash
    <3> QED BY <1>4, <2>2, <3>2
  <2>3. CASE sh.step \in 3 .. 6
    <3>1. /\ flash' \in Flash /\ flash'.legacy = flash.legacy /\ flash'.nets = flash.nets
          /\ flash'.registered => flash.registered
          /\ sh.step < 5 => flash'.node_key = flash.node_key
      <4>1. CASE sh.step = 3
        <5>1. flash' = [flash EXCEPT !.auth = Blank.auth]
          BY ZenonT(30), <2>4, <4>1, Orders
        <5> QED BY ZenonT(30), <2>0, <5>1, Records DEF Flash
      <4>2. CASE sh.step = 4
        <5>1. flash' = [flash EXCEPT !.host = Blank.host]
          BY ZenonT(30), <2>4, <4>2, Orders
        <5> QED BY ZenonT(30), <2>0, <5>1, Records DEF Flash
      <4>3. CASE sh.step = 5
        <5>1. flash' = [flash EXCEPT !.node_key = "none"]
          BY ZenonT(30), <2>4, <2>5, <4>3, Orders
        <5>2. /\ flash' \in Flash /\ flash'.legacy = flash.legacy /\ flash'.nets = flash.nets
              /\ flash'.registered = flash.registered
          BY ZenonT(30), <2>0, <5>1 DEF Flash
        <5> QED BY <4>3, <5>2
      <4>4. CASE sh.step = 6
        <5>1. flash' = [flash EXCEPT !.registered = FALSE]
          BY ZenonT(30), <2>4, <2>5, <4>4, Orders
        <5>2. /\ flash' \in Flash /\ flash'.legacy = flash.legacy /\ flash'.nets = flash.nets
              /\ flash'.registered = FALSE
          BY ZenonT(30), <2>0, <5>1 DEF Flash
        <5> QED BY <4>4, <5>2
      <4> QED BY <2>3, <4>1, <4>2, <4>3, <4>4
    <3> QED BY <1>4, <2>3, <3>1
  <2> QED BY <1>1, <2>1, <2>2, <2>3
<1>6. SetupTypes' /\ Runs'
  BY ZenonT(30), <1>1, <1>3, <1>5 DEF SetupInv, SetupTypes, Runs
<1>7. Saves' /\ Resets'
  BY <1>1, <1>3, <1>5 DEF Saves, Resets
<1>8. Keys'
  <2>1. ~ HalfSaved(Uart)
    BY SMTT(30), <1>1 DEF HalfSaved
  <2>2. Configured(flash)' => Configured(flash) /\ flash'.node_key = flash.node_key
    BY SMTT(30), <1>1, <1>5 DEF Configured, Known
  <2>3. flash'.node_key = flash.node_key \/ shell'[Uart].step >= 6
    BY <1>1, <1>3, <1>5
  <2>4. shell[Uart].step >= 6 => shell'[Uart].step >= 6
    BY <1>1, <1>3
  <2> QED BY ZenonT(30), <1>1, <1>3, <1>5, <2>1, <2>2, <2>3, <2>4 DEF SetupInv, Keys
<1> QED BY <1>6, <1>7, <1>8 DEF SetupInv

\* What the node that starts finds or makes is in flash.
LEMMA StartedNode ==
    ASSUME NEW f \in Flash
    PROVE  /\ Started(f) \in Node /\ Started(f).pc = "connect" /\ Started(f).key # "none"
           /\ f.node_key = "registered" => Started(f).key = "registered"
           /\ [f EXCEPT !.node_key = Started(f).key] \in Flash
           /\ [f EXCEPT !.node_key = Started(f).key].node_key = Started(f).key
           /\ [f EXCEPT !.node_key = Started(f).key].nets = f.nets
           /\ [f EXCEPT !.node_key = Started(f).key].legacy = f.legacy
           /\ [f EXCEPT !.node_key = Started(f).key].registered = f.registered
<1>1. /\ Started(f) \in Node /\ Started(f).pc = "connect"
      /\ Started(f).key = IF f.node_key = "none" THEN "new" ELSE f.node_key
  BY DEF Started, Node, Flash
<1>2. Started(f).key \in {"new", "registered"}
  BY <1>1 DEF Flash
<1> QED BY ZenonT(30), <1>1, <1>2 DEF Flash

\* The steps of the node and of the thread that removes the auth key.
LEMMA ThreadSteps ==
    ASSUME SetupInv, UNCHANGED <<mode, shell, torn>>,
           flash' \in Flash, flash'.nets = flash.nets, flash'.legacy = flash.legacy,
           node' \in Node, Runs',
           node'.pc # "off" =>
              \/ flash'.node_key = node'.key
              \/ flash'.node_key = flash.node_key /\ node'.key = node.key /\ node.pc # "off"
              \/ flash'.node_key = "none" /\ flash.node_key = "none" /\ node.pc # "off",
           node'.key = node.key \/ node'.key = "registered" \/ node.pc = "off",
           flash'.registered =>
              \/ flash.registered /\ (flash.node_key = "registered" => flash'.node_key = "registered")
              \/ node.pc = "flag" /\ flash'.node_key = flash.node_key
    PROVE  SetupInv' /\ Known(flash)' = Known(flash)
<1>1. Known(flash)' = Known(flash) /\ (Configured(flash)' <=> Configured(flash))
  BY ZenonT(30) DEF Known, Configured
<1>2. SetupTypes'
  BY ZenonT(30) DEF SetupInv, SetupTypes
<1>3. Saves' /\ Resets'
  BY ZenonT(30), <1>1 DEF SetupInv, Saves, Resets
<1>4. ASSUME ~ torn PROVE Keys'
  <2>1. /\ Configured(flash) /\ flash.registered =>
              flash.node_key = "registered" \/ HalfSaved(Uart)
        /\ node.pc # "off" =>
              \/ flash.node_key = node.key
              \/ shell[Uart].pc = "reset" /\ shell[Uart].step >= 6
        /\ mode = "normal" => node.key = "registered"
    BY SMTT(30), <1>4 DEF SetupInv, Keys
  <2>2. /\ node.pc = "flag" => node.key = "registered"
        /\ node.pc # "off" => node.key # "none"
        /\ mode = "normal" => node.pc # "off"
    BY SMTT(30) DEF SetupInv, Runs
  <2>3. HalfSaved(Uart)' <=> HalfSaved(Uart)
    BY SMTT(30) DEF HalfSaved
  <2>4. shell[Uart].pc = "reset" /\ shell[Uart].step >= 6 => ~ Configured(flash)
    BY ConsoleAssumption DEF SetupInv, SetupTypes, Command, Resets, Configured, Known
  <2>5. Configured(flash)' /\ flash'.registered => flash'.node_key = "registered" \/ HalfSaved(Uart)'
    BY ZenonT(30), <1>1, <2>1, <2>2, <2>3, <2>4
  <2>6. node'.pc # "off" =>
           \/ flash'.node_key = node'.key
           \/ shell'[Uart].pc = "reset" /\ shell'[Uart].step >= 6
    BY ZenonT(30), <2>1, <2>2
  <2>7. mode' = "normal" => node'.key = "registered"
    BY ZenonT(30), <2>1, <2>2
  <2> QED BY ZenonT(30), <2>5, <2>6, <2>7 DEF Keys
<1>5. torn => Keys'
  BY ZenonT(30) DEF Keys
<1> QED BY ZenonT(30), <1>1, <1>2, <1>3, <1>4, <1>5 DEF SetupInv

LEMMA Logins ==
    ASSUME SetupInv, Login(Uart)
    PROVE  SetupInv' /\ Known(flash)' = Known(flash)
<1>1. /\ flash \in Flash /\ node = Off /\ node' = Started(flash)
      /\ flash' = [flash EXCEPT !.node_key = Started(flash).key]
      /\ UNCHANGED <<mode, shell, torn>>
  BY DEF Login, SetupInv, SetupTypes
<1>2. /\ flash' \in Flash /\ flash'.nets = flash.nets /\ flash'.legacy = flash.legacy
      /\ flash'.node_key = node'.key /\ flash'.registered = flash.registered
      /\ node' \in Node /\ node'.pc = "connect" /\ node'.key # "none"
      /\ flash.node_key = "registered" => flash'.node_key = "registered"
  <2> DEFINE st == Started(flash)
             g == [flash EXCEPT !.node_key = st.key]
  <2>1. /\ st \in Node /\ st.pc = "connect" /\ st.key # "none"
        /\ flash.node_key = "registered" => st.key = "registered"
        /\ g \in Flash /\ g.node_key = st.key /\ g.nets = flash.nets
        /\ g.legacy = flash.legacy /\ g.registered = flash.registered
    BY ZenonT(30), <1>1, StartedNode
  <2>2. node' = st /\ flash' = g
    BY ZenonT(30), <1>1
  <2> HIDE DEF st, g
  <2> QED BY ZenonT(30), <2>1, <2>2
<1>3. node.pc = "off"
  BY <1>1, Records
<1>4. Runs'
  BY ZenonT(30), <1>2 DEF Runs
<1> QED BY ZenonT(30), <1>1, <1>2, <1>3, <1>4, ThreadSteps

\* The control thread.
LEMMA ControlSteps ==
    ASSUME SetupInv, ControlStep \/ ControlWaits \/ StreamEnds
    PROVE  SetupInv' /\ Known(flash)' = Known(flash)
<1>0. /\ flash \in Flash /\ node \in Node /\ node.key \in {"none", "new", "registered"}
      /\ flash.node_key \in {"none", "new", "registered"}
      /\ node.pc = "flag" => node.key = "registered"
      /\ node.pc # "off" => node.key # "none"
      /\ mode = "normal" => node.pc # "off"
  BY DEF SetupInv, SetupTypes, Runs, Node, Flash
<1>1. UNCHANGED <<mode, shell, torn>>
  BY DEF ControlStep, ControlConnects, ControlRegisters, ControlWaits, ControlSetsFlag,
         ControlRuns, ControlRefused, StreamEnds
<1>2. ASSUME NEW pc \in {"connect", "register", "map", "running"},
             node' = [node EXCEPT !.pc = pc], node.pc # "off",
             \/ flash' = flash
             \/ flash' = [flash EXCEPT !.registered = FALSE]
             \/ node.pc = "flag" /\ flash' = [flash EXCEPT !.registered = TRUE]
      PROVE  SetupInv' /\ Known(flash)' = Known(flash)
  <2>1. node' \in Node /\ node'.pc = pc /\ node'.key = node.key
    BY ZenonT(30), <1>0, <1>2 DEF Node
  <2>2. /\ flash' \in Flash /\ flash'.nets = flash.nets /\ flash'.legacy = flash.legacy
        /\ flash'.node_key = flash.node_key
        /\ flash'.registered => flash.registered \/ node.pc = "flag"
    BY ZenonT(30), <1>0, <1>2 DEF Flash
  <2>3. Runs'
    BY <1>0, <1>1, <1>2, <2>1 DEF Runs
  <2> QED BY ZenonT(30), <1>1, <1>2, <2>1, <2>2, <2>3, ThreadSteps
<1>3. CASE ControlConnects
  BY <1>2, <1>3 DEF ControlConnects
<1>4. CASE ControlRegisters
  <2>1. /\ node.pc = "register" /\ node' = [node EXCEPT !.pc = "flag", !.key = "registered"]
        /\ flash' = [flash EXCEPT !.node_key = IF @ = "none" THEN @ ELSE "registered"]
    BY <1>4 DEF ControlRegisters
  <2>2. node' \in Node /\ node'.pc = "flag" /\ node'.key = "registered"
    BY ZenonT(30), <1>0, <2>1 DEF Node
  <2>3. /\ flash' \in Flash /\ flash'.nets = flash.nets /\ flash'.legacy = flash.legacy
        /\ flash'.registered = flash.registered
        /\ flash'.node_key = "registered" \/ (flash'.node_key = "none" /\ flash.node_key = "none")
    BY <1>0, <2>1 DEF Flash
  <2>4. Runs'
    BY <2>2 DEF Runs
  <2> QED BY ZenonT(30), <1>1, <2>1, <2>2, <2>3, <2>4, ThreadSteps
<1>5. CASE ControlWaits
  BY <1>2, <1>5 DEF ControlWaits
<1>6. CASE ControlSetsFlag
  BY <1>2, <1>6 DEF ControlSetsFlag
<1>7. CASE ControlRuns
  BY <1>2, <1>7 DEF ControlRuns
<1>8. CASE ControlRefused
  BY <1>2, <1>8 DEF ControlRefused
<1>9. CASE StreamEnds
  BY <1>2, <1>9 DEF StreamEnds
<1> QED BY SMTT(30), <1>3, <1>4, <1>5, <1>6, <1>7, <1>8, <1>9 DEF ControlStep

LEMMA ScrubSteps ==
    ASSUME SetupInv, ScrubStep
    PROVE  SetupInv' /\ Known(flash)' = Known(flash)
<1>1. /\ UNCHANGED <<mode, node, shell, torn>>
      /\ flash' = flash \/ flash' = [flash EXCEPT !.auth = None]
  BY DEF ScrubStep, ScrubSees, ScrubForgets, ScrubFails
<1>2. flash \in Flash /\ node \in Node
  BY DEF SetupInv, SetupTypes
<1>3. /\ flash' \in Flash /\ flash'.nets = flash.nets /\ flash'.legacy = flash.legacy
      /\ flash'.node_key = flash.node_key /\ flash'.registered = flash.registered
  BY ZenonT(30), <1>1, <1>2 DEF Flash
<1>4. Runs'
  BY ZenonT(30), <1>1 DEF SetupInv, Runs
<1> QED BY ZenonT(30), <1>1, <1>2, <1>3, <1>4, ThreadSteps

\* The device starts with the flash f, and whatever command was running is gone.
LEMMA Boots ==
    ASSUME SetupInv, NEW f \in Flash, NEW button \in BOOLEAN, Boot(f, button), torn' \in BOOLEAN,
           ~ torn' => (Configured(f) /\ f.registered => f.node_key = "registered")
    PROVE  SetupInv' /\ Known(flash)' = Known(f)
<1>1. shell' \in [Shell -> Command] /\ shell'[Uart].pc = "idle"
  BY Records, ConsoleAssumption DEF Boot
<1>2. Saves' /\ Resets'
  BY <1>1 DEF Saves, Resets
<1>3. CASE button \/ ~ Configured(f) \/ ~ f.registered
  <2>1. mode' = "setup" /\ node' = Off /\ flash' = f
    BY SMTT(30), <1>3 DEF Boot
  <2>2. node' \in Node /\ node'.pc = "off"
    BY ZenonT(30), <2>1, Records
  <2>3. SetupTypes' /\ Runs'
    BY ZenonT(30), <1>1, <2>1, <2>2 DEF SetupTypes, Runs
  <2>4. Keys'
    BY ZenonT(30), <2>1, <2>2 DEF Keys, Configured, Known
  <2> QED BY ZenonT(30), <1>2, <2>1, <2>3, <2>4 DEF SetupInv, Known
<1>4. CASE ~ (button \/ ~ Configured(f) \/ ~ f.registered)
  <2> DEFINE st == Started(f)
             g == [f EXCEPT !.node_key = st.key]
  <2>1. /\ st \in Node /\ st.pc = "connect" /\ st.key # "none"
        /\ f.node_key = "registered" => st.key = "registered"
        /\ g \in Flash /\ g.node_key = st.key /\ g.nets = f.nets
        /\ g.legacy = f.legacy /\ g.registered = f.registered
    BY ZenonT(30), StartedNode
  <2>2. mode' = "normal" /\ node' = st /\ flash' = g
    BY <1>4 DEF Boot
  <2> HIDE DEF st, g
  <2>3. ~ torn' => st.key = "registered"
    BY <1>4, <2>1
  <2>4. SetupTypes' /\ Runs'
    BY ZenonT(30), <1>1, <2>1, <2>2 DEF SetupTypes, Runs
  <2>5. Keys'
    BY ZenonT(30), <2>1, <2>2, <2>3 DEF Keys
  <2>6. Known(flash)' = Known(f)
    BY ZenonT(30), <2>1, <2>2 DEF Known
  <2> QED BY <1>2, <2>4, <2>5, <2>6 DEF SetupInv
<1> QED BY <1>3, <1>4

LEMMA Restarts ==
    ASSUME OneShell, SetupInv, PowerLoss \/ Reboot(Uart) \/ ResetEnds(Uart)
    PROVE  /\ SetupInv'
           /\ Known(flash)' = Known(flash) \/ shell[Uart].pc = "reset"
<1>1. torn' = (torn \/ \E s \in Shell : HalfSaved(s))
  BY ZenonT(30) DEF PowerLoss, Reboot, ResetEnds, Restart
<1>2. torn' \in BOOLEAN /\ (~ torn' => ~ torn /\ ~ HalfSaved(Uart))
  BY ZenonT(30), <1>1, ConsoleAssumption DEF SetupInv, SetupTypes
<1>3. flash \in Flash
  BY DEF SetupInv, SetupTypes
<1>4. ~ torn' => (Configured(flash) /\ flash.registered => flash.node_key = "registered")
  BY SMTT(30), <1>2 DEF SetupInv, Keys
<1>5. CASE PowerLoss \/ Reboot(Uart)
  <2>1. PICK button \in BOOLEAN : Boot(flash, button)
    BY ZenonT(30), <1>5 DEF PowerLoss, Reboot, Restart
  <2> QED BY <1>2, <1>3, <1>4, <2>1, Boots
<1>6. CASE ResetEnds(Uart)
  <2>1. Boot(Blank, FALSE) /\ shell[Uart].pc = "reset"
    BY ZenonT(30), <1>6 DEF ResetEnds, Restart
  <2>2. Blank \in Flash /\ ~ Blank.registered
    BY Records
  <2> QED BY ZenonT(30), <1>2, <2>1, <2>2, Boots
<1> QED BY <1>5, <1>6

\* Every step keeps the invariant, and only a reset, or the save of a command
\* that forgets it, loses a network.
LEMMA SetupNext ==
    ASSUME OneShell, SetupInv, [Next]_vars
    PROVE  /\ SetupInv'
           /\ \A n \in Known(flash) \ Known(flash)' :
                 \/ shell[Uart].pc = "reset"
                 \/ shell[Uart].pc = "save" /\ shell[Uart].drop = n
<1> DEFINE Goal == /\ SetupInv'
                   /\ \A n \in Known(flash) \ Known(flash)' :
                         \/ shell[Uart].pc = "reset"
                         \/ shell[Uart].pc = "save" /\ shell[Uart].drop = n
<1>0. \A s \in Shell : s = Uart
  BY DEF OneShell
<1>1. SetupInv' /\ Known(flash)' = Known(flash) => Goal
  BY ZenonT(30)
<1>2. flash'.nets = flash.nets /\ flash'.legacy = flash.legacy => Known(flash)' = Known(flash)
  BY ZenonT(30) DEF Known
<1>3. CASE UNCHANGED vars
  <2>1. SetupInv'
    <3>1. UNCHANGED <<flash, mode, node, shell, torn>>
      BY <1>3 DEF vars
    <3>2. SetupTypes' /\ Runs' /\ Resets'
      BY ZenonT(30), <3>1 DEF SetupInv, SetupTypes, Runs, Resets
    <3>3. Saves'
      BY ZenonT(30), <3>1 DEF SetupInv, Saves, Known, Configured
    <3>4. Keys'
      BY ZenonT(30), <3>1 DEF SetupInv, Keys, Known, Configured, HalfSaved
    <3> QED BY <3>2, <3>3, <3>4 DEF SetupInv
  <2> QED BY ZenonT(30), <1>1, <1>2, <1>3, <2>1 DEF vars
<1>4. CASE SetHost(Uart) \/ SetAuthKey(Uart) \/ SetWifi(Uart) \/ ForgetWifi(Uart)
  <2>1. flash' = flash
    BY ZenonT(30), <1>4 DEF SetHost, SetAuthKey, SetWifi, ForgetWifi, Edit
  <2> QED BY <1>1, <1>2, <1>4, <2>1, Enters
<1>5. CASE SaveLoad(Uart)
  <2>1. flash' = flash
    BY <1>5 DEF SaveLoad
  <2> QED BY <1>1, <1>2, <1>5, <2>1, SaveLoads
<1>6. CASE SaveWrite(Uart)
  <2>1. shell[Uart].pc = "save"
    BY SMTT(30), <1>6 DEF SaveWrite
  <2> QED BY ZenonT(30), <1>6, <2>1, SaveWrites
<1>7. CASE SaveEnds(Uart) \/ SaveFails(Uart) \/ EraseFails(Uart)
  <2>1. flash' = flash \/ \E b : flash' = [flash EXCEPT !.registered = b]
    BY ZenonT(30), <1>7 DEF SaveEnds, SaveFails, EraseFails
  <2>2. flash'.nets = flash.nets /\ flash'.legacy = flash.legacy
    BY ZenonT(30), <2>1 DEF SetupInv, SetupTypes, Flash
  <2> QED BY <1>1, <1>2, <1>7, <2>2, CommandEnds
<1>8. CASE Login(Uart)
  BY <1>1, <1>8, Logins
<1>9. CASE Reset(Uart)
  <2>1. flash' = flash
    BY SMTT(30), <1>9 DEF Reset
  <2> QED BY <1>1, <1>2, <1>9, <2>1, ResetStarts
<1>10. CASE ResetRemove(Uart)
  <2>1. shell[Uart].pc = "reset"
    BY <1>10 DEF ResetRemove
  <2> QED BY <1>10, <2>1, ResetRemoves
<1>11. CASE PowerLoss \/ Reboot(Uart) \/ ResetEnds(Uart)
  BY ZenonT(30), <1>11, Restarts
<1>12. CASE ControlStep \/ ControlWaits \/ StreamEnds
  BY SMTT(30), <1>1, <1>12, ControlSteps
<1>13. CASE ScrubStep
  BY <1>1, <1>13, ScrubSteps
<1> HIDE DEF Goal
<1>14. Goal
  <2>1. CASE \E s \in Shell :
               \/ SetHost(s) \/ SetAuthKey(s) \/ SetWifi(s) \/ ForgetWifi(s)
               \/ SaveStep(s) \/ Login(s) \/ Reset(s) \/ ResetStep(s) \/ Reboot(s)
    <3>1. \/ SetHost(Uart) \/ SetAuthKey(Uart) \/ SetWifi(Uart) \/ ForgetWifi(Uart)
          \/ SaveStep(Uart) \/ Login(Uart) \/ Reset(Uart) \/ ResetStep(Uart) \/ Reboot(Uart)
      BY ZenonT(30), <1>0, <2>1
    <3> QED BY ZenonT(30), <3>1, <1>4, <1>5, <1>6, <1>7, <1>8, <1>9, <1>10, <1>11
               DEF SaveStep, ResetStep, Goal
  <2> QED BY ZenonT(30), <2>1, <1>3, <1>11, <1>12, <1>13 DEF Next, Goal
<1> QED BY <1>14 DEF Goal

LEMMA SetupInvariant == OneShell /\ Spec => []SetupInv
<1> SUFFICES ASSUME OneShell PROVE Spec => []SetupInv
  OBVIOUS
<1>1. Init => SetupInv
  BY SetupInit
<1>2. SetupInv /\ [Next]_vars => SetupInv'
  BY SetupNext
<1> QED BY <1>1, <1>2, PTL DEF Spec

\* With one console, a device that boots into normal mode has a node key the
\* server has registered, wherever the power was lost, unless the loss or a
\* refused write cut off a first save, or an erase failed.
THEOREM NormalModeIsRegistered == OneShell /\ Spec => []NormalIsRegistered
<1>1. SetupInv => NormalIsRegistered
  BY DEF SetupInv, Keys, NormalIsRegistered
<1> QED BY <1>1, SetupInvariant, PTL

\* With one console, no step of any thread and no loss of power loses a network,
\* but a reset and the save of the command that forgets it.
THEOREM NetworksAreKept == OneShell /\ Spec => NetworksKept
<1> SUFFICES ASSUME OneShell PROVE Spec => NetworksKept
  OBVIOUS
<1>1. SetupInv /\ [Next]_vars
        => [\A n \in Known(flash) \ Known(flash)' :
               \E s \in Shell : \/ shell[s].pc = "reset"
                                \/ shell[s].pc = "save" /\ shell[s].drop = n]_vars
  BY ZenonT(30), SetupNext, ConsoleAssumption
<1>2. Spec => []SetupInv
  BY SetupInvariant
<1> QED BY <1>1, <1>2, PTL DEF Spec, NetworksKept
=============================================================================
