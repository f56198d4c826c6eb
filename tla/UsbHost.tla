------------------------------- MODULE UsbHost -------------------------------
(***************************************************************************)
(* The USB serial device of firmware/src/usb_host.rs: `struct UsbSerial'   *)
(* shared by the thread that opens devices (usb-open), the thread that     *)
(* writes (the bridge), the thread that reads (bridge-rx) and the task of  *)
(* the CDC-ACM driver, which calls data_cb, event_cb and new_dev_cb.       *)
(*                                                                         *)
(* The driver itself is not part of the repository.  It is modelled by     *)
(* what the code relies on: open_v2 gives a handle on the device that is   *)
(* plugged in, a device that leaves produces one DISCONNECTED event for    *)
(* its open handle some time later, and close ends a handle.  A handle is  *)
(* named by the number of the plug-in it was opened on; 0 is no handle.    *)
(*                                                                         *)
(* A step is what a thread does while it holds the `dev' lock, or between  *)
(* two such sections.  configure never returns an error, so the branch of  *)
(* try_open for that case is unreachable and left out.                     *)
(***************************************************************************)
EXTENDS Integers, Sequences

CONSTANTS Kind,             \* sorts of devices that may be plugged in
          Ftdi,             \* the one that prefixes packets with status bytes
          RX_QUEUE_LIMIT,   \* capacity of the receive queue
          MaxPlugs          \* bound: how often a device is plugged in

ASSUME KindAssumption == Ftdi \in Kind

ASSUME BoundsAssumption ==
    /\ RX_QUEUE_LIMIT \in Nat \ {0}
    /\ MaxPlugs \in Nat

VARIABLES
    \* The hardware and the driver.
    device,          \* the plug-in that is present, 0 when the port is empty
    plugs,           \* plug-ins so far
    kind,            \* what was plugged in each time
    open,            \* handles open in the driver
    gone,            \* open handles whose DISCONNECTED event is still to come
    closes,          \* history: how often each handle was closed
    \* struct Inner
    handle, in_use, pending_close,      \* dev: DevState
    attached, rx, driver,
    ids,             \* vid, pid and bcd_device
    \* The threads: where each one is, and the handle it holds.
    opener, opener_hdl, writer, writer_hdl, callback_hdl,
    \* History: the two races the code leaves open happened.
    overlap, missed

hwVars == <<device, plugs, kind, open, gone, closes>>
devVars == <<handle, in_use, pending_close>>
openerVars == <<opener, opener_hdl>>
writerVars == <<writer, writer_hdl>>
usbVars == <<hwVars, devVars, attached, rx, driver, ids, openerVars, writerVars,
             callback_hdl, overlap, missed>>

Plugging == 1 .. MaxPlugs
Handle == 0 .. MaxPlugs

\* The bytes of the queue: the two status bytes of an FTDI packet, as one, and
\* the serial bytes, each named by the plug-in it came from.
Status == 0
Byte == 0 .. MaxPlugs

\* UsbSerial::start, with any sort of device that is not Ftdi as the default.
UsbInit ==
    /\ device = 0 /\ plugs = 0
    /\ kind \in {[c \in Plugging |-> k] : k \in Kind \ {Ftdi}}
    /\ open = {} /\ gone = {} /\ closes = [h \in Plugging |-> 0]
    /\ handle = 0 /\ in_use = FALSE /\ pending_close = 0
    /\ attached = FALSE /\ rx = <<>>
    /\ driver \in Kind \ {Ftdi} /\ ids = driver
    /\ opener = "idle" /\ writer = "idle"
    /\ opener_hdl = 0 /\ writer_hdl = 0 /\ callback_hdl = 0
    /\ overlap = FALSE /\ missed = FALSE

-----------------------------------------------------------------------------
(* The hardware and the driver.                                            *)

\* A device is plugged in.  The driver task has reported its predecessor's
\* departure, and reports the new ids to new_dev_cb before open_v2 can succeed.
Plug(k) ==
    /\ device = 0 /\ gone = {} /\ callback_hdl = 0
    /\ plugs < MaxPlugs
    /\ plugs' = plugs + 1
    /\ device' = plugs + 1
    /\ kind' = [kind EXCEPT ![plugs + 1] = k]
    /\ ids' = k
    /\ UNCHANGED <<open, gone, closes, devVars, attached, rx, driver,
                   openerVars, writerVars, callback_hdl, overlap, missed>>

Unplug ==
    /\ device # 0
    /\ device' = 0
    /\ gone' = gone \cup (open \cap {device})
    /\ UNCHANGED <<plugs, kind, open, closes, devVars, attached, rx, driver,
                   ids, openerVars, writerVars, callback_hdl, overlap, missed>>

\* cdc_acm_host_close
Close(h) ==
    /\ open' = open \ {h}
    /\ gone' = gone \ {h}
    /\ closes' = [closes EXCEPT ![h] = @ + 1]

-----------------------------------------------------------------------------
(* The driver task.                                                        *)

\* data_cb for one packet, with at most one serial byte in it.
Packet(c) == IF kind[c] = Ftdi THEN {<<Status>>, <<Status, c>>} ELSE {<<c>>}

Stripped(p) == IF driver = Ftdi THEN Tail(p) ELSE p

Queued(q, p) ==
    LET excess == Len(q) + Len(p) - RX_QUEUE_LIMIT
        drop_n == IF excess < Len(q) THEN excess ELSE Len(q)
    IN  (IF excess > 0 THEN SubSeq(q, drop_n + 1, Len(q)) ELSE q) \o p

DataCb ==
    /\ device \in open
    /\ callback_hdl = 0
    /\ \E p \in Packet(device) :
          /\ Stripped(p) # <<>>
          /\ rx' = Queued(rx, Stripped(p))
    /\ UNCHANGED <<hwVars, devVars, attached, driver, ids, openerVars,
                   writerVars, callback_hdl, overlap, missed>>

\* Mutant: the flag is ignored.
MustParkNever == FALSE

MustPark == handle # 0 /\ in_use

\* event_cb, DISCONNECTED: closes the handle unless a thread uses it.
EventCb(h) ==
    /\ h \in gone
    /\ callback_hdl = 0
    /\ gone' = gone \ {h}
    /\ attached' = FALSE
    /\ handle' = 0
    /\ IF MustPark
         THEN pending_close' = handle /\ UNCHANGED callback_hdl
         ELSE callback_hdl' = handle /\ UNCHANGED pending_close
    /\ missed' = (missed \/ opener = "opened")
    /\ UNCHANGED <<device, plugs, kind, open, closes, in_use, rx, driver, ids,
                   openerVars, writerVars, overlap>>

\* event_cb, after it released the lock.
EventCbClose ==
    /\ callback_hdl # 0
    /\ Close(callback_hdl)
    /\ callback_hdl' = 0
    /\ UNCHANGED <<device, plugs, kind, devVars, attached, rx, driver, ids,
                   openerVars, writerVars, overlap, missed>>

-----------------------------------------------------------------------------
(* The usb-open thread: open_loop and try_open.                            *)

\* open_v2.  When it finds no device the thread sleeps and tries again.
TryOpen ==
    /\ opener = "idle"
    /\ ~attached
    /\ device # 0 /\ device \notin open
    /\ open' = open \cup {device}
    /\ opener' = "opened"
    /\ opener_hdl' = device
    /\ UNCHANGED <<device, plugs, kind, gone, closes, devVars, attached, rx,
                   driver, ids, writerVars, callback_hdl, overlap, missed>>

\* Mutant: the parked handle is forgotten.
ForgetParked == UNCHANGED <<open, gone, closes>>

CloseParked ==
    IF pending_close # 0
      THEN Close(pending_close)
      ELSE UNCHANGED <<open, gone, closes>>

\* The handle is published, marked in use, and a close that was still parked
\* is performed here.
Publish ==
    /\ opener = "opened"
    /\ CloseParked
    /\ pending_close' = 0
    /\ handle' = opener_hdl
    /\ in_use' = TRUE
    /\ opener' = "published"
    /\ overlap' = (overlap \/ writer = "sending")
    /\ UNCHANGED <<device, plugs, kind, attached, rx, driver, ids, opener_hdl,
                   writerVars, callback_hdl, missed>>

\* Driver::detect from the ids reported last.
SelectDriver ==
    /\ opener = "published"
    /\ driver' = ids
    /\ opener' = "configuring"
    /\ UNCHANGED <<hwVars, devVars, attached, rx, ids, opener_hdl, writerVars,
                   callback_hdl, overlap, missed>>

\* Mutant: a disconnect during the control transfers goes unnoticed.
LeftUnnoticed == FALSE

LeftDuringSetup == pending_close # 0

\* Mutant: the queue is not cleared.
RxKept == rx

RxAtAttach == <<>>

\* The control transfers of configure are done.
ConfigureDone ==
    /\ opener = "configuring"
    /\ in_use' = FALSE
    /\ IF LeftDuringSetup
         THEN /\ pending_close' = 0
              /\ handle' = 0
              /\ opener' = "closing"
              /\ opener_hdl' = pending_close
              /\ UNCHANGED <<rx, attached>>
         ELSE /\ opener' = "idle"
              /\ opener_hdl' = 0
              /\ rx' = RxAtAttach
              /\ attached' = TRUE
              /\ UNCHANGED <<handle, pending_close>>
    /\ UNCHANGED <<hwVars, driver, ids, writerVars, callback_hdl, overlap,
                   missed>>

OpenerClose ==
    /\ opener = "closing"
    /\ Close(opener_hdl)
    /\ opener' = "idle"
    /\ opener_hdl' = 0
    /\ UNCHANGED <<device, plugs, kind, devVars, attached, rx, driver, ids,
                   writerVars, callback_hdl, overlap, missed>>

-----------------------------------------------------------------------------
(* The writing and the reading thread.                                     *)

\* write takes the handle; it fails when the device is in use or detached.
WriteStart ==
    /\ writer = "idle"
    /\ ~in_use
    /\ handle # 0
    /\ in_use' = TRUE
    /\ writer' = "sending"
    /\ writer_hdl' = handle
    /\ UNCHANGED <<hwVars, handle, pending_close, attached, rx, driver, ids,
                   openerVars, callback_hdl, overlap, missed>>

\* The transfers of write are done, or one of them failed.
WriteEnd ==
    /\ writer = "sending"
    /\ in_use' = FALSE
    /\ pending_close' = 0
    /\ writer_hdl' = pending_close
    /\ writer' = IF pending_close # 0 THEN "closing" ELSE "idle"
    /\ UNCHANGED <<hwVars, handle, attached, rx, driver, ids, openerVars,
                   callback_hdl, overlap, missed>>

WriterClose ==
    /\ writer = "closing"
    /\ Close(writer_hdl)
    /\ writer' = "idle"
    /\ writer_hdl' = 0
    /\ UNCHANGED <<device, plugs, kind, devVars, attached, rx, driver, ids,
                   openerVars, callback_hdl, overlap, missed>>

\* read takes what is there, as much as its buffer holds.
Read ==
    /\ rx # <<>>
    /\ \E n \in 1 .. Len(rx) : rx' = SubSeq(rx, n + 1, Len(rx))
    /\ UNCHANGED <<hwVars, devVars, attached, driver, ids, openerVars,
                   writerVars, callback_hdl, overlap, missed>>

-----------------------------------------------------------------------------

Opener == TryOpen \/ Publish \/ SelectDriver \/ ConfigureDone \/ OpenerClose
DriverTask == DataCb \/ EventCbClose \/ \E h \in Plugging : EventCb(h)
Writer == WriteStart \/ WriteEnd \/ WriterClose

UsbNext ==
    \/ Unplug \/ \E k \in Kind : Plug(k)
    \/ Opener \/ DriverTask \/ Writer \/ Read

UsbSpec == UsbInit /\ [][UsbNext]_usbVars

\* Every thread that is not asleep goes on: the opener polls, a transfer ends
\* after its timeout at the latest, and the driver reports every device that
\* left.  Nothing is assumed of the hardware, of write being called or of data.
FairSpec ==
    /\ UsbSpec
    /\ WF_usbVars(Opener)
    /\ WF_usbVars(EventCbClose \/ \E h \in Plugging : EventCb(h))
    /\ WF_usbVars(WriteEnd \/ WriterClose)

-----------------------------------------------------------------------------
(* Properties.                                                             *)

\* The handles threads have transfers or control requests on.
Using ==
    {opener_hdl : t \in {opener} \cap {"published", "configuring"}} \cup
    {writer_hdl : t \in {writer} \cap {"sending"}}

\* The places that are responsible for closing a handle.
Owners ==
    <<handle, pending_close, callback_hdl,
      IF opener \in {"opened", "closing"} THEN opener_hdl ELSE 0,
      IF writer = "closing" THEN writer_hdl ELSE 0>>

\* Every open handle has exactly one owner and no owner has a closed handle:
\* whatever the order of disconnects, opens and writes, no handle is lost
\* (the device could never be opened again) and none is closed twice.
HandleOwned ==
    /\ \A h \in Plugging :
          h \in open <=> \E i \in DOMAIN Owners : Owners[i] = h
    /\ \A i, j \in DOMAIN Owners :
          Owners[i] = Owners[j] /\ Owners[i] # 0 => i = j
    /\ \A h \in Plugging : closes[h] <= 1

\* No handle is closed while a thread has a transfer on it: event_cb parks the
\* close for that thread.  One race is excepted, see ParkedForItsThread: a
\* device opened while a write to its predecessor was still in flight.
UsedHandleOpen == ~overlap => Using \subseteq open

\* What the queue holds while a device is attached came from that device and
\* is free of status bytes, although data_cb runs from the moment the device
\* is open and strips with the driver chosen for the device before.
RxClean ==
    attached /\ handle # 0 /\ handle = device =>
        /\ driver = kind[handle]
        /\ \A i \in DOMAIN rx : rx[i] = handle

\* A device that stays is attached in the end, however the earlier ones left,
\* unless one of the two races left open happened: a device that left before
\* its handle was published, or the overlap above.
Recovers ==
    \A c \in Plugging :
        device = c ~> \/ device # c
                      \/ attached /\ handle = c
                      \/ missed \/ overlap

-----------------------------------------------------------------------------
(* What the comments and the README say, and the code does not do.         *)

\* "a close requested while `in_use' is parked in `pending_close' for that
\* thread to perform": no handle is closed under a thread that uses it.
ParkedForItsThread == Using \subseteq open

\* "Recovery after ... USB replug": a device that stays is attached.
ReplugRecovers ==
    \A c \in Plugging :
        device = c ~> device # c \/ (attached /\ handle = c)
=============================================================================
