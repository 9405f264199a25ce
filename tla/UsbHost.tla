------------------------------ MODULE UsbHost ------------------------------
(***************************************************************************)
(* USB on the host (usb_linux.c): the threads that look for devices once a *)
(* second and kick the ones they no longer find, and the two threads of a  *)
(* device's transport, which share one usb_handle.  Only the reader reaps  *)
(* URBs from the kernel, also those of the writer; usb_kick() has to get   *)
(* both out of their waits.                                                *)
(*                                                                         *)
(* usb_init() starts device_poll_thread() twice: with SCHED_RR, which      *)
(* takes privileges, and with adb_thread_create().                         *)
(***************************************************************************)
EXTENDS Integers, FiniteSets

CONSTANTS
    Devs,               \* devices, each with its own name while it is plugged in
    Pollers,            \* the threads that run device_poll_thread()
    Plugs               \* bound on the times a device is plugged in

VARIABLES
    polling,            \* the poll threads that could be started
    plugged, plugs,     \* devices on the bus; devices plugged in so far
    poll,               \* each poll thread: devices left to look at in this scan
    handle,             \* each device's usb_handle
    urb,                \* its URBs in the kernel: "idle", "pending", "done", "failed"
    reader, writer,     \* its output_thread() and input_thread()
    reaped,             \* the URB that ioctl(USBDEVFS_REAPURB) returned to the reader
    mistaken            \* devices that were kicked as missing while plugged in

usbvars == <<polling, plugged, plugs, poll, handle, urb, reader, writer, reaped, mistaken>>

NoHandle == [list |-> "no", mark |-> FALSE, dead |-> FALSE, out_busy |-> FALSE, sig |-> FALSE]
NoUrbs == [in |-> "idle", out |-> "idle"]

UsbInit ==
    /\ polling \in SUBSET Pollers /\ polling # {}
    /\ plugged = {} /\ plugs = 0
    /\ poll = [p \in Pollers |-> [pc |-> "scan", left |-> Devs, dev |-> {}]]
    /\ handle = [d \in Devs |-> NoHandle]
    /\ urb = [d \in Devs |-> NoUrbs]
    /\ reader = [d \in Devs |-> "none"]
    /\ writer = [d \in Devs |-> "none"]
    /\ reaped = [d \in Devs |-> "none"]
    /\ mistaken = {}

Listed(d) == handle[d].list = "yes"

-----------------------------------------------------------------------------
(* The bus.                                                                *)

Plug(d) ==
    /\ d \notin plugged /\ handle[d].list = "no" /\ plugs < Plugs
    /\ plugged' = plugged \cup {d}
    /\ plugs' = plugs + 1
    /\ UNCHANGED <<polling, poll, handle, urb, reader, writer, reaped, mistaken>>

\* The kernel completes what is pending with an error.
Broken(u) == [e \in {"in", "out"} |-> IF u[e] = "pending" THEN "failed" ELSE u[e]]

Unplug(d) ==
    /\ d \in plugged
    /\ plugged' = plugged \ {d}
    /\ urb' = [urb EXCEPT ![d] = Broken(@)]
    /\ UNCHANGED <<polling, plugs, poll, handle, reader, writer, reaped, mistaken>>

\* The device takes or sends a packet, or stalls the endpoint.
Completes(d, e) ==
    /\ d \in plugged /\ urb[d][e] = "pending"
    /\ \E s \in {"done", "failed"}: urb' = [urb EXCEPT ![d][e] = s]
    /\ UNCHANGED <<polling, plugged, plugs, poll, handle, reader, writer, reaped, mistaken>>

-----------------------------------------------------------------------------
(* device_poll_thread().                                                   *)

\* find_usb_device() comes to a device: known_device() marks it, a new one is
\* opened and its interface claimed.  CLAIMINTERFACE fails when it is claimed.
Scan(p, d) ==
    /\ p \in polling /\ poll[p].pc = "scan" /\ d \in poll[p].left
    /\ LET q == [poll[p] EXCEPT !.left = @ \ {d}]
           new == d \in plugged /\ handle[d].list = "no" IN
       /\ poll' = [poll EXCEPT ![p] = IF new THEN [q EXCEPT !.pc = "add", !.dev = {d}] ELSE q]
       /\ handle' = IF Listed(d) /\ d \in plugged THEN [handle EXCEPT ![d].mark = TRUE]
                    ELSE IF new THEN [handle EXCEPT ![d] = [NoHandle EXCEPT !.list = "claimed"]]
                    ELSE handle
    /\ UNCHANGED <<polling, plugged, plugs, urb, reader, writer, reaped, mistaken>>

\* register_device() reads the serial number, adds the handle to handle_list
\* and calls register_usb_transport(); the main thread starts the threads.
RegisterDevice(p) ==
    /\ poll[p].pc = "add"
    /\ LET d == CHOOSE d \in Devs: d \in poll[p].dev IN
       /\ handle' = [handle EXCEPT ![d].list = "yes", ![d].mark = TRUE]
       /\ reader' = [reader EXCEPT ![d] = "idle"]
       /\ writer' = [writer EXCEPT ![d] = "idle"]
    /\ poll' = [poll EXCEPT ![p].pc = "scan", ![p].dev = {}]
    /\ UNCHANGED <<polling, plugged, plugs, urb, reaped, mistaken>>

\* DISCARDURB completes a pending URB.
Discarded(u) == Broken(u)

\* Mutant: usb_kick() cancels the transactions and forgets to set dead.
KickedAlive(h) == [h EXCEPT !.sig = TRUE]

\* usb_kick(): dead, SIGALRM to the reader, and no transaction is busy.
Kicked(h) == [h EXCEPT !.dead = TRUE, !.out_busy = FALSE, !.sig = TRUE]

\* Mutant: known devices are not spared by their mark.
AllMissing(p) == {d \in Devs: Listed(d)}

\* The devices of handle_list that the scan did not mark.
Missing(p) == {d \in Devs: Listed(d) /\ ~handle[d].mark}

\* kick_disconnected_devices(), with usb_lock held throughout.
KickDisconnected(p) ==
    /\ p \in polling /\ poll[p].pc = "scan" /\ poll[p].left = {}
    /\ LET m == {d \in Missing(p): ~handle[d].dead} IN
       /\ handle' = [d \in Devs |-> IF d \in m THEN Kicked(handle[d])
                                    ELSE IF Listed(d) THEN [handle[d] EXCEPT !.mark = FALSE]
                                    ELSE handle[d]]
       /\ urb' = [d \in Devs |-> IF d \in m THEN Discarded(urb[d]) ELSE urb[d]]
       /\ mistaken' = mistaken \cup (m \cap plugged)
    /\ poll' = [poll EXCEPT ![p].left = Devs]
    /\ UNCHANGED <<polling, plugged, plugs, reader, writer, reaped>>

-----------------------------------------------------------------------------
(* usb_bulk_read() in output_thread().                                     *)

\* Submits the IN URB: fails on a dead handle and on a missing device.
ReadSubmit(d) ==
    /\ reader[d] = "idle"
    /\ IF handle[d].dead \/ d \notin plugged
       THEN reader' = [reader EXCEPT ![d] = "fail"] /\ UNCHANGED <<urb, handle>>
       ELSE /\ urb' = [urb EXCEPT ![d].in = "pending"]
            /\ handle' = [handle EXCEPT ![d].sig = FALSE]
            /\ reader' = [reader EXCEPT ![d] = "reap"]
    /\ UNCHANGED <<polling, plugged, plugs, poll, writer, reaped, mistaken>>

\* REAPURB returns a finished URB, EINTR after the signal, or ENODEV.
ReapReturns(d) ==
    /\ reader[d] = "reap"
    /\ \/ \E e \in {"in", "out"}:
             /\ urb[d][e] \in {"done", "failed"}
             /\ reaped' = [reaped EXCEPT ![d] = IF e = "out" THEN "out"
                                                ELSE IF urb[d].in = "done" THEN "in" ELSE "in failed"]
             /\ urb' = [urb EXCEPT ![d][e] = "idle"]
       \/ /\ handle[d].sig
          /\ reaped' = [reaped EXCEPT ![d] = "eintr"]
          /\ UNCHANGED urb
       \/ /\ d \notin plugged /\ urb[d] = NoUrbs
          /\ reaped' = [reaped EXCEPT ![d] = "enodev"]
          /\ UNCHANGED urb
    /\ reader' = [reader EXCEPT ![d] = "reaped"]
    /\ UNCHANGED <<polling, plugged, plugs, poll, handle, writer, mistaken>>

\* With the lock again: a dead handle ends the read; the writer's URB is noted
\* and announced, and the loop goes on.
Reaped(d) ==
    /\ reader[d] = "reaped"
    /\ reader' = [reader EXCEPT ![d] =
          IF handle[d].dead \/ reaped[d] \in {"in failed", "enodev"} THEN "fail"
          ELSE IF reaped[d] = "in" THEN "idle" ELSE "reap"]
    /\ handle' = [handle EXCEPT ![d].sig = FALSE,
                                ![d].out_busy = @ /\ (handle[d].dead \/ reaped[d] # "out")]
    /\ reaped' = [reaped EXCEPT ![d] = "none"]
    /\ UNCHANGED <<polling, plugged, plugs, poll, urb, writer, mistaken>>

\* The reader ends: kick_transport() and SYNC(0, 0) for the writer.
ReaderEnds(d) ==
    /\ reader[d] = "fail"
    /\ reader' = [reader EXCEPT ![d] = "end"]
    /\ handle' = [handle EXCEPT ![d] = IF @.dead THEN @ ELSE Kicked(@)]
    /\ urb' = [urb EXCEPT ![d] = Discarded(@)]
    /\ UNCHANGED <<polling, plugged, plugs, poll, writer, reaped, mistaken>>

-----------------------------------------------------------------------------
(* usb_bulk_write() in input_thread().                                     *)

\* Submits the OUT URB.  A write to a dead handle or a missing device fails
\* without a trace.
WriteSubmit(d) ==
    /\ writer[d] = "idle" /\ urb[d].out = "idle"
    /\ ~handle[d].dead /\ d \in plugged
    /\ urb' = [urb EXCEPT ![d].out = "pending"]
    /\ handle' = [handle EXCEPT ![d].out_busy = TRUE]
    /\ writer' = [writer EXCEPT ![d] = "wait"]
    /\ UNCHANGED <<polling, plugged, plugs, poll, reader, reaped, mistaken>>

\* The wait ends when the handle is dead or the URB was reaped.  It is woken
\* by the reader, by usb_kick() and every five seconds; a time-out alone is
\* ETIMEDOUT, which is not below 0, and the loop goes on.  input_thread()
\* does not look at the result.
WriteWakes(d) ==
    /\ writer[d] = "wait" /\ (handle[d].dead \/ ~handle[d].out_busy)
    /\ writer' = [writer EXCEPT ![d] = "idle"]
    /\ UNCHANGED <<polling, plugged, plugs, poll, handle, urb, reader, reaped, mistaken>>

\* The writer gets SYNC(0, 0).
WriterEnds(d) ==
    /\ reader[d] = "end" /\ writer[d] = "idle"
    /\ writer' = [writer EXCEPT ![d] = "end"]
    /\ UNCHANGED <<polling, plugged, plugs, poll, handle, urb, reader, reaped, mistaken>>

\* Mutant: the handle stays in handle_list.
KeepsHandle(d) == [handle[d] EXCEPT !.dead = TRUE]

\* usb_close() takes the handle off handle_list and gives the claim back.
TakesOff(d) == NoHandle

\* The main thread removes the transport.
UsbClose(d) ==
    /\ reader[d] = "end" /\ writer[d] = "end"
    /\ handle' = [handle EXCEPT ![d] = TakesOff(d)]
    /\ urb' = [urb EXCEPT ![d] = NoUrbs]
    /\ reader' = [reader EXCEPT ![d] = "none"]
    /\ writer' = [writer EXCEPT ![d] = "none"]
    /\ UNCHANGED <<polling, plugged, plugs, poll, reaped, mistaken>>

-----------------------------------------------------------------------------
Polls(p) == \/ \E d \in Devs: Scan(p, d)
            \/ RegisterDevice(p) \/ KickDisconnected(p)
UsbRead(d) == ReadSubmit(d) \/ ReapReturns(d) \/ Reaped(d) \/ ReaderEnds(d)
UsbWrite(d) == WriteSubmit(d) \/ WriteWakes(d)
Ends(d) == WriteWakes(d) \/ WriterEnds(d) \/ UsbClose(d)

UsbNext ==
    \/ \E p \in Pollers: Polls(p)
    \/ \E d \in Devs: \/ Plug(d) \/ Unplug(d) \/ UsbRead(d) \/ UsbWrite(d)
                      \/ WriterEnds(d) \/ UsbClose(d)
                      \/ \E e \in {"in", "out"}: Completes(d, e)

\* The threads run; nothing makes a device answer or a client write.
UsbFairness ==
    /\ \A p \in Pollers: WF_usbvars(Polls(p))
    /\ \A d \in Devs: WF_usbvars(UsbRead(d)) /\ WF_usbvars(Ends(d))

UsbSpec == UsbInit /\ [][UsbNext]_usbvars /\ UsbFairness

-----------------------------------------------------------------------------
(* Properties.                                                             *)

\* "kick any devices in the device list that were not found in the device
\* scan" (usb_linux.c:115): with one poll thread a device that is plugged in is
\* never kicked as missing.
OnePollerSpares == Cardinality(polling) = 1 => mistaken = {}

\* A device that was unplugged is closed, whatever its threads were waiting
\* for: usb_kick() gets the reader out of REAPURB and the writer out of a wait
\* that nothing but the reader would end.
UnpluggedIsClosed == \A d \in Devs: Listed(d) /\ d \notin plugged ~> ~Listed(d)

\* A device that stays plugged in is served again and again, also after its
\* transport failed or was kicked by mistake.
PluggedIsServed ==
    \A d \in Devs: <>[](d \in plugged) => []<>(Listed(d) /\ ~handle[d].dead)

\* The handles follow the devices (usb_linux.c:110-160, 350-560): no device
\* that is there is given up, one that has gone is closed, and one that stays
\* is served.
HandlesFollowPlugs == []OnePollerSpares /\ UnpluggedIsClosed /\ PluggedIsServed
=============================================================================
