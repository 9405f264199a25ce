-------------------------- MODULE MCAdbTransport --------------------------
(***************************************************************************)
(* The transports of adbd, the devices on the host's USB, and the gadget's *)
(* endpoint files: a behaviour runs one of them while the others rest.     *)
(*                                                                         *)
(* Two successive connections are enough for a thread of the first to meet *)
(* the second; each is over USB or over TCP, and one packet in flight is   *)
(* enough to bring a transport online.                                     *)
(***************************************************************************)
EXTENDS AdbTransport, UsbHost, UsbGadget
VARIABLE part

\* No USB connection is waited for.
TransportsIdle ==
    /\ kind = [t \in Transports |-> "tcp"]
    /\ opened = 0 /\ link = {} /\ usbfd = 0
    /\ sfd = [t \in Transports |-> 0]
    /\ reg = <<>>
    /\ state = [t \in Transports |-> "none"]
    /\ ref_count = [t \in Transports |-> 0]
    /\ kicked = [t \in Transports |-> FALSE]
    /\ online = [t \in Transports |-> FALSE]
    /\ opc = [t \in Transports |-> "none"] /\ ipc = [t \in Transports |-> "none"]
    /\ active = [t \in Transports |-> FALSE]
    /\ toMain = [t \in Transports |-> <<>>] /\ toInput = [t \in Transports |-> <<>>]
    /\ received = [t \in Transports |-> 0] /\ replied = [t \in Transports |-> 0]

\* Nobody polls.
BusIdle ==
    /\ polling = {} /\ plugged = {} /\ plugs = 0
    /\ poll = [p \in Pollers |-> [pc |-> "scan", left |-> Devs, dev |-> {}]]
    /\ handle = [d \in Devs |-> NoHandle]
    /\ urb = [d \in Devs |-> NoUrbs]
    /\ reader = [d \in Devs |-> "none"]
    /\ writer = [d \in Devs |-> "none"]
    /\ reaped = [d \in Devs |-> "none"]
    /\ mistaken = {}

\* The endpoints are not mounted.
GadgetIdle ==
    /\ fds = [n \in Numbers |-> IF n = 0 THEN "other" ELSE "free"]
    /\ control = 0 /\ bulk_out = -1 /\ bulk_in = 0
    /\ opener = "wait" /\ mounted = FALSE
    /\ transport = "none"

LinksInit ==
    \/ part = "transports" /\ Init /\ BusIdle /\ GadgetIdle
    \/ part = "bus" /\ TransportsIdle /\ UsbInit /\ GadgetIdle
    \/ part = "gadget" /\ TransportsIdle /\ BusIdle /\ GadgetInit

LinksNext ==
    \/ part = "transports" /\ Next /\ UNCHANGED <<usbvars, gadgetvars, part>>
    \/ part = "bus" /\ UsbNext /\ UNCHANGED <<vars, gadgetvars, part>>
    \/ part = "gadget" /\ GadgetNext /\ UNCHANGED <<vars, usbvars, part>>

LinksSpec ==
    /\ LinksInit /\ [][LinksNext]_<<vars, usbvars, gadgetvars, part>>
    /\ WF_vars(part = "transports" /\ OpenUsb) /\ WF_vars(part = "transports" /\ MainThread)
    /\ \A t \in Transports : /\ WF_vars(part = "transports" /\ OutputThread(t))
                             /\ WF_vars(part = "transports" /\ InputThread(t))
    /\ \A p \in Pollers : WF_usbvars(part = "bus" /\ Polls(p))
    /\ \A d \in Devs : WF_usbvars(part = "bus" /\ UsbRead(d)) /\ WF_usbvars(part = "bus" /\ Ends(d))
    /\ WF_gadgetvars(part = "gadget" /\ Opener) /\ WF_gadgetvars(part = "gadget" /\ TransportEnds)
    /\ WF_gadgetvars(part = "gadget" /\ FfsKick)
=============================================================================
