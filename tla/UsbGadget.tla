----------------------------- MODULE UsbGadget -----------------------------
(***************************************************************************)
(* USB on the device through FunctionFS (usb_linux_client.c): a thread     *)
(* opens the control endpoint, writes the descriptors and opens the bulk   *)
(* endpoints, again and again until all of it succeeds, and registers the  *)
(* transport; usb_ffs_kick() closes the three and wakes it.  Descriptors   *)
(* are the numbers the kernel gives out, the lowest that is free.          *)
(***************************************************************************)
EXTENDS Integers, FiniteSets

CONSTANTS
    MaxFd,              \* bound on descriptor numbers
    MaxOther            \* bound on the other files the daemon has open

ASSUME MaxFdAssumption == MaxFd \in Nat

VARIABLES
    fds,                \* what each descriptor number is open on; 0 is stdin
    control, bulk_out, bulk_in,
    opener,             \* usb_ffs_open_thread()
    mounted,            \* whether the function can be opened
    transport           \* the transport over this handle: "none", "up", "ending"

gadgetvars == <<fds, control, bulk_out, bulk_in, opener, mounted, transport>>

Numbers == 0 .. MaxFd
Endpoints == {"control", "bulk_out", "bulk_in"}
HasFree == \E n \in Numbers: fds[n] = "free"
LowestFree == CHOOSE n \in Numbers: fds[n] = "free" /\ \A m \in Numbers: m < n => fds[m] # "free"

\* usb_ffs_init(): the second assignment to bulk_out was meant for bulk_in.
GadgetInit ==
    /\ fds = [n \in Numbers |-> IF n = 0 THEN "other" ELSE "free"]
    /\ control = -1 /\ bulk_out = -1 /\ bulk_in = 0
    /\ opener = "wait"
    /\ mounted \in BOOLEAN
    /\ transport = "none"

\* The wait on notify ends when control is -1.
OpenWaits ==
    /\ opener = "wait" /\ control = -1
    /\ opener' = "control"
    /\ UNCHANGED <<fds, control, bulk_out, bulk_in, mounted, transport>>

\* init_functionfs().
OpensControl ==
    /\ opener = "control" /\ mounted /\ HasFree
    /\ control' = LowestFree
    /\ fds' = [fds EXCEPT ![LowestFree] = "control"]
    /\ opener' = "describe"
    /\ UNCHANGED <<bulk_out, bulk_in, mounted, transport>>

WritesDescriptors ==
    /\ opener = "describe" /\ mounted
    /\ opener' = "bulk_out"
    /\ UNCHANGED <<fds, control, bulk_out, bulk_in, mounted, transport>>

OpensBulkOut ==
    /\ opener = "bulk_out" /\ mounted /\ HasFree
    /\ bulk_out' = LowestFree
    /\ fds' = [fds EXCEPT ![LowestFree] = "bulk_out"]
    /\ opener' = "bulk_in"
    /\ UNCHANGED <<control, bulk_in, mounted, transport>>

\* The last step; register_usb_transport() follows.
OpensBulkIn ==
    /\ opener = "bulk_in" /\ mounted /\ HasFree
    /\ bulk_in' = LowestFree
    /\ fds' = [fds EXCEPT ![LowestFree] = "bulk_in"]
    /\ opener' = "wait"
    /\ transport' = "up"
    /\ UNCHANGED <<control, bulk_out, mounted>>

\* The value a failed step leaves in the handle before "err:".
FailedValue(step, field, v) == IF step = field THEN -1 ELSE v

\* Mutant: "err:" takes 0 for an open descriptor.
OwnsFromZero(v) == v >= 0
\* "err:" closes what is above 0: bulk_in is 0 before it is opened first.
Owns(v) == v > 0

\* One of the steps fails, for want of the function or of a number: "err:" closes what was opened, and a second later
\* the thread starts again.
InitFails ==
    /\ opener \in {"control", "describe", "bulk_out", "bulk_in"}
    /\ ~mounted \/ (opener # "describe" /\ ~HasFree)
    /\ LET c == FailedValue(opener, "control", control)
           o == FailedValue(opener, "bulk_out", bulk_out)
           i == FailedValue(opener, "bulk_in", bulk_in)
           closed == {v \in {c, o, i}: Owns(v)} IN
       /\ fds' = [n \in Numbers |-> IF n \in closed THEN "free" ELSE fds[n]]
       /\ control' = IF Owns(c) THEN -1 ELSE c
       /\ bulk_out' = IF Owns(o) THEN -1 ELSE o
       /\ bulk_in' = IF Owns(i) THEN -1 ELSE i
    /\ opener' = "control"
    /\ UNCHANGED <<mounted, transport>>

\* Other threads of the daemon open and close files.
OtherOpens ==
    /\ HasFree /\ Cardinality({n \in Numbers: fds[n] = "other"}) < MaxOther
    /\ fds' = [fds EXCEPT ![LowestFree] = "other"]
    /\ UNCHANGED <<control, bulk_out, bulk_in, opener, mounted, transport>>

OtherCloses ==
    /\ \E n \in Numbers \ {0}: fds[n] = "other" /\ fds' = [fds EXCEPT ![n] = "free"]
    /\ UNCHANGED <<control, bulk_out, bulk_in, opener, mounted, transport>>

\* The function is bound or unbound; reads of an unbound endpoint fail.
Mounts ==
    /\ mounted' = ~mounted
    /\ UNCHANGED <<fds, control, bulk_out, bulk_in, opener, transport>>

\* bulk_read() fails and the transport ends, which kicks it once.
TransportEnds ==
    /\ transport = "up" /\ ~mounted
    /\ transport' = "ending"
    /\ UNCHANGED <<fds, control, bulk_out, bulk_in, opener, mounted>>

\* Mutant: the kick leaves the control descriptor in the handle.
KeepsControl == control
Forgets == -1

\* usb_ffs_kick().
FfsKick ==
    /\ transport = "ending"
    /\ fds' = [n \in Numbers |-> IF n \in {control, bulk_out, bulk_in} THEN "free" ELSE fds[n]]
    /\ control' = Forgets
    /\ bulk_out' = -1 /\ bulk_in' = -1
    /\ transport' = "none"
    /\ UNCHANGED <<opener, mounted>>

-----------------------------------------------------------------------------
Opener == OpenWaits \/ OpensControl \/ WritesDescriptors \/ OpensBulkOut \/ OpensBulkIn \/ InitFails

GadgetNext == Opener \/ OtherOpens \/ OtherCloses \/ Mounts \/ TransportEnds \/ FfsKick

GadgetFairness == WF_gadgetvars(Opener) /\ WF_gadgetvars(TransportEnds) /\ WF_gadgetvars(FfsKick)

GadgetSpec == GadgetInit /\ [][GadgetNext]_gadgetvars /\ GadgetFairness

-----------------------------------------------------------------------------
(* Properties.                                                             *)

\* However often opening fails at whichever step, no endpoint stays open that
\* the handle does not name, no endpoint is open twice, and the descriptors of
\* others (stdin among them) are left alone.
EndpointsOwned ==
    /\ fds[0] = "other"
    /\ \A n \in Numbers: fds[n] \in Endpoints =>
          n = [control |-> control, bulk_out |-> bulk_out, bulk_in |-> bulk_in][fds[n]]
    /\ transport = "up" => \A e \in Endpoints: \E n \in Numbers: fds[n] = e

\* Once the function stays bound, a transport that ended is replaced: the kick
\* wakes the open thread, and failed attempts leave nothing behind that would
\* stop the next.
GadgetReopens == <>[]mounted => []<>(transport = "up")

\* adbd's end of the cable comes back after each failure and leaks nothing
\* (usb_linux_client.c:300-480).
GadgetRecovers == []EndpointsOwned /\ GadgetReopens
=============================================================================
