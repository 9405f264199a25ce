--------------------------- MODULE AdbTransport ---------------------------
(***************************************************************************)
(* The life of adb transports (adb/transport.c with transport_usb.c,       *)
(* usb_linux_client.c and transport_local.c): the main thread, the input   *)
(* and output threads of every transport, and the thread that opens the    *)
(* device or accepts connections.  Transport n is the n-th connection, and *)
(* n also names the descriptor of that connection.                         *)
(***************************************************************************)
EXTENDS Naturals, Sequences, FiniteSets

CONSTANTS
    MaxTransports,      \* bound: connections
    MaxPackets          \* bound: packets from the remote side, and replies

ASSUME TransportAssumption ==
    /\ MaxTransports \in Nat /\ MaxPackets \in Nat

Transports == 1 .. MaxTransports

VARIABLES
    kind,               \* of each connection, "usb": one shared usb_handle; "tcp": a socket each
    opened,             \* connections so far
    link,               \* connections that are alive
    usbfd,              \* usb_handle.fd: a connection, or 0 for -1
    sfd,                \* t->sfd: t itself, or 0 for -1
    reg,                \* the registration socket: <<transport, action>>
    state,              \* "none", "known", "live", "freed"
    ref_count, kicked, online,
    opc, ipc,           \* where the output and the input thread are
    active,             \* the input thread's flag
    toMain, toInput,    \* the socket pair
    received, replied   \* packets so far

vars == <<kind, opened, link, usbfd, sfd, reg, state, ref_count, kicked, online, opc, ipc,
          active, toMain, toInput, received, replied>>

threads == <<opc, ipc, active>>
device == <<kind, opened, link, usbfd, sfd>>
counters == <<received, replied>>

Init ==
    /\ kind \in [Transports -> {"usb", "tcp"}]
    /\ opened = 0 /\ link = {} /\ usbfd = 0
    /\ sfd = [t \in Transports |-> 0]
    /\ reg = <<>>
    /\ state = [t \in Transports |-> "none"]
    /\ ref_count = [t \in Transports |-> 0]
    /\ kicked = [t \in Transports |-> FALSE]
    /\ online = [t \in Transports |-> FALSE]
    /\ opc = [t \in Transports |-> "none"] /\ ipc = [t \in Transports |-> "none"]
    /\ active = [t \in Transports |-> FALSE]
    /\ toMain = [t \in Transports |-> <<>>] /\ toInput = [t \in Transports |-> <<>>]
    /\ received = [t \in Transports |-> 0] /\ replied = [t \in Transports |-> 0]

\* The descriptor a thread of t reads and writes.
Descriptor(t) == IF kind[t] = "usb" THEN usbfd ELSE sfd[t]

-----------------------------------------------------------------------------
(* The device.                                                             *)

\* usb_adb_open_thread(), server_socket_thread(): a connection is registered.
OpenDevice ==
    LET t == opened + 1 IN
    /\ opened < MaxTransports
    /\ kind[t] = "usb" => usbfd = 0
    /\ opened' = t /\ link' = link \cup {t}
    /\ usbfd' = IF kind[t] = "usb" THEN t ELSE usbfd
    /\ sfd' = IF kind[t] = "tcp" THEN [sfd EXCEPT ![t] = t] ELSE sfd
    /\ state' = [state EXCEPT ![t] = "known"]
    /\ reg' = Append(reg, <<t, 1>>)
    /\ UNCHANGED <<kind, ref_count, kicked, online, threads, toMain, toInput, counters>>

LinkLost(t) ==
    /\ t \in link /\ link' = link \ {t}
    /\ UNCHANGED <<kind, opened, usbfd, sfd, reg, state, ref_count, kicked, online, threads,
                   toMain, toInput, counters>>

-----------------------------------------------------------------------------
(* kick_transport() and transport_unref().                                 *)

\* Mutant: usb_adb_kick() closes the descriptor and leaves its number.
KickKeeps(t) == UNCHANGED <<usbfd, sfd>>

\* t->kick(): the descriptor is closed.
Kick(t) ==
    /\ usbfd' = IF kind[t] = "usb" THEN 0 ELSE usbfd
    /\ sfd' = [sfd EXCEPT ![t] = 0]

\* Mutant: the flag is not looked at.
KicksAgain(t) == TRUE

\* Only the first to set kicked calls t->kick().
Kicks(t) == ~kicked[t]

AfterMark(t) == IF Kicks(t) THEN "kick" ELSE "unref"

KickOnce(t) ==
    /\ kicked' = [kicked EXCEPT ![t] = TRUE]
    /\ IF kicked[t] THEN UNCHANGED <<usbfd, sfd>> ELSE Kick(t)

\* t->close() and remove_transport().
CloseTransport(t) == reg' = Append(reg, <<t, 0>>)

\* Mutant: the count is compared with one after it went down.
LastTooSoon(t) == ref_count[t] = 2

Last(t) == ref_count[t] = 1

\* The last reference closes the transport and reports it to the main thread.
Unref(t) ==
    /\ ref_count' = [ref_count EXCEPT ![t] = @ - 1]
    /\ IF Last(t) THEN KickOnce(t) /\ CloseTransport(t)
       ELSE UNCHANGED <<usbfd, sfd, kicked, reg>>

-----------------------------------------------------------------------------
(* output_thread()                                                         *)

OutputStart(t) ==
    /\ opc[t] = "sync"
    /\ opc' = [opc EXCEPT ![t] = "read"]
    /\ toMain' = [toMain EXCEPT ![t] = Append(@, "SYNC1")]
    /\ UNCHANGED <<device, reg, state, ref_count, kicked, online, ipc, active, toInput, counters>>

Readable(t) == Descriptor(t) \in link

OutputRead(t) ==
    /\ opc[t] = "read" /\ Readable(t) /\ received[t] < MaxPackets
    /\ received' = [received EXCEPT ![t] = @ + 1]
    /\ toMain' = [toMain EXCEPT ![t] = Append(@, "packet")]
    /\ UNCHANGED <<device, reg, state, ref_count, kicked, online, threads, toInput, replied>>

\* Mutant: the main thread is not told that the connection is gone.
EndsSilently(t) == toMain

Goodbye(t) == [toMain EXCEPT ![t] = Append(@, "SYNC0")]

OutputReadFails(t) ==
    /\ opc[t] = "read" /\ ~Readable(t)
    /\ opc' = [opc EXCEPT ![t] = "mark"]
    /\ toMain' = Goodbye(t)
    /\ UNCHANGED <<device, reg, state, ref_count, kicked, online, ipc, active, toInput, counters>>

OutputMark(t) ==
    /\ opc[t] = "mark"
    /\ opc' = [opc EXCEPT ![t] = AfterMark(t)]
    /\ kicked' = [kicked EXCEPT ![t] = TRUE]
    /\ UNCHANGED <<device, reg, state, ref_count, online, ipc, active, toMain, toInput, counters>>

OutputKick(t) ==
    /\ opc[t] = "kick" /\ Kick(t)
    /\ opc' = [opc EXCEPT ![t] = "unref"]
    /\ UNCHANGED <<kind, opened, link, reg, state, ref_count, kicked, online, ipc, active,
                   toMain, toInput, counters>>

OutputUnref(t) ==
    /\ opc[t] = "unref" /\ Unref(t)
    /\ opc' = [opc EXCEPT ![t] = "done"]
    /\ UNCHANGED <<kind, opened, link, state, online, ipc, active, toMain, toInput,
                   received, replied>>

-----------------------------------------------------------------------------
(* input_thread()                                                          *)

\* Packets that come before SYNC(1) are ignored.  The result of the write is not
\* looked at.
InputRead(t) ==
    LET m == Head(toInput[t]) IN
    /\ ipc[t] = "run" /\ toInput[t] # <<>>
    /\ toInput' = [toInput EXCEPT ![t] = Tail(@)]
    /\ active' = [active EXCEPT ![t] = @ \/ m = "SYNC1"]
    /\ ipc' = [ipc EXCEPT ![t] = IF m = "SYNC0" THEN "close" ELSE @]
    /\ UNCHANGED <<device, reg, state, ref_count, kicked, online, opc, toMain,
                   received, replied>>

\* close_all_sockets(), then the thread's part of kick_transport().
InputClose(t) ==
    /\ ipc[t] = "close"
    /\ ipc' = [ipc EXCEPT ![t] = AfterMark(t)]
    /\ kicked' = [kicked EXCEPT ![t] = TRUE]
    /\ UNCHANGED <<device, reg, state, ref_count, online, opc, active, toMain, toInput, counters>>

InputKick(t) ==
    /\ ipc[t] = "kick" /\ Kick(t)
    /\ ipc' = [ipc EXCEPT ![t] = "unref"]
    /\ UNCHANGED <<kind, opened, link, reg, state, ref_count, kicked, online, opc, active,
                   toMain, toInput, counters>>

InputUnref(t) ==
    /\ ipc[t] = "unref" /\ Unref(t)
    /\ ipc' = [ipc EXCEPT ![t] = "done"]
    /\ UNCHANGED <<kind, opened, link, state, online, opc, active, toMain, toInput,
                   received, replied>>

-----------------------------------------------------------------------------
(* The main thread.                                                        *)

References == 2

\* transport_registration_func(), action 1
MainRegister ==
    LET t == Head(reg)[1] IN
    /\ reg # <<>> /\ Head(reg)[2] = 1
    /\ reg' = Tail(reg)
    /\ state' = [state EXCEPT ![t] = "live"]
    /\ ref_count' = [ref_count EXCEPT ![t] = References]
    /\ opc' = [opc EXCEPT ![t] = "sync"] /\ ipc' = [ipc EXCEPT ![t] = "run"]
    /\ UNCHANGED <<device, kicked, online, active, toMain, toInput, counters>>

\* transport_registration_func(), action 0: t->fd is closed and t freed.
MainRemove ==
    LET t == Head(reg)[1] IN
    /\ reg # <<>> /\ Head(reg)[2] = 0
    /\ reg' = Tail(reg)
    /\ state' = [state EXCEPT ![t] = "freed"]
    /\ online' = [online EXCEPT ![t] = FALSE]
    /\ UNCHANGED <<device, ref_count, kicked, threads, toMain, toInput, received, replied>>

\* transport_fde is installed.
Installed(t) == state[t] = "live"

\* connection_state after handle_packet().
Online(t, m) == IF m = "SYNC0" THEN FALSE ELSE online[t] \/ m = "packet"

\* transport_socket_events(): SYNC is sent back, a packet is answered.
MainPacket(t) ==
    LET m == Head(toMain[t]) IN
    /\ Installed(t) /\ toMain[t] # <<>>
    /\ toMain' = [toMain EXCEPT ![t] = Tail(@)]
    /\ toInput' = [toInput EXCEPT ![t] = Append(@, m)]
    /\ online' = [online EXCEPT ![t] = Online(t, m)]
    /\ UNCHANGED <<device, reg, state, ref_count, kicked, threads, counters>>

\* A socket of a stream over t has something to send.
MainSends(t) ==
    /\ Installed(t) /\ online[t] /\ replied[t] < MaxPackets
    /\ replied' = [replied EXCEPT ![t] = @ + 1]
    /\ toInput' = [toInput EXCEPT ![t] = Append(@, "packet")]
    /\ UNCHANGED <<device, reg, state, ref_count, kicked, online, threads, toMain,
                   received>>

-----------------------------------------------------------------------------
OutputThread(t) ==
    OutputStart(t) \/ OutputReadFails(t) \/ OutputMark(t) \/ OutputKick(t) \/ OutputUnref(t)

InputThread(t) == InputRead(t) \/ InputClose(t) \/ InputKick(t) \/ InputUnref(t)

MainThread == MainRegister \/ MainRemove \/ \E t \in Transports : MainPacket(t)

Next ==
    \/ OpenDevice \/ MainThread
    \/ \E t \in Transports : LinkLost(t) \/ OutputRead(t) \/ OutputThread(t) \/ InputThread(t)
                             \/ MainSends(t)

Spec == Init /\ [][Next]_vars

\* usb_adb_open_thread() by itself; a TCP connection comes from the other side.
OpenUsb == OpenDevice /\ kind[opened + 1] = "usb"

\* The threads run; the remote side owes nothing.
FairSpec ==
    /\ Spec
    /\ WF_vars(OpenUsb) /\ WF_vars(MainThread)
    /\ \A t \in Transports : WF_vars(OutputThread(t)) /\ WF_vars(InputThread(t))

-----------------------------------------------------------------------------
(* Properties.                                                             *)

Pcs == {"none", "sync", "read", "mark", "run", "close", "kick", "unref", "done"}

\* Whether a thread at this point still holds its reference.
Holds(pc) == IF pc \in {"none", "done"} THEN 0 ELSE 1

\* ref_count is the number of threads that have not ended: "initial references
\* are the two threads" (transport.c:620), and each gives up its own.
RefsAreThreads ==
    \A t \in Transports : ref_count[t] = Holds(opc[t]) + Holds(ipc[t])

\* "The transport will not actually be closed until both threads exit"
\* (transport.c:250-251): t is reported for removal, and later freed, only when
\* neither thread will touch it again.
ClosedAfterThreads ==
    \A t \in Transports :
        state[t] = "freed" \/ (\E i \in DOMAIN reg : reg[i] = <<t, 0>>) =>
            opc[t] = "done" /\ ipc[t] = "done"

\* A kick closes the connection of its own transport: a thread of an earlier
\* transport that kicks late never closes what has been opened since
\* (transport.c:65-81, usb_linux_client.c:239-249, where the handle is shared).
KicksItsOwn ==
    \A t \in Transports :
        opc[t] = "kick" \/ ipc[t] = "kick" => Descriptor(t) = t

\* A transport whose connection is lost is removed, and the next connection is
\* registered (transport.c:242-360): no thread waits for another for ever.
LostIsRemoved ==
    \A t \in Transports :
        (state[t] = "live" /\ t \notin link) ~> state[t] = "freed"

\* The usb thread opens the device again after a connection is lost.
Reopens ==
    \A t \in 1 .. MaxTransports - 1 :
        (state[t] = "live" /\ t \notin link /\ kind[t + 1] = "usb") ~> (state[t + 1] # "none")

\* A lost connection makes room for the next one (transport.c:242-360,
\* usb_linux_client.c:113-135).
LostIsReplaced == LostIsRemoved /\ Reopens
===========================================================================
