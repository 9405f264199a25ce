------------------------------ MODULE AdbHost ------------------------------
(***************************************************************************)
(* The adb server on the host: the list of transports and who changes it   *)
(* (transport.c, transport_local.c), the requests of clients that connect, *)
(* disconnect, forward, track and wait for devices (handle_host_request()  *)
(* and the listeners of adb.c, the smart socket of sockets.c, the host     *)
(* services of services.c).                                                *)
(*                                                                         *)
(* The main thread runs callbacks, each one step.  Between them run the    *)
(* two threads of every transport, the thread that polls USB, the thread   *)
(* that looks for emulators when the server starts, and one thread for     *)
(* every client that waits for a device.  A pointer to an atransport is    *)
(* kept in listeners, smart sockets, slots of local_transports[] and       *)
(* threads; a step that reads one that was freed sets wild, after which    *)
(* nothing is said about the program.                                      *)
(***************************************************************************)
EXTENDS Integers, Sequences, FiniteSets

CONSTANTS
    Usb, Tcp, Emu,      \* transports, numbered from 1: over USB, by "connect:", emulators
    Port,               \* the adb port of each emulator transport
    Ports, Slots,       \* ports looked at when the server starts; slots of local_transports[]
    Names, Targets,     \* local names of forwards, and what they connect to
    Trackers, Waiters, Clients,
    Worlds,             \* the sets of transports to explore together
    Disconnects         \* bound on the "disconnect:" requests

ASSUME HostAssumption ==
    /\ Usb \cup Tcp \cup Emu \subseteq Nat \ {0} /\ Slots \subseteq Nat
    /\ Usb \cap Tcp = {} /\ Usb \cap Emu = {} /\ Tcp \cap Emu = {}

Transports == Usb \cup Tcp \cup Emu
Nodes == Transports \cup {0}
None == 0               \* NULL, and the head of transport_list
Free == [phase |-> "none", kicked |-> FALSE, conn |-> "offline", refs |-> 0,
         threads |-> {}, link |-> TRUE, bye |-> "no"]
NoListener == [to |-> "none", t |-> None]

VARIABLES
    tr,                 \* the atransport: life, kicked, connection_state, ref_count
    next, prev,         \* the links of transport_list
    regq,               \* messages on the registration socket: [t, action]
    local_transports,
    scan,               \* ports client_socket_thread() has still to try
    listener,           \* connect_to and transport of each listener
    disconnect,         \* the transport whose list of disconnects holds the listener's
    tracker,            \* device_tracker: whether open, and the list it last got
    waiter, smart,      \* the transport a wait_for_state() thread, a smart socket holds
    requests,           \* "disconnect:" requests made
    wild

lists == <<next, prev>>
hostvars == <<tr, lists, regq, local_transports, scan, listener, disconnect, tracker,
              waiter, smart, requests, wild>>

HostInit ==
    /\ \E W \in Worlds:
          tr = [t \in Transports |-> [Free EXCEPT !.phase = IF t \in W THEN "none" ELSE "absent"]]
    /\ next = [n \in Nodes |-> IF n = None THEN None ELSE -1]
    /\ prev = [n \in Nodes |-> IF n = None THEN None ELSE -1]
    /\ regq = <<>>
    /\ local_transports = [i \in Slots |-> None]
    /\ scan = Ports
    /\ listener = [n \in Names |-> NoListener]
    /\ disconnect = [n \in Names |-> None]
    /\ tracker = [k \in Trackers |-> [open |-> FALSE, told |-> {}]]
    /\ waiter = [w \in Waiters |-> [pc |-> "none", t |-> None]]
    /\ smart = [c \in Clients |-> None]
    /\ requests = 0
    /\ wild = FALSE

-----------------------------------------------------------------------------
(* The list of transports.                                                 *)

\* The i-th node from the head on, as a loop over transport_list meets it.
Walk[i \in 0 .. Cardinality(Transports)] ==
    IF i = 0 THEN next[None]
    ELSE IF Walk[i - 1] = None THEN None ELSE next[Walk[i - 1]]

Listing == {Walk[i]: i \in 0 .. Cardinality(Transports)} \ {None}

Freed(t) == tr[t].phase = "freed"

\* The loops read every node: one that was freed ends what can be said.
ListIsSound == \A t \in Listing: ~Freed(t)

\* t->next = &transport_list; t->prev = transport_list.prev; ...
Link(t) ==
    /\ next' = [next EXCEPT ![t] = None, ![prev[None]] = t]
    /\ prev' = [prev EXCEPT ![t] = prev[None], ![None] = t]

\* t->next->prev = t->prev; t->prev->next = t->next: the links of t stay.
Unlink(t) ==
    /\ prev' = [prev EXCEPT ![next[t]] = prev[t]]
    /\ next' = [next EXCEPT ![prev[t]] = next[t]]

\* kick_transport() and remote_kick(), which frees the slot of an emulator.
Kicked(f, t) == [f EXCEPT ![t].kicked = TRUE, ![t].link = FALSE]
SlotsWithout(t) == [i \in Slots |-> IF local_transports[i] = t THEN None ELSE local_transports[i]]

\* transport_unref_locked(): the last reference closes the transport and
\* sends the message that removes it.
Unref(f, t) ==
    LET n == f[t].refs - 1
        g == [f EXCEPT ![t].refs = n] IN
    /\ tr' = IF n = 0 THEN [Kicked(g, t) EXCEPT ![t].phase = "removing"] ELSE g
    /\ regq' = IF n = 0 THEN Append(regq, [t |-> t, action |-> 0]) ELSE regq

\* update_transports(): every tracker gets the list.
Updated(l) == [k \in Trackers |-> IF tracker[k].open THEN [tracker[k] EXCEPT !.told = l]
                                  ELSE tracker[k]]

ListingOf(nx) ==
    LET W[i \in 0 .. Cardinality(Transports)] ==
            IF i = 0 THEN nx[None] ELSE IF W[i - 1] = None THEN None ELSE nx[W[i - 1]]
    IN {W[i]: i \in 0 .. Cardinality(Transports)} \ {None}

\* run_transport_disconnects() with listener_disconnect(): the listeners whose
\* disconnect is on the list of t are freed.
RunDisconnects(t) ==
    /\ listener' = [n \in Names |-> IF disconnect[n] = t THEN NoListener ELSE listener[n]]
    /\ disconnect' = [n \in Names |-> IF disconnect[n] = t THEN None ELSE disconnect[n]]

\* transport_registration_func(), action 1.  A device without permission
\* gets no threads.
MainRegister ==
    /\ ~wild /\ regq # <<>> /\ Head(regq).action = 1
    /\ LET t == Head(regq).t IN
       /\ regq' = Tail(regq)
       /\ tr' = [tr EXCEPT ![t].phase = "up",
                           ![t].refs = IF tr[t].conn = "noperm" THEN 0 ELSE 2,
                           ![t].threads = IF tr[t].conn = "noperm" THEN {} ELSE {"in", "out"}]
       /\ Link(t)
       /\ tracker' = Updated(ListingOf(next'))
       /\ wild' = \/ ~ListIsSound
                  \/ prev[None] # None /\ Freed(prev[None])
    /\ UNCHANGED <<local_transports, scan, listener, disconnect, waiter, smart, requests>>

\* Action 0: unlinks the transport, which unregister_transport() may have done
\* before, and frees it.
MainRemove ==
    /\ ~wild /\ regq # <<>> /\ Head(regq).action = 0
    /\ LET t == Head(regq).t IN
       /\ regq' = Tail(regq)
       /\ Unlink(t)
       /\ RunDisconnects(t)
       /\ tr' = [tr EXCEPT ![t].phase = "freed"]
       /\ tracker' = Updated(ListingOf(next'))
       /\ wild' = \/ \E m \in {next[t], prev[t]} \ {None}: Freed(m)
                  \/ \E m \in ListingOf(next'): m = t \/ Freed(m)
    /\ UNCHANGED <<local_transports, scan, waiter, smart, requests>>

\* The output thread: the link is lost, SYNC(0, 0) is sent to the main thread.
OutputEnds(t) ==
    /\ ~wild /\ "out" \in tr[t].threads /\ ~tr[t].link
    /\ IF Freed(t) THEN wild' = TRUE /\ UNCHANGED <<tr, regq, local_transports>>
       ELSE /\ Unref([Kicked(tr, t) EXCEPT ![t].threads = @ \ {"out"},
                                           ![t].bye = IF @ = "no" THEN "main" ELSE @], t)
            /\ local_transports' = SlotsWithout(t)
            /\ UNCHANGED wild
    /\ UNCHANGED <<lists, scan, listener, disconnect, tracker, waiter, smart, requests>>

\* The input thread: the main thread passed the SYNC on, or t->fd is closed.
InputEnds(t) ==
    /\ ~wild /\ "in" \in tr[t].threads
    /\ tr[t].bye = "input" \/ tr[t].phase \in {"removing", "freed"}
    /\ IF Freed(t) THEN wild' = TRUE /\ UNCHANGED <<tr, regq, local_transports>>
       ELSE /\ Unref([Kicked(tr, t) EXCEPT ![t].threads = @ \ {"in"}], t)
            /\ local_transports' = SlotsWithout(t)
            /\ UNCHANGED wild
    /\ UNCHANGED <<lists, scan, listener, disconnect, tracker, waiter, smart, requests>>

LinkFails(t) ==
    /\ ~wild /\ tr[t].phase = "up" /\ tr[t].conn # "noperm" /\ tr[t].link
    /\ tr' = [tr EXCEPT ![t].link = FALSE]
    /\ UNCHANGED <<lists, regq, local_transports, scan, listener, disconnect, tracker,
                   waiter, smart, requests, wild>>

-----------------------------------------------------------------------------
(* Packets of a transport, in the main thread.                             *)

\* A_SYNC 0: handle_offline() and the packet goes on to the input thread.
\* The trackers are not told.
HandleOffline(t) ==
    /\ ~wild /\ tr[t].bye = "main" /\ tr[t].phase \in {"up", "removing"}
    /\ tr' = [tr EXCEPT ![t].bye = "input", ![t].conn = "offline"]
    /\ RunDisconnects(t)
    /\ UNCHANGED <<lists, regq, local_transports, scan, tracker, waiter, smart, requests, wild>>

\* A_CNXN: a transport that was not offline goes offline first, and
\* parse_banner() tells the trackers.
HandleConnect(t) ==
    /\ ~wild /\ tr[t].phase = "up" /\ tr[t].bye = "no" /\ tr[t].link
    /\ tr[t].conn # "noperm"
    /\ IF tr[t].conn # "offline" THEN RunDisconnects(t) ELSE UNCHANGED <<listener, disconnect>>
    /\ tr' = [tr EXCEPT ![t].conn = "device"]
    /\ tracker' = Updated(Listing)
    /\ wild' = ~ListIsSound
    /\ UNCHANGED <<lists, regq, local_transports, scan, waiter, smart, requests>>

-----------------------------------------------------------------------------
(* New transports.                                                         *)

Registers(t, conn) ==
    /\ tr' = [tr EXCEPT ![t].phase = "queued", ![t].conn = conn]
    /\ regq' = Append(regq, [t |-> t, action |-> 1])

\* register_usb_transport() in the thread that polls USB.
UsbFound(t, conn) ==
    /\ ~wild /\ t \in Usb /\ tr[t].phase = "none"
    /\ Registers(t, conn)
    /\ UNCHANGED <<lists, local_transports, scan, listener, disconnect, tracker, waiter,
                   smart, requests, wild>>

\* unregister_usb_transport(), same thread: only for a device without
\* permission.  Nothing is freed and no tracker is told.
UsbUnplugged(t) ==
    /\ ~wild /\ t \in Listing /\ tr[t].conn = "noperm"
    /\ Unlink(t)
    /\ tr' = [tr EXCEPT ![t].phase = "leaked"]
    /\ UNCHANGED <<regq, local_transports, scan, listener, disconnect, tracker, waiter,
                   smart, requests, wild>>

\* "connect:<host>": connect_device().
ReqConnect(t) ==
    /\ ~wild /\ t \in Tcp /\ tr[t].phase = "none"
    /\ Registers(t, "offline")
    /\ UNCHANGED <<lists, local_transports, scan, listener, disconnect, tracker, waiter,
                   smart, requests, wild>>

Occupied(p) == \E i \in Slots: local_transports[i] # None /\ Port[local_transports[i]] = p

\* Mutant: local_connect() does not look for the port.
EmulatorUnchecked(t) == \E i \in Slots: local_transports[i] = None

\* init_socket_transport(): the port is not known yet and a slot is free.
EmulatorFits(t) == ~Occupied(Port[t]) /\ \E i \in Slots: local_transports[i] = None

\* local_connect_arbitrary_ports(): on a failure the connection is closed.
LocalConnect(t) ==
    /\ t \in Emu /\ tr[t].phase = "none"
    /\ IF EmulatorFits(t)
       THEN /\ Registers(t, "offline")
            /\ LET i == CHOOSE j \in Slots: /\ local_transports[j] = None
                                            /\ \A k \in Slots: k < j => local_transports[k] # None
               IN local_transports' = [local_transports EXCEPT ![i] = t]
       ELSE tr' = [tr EXCEPT ![t].phase = "failed"] /\ UNCHANGED <<regq, local_transports>>

\* client_socket_thread(), when the server starts.
StartupScan(t) ==
    /\ ~wild /\ t \in Emu /\ Port[t] \in scan
    /\ scan' = scan \ {Port[t]}
    /\ LocalConnect(t)
    /\ UNCHANGED <<lists, listener, disconnect, tracker, waiter, smart, requests, wild>>

\* "emulator:<port>" and "connect:emu:<ports>".
ReqEmulator(t) ==
    /\ ~wild /\ LocalConnect(t)
    /\ UNCHANGED <<lists, scan, listener, disconnect, tracker, waiter, smart, requests, wild>>

-----------------------------------------------------------------------------
(* handle_host_request() and the host services.                            *)

\* unregister_transport(): unlinks, kicks, and gives back a reference that
\* belongs to one of the threads.
ReqDisconnect(t) ==
    /\ ~wild /\ requests < Disconnects /\ t \in Tcp \cap Listing
    /\ requests' = requests + 1
    /\ Unlink(t)
    /\ Unref(Kicked(tr, t), t)
    /\ local_transports' = SlotsWithout(t)
    /\ wild' = ~ListIsSound
    /\ UNCHANGED <<scan, listener, disconnect, tracker, waiter, smart>>

\* acquire_one_transport() over the candidates that match the request.
Usable(t) == tr[t].conn # "noperm"
AcquireOne(cands) ==
    LET m == {t \in cands \cap Listing: Usable(t)} IN
    IF Cardinality(m) = 1 THEN CHOOSE t \in m: TRUE ELSE None

\* CS_ANY: an offline device is refused.
Granted(t) == t # None /\ tr[t].conn = "device"

\* A request for one serial number, one kind of transport, or any.
Requested == {{t}: t \in Transports} \cup {Usb, Emu \cup Tcp, Transports}

\* Mutant: a listener that is bound again keeps its disconnect.
RebindOnly(n, to, t) ==
    /\ listener' = [listener EXCEPT ![n] = [to |-> to, t |-> t]]
    /\ UNCHANGED disconnect

\* install_listener() for a local name that has a listener.
Rebind(n, to, t) ==
    /\ listener' = [listener EXCEPT ![n] = [to |-> to, t |-> t]]
    /\ disconnect' = [disconnect EXCEPT ![n] = t]

\* "forward:[norebind:]<local>;<remote>".
ReqForward(n, to, cands, no_rebind) ==
    /\ ~wild /\ ListIsSound
    /\ LET t == AcquireOne(cands) IN
       /\ Granted(t)
       /\ IF listener[n] = NoListener
          THEN /\ listener' = [listener EXCEPT ![n] = [to |-> to, t |-> t]]
               /\ disconnect' = [disconnect EXCEPT ![n] = t]
          ELSE ~no_rebind /\ Rebind(n, to, t)
    /\ UNCHANGED <<tr, lists, regq, local_transports, scan, tracker, waiter, smart,
                   requests, wild>>

\* "killforward:<local>": whatever transport the listener belongs to.
ReqKillForward(n, cands) ==
    /\ ~wild /\ ListIsSound /\ Granted(AcquireOne(cands)) /\ listener[n] # NoListener
    /\ listener' = [listener EXCEPT ![n] = NoListener]
    /\ disconnect' = [disconnect EXCEPT ![n] = None]
    /\ UNCHANGED <<tr, lists, regq, local_transports, scan, tracker, waiter, smart,
                   requests, wild>>

\* "killforward-all".
ReqKillForwardAll ==
    /\ ~wild /\ listener # [n \in Names |-> NoListener]
    /\ listener' = [n \in Names |-> NoListener]
    /\ disconnect' = [n \in Names |-> None]
    /\ UNCHANGED <<tr, lists, regq, local_transports, scan, tracker, waiter, smart,
                   requests, wild>>

\* listener_event_func(): a connection to the forwarded name, for l->transport.
Forwarded(n) ==
    /\ ~wild /\ listener[n] # NoListener
    /\ wild' = Freed(listener[n].t)
    /\ UNCHANGED <<tr, lists, regq, local_transports, scan, listener, disconnect, tracker,
                   waiter, smart, requests>>

\* Mutant: the list is not sent when the tracker connects.
FirstListOnUpdate == {}
\* device_tracker_ready(): update_needed is set when the tracker is created.
FirstList == Listing

\* "track-devices": device_tracker_ready() sends the first list.
ReqTrack(k) ==
    /\ ~wild /\ ~tracker[k].open
    /\ tracker' = [tracker EXCEPT ![k] = [open |-> TRUE, told |-> FirstList]]
    /\ wild' = ~ListIsSound
    /\ UNCHANGED <<tr, lists, regq, local_transports, scan, listener, disconnect, waiter,
                   smart, requests>>

TrackerCloses(k) ==
    /\ ~wild /\ tracker[k].open
    /\ tracker' = [tracker EXCEPT ![k] = [open |-> FALSE, told |-> {}]]
    /\ UNCHANGED <<tr, lists, regq, local_transports, scan, listener, disconnect, waiter,
                   smart, requests, wild>>

\* "transport:<serial>" and the request that follows it on the same socket.
ReqTransport(c, cands) ==
    /\ ~wild /\ ListIsSound /\ smart[c] = None /\ Granted(AcquireOne(cands))
    /\ smart' = [smart EXCEPT ![c] = AcquireOne(cands)]
    /\ UNCHANGED <<tr, lists, regq, local_transports, scan, listener, disconnect, tracker,
                   waiter, requests, wild>>

ReqService(c) ==
    /\ ~wild /\ smart[c] # None
    /\ wild' = Freed(smart[c])
    /\ smart' = [smart EXCEPT ![c] = None]
    /\ UNCHANGED <<tr, lists, regq, local_transports, scan, listener, disconnect, tracker,
                   waiter, requests>>

\* "wait-for-any": a thread that calls acquire_one_transport(CS_DEVICE), which
\* looks at the state of its result after it gave up the lock.
ReqWaitFor(w) ==
    /\ ~wild /\ waiter[w].pc = "none"
    /\ waiter' = [waiter EXCEPT ![w].pc = "scan"]
    /\ UNCHANGED <<tr, lists, regq, local_transports, scan, listener, disconnect, tracker,
                   smart, requests, wild>>

Found == {t \in Listing: Usable(t)}

\* Mutant: an ambiguous request is tried again like any other.
AmbiguousWaits == "scan"
\* "more than one device": without a serial number the request fails.
AmbiguousFails == "fails"

WaitScan(w) ==
    /\ ~wild /\ waiter[w].pc = "scan" /\ ListIsSound /\ Found # {}
    /\ waiter' = [waiter EXCEPT ![w] =
          IF Cardinality(Found) > 1 THEN [pc |-> AmbiguousFails, t |-> None]
          ELSE [pc |-> "check", t |-> CHOOSE t \in Found: TRUE]]
    /\ UNCHANGED <<tr, lists, regq, local_transports, scan, listener, disconnect, tracker,
                   smart, requests, wild>>

WaitChecks(w) ==
    /\ ~wild /\ waiter[w].pc = "check"
    /\ LET t == waiter[w].t IN
       /\ wild' = Freed(t)
       /\ waiter' = [waiter EXCEPT ![w] = [pc |-> IF tr[t].conn = "device" THEN "okay" ELSE "scan",
                                           t |-> None]]
    /\ UNCHANGED <<tr, lists, regq, local_transports, scan, listener, disconnect, tracker,
                   smart, requests>>

-----------------------------------------------------------------------------
HostNext ==
    \/ MainRegister \/ MainRemove \/ ReqKillForwardAll
    \/ \E t \in Transports:
          \/ OutputEnds(t) \/ InputEnds(t) \/ LinkFails(t)
          \/ HandleOffline(t) \/ HandleConnect(t)
          \/ UsbFound(t, "offline") \/ UsbFound(t, "noperm") \/ UsbUnplugged(t)
          \/ ReqConnect(t) \/ StartupScan(t) \/ ReqEmulator(t) \/ ReqDisconnect(t)
    \/ \E cands \in Requested:
          \/ \E n \in Names: \/ \E to \in Targets, b \in BOOLEAN: ReqForward(n, to, cands, b)
                             \/ ReqKillForward(n, cands)
          \/ \E c \in Clients: ReqTransport(c, cands)
    \/ \E n \in Names: Forwarded(n)
    \/ \E k \in Trackers: ReqTrack(k) \/ TrackerCloses(k)
    \/ \E c \in Clients: ReqService(c)
    \/ \E w \in Waiters: ReqWaitFor(w) \/ WaitScan(w) \/ WaitChecks(w)

\* The main thread and the threads run; nothing makes a device appear, a link
\* fail or a client ask.
HostFairness ==
    /\ WF_hostvars(MainRegister) /\ WF_hostvars(MainRemove)
    /\ \A t \in Transports: /\ WF_hostvars(OutputEnds(t)) /\ WF_hostvars(InputEnds(t))
                             /\ WF_hostvars(HandleOffline(t))
    /\ \A w \in Waiters: WF_hostvars(WaitScan(w)) /\ WF_hostvars(WaitChecks(w))

HostSpec == HostInit /\ [][HostNext]_hostvars /\ HostFairness

-----------------------------------------------------------------------------
(* Properties.                                                             *)

\* No listener is left for a transport that was freed, also when it was bound
\* again to another device: its connections would use the freed transport.
ListenersServed ==
    \A n \in Names: listener[n] # NoListener => ~Freed(listener[n].t)

\* An emulator is registered once however the requests for it and the thread
\* that looks for emulators interleave ("local_connect protects against
\* double-registration too", adb.c:1524), and no slot keeps a freed transport.
OncePerPort ==
    /\ \A t, u \in Emu: t # u /\ Port[t] = Port[u] =>
          tr[t].kicked \/ tr[u].kicked \/ {tr[t].phase, tr[u].phase} \cap {"queued", "up"} = {}
                       \/ ~({tr[t].phase, tr[u].phase} \subseteq {"queued", "up"})
    /\ \A i \in Slots: local_transports[i] # None => ~Freed(local_transports[i])

\* The server's tables name each transport once and none that was freed
\* (adb.c:740-900, transport_local.c:60-140).
TablesInOrder == ListenersServed /\ OncePerPort

\* What a tracker was told last is the list, but for transports that were taken
\* off it and not removed yet: "call this function each time the transport
\* list has changed" (transport.c:492).
Leaving == {t \in Transports: tr[t].phase \in {"up", "removing", "leaked"}} \ Listing
TrackersTold ==
    ~wild => \A k \in Trackers: tracker[k].open =>
       Listing \subseteq tracker[k].told /\ tracker[k].told \subseteq Listing \cup Leaving

\* A client that waits for a device is answered once the devices there are all
\* stay online: acquire_one_transport() tries again, or says that there are
\* several.
AllOnline == Found # {} /\ \A t \in Found: tr[t].conn = "device"
WaitersAnswered ==
    <>[](AllOnline /\ ~wild) => \A w \in Waiters: []<>(waiter[w].pc \in {"none", "okay", "fails"})

\* Clients that follow the devices hear of them (transport.c:390-520, 690-760,
\* services.c:480-520).
ClientsTold == []TrackersTold /\ WaitersAnswered

\* "The transport will not actually be closed until both threads exit"
\* (transport.c:250).
FreedAfterThreads == \A t \in Transports: Freed(t) => tr[t].threads = {}
=============================================================================
