------------------------------ MODULE FdEvent ------------------------------
(***************************************************************************)
(* The event loop of adbd (adb/fdevent.c, the select() build): the table   *)
(* of installed events, the descriptor sets given to select(), the list of *)
(* pending events, and the callbacks, which may install, change or remove  *)
(* any event, their own included.                                          *)
(***************************************************************************)
EXTENDS Naturals, Sequences, SequencesExt, FiniteSets, FiniteSetsExt

CONSTANTS
    Fdes,               \* fdevent structures
    Fds,                \* descriptor numbers
    Events,             \* FDE_READ and the other events somebody asks for
    READ,               \* FDE_READ
    NoFde               \* an empty entry of fd_table, no callback running

\* fdevent_register() stops the process for a greater number.
HugeFd == 32000

ASSUME FdAssumption ==
    /\ Fds \subseteq 0 .. HugeFd
    /\ READ \in Events
    /\ NoFde \notin Fdes

VARIABLES
    fde,                \* the structures
    fd_table,           \* descriptor -> the event installed on it
    fdset,              \* event -> read_fds, write_fds, error_fds
    select_n,           \* the bound given to select()
    list_pending,       \* events with something to signal, in order
    pc,                 \* where the loop is
    cur                 \* the event taken from the list

fdvars == <<fde, fd_table, fdset, select_n, list_pending, pc, cur>>

Cleared == [active |-> FALSE, fd |-> 0, wanted |-> {}, events |-> {},
            pending |-> FALSE, force_eof |-> FALSE]

Installed == {f \in Fdes : fde[f].active}

FdInit ==
    /\ fde = [f \in Fdes |-> Cleared]
    /\ fd_table = [n \in Fds |-> NoFde]
    /\ fdset = [e \in Events |-> {}]
    /\ select_n = 0
    /\ list_pending = <<>>
    /\ pc = "func" /\ cur = NoFde     \* adb_main, before fdevent_loop

-----------------------------------------------------------------------------
(* What a callback may call.                                               *)

\* The kernel hands out the lowest descriptor that is free.
FreeFd == Min({n \in Fds : fd_table[n] = NoFde})

Max2(a, b) == IF a > b THEN a ELSE b

ConnectBound(n) == Max2(select_n, n + 1)

fdevent_install(f) ==
    /\ pc = "func"
    /\ ~fde[f].active
    /\ \E n \in Fds : fd_table[n] = NoFde
    /\ fde' = [fde EXCEPT ![f] = [Cleared EXCEPT !.active = TRUE, !.fd = FreeFd]]
    /\ fd_table' = [fd_table EXCEPT ![FreeFd] = f]
    /\ select_n' = ConnectBound(FreeFd)
    /\ UNCHANGED <<fdset, list_pending, pc, cur>>

\* Mutant: the descriptor sets keep the bits of a removed event.
KeepBits(n) == fdset

ClearBits(n) == [e \in Events |-> fdset[e] \ {n}]

\* The new bound: the entry about to be cleared still counts.
DisconnectBound == 1 + Max({0} \cup {n \in Fds : n < select_n /\ fd_table[n] # NoFde})

\* fdevent_plist_remove() unlinks an event that is on the list.
Unlinked(f) == RemoveAt(list_pending, CHOOSE i \in DOMAIN list_pending : list_pending[i] = f)

Unlisted(f) == IF fde[f].pending THEN Unlinked(f) ELSE list_pending

\* Mutant: a pending event is not taken off the list.
RemovedStaysPending(f) ==
    /\ pc = "func"
    /\ fde[f].active
    /\ fdset' = ClearBits(fde[f].fd)
    /\ select_n' = DisconnectBound
    /\ fd_table' = [fd_table EXCEPT ![fde[f].fd] = NoFde]
    /\ fde' = [fde EXCEPT ![f].active = FALSE, ![f].wanted = {}]
    /\ UNCHANGED <<list_pending, pc, cur>>

fdevent_remove(f) ==
    /\ pc = "func"
    /\ fde[f].active
    /\ list_pending' = Unlisted(f)
    /\ fdset' = ClearBits(fde[f].fd)
    /\ select_n' = DisconnectBound
    /\ fd_table' = [fd_table EXCEPT ![fde[f].fd] = NoFde]
    /\ fde' = [fde EXCEPT ![f] = [@ EXCEPT !.active = FALSE, !.wanted = {},
                                            !.events = {}, !.pending = FALSE]]
    /\ UNCHANGED <<pc, cur>>

\* A pending event keeps what is not in the new set; with nothing left it is
\* not pending any more.
fdevent_set(f, es) ==
    LET left == fde[f].events \ es
        drop == fde[f].pending /\ left = {} IN
    /\ pc = "func"
    /\ fde[f].active
    /\ es # fde[f].wanted
    /\ fdset' = [e \in Events |-> IF e \in es THEN fdset[e] \cup {fde[f].fd}
                                              ELSE fdset[e] \ {fde[f].fd}]
    /\ fde' = [fde EXCEPT ![f].wanted = es,
                          ![f].events = IF fde[f].pending THEN left ELSE @,
                          ![f].pending = @ /\ ~drop]
    /\ list_pending' = IF drop THEN Unlinked(f) ELSE list_pending
    /\ UNCHANGED <<fd_table, select_n, pc, cur>>

fdevent_add(f, e) == fdevent_set(f, fde[f].wanted \cup {e})

fdevent_del(f, e) == fdevent_set(f, fde[f].wanted \ {e})

\* The exit of a shell: its terminal is told, and called at once when it has no
\* data left and is not on the list.  The nested callback starts with no events
\* and not pending; what it calls is among the calls above.
fdevent_subproc_event_func(f, data) ==
    /\ pc = "func" /\ fde[f].active
    /\ fde' = [fde EXCEPT ![f].force_eof = TRUE,
                          ![f].events = IF fde[f].pending /\ ~data THEN @ \cup {READ} ELSE @]
    /\ UNCHANGED <<fd_table, fdset, select_n, list_pending, pc, cur>>

Return ==
    /\ pc = "func"
    /\ pc' = IF cur = NoFde THEN "select" ELSE "drain"
    /\ cur' = NoFde
    /\ UNCHANGED <<fde, fd_table, fdset, select_n, list_pending>>

-----------------------------------------------------------------------------
(* The loop.                                                               *)

\* The sequence of the members of a set of descriptors in ascending order.
Ascends(s, S) ==
    /\ ToSet(s) = S
    /\ \A i, j \in DOMAIN s : i < j => s[i] < s[j]

ToList(hit) == {n \in hit : ~fde[fd_table[n]].pending}

\* select() reports any part of what is asked below its bound; nothing when a
\* signal interrupts it.
fdevent_process(rep) ==
    LET hit == {n \in Fds : \E e \in Events : n \in rep[e]}
        new == ToList(hit)
        ev(f) == {e \in Events : fde[f].active /\ fde[f].fd \in rep[e]} IN
    /\ pc = "select"
    /\ \A e \in Events : \A n \in rep[e] : n \in fdset[e] /\ n < select_n
    /\ fde' = [f \in Fdes |-> [fde[f] EXCEPT !.events = @ \cup ev(f), !.pending = @ \/ ev(f) # {}]]
    /\ \E s \in [1 .. Cardinality(new) -> new] :
          /\ Ascends(s, new)
          /\ list_pending' = list_pending \o [i \in DOMAIN s |-> fd_table[s[i]]]
    /\ pc' = "drain"
    /\ UNCHANGED <<fd_table, fdset, select_n, cur>>

fdevent_plist_dequeue ==
    /\ pc = "drain" /\ list_pending # <<>>
    /\ cur' = Head(list_pending)
    /\ list_pending' = Tail(list_pending)
    /\ pc' = "call"
    /\ UNCHANGED <<fde, fd_table, fdset, select_n>>

Drained ==
    /\ pc = "drain" /\ list_pending = <<>>
    /\ pc' = "select"
    /\ UNCHANGED <<fde, fd_table, fdset, select_n, list_pending, cur>>

fdevent_call_fdfunc ==
    /\ pc = "call"
    /\ fde' = [fde EXCEPT ![cur].events = {}, ![cur].pending = FALSE]
    /\ pc' = IF fde[cur].pending THEN "func" ELSE "drain"
    /\ UNCHANGED <<fd_table, fdset, select_n, list_pending, cur>>

fdevent_loop ==
    \/ \E rep \in [Events -> SUBSET Fds] : fdevent_process(rep)
    \/ fdevent_plist_dequeue \/ Drained \/ fdevent_call_fdfunc \/ Return

Callback ==
    \E f \in Fdes :
        \/ fdevent_install(f) \/ fdevent_remove(f)
        \/ \E e \in Events : fdevent_add(f, e) \/ fdevent_del(f, e)
        \/ \E data \in BOOLEAN : fdevent_subproc_event_func(f, data)

FdNext == fdevent_loop \/ Callback

FdSpec == FdInit /\ [][FdNext]_fdvars

-----------------------------------------------------------------------------
(* Properties.                                                             *)

\* The types of the event table, the descriptor sets and the pending list
\* (fdevent.c).
FdTypeOK ==
    /\ fde \in [Fdes -> [active : BOOLEAN, fd : Fds \cup {0}, wanted : SUBSET Events,
                         events : SUBSET Events, pending : BOOLEAN, force_eof : BOOLEAN]]
    /\ fd_table \in [Fds -> Fdes \cup {NoFde}]
    /\ fdset \in [Events -> SUBSET Fds]
    /\ select_n \in Nat
    /\ list_pending \in Seq(Fdes)
    /\ pc \in {"select", "drain", "call", "func"}
    /\ cur \in Fdes \cup {NoFde}

\* The list holds each event marked FDE_PENDING once, the one just taken from
\* it apart (fdevent.c:474-515): fdevent_plist_remove() of an unlisted event
\* writes through null links, and a pending one that is off the list is never
\* signalled.  Whatever is on the list, or just taken from it, is still
\* installed (613-615, 691-693): callbacks remove the events of other sockets,
\* and the structure lives in the socket that is freed with it.
PendingIsInstalled ==
    LET listed == ToSet(list_pending) \cup (IF pc = "call" THEN {cur} ELSE {})
    IN  /\ IsInjective(list_pending)
        /\ listed = {f \in Fdes : fde[f].pending}
        /\ listed \subseteq Installed

\* fd_table, the structures and the arguments of select() agree, so that none of
\* the FATAL()s of fdevent_process() and fdevent_unregister() (fdevent.c:413,
\* 463) is reached and no event is waited for in vain: a bit given to select()
\* belongs to an event that asked for it, and every event somebody waits for
\* has its bit, below the bound that fdevent_disconnect() recomputes (260-279).
TableInSync ==
    /\ \A f \in Installed : fd_table[fde[f].fd] = f
    /\ \A n \in Fds : fd_table[n] # NoFde => fde[fd_table[n]].active /\ fde[fd_table[n]].fd = n
    /\ \A e \in Events : \A n \in fdset[e] :
           fd_table[n] # NoFde /\ e \in fde[fd_table[n]].wanted
    /\ \A f \in Installed : \A e \in fde[f].wanted : fde[f].fd \in fdset[e] /\ fde[f].fd < select_n

\* The event loop's table, its descriptor sets and its list of pending events
\* agree (fdevent.c:240-515), whichever events the callbacks install and remove.
EventsInSync == TableInSync /\ PendingIsInstalled
=============================================================================
