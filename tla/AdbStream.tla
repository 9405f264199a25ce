----------------------------- MODULE AdbStream -----------------------------
(***************************************************************************)
(* Streams multiplexed over one transport between an adb server (Host) and *)
(* adbd (Dev): the local, remote and smart sockets of adb/sockets.c and    *)
(* the OPEN, OKAY, WRTE, CLSE and CNXN cases of handle_packet() (adb.c),   *)
(* run by both ends.  A remote socket is the number of the far socket in   *)
(* the field peer of the local one.  The link keeps the order of messages  *)
(* until it fails; the server may be restarted on a live link.             *)
(***************************************************************************)
EXTENDS Integers, Sequences, SequencesExt, FiniteSets, FiniteSetsExt

CONSTANTS
    Host, Dev,          \* the two ends
    MaxPayload,         \* items in one packet
    MaxStreams, MaxData,\* bounds of all loads
    Loads               \* what clients, services and faults may do, see LoadOK

Ends == {Host, Dev}

(***************************************************************************)
(* A load bounds the connections made by clients, the items a process      *)
(* writes to its descriptor and the restarts of the server, and says what  *)
(* may fail.                                                               *)
(***************************************************************************)
LoadOK(l) ==
    /\ l.streams \in 1 .. MaxStreams /\ l.data \in [Ends -> 0 .. MaxData] /\ l.restarts \in Nat
    /\ l.faults \subseteq {"link", "write", "hangup"}

ASSUME StreamAssumption ==
    /\ Host # Dev
    /\ MaxStreams \in Nat \ {0} /\ MaxData \in Nat /\ MaxPayload \in Nat \ {0}
    /\ \A l \in Loads : LoadOK(l)

VARIABLES
    load,
    sock,               \* the local sockets of each end, by id
    next_id,            \* local_socket_next_id
    chan,               \* messages on their way to each end
    online,             \* t->online
    transport,          \* "up", then "lost", "offline" and "closed" at each end
    io,                 \* what is behind each descriptor, by end and stream
    status,             \* what the client of each stream has been told
    clients,            \* connections made so far
    restarts

vars == <<load, sock, next_id, chan, online, transport, io, status, clients, restarts>>

Other(e) == IF e = Host THEN Dev ELSE Host
Ids == 1 .. MaxStreams
Streams == 1 .. MaxStreams

Item == Streams \X (1 .. MaxData)
Message == [cmd : {"CNXN", "OPEN", "OKAY", "WRTE", "CLSE"}, arg0 : 0 .. MaxStreams,
            arg1 : 0 .. MaxStreams, data : Seq(Item), dest : 0 .. MaxStreams]

\* st: on local_socket_list, on the closing list, or not there.
Free == [st |-> "free", stream |-> 0, peer |-> 0, smart |-> FALSE, notify |-> FALSE,
         read |-> FALSE, pkts |-> <<>>]

Msg(c, a, b) == [cmd |-> c, arg0 |-> a, arg1 |-> b, data |-> <<>>, dest |-> 0]

Init ==
    /\ load \in Loads
    /\ sock = [e \in Ends |-> [i \in Ids |-> Free]]
    /\ next_id = [e \in Ends |-> 1]
    /\ chan = [e \in Ends |-> IF e = Dev THEN <<Msg("CNXN", 0, 0)>> ELSE <<>>]
    /\ online = [e \in Ends |-> FALSE]
    /\ transport = [e \in Ends |-> "up"]
    /\ io = [e \in Ends |-> [k \in Streams |->
                 [made |-> 0, taken |-> 0, eof |-> FALSE, got |-> <<>>]]]
    /\ status = [k \in Streams |-> "none"]
    /\ clients = 0
    /\ restarts = 0

-----------------------------------------------------------------------------
(* The link.                                                               *)

\* The channels once e has taken the head of its own (when rcv) and sent out.
Moved(e, rcv, out) ==
    [chan EXCEPT ![e] = IF rcv THEN Tail(@) ELSE @,
                 ![Other(e)] = IF transport[Other(e)] = "up" THEN @ \o out ELSE @]

-----------------------------------------------------------------------------
(* Closing a local socket.                                                 *)

\* Mutant: queued packets are dropped with the socket.
DestroyedAtOnce(s) == Free

\* Mutant: a socket with a backlog stays where it was.
StaysListed(s) == IF s.pkts = <<>> THEN Free ELSE [s EXCEPT !.peer = 0, !.read = FALSE]

\* local_socket_close_locked() after its peer is gone.
Closed(s) ==
    IF s.st = "closing" \/ s.pkts = <<>>
    THEN Free
    ELSE [s EXCEPT !.st = "closing", !.peer = 0, !.smart = FALSE, !.read = FALSE]

\* Mutant: the far side is not told.
SilentClose(s) == <<>>

\* What remote_socket_close() sends: its own peer field is already cleared.
Farewell(s) == IF s.peer = 0 THEN <<>> ELSE <<Msg("CLSE", 0, s.peer)>>

\* s->close(): a rigged socket tells its client first.
Told(s) == IF s.notify THEN [status EXCEPT ![s.stream] = "FAIL"] ELSE status

-----------------------------------------------------------------------------
(* The processes behind the descriptors.                                   *)

Behind(e, k) == \E i \in Ids : sock[e][i].st # "free" /\ sock[e][i].stream = k

Produce(e, k) ==
    /\ Behind(e, k) /\ ~io[e][k].eof /\ io[e][k].made < load.data[e]
    /\ io' = [io EXCEPT ![e][k].made = @ + 1]
    /\ UNCHANGED <<load, sock, next_id, chan, online, transport, status, clients, restarts>>

\* A client may always hang up, a service when "hangup" is among the faults.
HangUp(e, k) ==
    /\ e = Host \/ "hangup" \in load.faults
    /\ Behind(e, k) /\ ~io[e][k].eof
    /\ io' = [io EXCEPT ![e][k].eof = TRUE]
    /\ UNCHANGED <<load, sock, next_id, chan, online, transport, status, clients, restarts>>

-----------------------------------------------------------------------------
(* Clients of the server.                                                  *)

\* ss_listener_event_func(): a connection to the smart port, whose client has
\* chosen the device; none can be chosen while it is offline.
SmartConnect ==
    /\ clients < load.streams /\ online[Host]
    /\ clients' = clients + 1
    /\ sock' = [sock EXCEPT ![Host][next_id[Host]] =
                    [Free EXCEPT !.st = "list", !.stream = clients + 1, !.smart = TRUE,
                                 !.read = TRUE]]
    /\ next_id' = [next_id EXCEPT ![Host] = @ + 1]
    /\ UNCHANGED <<load, chan, online, transport, io, status, restarts>>

Open(i, k) == <<[Msg("OPEN", i, 0) EXCEPT !.dest = k]>>

\* listener_event_func(): a connection to a forwarded port; the listener goes
\* away with its transport.
ForwardConnect ==
    /\ clients < load.streams /\ online[Host]
    /\ clients' = clients + 1
    /\ sock' = [sock EXCEPT ![Host][next_id[Host]] =
                    [Free EXCEPT !.st = "list", !.stream = clients + 1]]
    /\ next_id' = [next_id EXCEPT ![Host] = @ + 1]
    /\ chan' = Moved(Host, FALSE, Open(next_id[Host], clients + 1))
    /\ UNCHANGED <<load, online, transport, io, status, restarts>>

\* smart_socket_enqueue() refuses the request: its length cannot be read (no
\* answer), or there is no device (FAIL).
SmartRefuse(i, legible) ==
    LET s == sock[Host][i] IN
    /\ s.st = "list" /\ s.smart /\ s.read
    /\ legible => ~online[Host]
    /\ status' = IF legible THEN [status EXCEPT ![s.stream] = "FAIL"] ELSE status
    /\ sock' = [sock EXCEPT ![Host][i] = Closed(s)]
    /\ UNCHANGED <<load, next_id, chan, online, transport, io, clients, restarts>>

\* A whole request: the socket is rigged, OPEN is sent, reading stops.  When the
\* same read meets the end of the file the rigged socket is closed at once.
SmartRequest(i) ==
    LET s == sock[Host][i]
        t == [s EXCEPT !.smart = FALSE, !.notify = TRUE, !.read = FALSE]
        eof == io[Host][s.stream].eof IN
    /\ s.st = "list" /\ s.smart /\ s.read /\ online[Host]
    /\ sock' = [sock EXCEPT ![Host][i] = IF eof THEN Closed(t) ELSE t]
    /\ status' = [status EXCEPT ![s.stream] = IF eof THEN "FAIL" ELSE "asked"]
    /\ chan' = Moved(Host, FALSE, Open(i, s.stream))
    /\ UNCHANGED <<load, next_id, online, transport, io, clients, restarts>>

\* The client hangs up before its request is complete.
SmartGiveUp(i) ==
    LET s == sock[Host][i] IN
    /\ s.st = "list" /\ s.smart /\ s.read /\ io[Host][s.stream].eof
    /\ sock' = [sock EXCEPT ![Host][i] = Closed(s)]
    /\ UNCHANGED <<load, next_id, chan, online, transport, io, status, clients, restarts>>

-----------------------------------------------------------------------------
(* local_socket_event_func().                                              *)

\* How much one read event takes.
Taken(f) == IF f.made - f.taken < MaxPayload THEN f.made - f.taken ELSE MaxPayload

\* FDE_READ: one packet to the peer, which accepts no more until it is ready;
\* the end of the file is met when the packet was not filled.
ReadEvent(e, i) ==
    LET s == sock[e][i]
        f == io[e][s.stream]
        n == Taken(f)
        eof == f.eof /\ n < MaxPayload
        wrte == [Msg("WRTE", i, s.peer) EXCEPT
                     !.data = [j \in 1 .. n |-> <<s.stream, f.taken + j>>]]
        t == [s EXCEPT !.read = n = 0] IN
    /\ s.st = "list" /\ s.read /\ ~s.smart
    /\ n > 0 \/ eof
    /\ io' = [io EXCEPT ![e][s.stream].taken = @ + n]
    /\ sock' = [sock EXCEPT ![e][i] = IF eof THEN Closed(t) ELSE t]
    /\ chan' = Moved(e, FALSE, (IF n > 0 THEN <<wrte>> ELSE <<>>)
                               \o (IF eof THEN Farewell(t) ELSE <<>>))
    /\ UNCHANGED <<load, next_id, online, transport, status, clients, restarts>>

\* The backlog is written: the peer may resume writing.
Drains(s, n) == n = Len(s.pkts)

\* FDE_WRITE: n queued items are written, then the descriptor blocks, or the
\* backlog is gone.
WriteEvent(e, i, n) ==
    LET s == sock[e][i]
        t == [s EXCEPT !.pkts = SubSeq(@, n + 1, Len(@))] IN
    /\ s.st # "free" /\ n \in 1 .. Len(s.pkts)
    /\ io' = [io EXCEPT ![e][s.stream].got = @ \o SubSeq(s.pkts, 1, n)]
    /\ sock' = [sock EXCEPT ![e][i] = IF Drains(s, n) /\ s.st = "closing" THEN Closed(t) ELSE t]
    /\ chan' = Moved(e, FALSE, IF Drains(s, n) /\ s.st = "list"
                               THEN <<Msg("OKAY", i, s.peer)>> ELSE <<>>)
    /\ UNCHANGED <<load, next_id, online, transport, status, clients, restarts>>

\* FDE_WRITE: writing fails.  A socket with a backlog goes to the closing list,
\* and is destroyed when writing fails again.
WriteFails(e, i) ==
    LET s == sock[e][i] IN
    /\ "write" \in load.faults
    /\ s.st # "free" /\ s.pkts # <<>>
    /\ sock' = [sock EXCEPT ![e][i] = Closed(s)]
    /\ chan' = Moved(e, FALSE, Farewell(s))
    /\ UNCHANGED <<load, next_id, online, transport, io, status, clients, restarts>>

-----------------------------------------------------------------------------
(* handle_packet().                                                        *)

Got(e, c) == chan[e] # <<>> /\ Head(chan[e]).cmd = c

\* find_local_socket()
Found(e, i) == i \in Ids /\ sock[e][i].st = "list"

\* Nothing is done for a stream that is not there, or before the connection.
Ignore(e) ==
    /\ chan[e] # <<>> /\ Head(chan[e]).cmd # "CNXN"
    /\ \/ ~online[e]
       \/ Head(chan[e]).cmd # "OPEN" /\ ~Found(e, Head(chan[e]).arg1)
    /\ chan' = Moved(e, TRUE, <<>>)
    /\ UNCHANGED <<load, sock, next_id, online, transport, io, status, clients, restarts>>

\* run_transport_disconnects(): every remote socket lets its peer go.
Disconnected(e) ==
    [i \in Ids |-> IF sock[e][i].peer = 0 THEN sock[e][i] ELSE Closed([sock[e][i] EXCEPT !.peer = 0])]

RecvCNXN(e) ==
    /\ Got(e, "CNXN")
    /\ online' = [online EXCEPT ![e] = TRUE]
    /\ sock' = [sock EXCEPT ![e] = IF online[e] THEN Disconnected(e) ELSE @]
    /\ chan' = Moved(e, TRUE, IF e = Dev THEN <<Msg("CNXN", 0, 0)>> ELSE <<>>)
    /\ UNCHANGED <<load, next_id, transport, io, status, clients, restarts>>

RecvOPEN(e, service) ==
    LET m == Head(chan[e])
        i == next_id[e] IN
    /\ Got(e, "OPEN") /\ online[e]
    /\ IF service
       THEN /\ sock' = [sock EXCEPT ![e][i] = [Free EXCEPT !.st = "list", !.stream = m.dest,
                                                           !.peer = m.arg0, !.read = TRUE]]
            /\ next_id' = [next_id EXCEPT ![e] = @ + 1]
            /\ chan' = Moved(e, TRUE, <<Msg("OKAY", i, m.arg0)>>)
       ELSE /\ chan' = Moved(e, TRUE, <<Msg("CLSE", 0, m.arg0)>>)
            /\ UNCHANGED <<sock, next_id>>
    /\ UNCHANGED <<load, online, transport, io, status, clients, restarts>>

\* The first OKAY names the far socket; a rigged socket tells its client.
RecvOKAY(e) ==
    LET m == Head(chan[e])
        s == sock[e][m.arg1] IN
    /\ Got(e, "OKAY") /\ online[e] /\ Found(e, m.arg1)
    /\ sock' = [sock EXCEPT ![e][m.arg1] =
                    [s EXCEPT !.peer = IF s.peer = 0 /\ ~s.smart THEN m.arg0 ELSE @,
                              !.notify = FALSE, !.read = TRUE]]
    /\ status' = IF s.notify THEN [status EXCEPT ![s.stream] = "OKAY"] ELSE status
    /\ chan' = Moved(e, TRUE, <<>>)
    /\ UNCHANGED <<load, next_id, online, transport, io, clients, restarts>>

RecvCLSE(e) ==
    LET s == sock[e][Head(chan[e]).arg1] IN
    /\ Got(e, "CLSE") /\ online[e] /\ Found(e, Head(chan[e]).arg1)
    /\ sock' = [sock EXCEPT ![e][Head(chan[e]).arg1] = Closed(s)]
    /\ status' = Told(s)
    /\ chan' = Moved(e, TRUE, Farewell(s))
    /\ UNCHANGED <<load, next_id, online, transport, io, clients, restarts>>

\* Mutant: the far side is told to go on although the packet was queued.
AlwaysReady(s, m, n) == TRUE

\* local_socket_enqueue() returns 0: the packet was written whole.
TakesAll(s, m, n) == n = Len(m.data)

\* Mutant: the part that was written is queued again.
RestFromStart(m, n) == IF n = Len(m.data) THEN <<>> ELSE m.data

\* p->ptr has moved past what was written.
Rest(m, n) == SubSeq(m.data, n + 1, Len(m.data))

\* n items are written at once, unless there is a backlog already; the rest is
\* queued.
RecvWRTE(e, n) ==
    LET m == Head(chan[e])
        s == sock[e][m.arg1] IN
    /\ Got(e, "WRTE") /\ online[e] /\ Found(e, m.arg1)
    /\ n \in IF s.pkts = <<>> THEN 0 .. Len(m.data) ELSE {0}
    /\ io' = [io EXCEPT ![e][s.stream].got = @ \o SubSeq(m.data, 1, n)]
    /\ sock' = [sock EXCEPT ![e][m.arg1].pkts = @ \o Rest(m, n)]
    /\ chan' = Moved(e, TRUE, IF TakesAll(s, m, n) THEN <<Msg("OKAY", m.arg1, m.arg0)>> ELSE <<>>)
    /\ UNCHANGED <<load, next_id, online, transport, status, clients, restarts>>

\* The first write fails: the socket is closed.
RecvWRTEFails(e) ==
    LET m == Head(chan[e])
        s == sock[e][m.arg1] IN
    /\ "write" \in load.faults
    /\ Got(e, "WRTE") /\ online[e] /\ Found(e, m.arg1) /\ s.pkts = <<>>
    /\ sock' = [sock EXCEPT ![e][m.arg1] = Closed(s)]
    /\ status' = Told(s)
    /\ chan' = Moved(e, TRUE, Farewell(s))
    /\ UNCHANGED <<load, next_id, online, transport, io, clients, restarts>>

-----------------------------------------------------------------------------
(* The end of the transport, and of the server.                            *)

LinkFails ==
    /\ "link" \in load.faults
    /\ \A e \in Ends : transport[e] = "up"
    /\ transport' = [e \in Ends |-> "lost"]
    /\ chan' = [e \in Ends |-> <<>>]
    /\ UNCHANGED <<load, sock, next_id, online, io, status, clients, restarts>>

\* SYNC(0, 0) reaches the main thread: handle_offline().
GoesOffline(e) ==
    /\ transport[e] = "lost"
    /\ transport' = [transport EXCEPT ![e] = "offline"]
    /\ online' = [online EXCEPT ![e] = FALSE]
    /\ sock' = [sock EXCEPT ![e] = Disconnected(e)]
    /\ UNCHANGED <<load, next_id, chan, io, status, clients, restarts>>

\* The input thread ends: close_all_sockets().  Sockets that wait for their first
\* OKAY have the transport and no peer, those of clients still to ask a smart
\* socket that has it; they are closed without s->close().
CloseAllSockets(e) ==
    /\ transport[e] = "offline"
    /\ transport' = [transport EXCEPT ![e] = "closed"]
    /\ sock' = [sock EXCEPT ![e] = [i \in Ids |->
                    IF @[i].st = "list" THEN Closed(@[i]) ELSE @[i]]]
    /\ UNCHANGED <<load, next_id, chan, online, io, status, clients, restarts>>

\* The server dies and a new one connects over the same link.
HostRestarts ==
    /\ restarts < load.restarts /\ transport[Host] = "up"
    /\ restarts' = restarts + 1
    /\ sock' = [sock EXCEPT ![Host] = [i \in Ids |-> Free]]
    /\ next_id' = [next_id EXCEPT ![Host] = 1]
    /\ online' = [online EXCEPT ![Host] = FALSE]
    /\ chan' = Moved(Host, FALSE, <<Msg("CNXN", 0, 0)>>)
    /\ UNCHANGED <<load, transport, io, status, clients>>

HandlePacket(e) ==
    \/ Ignore(e) \/ RecvCNXN(e) \/ RecvOKAY(e) \/ RecvCLSE(e) \/ RecvWRTEFails(e)
    \/ \E service \in BOOLEAN : RecvOPEN(e, service)
    \/ \E n \in 0 .. MaxPayload : RecvWRTE(e, n)

Process(e) == \E k \in Streams : Produce(e, k) \/ HangUp(e, k)

LocalEvent(e, i) ==
    ReadEvent(e, i) \/ WriteFails(e, i) \/ \E n \in 1 .. MaxData : WriteEvent(e, i, n)

SmartEvent(i) ==
    SmartRequest(i) \/ SmartGiveUp(i) \/ \E legible \in BOOLEAN : SmartRefuse(i, legible)

TransportEnds(e) == GoesOffline(e) \/ CloseAllSockets(e)

Next ==
    \/ SmartConnect \/ ForwardConnect \/ LinkFails \/ HostRestarts
    \/ \E i \in Ids : SmartEvent(i)
    \/ \E e \in Ends : HandlePacket(e) \/ Process(e) \/ TransportEnds(e)
                       \/ \E i \in Ids : LocalEvent(e, i)

Spec == Init /\ [][Next]_vars

\* Both event loops run, and whoever reads a descriptor goes on reading it.
FairSpec ==
    /\ Spec
    /\ \A e \in Ends : WF_vars(HandlePacket(e)) /\ WF_vars(TransportEnds(e))
    /\ \A e \in Ends : \A i \in Ids : WF_vars(LocalEvent(e, i))
    /\ \A i \in Ids : WF_vars(SmartEvent(i))

-----------------------------------------------------------------------------
(* Properties.                                                             *)

\* The types of both ends' sockets (adb.h:70-137), of the messages in flight and
\* of the clients' state.
TypeOK ==
    /\ sock \in [Ends -> [Ids -> [st : {"free", "list", "closing"}, stream : 0 .. MaxStreams,
                                 peer : 0 .. MaxStreams, smart : BOOLEAN, notify : BOOLEAN,
                                 read : BOOLEAN, pkts : Seq(Item)]]]
    /\ next_id \in [Ends -> 1 .. MaxStreams + 1]
    /\ chan \in [Ends -> Seq(Message)]
    /\ online \in [Ends -> BOOLEAN]
    /\ transport \in [Ends -> {"up", "lost", "offline", "closed"}]
    /\ io \in [Ends -> [Streams -> [made : 0 .. MaxData, taken : 0 .. MaxData,
                                   eof : BOOLEAN, got : Seq(Item)]]]
    /\ status \in [Streams -> {"none", "asked", "OKAY", "FAIL"}]
    /\ clients \in 0 .. MaxStreams
    /\ restarts \in 0 .. load.restarts

\* A descriptor gets the items that were written at the other end of its own
\* stream, in order and without a gap (sockets.c:130-181, 272-317,
\* adb.c:616-627): whatever backlogs build up, streams close and servers
\* restart and number their sockets from 1 again.
InOrder ==
    \A e \in Ends : \A k \in Streams :
        LET g == io[e][k].got IN
        /\ Len(g) <= io[Other(e)][k].taken
        /\ \A j \in DOMAIN g : g[j] = <<k, j>>

Count(e, c, i) == Quantify(DOMAIN chan[e], LAMBDA j : chan[e][j].cmd = c /\ chan[e][j].arg1 = i)

One(b) == IF b THEN 1 ELSE 0

\* Leaves to write from socket i of e to socket j of the other end: the socket
\* reads, the packet is on its way, it is queued, or OKAY is on its way back.
Leaves(e, i, j) ==
    One(sock[e][i].read) + Count(Other(e), "WRTE", j) + One(sock[Other(e)][j].pkts # <<>>)
    + Count(e, "OKAY", i)

\* "Once a WRITE message is sent, an additional WRITE message may not be sent
\* until another READY message has been received" (protocol.txt:145-147): in
\* each direction of a stream that is open at both ends there is exactly one
\* leave to write, so the stream is never flooded and never stuck.
OneLeave ==
    \A i, j \in Ids :
        LET h == sock[Host][i]
            d == sock[Dev][j] IN
        (/\ transport[Host] = "up"
         /\ h.st = "list" /\ d.st = "list" /\ h.stream = d.stream
         /\ d.peer = i /\ h.peer \in {0, j}) =>
            Leaves(Host, i, j) = 1 /\ Leaves(Dev, j, i) = 1

\* When a backlog is written the peer is told (sockets.c:311-316): it is still
\* there, because losing the peer puts a socket with a backlog on the closing
\* list.
BacklogHasPeer ==
    \A e \in Ends : \A i \in Ids :
        sock[e][i].st = "list" /\ sock[e][i].pkts # <<>> => sock[e][i].peer # 0

\* Whatever the order of reads, backlogs, closings and messages, each stream
\* carries its own items in order, is neither flooded nor stuck, and has a peer
\* to acknowledge what is queued (sockets.c:130-317).
StreamsFlow == InOrder /\ OneLeave /\ BacklogHasPeer

OpenAt(e, k) == \E i \in Ids : sock[e][i].st = "list" /\ sock[e][i].stream = k

\* Everything a client wrote before it hung up reaches the service, the part
\* still queued when the stream closes included (sockets.c:53-60, 243-260),
\* unless the service itself ends or its descriptor fails.
AllDelivered ==
    \A k \in Streams :
        (load.faults = {} /\ load.restarts = 0 /\ status[k] = "OKAY" /\ io[Host][k].eof) ~> (Len(io[Dev][k].got) = io[Host][k].made)

LinkHolds == "link" \notin load.faults /\ load.restarts = 0

\* A stream that was open closes at both ends when it closes at one
\* (sockets.c:227-261, 494-512): CLSE crosses a CLSE or an OKAY without harm.
CloseReachesBoth ==
    \A k \in Streams :
        (LinkHolds /\ status[k] = "OKAY" /\ (~OpenAt(Host, k) \/ ~OpenAt(Dev, k)))
            ~> (~OpenAt(Host, k) /\ ~OpenAt(Dev, k))

\* When the link fails too, no socket is gone before its client was told
\* (sockets.c:576-578, "to avoid closing them without a status message").
NeverClosedUntold ==
    \A k \in Streams : status[k] = "asked" => OpenAt(Host, k)
=============================================================================
