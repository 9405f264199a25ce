--------------------------- MODULE PerfSession ----------------------------
(***************************************************************************)
(* One test of the network performance tool (wifi/rtwperf) between a       *)
(* client and the listener and servers of the other host: the header       *)
(* exchange, the traffic, the final handshake of UDP and the totals that   *)
(* reporter_handle_packet() makes of what the server read.  UDP loses and  *)
(* reorders datagrams; a datagram is its packet ID, negative in a FIN.     *)
(***************************************************************************)
EXTENDS Integers, FiniteSets

CONSTANTS
    MaxPackets,         \* bound: datagrams or TCP writes of the client
    MaxTries,           \* FINs and acknowledgements sent, 10 in the code
    MaxSessions         \* bound: servers the listener starts for the flow

ASSUME SessionAssumption == MaxPackets \in Nat /\ MaxTries \in Nat \ {0} /\ MaxSessions \in Nat

VARIABLES
    test,               \* how the two programs were called; single: the server has -U
    cpc,                \* where the client is
    packetID, tries,    \* its next packet ID; FINs sent
    verdict,            \* how the final handshake ended
    toServer, toClient, \* what is on the way
    sessions, reverse,  \* servers and reverse clients the listener started
    spc,                \* where the server is
    PacketID, cntError, cntOutofOrder,  \* of its ReporterData
    got, finSeen,       \* packet IDs the server read, a negative one among them
    acks, answered,     \* acknowledgements this server sent; the client was answered
    wrote, stream, eof, \* TCP: writes of the client, writes not yet read, the end
    TotalLen, emptyreport,  \* TCP: what the reporter added up, and the last read
    stopped             \* the server was interrupted, or its -t ran out

sessvars == <<test, cpc, packetID, tries, verdict, toServer, toClient, sessions, reverse, spc,
              PacketID, cntError, cntOutofOrder, got, finSeen, acks, answered, wrote, stream, eof,
              TotalLen, emptyreport, stopped>>

client == <<cpc, packetID, tries, verdict>>
net == <<toServer, toClient>>
server == <<spc, PacketID, cntError, cntOutofOrder, got, finSeen, acks, answered>>
tcp == <<wrote, stream, eof, TotalLen, emptyreport>>

UDP == test.proto = "udp"

\* Settings_GenerateClientHdr(): the flags that ask for an acknowledgement
\* of the header and for a test in the other direction.
HEADER_EXTEND == test.extend
HEADER_VERSION1 == test.mode # "normal"

SessTests == [proto : {"udp", "tcp"}, extend : BOOLEAN, multicast : BOOLEAN, single : BOOLEAN,
              mode : {"normal", "dual"}]

SessStart(t) ==
    /\ test = t
    /\ cpc = IF t.extend THEN "header" ELSE "send"
    /\ packetID = IF t.extend THEN 1 ELSE 0
    /\ tries = 0 /\ verdict = "none"
    /\ toServer = {} /\ toClient = {}
    /\ sessions = 0 /\ reverse = 0
    /\ spc = "none" /\ PacketID = 0 /\ cntError = 0 /\ cntOutofOrder = 0
    /\ got = {} /\ finSeen = FALSE /\ acks = 0 /\ answered = FALSE
    /\ wrote = 0 /\ stream = 0 /\ eof = FALSE /\ TotalLen = 0 /\ emptyreport = FALSE
    /\ stopped = FALSE

\* Multicast and -U are for UDP; a multicast test has no other direction.
SessInit ==
    \E t \in SessTests:
       /\ t.multicast => t.proto = "udp" /\ t.mode = "normal"
       /\ t.single => t.proto = "udp" /\ ~t.multicast
       /\ SessStart(t)

\* The server's final totals: reporter_condprintstats() with force.
FinalError == IF cntError > cntOutofOrder THEN cntError - cntOutofOrder ELSE 0
Totals == [datagrams |-> PacketID, errors |-> FinalError, session |-> sessions]

Datagram(n, neg) == [id |-> n, fin |-> neg]
HeaderAck == [session |-> 0]
NoReport == [session |-> -1]

-----------------------------------------------------------------------------
(* The client.                                                             *)

\* InitiateServer() and HdrXchange(): the header is datagram 0, or the first bytes of the stream.
SendHeader ==
    /\ cpc = "header"
    /\ cpc' = "headerack"
    /\ IF UDP THEN toServer' = toServer \cup {Datagram(0, FALSE)} /\ UNCHANGED stream
       ELSE stream' = stream + 1 /\ UNCHANGED toServer
    /\ UNCHANGED <<test, packetID, tries, verdict, toClient, sessions, reverse, server,
                   wrote, eof, TotalLen, emptyreport, stopped>>

\* What comes is taken for the acknowledgement, well formed or not.
HeaderAcked ==
    /\ cpc = "headerack"
    /\ cpc' = "send"
    /\ \E m \in toClient: toClient' = toClient \ {m}
    /\ UNCHANGED <<test, packetID, tries, verdict, toServer, sessions, reverse, server, tcp, stopped>>

\* "server version is old"
HeaderTimesOut ==
    /\ cpc = "headerack"
    /\ cpc' = "send"
    /\ UNCHANGED <<test, packetID, tries, verdict, net, sessions, reverse, server, tcp, stopped>>

\* RunUDP(): a failed write takes the packet ID back.
WriteDatagram ==
    /\ cpc = "send" /\ UDP /\ packetID < MaxPackets
    /\ packetID' = packetID + 1
    /\ toServer' = toServer \cup {Datagram(packetID, FALSE)}
    /\ UNCHANGED <<test, cpc, tries, verdict, toClient, sessions, reverse, server, tcp, stopped>>

\* RunTCP()
WriteBlock ==
    /\ cpc = "send" /\ ~UDP /\ wrote < MaxPackets
    /\ wrote' = wrote + 1
    /\ stream' = stream + 1
    /\ UNCHANGED <<test, client, net, sessions, reverse, server, eof, TotalLen, emptyreport, stopped>>

\* InProgress() is false, or a write failed for good; TCP is closed.
Finish ==
    /\ cpc = "send"
    /\ cpc' = IF UDP THEN "fin" ELSE "done"
    /\ eof' = ~UDP
    /\ UNCHANGED <<test, packetID, tries, verdict, net, sessions, reverse, server,
                   wrote, stream, TotalLen, emptyreport, stopped>>

\* FinalUDPHandshake() and write_UDP_FIN(): -0 is no negative ID.
SendFin ==
    /\ cpc = "fin"
    /\ toServer' = toServer \cup {Datagram(packetID, packetID > 0)}
    /\ packetID' = packetID + 1
    /\ tries' = tries + 1
    /\ cpc' = IF test.multicast THEN "done" ELSE "finack"
    /\ UNCHANGED <<test, verdict, toClient, sessions, reverse, server, tcp, stopped>>

\* Whatever can be read ends the handshake; ReportServerUDP() posts a
\* report if it is one.
FinAcked ==
    /\ cpc = "finack"
    /\ \E m \in toClient:
          /\ toClient' = toClient \ {m}
          /\ verdict' = IF m \in {HeaderAck, NoReport} THEN "answer" ELSE "report"
    /\ cpc' = "done"
    /\ UNCHANGED <<test, packetID, tries, toServer, sessions, reverse, server, tcp, stopped>>

\* Mutant: the FIN is sent again for ever.
FinAlwaysAgain ==
    /\ cpc = "finack"
    /\ cpc' = "fin"
    /\ packetID' = packetID - 1 /\ tries' = tries - 1
    /\ UNCHANGED <<test, verdict, net, sessions, reverse, server, tcp, stopped>>

\* 250 ms without an answer
FinTimesOut ==
    /\ cpc = "finack"
    /\ IF tries < MaxTries THEN cpc' = "fin" /\ UNCHANGED verdict
       ELSE cpc' = "done" /\ verdict' = "noack"
    /\ UNCHANGED <<test, packetID, tries, net, sessions, reverse, server, tcp, stopped>>

-----------------------------------------------------------------------------
(* The listener: a datagram of a flow that is not in "clients", or a TCP   *)
(* connection, starts a server.  The datagram itself is used up.           *)

StartServer ==
    /\ sessions' = sessions + 1
    /\ reverse' = IF HEADER_VERSION1 THEN reverse + 1 ELSE reverse
    /\ spc' = "run" /\ PacketID' = 0 /\ cntError' = 0 /\ cntOutofOrder' = 0
    /\ got' = {} /\ finSeen' = FALSE /\ acks' = 0
    /\ toClient' = IF HEADER_EXTEND /\ ~test.multicast /\ ~test.single THEN toClient \cup {HeaderAck} ELSE toClient

AcceptDatagram ==
    /\ ~test.single
    /\ spc \in {"none", "gone"} /\ ~stopped /\ sessions < MaxSessions
    /\ \E d \in toServer: toServer' = toServer \ {d}
    /\ StartServer
    /\ UNCHANGED <<test, client, answered, tcp, stopped>>

\* The header of TCP is only looked at, and read again by the server.
AcceptConnection ==
    /\ ~UDP /\ spc = "none" /\ ~stopped
    /\ HEADER_EXTEND => stream > 0
    /\ StartServer
    /\ UNCHANGED <<test, client, answered, toServer, tcp, stopped>>

-----------------------------------------------------------------------------
(* The server: RunUDP(), with the accounting of each packet.               *)

\* Mutant: a late datagram lowers the highest packet ID.
AccountLast(n) ==
    /\ cntOutofOrder' = IF n < PacketID + 1 THEN cntOutofOrder + 1 ELSE cntOutofOrder
    /\ cntError' = IF n > PacketID + 1 THEN cntError + n - PacketID - 1 ELSE cntError
    /\ PacketID' = n

\* Packets are lost if the numbers are not sequential.
Account(n) ==
    /\ cntOutofOrder' = IF n < PacketID + 1 THEN cntOutofOrder + 1 ELSE cntOutofOrder
    /\ cntError' = IF n > PacketID + 1 THEN cntError + n - PacketID - 1 ELSE cntError
    /\ PacketID' = IF n > PacketID THEN n ELSE PacketID

\* ReadPacketID() drops the sign.
ReadDatagram ==
    /\ UDP /\ ~test.single /\ spc = "run" /\ ~stopped
    /\ \E d \in toServer:
          /\ toServer' = toServer \ {d}
          /\ Account(d.id)
          /\ got' = got \cup {d.id}
          /\ finSeen' = d.fin
          /\ spc' = IF d.fin THEN IF test.multicast THEN "gone" ELSE "ack" ELSE "run"
    /\ UNCHANGED <<test, client, toClient, sessions, reverse, acks, answered, tcp, stopped>>

\* write_UDP_AckFIN(), after GetReport()
SendAck ==
    /\ spc = "ack"
    /\ toClient' = toClient \cup {Totals}
    /\ acks' = acks + 1 /\ answered' = TRUE
    /\ spc' = "ackwait"
    /\ UNCHANGED <<test, client, toServer, sessions, reverse, PacketID, cntError, cntOutofOrder,
                   got, finSeen, tcp, stopped>>

\* Another datagram: the acknowledgement was probably lost.
AckAgain ==
    /\ spc = "ackwait"
    /\ \E d \in toServer: toServer' = toServer \ {d}
    /\ spc' = IF acks < MaxTries THEN "ack" ELSE "gone"
    /\ UNCHANGED <<test, client, toClient, sessions, reverse, PacketID, cntError, cntOutofOrder,
                   got, finSeen, acks, answered, tcp, stopped>>

\* One second without a datagram: the server leaves "clients".
AckTimesOut ==
    /\ spc = "ackwait"
    /\ spc' = "gone"
    /\ UNCHANGED <<test, client, net, sessions, reverse, PacketID, cntError, cntOutofOrder,
                   got, finSeen, acks, answered, tcp, stopped>>

\* SIGINT, or the SIGALRM of -t
Stop ==
    /\ ~stopped /\ spc # "none"
    /\ stopped' = TRUE
    /\ UNCHANGED <<test, client, net, sessions, reverse, server, tcp>>

LoopStops ==
    /\ UDP /\ ~test.single /\ spc = "run" /\ stopped
    /\ spc' = IF test.multicast THEN "gone" ELSE "ack"
    /\ UNCHANGED <<test, client, net, sessions, reverse, PacketID, cntError, cntOutofOrder,
                   got, finSeen, acks, answered, tcp, stopped>>

-----------------------------------------------------------------------------
(* UDPSingleServer(): the listener itself serves the flow (-U).  It answers*)
(* a FIN once; one of a flow that it does not know gets no report.         *)

SingleAccepts ==
    /\ test.single /\ spc \in {"none", "gone"} /\ ~stopped /\ sessions < MaxSessions
    /\ \E d \in toServer: ~d.fin /\ toServer' = toServer \ {d}
    /\ StartServer
    /\ UNCHANGED <<test, client, answered, tcp, stopped>>

SingleReads ==
    /\ test.single /\ spc = "run" /\ ~stopped
    /\ \E d \in toServer:
          /\ toServer' = toServer \ {d}
          /\ Account(d.id)
          /\ got' = got \cup {d.id}
          /\ finSeen' = d.fin
          /\ spc' = IF d.fin THEN "single" ELSE "run"
    /\ UNCHANGED <<test, client, toClient, sessions, reverse, acks, answered, tcp, stopped>>

SingleAnswers ==
    /\ \/ spc = "single" /\ toClient' = toClient \cup {Totals} /\ UNCHANGED toServer
       \/ /\ test.single /\ spc \in {"none", "gone"} /\ ~stopped
          /\ \E d \in toServer: d.fin /\ toServer' = toServer \ {d}
          /\ toClient' = toClient \cup {NoReport}
    /\ acks' = acks + 1 /\ answered' = TRUE
    /\ spc' = "gone"
    /\ UNCHANGED <<test, client, sessions, reverse, PacketID, cntError, cntOutofOrder, got, finSeen,
                   tcp, stopped>>

-----------------------------------------------------------------------------
(* Server::RunTCP().                                                       *)

ReadBlock ==
    /\ ~UDP /\ spc = "run" /\ ~stopped /\ stream > 0
    /\ stream' = stream - 1
    /\ TotalLen' = TotalLen + 1
    /\ emptyreport' = FALSE
    /\ UNCHANGED <<test, client, net, sessions, reverse, server, wrote, eof, stopped>>

\* Mutant: the end of the stream does not make the report an empty one.
ReadEndCounts ==
    /\ ~UDP /\ spc = "run" /\ ~stopped /\ stream = 0 /\ eof
    /\ spc' = "close"
    /\ UNCHANGED <<test, client, net, sessions, reverse, PacketID, cntError, cntOutofOrder,
                   got, finSeen, acks, answered, tcp, stopped>>

ReadEnd ==
    /\ ~UDP /\ spc = "run" /\ ~stopped /\ stream = 0 /\ eof
    /\ emptyreport' = TRUE
    /\ spc' = "close"
    /\ UNCHANGED <<test, client, net, sessions, reverse, PacketID, cntError, cntOutofOrder,
                   got, finSeen, acks, answered, wrote, stream, eof, TotalLen, stopped>>

ReadStops ==
    /\ ~UDP /\ spc = "run" /\ stopped
    /\ spc' = "close"
    /\ UNCHANGED <<test, client, net, sessions, reverse, PacketID, cntError, cntOutofOrder,
                   got, finSeen, acks, answered, tcp, stopped>>

\* The whole transfer is reported once more; an empty report adds nothing.
CloseTcp ==
    /\ spc = "close"
    /\ TotalLen' = IF emptyreport THEN TotalLen ELSE TotalLen + TotalLen
    /\ spc' = "gone"
    /\ UNCHANGED <<test, client, net, sessions, reverse, PacketID, cntError, cntOutofOrder,
                   got, finSeen, acks, answered, wrote, stream, eof, emptyreport, stopped>>

\* The network loses datagrams.
Lose ==
    /\ UDP
    /\ \/ \E d \in toServer: toServer' = toServer \ {d} /\ UNCHANGED toClient
       \/ \E m \in toClient: toClient' = toClient \ {m} /\ UNCHANGED toServer
    /\ UNCHANGED <<test, client, sessions, reverse, server, tcp, stopped>>

-----------------------------------------------------------------------------
ClientTimer == HeaderTimesOut \/ FinTimesOut
ClientStep == SendHeader \/ HeaderAcked \/ WriteDatagram \/ WriteBlock \/ Finish \/ SendFin \/ FinAcked
ListenerAccepts == AcceptDatagram \/ AcceptConnection
ServerTimer == AckTimesOut
ServerStep ==
    \/ ReadDatagram \/ SendAck \/ AckAgain \/ LoopStops
    \/ SingleAccepts \/ SingleReads \/ SingleAnswers
    \/ ReadBlock \/ ReadEnd \/ ReadStops \/ CloseTcp

SessNext == ClientTimer \/ ClientStep \/ ListenerAccepts \/ ServerTimer \/ ServerStep \/ Stop \/ Lose

\* The threads go on, and a select() with a timeout returns.
SessFairness ==
    WF_sessvars(ClientStep) /\ WF_sessvars(ClientTimer)
    /\ WF_sessvars(ServerStep) /\ WF_sessvars(ServerTimer) /\ WF_sessvars(ListenerAccepts)

SessSpec == SessInit /\ [][SessNext]_sessvars /\ SessFairness

-----------------------------------------------------------------------------
(* Properties.                                                             *)

\* The report that answers a FIN adds up, whatever was lost or came out of
\* order: the datagrams it counts are the ones the server read and the ones
\* it calls lost.  It may be one short where the listener used up another
\* datagram than number 0, and number 0 then counts as out of order.
AccountingAddsUp ==
    UDP /\ finSeen =>
       LET sum == Cardinality(got) + Totals.errors IN
       Totals.datagrams = sum \/ (0 \in got /\ Totals.datagrams = sum - 1)

\* The reporter's total of a TCP server that was not interrupted is what the
\* client wrote, the header included, although RunTCP() reports the whole
\* transfer a second time.
TcpCountsOnce ==
    ~UDP /\ spc = "gone" /\ ~stopped => TotalLen = wrote + (IF test.extend THEN 1 ELSE 0)

\* A server's totals are what the client sent, for either protocol
\* (Reporter.c:860-930, Server.cpp:120-260).
CountsAreRight == AccountingAddsUp /\ TcpCountsOnce

\* The client ends, and so does a server that read a FIN.
HandshakeEnds == <>(cpc = "done") /\ (finSeen ~> ~finSeen \/ spc = "gone")

=============================================================================
