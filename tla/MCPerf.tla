------------------------------ MODULE MCPerf -------------------------------
(***************************************************************************)
(* The performance test: the threads of one process (PerfReporter) and the *)
(* session between two hosts (PerfSession), one of them in each behaviour. *)
(* The tests of a process: two parallel clients, the first of which fills  *)
(* its ring and wraps; a client with the listener of a dual test, which    *)
(* may be interrupted; two servers; a server and the client of a dual test.*)
(***************************************************************************)
EXTENDS PerfReporter, PerfSession

VARIABLE part

MCTests == {<<"client", "client">>, <<"client", "server">>, <<"server", "server">>,
            <<"server", "now">>}
MCPackets == [t \in MCTests |-> IF t = <<"client", "client">> THEN <<3, 0>> ELSE <<0, 0>>]
MCSignals == {<<"client", "server">>}

\* The other component is over and done with.
ProcessIdle ==
    /\ role = <<"client", "client">> /\ counted = TRUE /\ toStart = <<>>
    /\ main = "exited" /\ sNum = 0 /\ nonterm = 0 /\ interrupted = FALSE
    /\ lpc = "none" /\ pc = [a \in Agent |-> "none"]
    /\ closing = [a \in Agent |-> FALSE] /\ index = [a \in Agent |-> 0]
    /\ agentindex = [a \in Agent |-> 0] /\ reporterindex = [a \in Agent |-> 0]
    /\ data = [a \in Agent |-> <<>>]
    /\ sent = [a \in Agent |-> 0] /\ handled = [a \in Agent |-> 0] /\ barrier = 0
    /\ rpc = "none" /\ todo = <<>> /\ ReportRoot = <<>> /\ freed = {}

SessionIdle ==
    /\ test = [proto |-> "udp", extend |-> FALSE, multicast |-> FALSE, single |-> FALSE,
               mode |-> "normal"]
    /\ cpc = "done" /\ packetID = 0 /\ tries = 0 /\ verdict = "none"
    /\ toServer = {} /\ toClient = {} /\ sessions = 0 /\ reverse = 0
    /\ spc = "gone" /\ PacketID = 0 /\ cntError = 0 /\ cntOutofOrder = 0
    /\ got = {} /\ finSeen = FALSE /\ acks = 0 /\ answered = FALSE
    /\ wrote = 0 /\ stream = 0 /\ eof = FALSE /\ TotalLen = 0 /\ emptyreport = FALSE
    /\ stopped = TRUE

PerfInit ==
    \/ part = "process" /\ Init /\ SessionIdle
    \/ part = "session" /\ SessInit /\ ProcessIdle

PerfNext ==
    \/ part = "process" /\ Next /\ UNCHANGED <<part, sessvars>>
    \/ part = "session" /\ SessNext /\ UNCHANGED <<part, vars>>

\* The fairness of the component that runs.
PerfFairness ==
    /\ WF_vars(part = "process" /\ Running /\ (MainStarts \/ MainJoins))
    /\ \A a \in Agent: WF_vars(part = "process" /\ Running /\ AgentStep(a))
    /\ WF_vars(part = "process" /\ Running /\ ListenerStep)
    /\ WF_vars(part = "process" /\ Running /\ ReporterStep)
    /\ WF_sessvars(part = "session" /\ ClientStep) /\ WF_sessvars(part = "session" /\ ClientTimer)
    /\ WF_sessvars(part = "session" /\ ServerStep) /\ WF_sessvars(part = "session" /\ ServerTimer)
    /\ WF_sessvars(part = "session" /\ ListenerAccepts)

PerfSpec == PerfInit /\ [][PerfNext]_<<part, vars, sessvars>> /\ PerfFairness
=============================================================================
