--------------------------- MODULE PerfReporter ---------------------------
(***************************************************************************)
(* One process of the network performance test (wifi/rtwperf): the threads *)
(* of compat/Thread.c, started by main.cpp and Launch.cpp, the transfer    *)
(* threads ("agents") that report packets through a ring of their own, and *)
(* the reporter thread of Reporter.c that empties the rings.  A report is  *)
(* a packet number; the last one of an agent is the report of CloseReport. *)
(***************************************************************************)
EXTENDS Integers, Sequences, FiniteSets

CONSTANTS
    Agents,             \* number of transfer threads; agent 1 is the first client
    Ring,               \* NUM_REPORT_STRUCTS
    Tests,              \* the shapes of a test, one role for each agent
    Packets,            \* bound: packets each agent reports in a test
    Signals             \* bound: the tests in which SIGINT may come

ASSUME PerfAssumption ==
    /\ Agents \in Nat
    /\ Ring \in Nat /\ Ring > 2
    /\ Tests \subseteq [1 .. Agents -> {"client", "server", "single", "now", "next"}]
    /\ Packets \in [Tests -> [1 .. Agents -> Nat]] /\ Signals \subseteq Tests

Agent == 1 .. Agents
Listener == 0
Reporter == Agents + 1

VARIABLES
    role,               \* "client"; "server" or "single": of the listener, -1 given;
                        \* "now", "next": client of the reverse test, see runNow and runNext
    counted,            \* mCount: the listener leaves after its last server
    toStart,            \* threads thread_start() has still to create
    main,               \* "start", "join", "exited", "killed"
    sNum, nonterm,      \* thread_sNum, nonterminating_num
    interrupted,        \* sInterupted
    lpc,                \* where the listener is
    pc,                 \* where each agent is
    closing,            \* it reports the packet of CloseReport
    index,              \* its copy of reporterindex
    agentindex, reporterindex, data,    \* of each ReportHeader
    sent, handled,      \* packets put in a ring, and taken out
    barrier,            \* multihdr->threads
    rpc, todo,          \* where the reporter is, reports it has still to look at
    ReportRoot,         \* the list of reports, first one first
    freed               \* reports that are done and freed

vars == <<role, counted, toStart, main, sNum, nonterm, interrupted, lpc, pc, closing,
          index, agentindex, reporterindex, data, sent, handled, barrier, rpc, todo, ReportRoot, freed>>

shape == <<role, counted>>
threads == <<toStart, main, sNum, nonterm, interrupted>>
ring == <<closing, index, agentindex, reporterindex, data, sent, handled>>
list == <<rpc, todo, ReportRoot, freed>>

Clients == {a \in Agent : role[a] = "client"}
Servers == {a \in Agent : role[a] \in {"server", "single"}}
HasListener == Servers # {}

\* A report of the list: the ring of an agent, the settings of an agent or
\* of the listener, or what the server told a client.
Report(k, a) == [kind |-> k, of |-> a]
DataReport(a) == Report("data", a)

\* A ReportStruct: its number, and whether it is the one of CloseReport.
Packet(n, f) == [n |-> n, fin |-> f]

Running == main \in {"start", "join"}

-----------------------------------------------------------------------------
(* thread_start(), thread_joinall() and the other counts of Thread.c.      *)

\* client_init() and main(): the chain of runNow is started from its end,
\* the reporter last.
Chain ==
    LET Later == [i \in 1 .. Agents |-> Agents + 1 - i] IN
    SelectSeq(Later, LAMBDA a: a \in Clients \ {1})
       \o (IF HasListener THEN <<Listener>> ELSE <<>>)
       \o (IF 1 \in Clients THEN <<1>> ELSE <<>>)
       \o <<Reporter>>

Init ==
    /\ role \in Tests
    /\ counted \in IF \A a \in Agent: role[a] # "client" /\ role[a] # "single" THEN BOOLEAN ELSE {TRUE}
    /\ toStart = Chain
    /\ main = "start" /\ sNum = 0 /\ nonterm = 0 /\ interrupted = FALSE
    /\ lpc = "none" /\ pc = [a \in Agent |-> "none"]
    /\ index = [a \in Agent |-> 0]
    /\ agentindex = [a \in Agent |-> 0]
    /\ reporterindex = [a \in Agent |-> Ring - 1]
    /\ data = [a \in Agent |-> [s \in 0 .. Ring - 1 |-> Packet(0, FALSE)]]
    /\ closing = [a \in Agent |-> FALSE]
    /\ sent = [a \in Agent |-> 0] /\ handled = [a \in Agent |-> 0]
    /\ barrier = Cardinality(Clients)
    /\ rpc = "none" /\ todo = <<>> /\ ReportRoot = <<>> /\ freed = {}

\* Each thread is started once, for the settings it was made for.
Begin(S) == [a \in Agent |-> IF a \in S /\ pc[a] = "none" THEN "connect" ELSE pc[a]]

Created(t) ==
    /\ lpc' = IF t = Listener THEN "register" ELSE lpc
    /\ rpc' = IF t = Reporter /\ rpc = "none" THEN "top" ELSE rpc
    /\ pc' = Begin({t})

\* The count goes up before the thread exists.
MainStarts ==
    /\ main = "start" /\ toStart # <<>>
    /\ sNum' = sNum + 1
    /\ Created(Head(toStart))
    /\ toStart' = Tail(toStart)
    /\ main' = IF Len(toStart) = 1 THEN "join" ELSE main
    /\ UNCHANGED <<shape, nonterm, interrupted, ring, barrier, todo, ReportRoot, freed>>

\* thread_joinall(): every thread that lowers the count signals.
MainJoins ==
    /\ main = "join" /\ sNum = 0
    /\ main' = "exited"
    /\ UNCHANGED <<shape, toStart, sNum, nonterm, interrupted, lpc, pc, ring, barrier, list>>

\* Mutant: one thread is taken off the count whether or not it is registered.
ReleasedOne == sNum - 1

\* thread_release_nonterm()
Released == sNum - nonterm

\* Sig_Interupt(): the second SIGINT ends the process.
Sig_Interupt ==
    /\ role \in Signals
    /\ IF interrupted THEN main' = "killed" /\ UNCHANGED <<sNum, nonterm, interrupted>>
       ELSE /\ interrupted' = TRUE
            /\ sNum' = Released /\ nonterm' = 0
            /\ UNCHANGED main
    /\ UNCHANGED <<shape, toStart, lpc, pc, ring, barrier, list>>

-----------------------------------------------------------------------------
(* Posting a report: it is put in front of the list and ReportCond is      *)
(* signalled, under the lock of ReportCond.                                *)

Signalled == IF rpc = "asleep" THEN "woken" ELSE rpc

Post(r) ==
    /\ ReportRoot' = <<r>> \o ReportRoot
    /\ rpc' = Signalled
    /\ UNCHANGED <<todo, freed>>

Goto(a, l) == pc' = [pc EXCEPT ![a] = l]

-----------------------------------------------------------------------------
(* A transfer agent before its traffic: Client::Client(), Server::RunUDP().*)

Parallel == Cardinality(Clients) > 1

\* Only the first client of a group has setReport().
ReportsSettings(a) == role[a] \in {"now", "next"} \/ a = 1

\* The socket is connected and InitReport() readies the ring.
Connect(a) ==
    /\ pc[a] = "connect"
    /\ Goto(a, CASE a \in Servers -> "first"
                 [] ReportsSettings(a) -> "settings"
                 [] OTHER -> "barrier")
    /\ UNCHANGED <<shape, threads, lpc, ring, barrier, list>>

\* FAIL_errno() of connect(): thread_stop() of the thread itself.
ConnectFails(a) ==
    /\ pc[a] = "connect" /\ a \notin Servers
    /\ Goto(a, "failed")
    /\ sNum' = sNum - 1
    /\ UNCHANGED <<shape, toStart, main, nonterm, interrupted, lpc, ring, barrier, list>>

ReportSettings(a) ==
    /\ pc[a] = "settings"
    /\ Post(Report("settings", a))
    /\ Goto(a, "barrier")
    /\ UNCHANGED <<shape, threads, lpc, ring, barrier>>

\* BarrierClient(): the last one wakes everyone.
BarrierClient(a) ==
    /\ pc[a] = "barrier"
    /\ IF role[a] # "client" \/ ~Parallel THEN Goto(a, "first") /\ UNCHANGED barrier
       ELSE IF barrier = 1
            THEN /\ pc' = [b \in Agent |-> IF b = a THEN "first"
                                           ELSE IF pc[b] = "inbarrier" THEN "leaving" ELSE pc[b]]
                 /\ UNCHANGED barrier
            ELSE /\ Goto(a, "inbarrier")
                 /\ barrier' = barrier - 1
    /\ UNCHANGED <<shape, threads, lpc, ring, list>>

LeaveBarrier(a) ==
    /\ pc[a] = "leaving"
    /\ barrier' = barrier + 1
    /\ Goto(a, "first")
    /\ UNCHANGED <<shape, threads, lpc, ring, list>>

PostFirstReport(a) ==
    /\ pc[a] = "first"
    /\ Post(DataReport(a))
    /\ Goto(a, "traffic")
    /\ UNCHANGED <<shape, threads, lpc, ring, barrier>>

-----------------------------------------------------------------------------
(* ReportPacket(): the agent's end of the ring.                            *)

\* The agent reads reporterindex and finds its ring full, or its next slot
\* free, or has to go back to the first slot.
ReadIndex(a) ==
    /\ index' = [index EXCEPT ![a] = reporterindex[a]]
    /\ Goto(a, IF agentindex[a] = Ring THEN IF reporterindex[a] = 0 THEN "full" ELSE "wrap"
               ELSE IF reporterindex[a] - 1 = agentindex[a] THEN "full" ELSE "write")
    /\ UNCHANGED <<agentindex, reporterindex, data, sent, handled>>

ReportPacket(a) ==
    /\ pc[a] = "traffic" /\ sent[a] < Packets[role][a]
    /\ ReadIndex(a)
    /\ UNCHANGED <<shape, threads, lpc, closing, barrier, list>>

\* FinishTrafficActions() and RunUDP(): a client may post what the server
\* told it, and CloseReport() reports one packet more.
CloseReport(a) ==
    /\ pc[a] = "traffic"
    /\ \/ UNCHANGED list
       \/ a \notin Servers /\ Post(Report("relay", a))
    /\ closing' = [closing EXCEPT ![a] = TRUE]
    /\ ReadIndex(a)
    /\ UNCHANGED <<shape, threads, lpc, barrier>>

\* agentindex = 0, and the second loop looks at the index read before.
Wrap(a) ==
    /\ pc[a] = "wrap"
    /\ agentindex' = [agentindex EXCEPT ![a] = 0]
    /\ Goto(a, IF index[a] - 1 = 0 THEN "full" ELSE "write")
    /\ UNCHANGED <<shape, threads, lpc, closing, index, reporterindex, data, sent, handled,
                   barrier, list>>

\* Condition_Signal( &ReportCond )
WakeReporter(a) ==
    /\ pc[a] = "full"
    /\ rpc' = Signalled
    /\ Goto(a, "wait")
    /\ UNCHANGED <<shape, threads, lpc, ring, barrier, todo, ReportRoot, freed>>

\* Condition_Wait( &ReportDoneCond )
WaitDone(a) ==
    /\ pc[a] = "wait"
    /\ Goto(a, "asleep")
    /\ UNCHANGED <<shape, threads, lpc, ring, barrier, list>>

Reread(a) ==
    /\ pc[a] = "awake"
    /\ ReadIndex(a)
    /\ UNCHANGED <<shape, threads, lpc, closing, barrier, list>>

WritePacket(a) ==
    /\ pc[a] = "write"
    /\ data' = [data EXCEPT ![a][agentindex[a]] = Packet(sent[a] + 1, closing[a])]
    /\ Goto(a, "bump")
    /\ UNCHANGED <<shape, threads, lpc, closing, index, agentindex, reporterindex, sent, handled,
                   barrier, list>>

\* agentindex++
Bump(a) ==
    /\ pc[a] = "bump"
    /\ agentindex' = [agentindex EXCEPT ![a] = @ + 1]
    /\ sent' = [sent EXCEPT ![a] = @ + 1]
    /\ Goto(a, IF closing[a] THEN "closed" ELSE "traffic")
    /\ UNCHANGED <<shape, threads, lpc, closing, index, reporterindex, data, handled,
                   barrier, list>>

\* write_UDP_AckFIN() of a server asks for the report's totals.
GetReport(a) ==
    /\ pc[a] = "closed" /\ a \in Servers
    /\ reporterindex[a] = -1
    /\ Goto(a, "end")
    /\ UNCHANGED <<shape, threads, lpc, ring, barrier, list>>

EndReport(a) ==
    /\ pc[a] = IF a \in Servers THEN "end" ELSE "closed"
    /\ reporterindex[a] = -1
    /\ agentindex' = [agentindex EXCEPT ![a] = -1]
    /\ Goto(a, "exit")
    /\ UNCHANGED <<shape, threads, lpc, closing, index, reporterindex, data, sent, handled,
                   barrier, list>>

-----------------------------------------------------------------------------
(* thread_run_wrapper(): the end of a transfer thread.  The count goes     *)
(* down before the thread of runNext is started.                           *)

RunNow(s) == s < Agents /\ role[s + 1] = "now"
RunNext(s) == s < Agents /\ role[s + 1] = "next"

ThreadExit(a) ==
    /\ pc[a] = "exit"
    /\ sNum' = sNum - 1
    /\ Goto(a, IF a \in Servers /\ RunNext(a) THEN "next" ELSE "gone")
    /\ UNCHANGED <<shape, toStart, main, nonterm, interrupted, lpc, ring, barrier, list>>

StartRunNext(a) ==
    /\ pc[a] = "next"
    /\ sNum' = sNum + 1
    /\ pc' = [Begin({a + 1}) EXCEPT ![a] = "gone"]
    /\ UNCHANGED <<shape, toStart, main, nonterm, interrupted, lpc, ring, barrier, list>>

-----------------------------------------------------------------------------
(* The listener: Listener::Run(), and the counts of nonterminating threads *)
(* in thread_run_wrapper().                                                *)

ListenerRegisters ==
    /\ lpc = "register"
    /\ nonterm' = nonterm + 1
    /\ lpc' = "listen"
    /\ UNCHANGED <<shape, toStart, main, sNum, interrupted, pc, ring, barrier, list>>

\* Listener::Listener() reports its settings.
Listen ==
    /\ lpc = "listen"
    /\ Post(Report("settings", Listener))
    /\ lpc' = "accept"
    /\ UNCHANGED <<shape, threads, pc, ring, barrier>>

\* bind() fails: thread_stop() of a thread that is registered as nonterminating.
ListenFails ==
    /\ lpc = "listen"
    /\ sNum' = sNum - 1
    /\ lpc' = "failed"
    /\ UNCHANGED <<shape, toStart, main, nonterm, interrupted, pc, ring, barrier, list>>

Arrives(s) == s \in Servers /\ pc[s] = "none" /\ \A t \in Servers: t < s => pc[t] # "none"

\* Accept() hands over a client: after an interrupt the listener leaves,
\* and the client of -1 lets main go on without the listener.
Accept ==
    /\ lpc = "accept"
    /\ \E s \in Agent:
          /\ Arrives(s)
          /\ IF interrupted THEN lpc' = "leave" /\ UNCHANGED <<sNum, nonterm>>
             ELSE /\ lpc' = "launch"
                  /\ IF role[s] = "single" THEN sNum' = Released /\ nonterm' = 0
                     ELSE UNCHANGED <<sNum, nonterm>>
    /\ UNCHANGED <<shape, toStart, main, interrupted, pc, ring, barrier, list>>

\* The -t of a server has run out.
AcceptTimesOut ==
    /\ lpc = "accept" /\ ~counted
    /\ lpc' = "leave"
    /\ UNCHANGED <<shape, threads, pc, ring, barrier, list>>

\* Mutant: the client of runNow is not counted.
LaunchCountsOne ==
    /\ lpc = "launch"
    /\ \E s \in Agent:
          /\ Arrives(s)
          /\ sNum' = sNum + 1
          /\ pc' = Begin(IF RunNow(s) THEN {s, s + 1} ELSE {s})
          /\ lpc' = IF interrupted \/ (counted /\ role[s] # "single" /\ \A t \in Servers: t <= s)
                    THEN "leave" ELSE "accept"
    /\ UNCHANGED <<shape, toStart, main, nonterm, interrupted, ring, barrier, list>>

\* thread_start() of the server, its runNow first; the loop goes on until
\* the counted clients have come.
Launch ==
    /\ lpc = "launch"
    /\ \E s \in Agent:
          /\ Arrives(s)
          /\ sNum' = sNum + (IF RunNow(s) THEN 2 ELSE 1)
          /\ pc' = Begin(IF RunNow(s) THEN {s, s + 1} ELSE {s})
          /\ lpc' = IF interrupted \/ (counted /\ role[s] # "single" /\ \A t \in Servers: t <= s)
                    THEN "leave" ELSE "accept"
    /\ UNCHANGED <<shape, toStart, main, nonterm, interrupted, ring, barrier, list>>

\* thread_unregister_nonterm()
ListenerUnregisters ==
    /\ lpc = "leave"
    /\ IF nonterm = 0 THEN sNum' = sNum + 1 /\ UNCHANGED nonterm
       ELSE nonterm' = nonterm - 1 /\ UNCHANGED sNum
    /\ lpc' = "exit"
    /\ UNCHANGED <<shape, toStart, main, interrupted, pc, ring, barrier, list>>

ListenerExits ==
    /\ lpc = "exit"
    /\ sNum' = sNum - 1
    /\ lpc' = "gone"
    /\ UNCHANGED <<shape, toStart, main, nonterm, interrupted, pc, ring, barrier, list>>

-----------------------------------------------------------------------------
(* reporter_spawn() and reporter_process_report().  A pass goes through    *)
(* the list it found, the last report first.                               *)

Current == todo[Len(todo)]
OfTransfer == Current \in {DataReport(a) : a \in Agent}

\* thread_setignore() around the wait on ReportCond
ReporterIdles ==
    /\ rpc = "top" /\ ReportRoot = <<>>
    /\ sNum' = sNum - 1
    /\ rpc' = "asleep"
    /\ UNCHANGED <<shape, toStart, main, nonterm, interrupted, lpc, pc, ring, barrier,
                   todo, ReportRoot, freed>>

ReporterWakes ==
    /\ rpc = "woken"
    /\ sNum' = sNum + 1
    /\ rpc' = "pick"
    /\ UNCHANGED <<shape, toStart, main, nonterm, interrupted, lpc, pc, ring, barrier,
                   todo, ReportRoot, freed>>

ReporterPicks ==
    /\ rpc = "pick" \/ (rpc = "top" /\ ReportRoot # <<>>)
    /\ todo' = ReportRoot
    /\ rpc' = IF ReportRoot = <<>> THEN "top" ELSE "report"
    /\ UNCHANGED <<shape, threads, lpc, pc, ring, barrier, ReportRoot, freed>>

\* The recursion comes back to the report before this one, or, with the
\* first report of the pass, to reporter_spawn().
ReportDone(done) ==
    /\ todo' = SubSeq(todo, 1, Len(todo) - 1)
    /\ rpc' = IF Len(todo) > 1 THEN "report" ELSE IF done THEN "signalfreed" ELSE "signal"
    /\ ReportRoot' = IF done THEN SelectSeq(ReportRoot, LAMBDA r: r # Current) ELSE ReportRoot
    /\ freed' = IF done THEN freed \cup {Current} ELSE freed

\* A settings or relay report is printed and freed.
ReporterPrints ==
    /\ rpc = "report" /\ ~OfTransfer
    /\ ReportDone(TRUE)
    /\ UNCHANGED <<shape, threads, lpc, pc, ring, barrier>>

\* The test of the loop: is the reporter behind the agent?
ReporterTests ==
    /\ rpc = "report" /\ OfTransfer
    /\ LET a == Current.of IN
       rpc' = IF reporterindex[a] >= 0 /\ reporterindex[a] # agentindex[a] - 1
              THEN "advance" ELSE "ended"
    /\ UNCHANGED <<shape, threads, lpc, pc, ring, barrier, todo, ReportRoot, freed>>

\* Mutant: at the end of the ring the reporter does not look at agentindex.
AdvanceNoTest ==
    /\ rpc = "advance"
    /\ LET a == Current.of IN
       reporterindex' = [reporterindex EXCEPT ![a] = IF @ = Ring - 1 THEN 0 ELSE @ + 1]
    /\ rpc' = "handle"
    /\ UNCHANGED <<shape, threads, lpc, pc, closing, index, agentindex, data, sent, handled,
                   barrier, todo, ReportRoot, freed>>

\* At the end of the ring agentindex is read once more.
ReporterAdvances ==
    /\ rpc = "advance"
    /\ LET a == Current.of IN
       IF reporterindex[a] = Ring - 1 /\ agentindex[a] = 0
       THEN rpc' = "ended" /\ UNCHANGED reporterindex
       ELSE /\ reporterindex' = [reporterindex EXCEPT ![a] = IF @ = Ring - 1 THEN 0 ELSE @ + 1]
            /\ rpc' = "handle"
    /\ UNCHANGED <<shape, threads, lpc, pc, closing, index, agentindex, data, sent, handled,
                   barrier, todo, ReportRoot, freed>>

\* reporter_handle_packet()
ReporterHandles ==
    /\ rpc = "handle"
    /\ LET a == Current.of
           p == data[a][reporterindex[a]] IN
       /\ handled' = [handled EXCEPT ![a] = @ + 1]
       /\ reporterindex' = [reporterindex EXCEPT ![a] = IF p.fin THEN -1 ELSE @]
       /\ rpc' = IF p.fin THEN "ended" ELSE "report"
    /\ UNCHANGED <<shape, threads, lpc, pc, closing, index, agentindex, data, sent,
                   barrier, todo, ReportRoot, freed>>

\* Mutant: the report is freed when the reporter is done with it.
EndsByReporter ==
    /\ rpc = "ended"
    /\ ReportDone(reporterindex[Current.of] = -1)
    /\ UNCHANGED <<shape, threads, lpc, pc, ring, barrier>>

\* Is the agent done with the report?
ReporterEnds ==
    /\ rpc = "ended"
    /\ ReportDone(agentindex[Current.of] = -1)
    /\ UNCHANGED <<shape, threads, lpc, pc, ring, barrier>>

\* Mutant: agents are told only when a report was freed.
SignalsFreedOnly ==
    /\ rpc \in {"signalfreed", "signal"}
    /\ rpc' = IF rpc = "signal" THEN "top" ELSE IF ReportRoot # <<>> THEN "pick" ELSE "signal"
    /\ \/ rpc = "signalfreed" /\ \E a \in Agent: pc[a] = "asleep" /\ Goto(a, "awake")
       \/ (rpc = "signal" \/ \A a \in Agent: pc[a] # "asleep") /\ UNCHANGED pc
    /\ UNCHANGED <<shape, threads, lpc, ring, barrier, todo, ReportRoot, freed>>

\* Condition_Signal( &ReportDoneCond ) lets one waiting agent go on; after a
\* freed report the pass starts again, or is signalled a second time.
ReporterSignals ==
    /\ rpc \in {"signalfreed", "signal"}
    /\ rpc' = IF rpc = "signal" THEN "top" ELSE IF ReportRoot # <<>> THEN "pick" ELSE "signal"
    /\ \/ \E a \in Agent: pc[a] = "asleep" /\ Goto(a, "awake")
       \/ (\A a \in Agent: pc[a] # "asleep") /\ UNCHANGED pc
    /\ UNCHANGED <<shape, threads, lpc, ring, barrier, todo, ReportRoot, freed>>

-----------------------------------------------------------------------------
AgentStep(a) ==
    \/ Connect(a) \/ ReportSettings(a) \/ BarrierClient(a) \/ LeaveBarrier(a) \/ PostFirstReport(a)
    \/ ReportPacket(a) \/ CloseReport(a) \/ Wrap(a) \/ WakeReporter(a) \/ WaitDone(a)
    \/ Reread(a) \/ WritePacket(a) \/ Bump(a) \/ GetReport(a) \/ EndReport(a)
    \/ ThreadExit(a) \/ StartRunNext(a)

ListenerStep ==
    ListenerRegisters \/ Listen \/ Launch \/ ListenerUnregisters \/ ListenerExits

ReporterStep ==
    \/ ReporterIdles \/ ReporterWakes \/ ReporterPicks \/ ReporterPrints \/ ReporterTests
    \/ ReporterAdvances \/ ReporterHandles \/ ReporterEnds \/ ReporterSignals

Next ==
    /\ Running
    /\ \/ MainStarts \/ MainJoins \/ Sig_Interupt
       \/ \E a \in Agent: AgentStep(a) \/ ConnectFails(a)
       \/ ListenerStep \/ ListenFails \/ Accept \/ AcceptTimesOut
       \/ ReporterStep

\* Every thread the scheduler can run goes on; peers, timeouts and signals
\* need not come.
Fairness ==
    /\ WF_vars(Running /\ (MainStarts \/ MainJoins))
    /\ \A a \in Agent: WF_vars(Running /\ AgentStep(a))
    /\ WF_vars(Running /\ ListenerStep)
    /\ WF_vars(Running /\ ReporterStep)

Spec == Init /\ [][Next]_vars /\ Fairness

-----------------------------------------------------------------------------
(* Properties.                                                             *)

\* Agent a is in the transfer: its ring is in use.
InTransfer(a) == pc[a] \in {"full", "wrap", "wait", "asleep", "awake", "write", "bump",
                            "traffic", "closed", "end"}

\* The ring is a queue: reporter_handle_packet() is given the packets of an
\* agent in the order ReportPacket() put them there, none twice, none lost
\* and none half written, although neither side takes a lock.
ReadsNext ==
    rpc = "handle" =>
       LET a == Current.of IN data[a][reporterindex[a]].n = handled[a] + 1

\* A report is freed only after EndReport(): the transfer agent never touches
\* a header that the reporter has freed.
NoUseAfterFree == \A a \in Agent: InTransfer(a) => DataReport(a) \notin freed

\* The ring between an agent and the reporter needs no lock (Reporter.c:389-480):
\* its packets come through in order and it is not freed while it is in use.
RingSafe == ReadsNext /\ NoUseAfterFree

\* When main returns, whether the test ended or was interrupted once, every
\* packet of every transfer that began was handled by the reporter.  (A
\* listener that could not bind() leaves nonterminating_num too high, and the
\* interrupt then takes a client off the count.)
AllReportedAtExit ==
    main = "exited" /\ ~(interrupted /\ lpc = "failed") =>
       \A a \in Agent: sent[a] = handled[a] /\ ~InTransfer(a)

\* thread_joinall() returns when every thread that was started, or is about
\* to be started by a thread, has ended ("Wait for all thread object's
\* execution to complete", Thread.c:289), unless the test was interrupted.
JoinsAll ==
    main = "exited" /\ ~interrupted =>
       /\ lpc \in {"none", "accept", "failed", "gone"}
       /\ \A a \in Agent: pc[a] \in {"none", "failed", "gone"}

\* main returns when everything is done and has been reported (main.cpp:150-290).
ExitsComplete == JoinsAll /\ AllReportedAtExit

\* A transfer that posted its first report ends: no signal between the
\* reporter and an agent with a full ring is missed for good.
TransferEnds ==
    \A a \in Agent: pc[a] = "first" ~> (pc[a] = "gone" \/ ~Running)

\* The process of a client leaves main, unless a connection failed.
ClientLeaves ==
    (\A a \in Agent: role[a] = "client") =>
       <>(~Running \/ \E a \in Agent: pc[a] = "failed")

\* Nobody waits for ever (Reporter.c:449-480, Thread.c:289-330): each transfer
\* ends, and a client's process with them.
ProcessEnds == TransferEnds /\ ClientLeaves
=============================================================================
