--------------------------- MODULE AdbHostProofs ---------------------------
(***************************************************************************)
(* Proofs about the adb server on the host and the commands that use it:   *)
(* the tables of listeners and of emulators name no transport that was     *)
(* freed and none twice, and "adb install" leaves no file behind.          *)
(***************************************************************************)
EXTENDS AdbHost, AdbCommand, FiniteSetTheorems, WellFoundedInduction, TLAPS

-----------------------------------------------------------------------------
(* The inductive invariant of the server.                                  *)

Phase == {"absent", "none", "queued", "up", "removing", "freed", "leaked", "failed"}
Transport == [phase: Phase, kicked: BOOLEAN, conn: {"offline", "noperm", "device"},
              refs: Int, threads: SUBSET {"in", "out"}, link: BOOLEAN,
              bye: {"no", "main", "input"}]

\* A message on the registration socket: action 1 registers t, 0 removes it.
Message == [t: Transports, action: {0, 1}]

HostType ==
    /\ tr \in [Transports -> Transport]
    /\ regq \in Seq(Message)
    /\ local_transports \in [Slots -> Emu \cup {None}]
    /\ listener \in [Names -> [to: Targets \cup {"none"}, t: Nodes]]
    /\ disconnect \in [Names -> Nodes]

Gone(t) == tr[t].phase \in {"removing", "freed"}

\* A transport that is not registered yet holds no reference to give back, and
\* a device without permission has no threads.
PhaseInv ==
    \A t \in Transports:
       /\ tr[t].phase \in {"absent", "none", "queued", "failed"} =>
             tr[t].refs <= 0 /\ tr[t].threads = {}
       /\ tr[t].conn = "noperm" =>
             t \in Usb /\ tr[t].phase \in {"queued", "up", "leaked"} /\ tr[t].threads = {}
       /\ tr[t].phase = "leaked" => tr[t].conn = "noperm"

\* A message that removes a transport is sent when its last reference was given
\* back; the one that registers it is the only message about it.
Awaits(t) == tr[t].phase = "queued" \/ (tr[t].phase = "leaked" /\ t \in Usb)
QueueInv ==
    /\ \A i \in DOMAIN regq: IF regq[i].action = 0 THEN Gone(regq[i].t) ELSE Awaits(regq[i].t)
    /\ \A i, j \in DOMAIN regq:
          regq[i].action = 1 /\ regq[j].action = 1 /\ regq[i].t = regq[j].t => i = j

\* An emulator that was not kicked has its slot, and a slot none that is gone.
Live(t) == tr[t].phase \in {"queued", "up"} /\ ~tr[t].kicked
SlotInv ==
    /\ \A i \in Slots: local_transports[i] # None => ~Gone(local_transports[i])
    /\ \A t \in Emu: Live(t) => \E i \in Slots: local_transports[i] = t
    /\ \A t, u \in Emu: Live(t) /\ Live(u) /\ Port[t] = Port[u] => t = u

\* A listener is on the disconnect list of its transport, which is not freed.
ListenerInv ==
    \A n \in Names: listener[n] # NoListener =>
       /\ listener[n].t \in Transports /\ disconnect[n] = listener[n].t
       /\ ~Freed(listener[n].t)

HostInv == HostType /\ PhaseInv /\ QueueInv /\ SlotInv /\ ListenerInv

-----------------------------------------------------------------------------
(* The inductive invariant of the commands.                                *)

Pc == {"version", "launch", "outdated", "service", "starting", "waiting", "stream",
       "broken", "kill", "done"}
Job == [cmd: DOMAIN Scripts, version: Nat, step: Nat, wait: BOOLEAN, pc: Pc, cut: BOOLEAN]

\* A command is at a service of its script ("kill" has none), and only one that
\* waits for the server it started has a child.
OnScript(j, kid) ==
    /\ j \in Job
    /\ j.cmd = "kill" => j.pc \in {"kill", "done"}
    /\ j.cmd # "kill" => j.pc # "kill" /\ j.step \in 1 .. Len(Scripts[j.cmd])
    /\ kid # 0 => j.pc = "starting"

\* "adb install" comes to its end through both "rm" commands.  apk and ver say
\* whether the files of the client are on the device.
CleansUp(j, apk, ver) ==
    IF j.cmd = "install"
    THEN /\ j.pc = "waiting" => j.wait
         /\ j.pc = "done" => j.step = 5
         /\ j.step = 5 /\ ~j.cut => ~ver
         /\ j.pc = "done" /\ ~j.cut => ~apk
    ELSE ~apk /\ ~ver

There(c, f) == <<c, f>> \in pushed
JobInv ==
    /\ job \in [DOMAIN job -> Job] /\ child \in [DOMAIN job -> Nat]
    /\ \A c \in DOMAIN job: /\ OnScript(job[c], child[c])
                            /\ CleansUp(job[c], There(c, "apk"), There(c, "ver"))

-----------------------------------------------------------------------------
(* The scripts.                                                            *)

LEMMA InstallScript ==
    /\ Len(Scripts["install"]) = 5
    /\ Scripts["install"][1] = Service("push_apk", FALSE)
    /\ Scripts["install"][2] = Service("push_ver", FALSE)
    /\ Scripts["install"][3] = Service("pm", TRUE)
    /\ Scripts["install"][4] = Service("rm_ver", TRUE)
    /\ Scripts["install"][5] = Service("rm_apk", TRUE)
BY DEF Scripts, Install

\* No other command touches the files.
LEMMA OtherScripts ==
    ASSUME NEW cmd \in DOMAIN Scripts \ {"install", "kill"}
    PROVE  /\ Len(Scripts[cmd]) \in Nat
           /\ \A i \in 1 .. Len(Scripts[cmd]):
                 ~Pushing(Scripts[cmd][i].what) /\ ~Removing(Scripts[cmd][i].what)
           /\ Len(Scripts[cmd]) >= 1
<1>1. cmd \in {"devices", "shell", "reboot", "logcat", "uninstall", "wait", "start"}
  BY DEF Scripts
<1>2. /\ Scripts["devices"] = HostQuery /\ Scripts["shell"] = Shell
      /\ Scripts["reboot"] = Restart /\ Scripts["logcat"] = Logcat
      /\ Scripts["uninstall"] = Uninstall /\ Scripts["wait"] = WaitFor
      /\ Scripts["start"] = StartServer
  BY DEF Scripts
<1>3. Scripts[cmd] \in {HostQuery, Shell, Restart, Logcat, Uninstall, WaitFor, StartServer}
  BY <1>1, <1>2, Zenon
<1> DEFINE Harmless(p) ==
              /\ Len(p) \in Nat /\ Len(p) >= 1
              /\ \A i \in 1 .. Len(p): ~Pushing(p[i].what) /\ ~Removing(p[i].what)
<1>4. /\ Harmless(HostQuery) /\ Harmless(Shell) /\ Harmless(Restart) /\ Harmless(Logcat)
      /\ Harmless(Uninstall) /\ Harmless(StartServer)
  BY DEF HostQuery, Shell, Restart, Logcat, Uninstall, StartServer, Service, Pushing, Removing
<1>5. Harmless(WaitFor)
  BY DEF WaitFor, Service, Pushing, Removing
<1>6. Harmless(Scripts[cmd])
  <2> HIDE DEF Harmless
  <2> QED
    BY <1>3, <1>4, <1>5, Zenon
<1> QED
  BY <1>6, Zenon

-----------------------------------------------------------------------------
(* One client.                                                             *)

\* What the step of an install command says of the service it is at.
LEMMA InstallNow ==
    ASSUME NEW j \in Job, j.cmd = "install", j.step \in 1 .. 5
    PROVE  /\ Now(j).what \notin {"wait", "start", "query", "run"}
           /\ Pushing(Now(j).what) <=> j.step \in {1, 2}
           /\ Now(j).loop <=> j.step \in {3, 4, 5}
           /\ j.step = 4 => Now(j).what = "rm_ver"
           /\ j.step = 5 => Now(j).what = "rm_apk"
           /\ Removing(Now(j).what) <=> j.step \in {4, 5}
<1>1. Now(j) = Scripts["install"][j.step]
  BY DEF Now
<1>2. j.step \in {1, 2, 3, 4, 5}
  OBVIOUS
<1> QED
  BY <1>1, <1>2, InstallScript DEF Service, Pushing, Removing

\* The updates of a client's record.
Retries(j, w) == [j EXCEPT !.wait = w, !.pc = "version"]
Advances(j) == [j EXCEPT !.step = @ + 1, !.pc = "version"]

LEMMA GoesJob ==
    ASSUME NEW j \in Job, NEW p \in Pc
    PROVE  /\ Goes(j, p) \in Job /\ Goes(j, p).cmd = j.cmd /\ Goes(j, p).pc = p
           /\ Goes(j, p).step = j.step /\ Goes(j, p).cut = j.cut /\ Goes(j, p).wait = j.wait
BY DEF Job, Goes

LEMMA RetriesJob ==
    ASSUME NEW j \in Job, NEW w \in BOOLEAN
    PROVE  /\ Retries(j, w) \in Job /\ Retries(j, w).cmd = j.cmd
           /\ Retries(j, w).pc = "version" /\ Retries(j, w).step = j.step
           /\ Retries(j, w).cut = j.cut
BY Zenon DEF Job, Retries, Pc

LEMMA AdvancesJob ==
    ASSUME NEW j \in Job
    PROVE  /\ Advances(j) \in Job /\ Advances(j).cmd = j.cmd /\ Advances(j).pc = "version"
           /\ Advances(j).step = j.step + 1 /\ Advances(j).cut = j.cut
<1>1. j.step + 1 \in Nat
  BY DEF Job
<1> QED
  BY <1>1, Zenon DEF Job, Advances, Pc

LEMMA ToCleanupJob ==
    ASSUME NEW j \in Job
    PROVE  /\ ToCleanup(j) \in Job /\ ToCleanup(j).cmd = j.cmd /\ ToCleanup(j).pc = "version"
           /\ ToCleanup(j).step = 4 /\ ToCleanup(j).cut = j.cut
<1>1. 4 \in Nat
  OBVIOUS
<1> QED
  BY <1>1, Zenon DEF Job, ToCleanup, Pc

LEMMA GoesKeeps ==
    ASSUME NEW j, NEW kid, NEW pc \in Pc, pc \notin {"kill", "done", "waiting"},
           NEW apk, NEW ver, OnScript(j, kid), CleansUp(j, apk, ver), j.cmd # "kill"
    PROVE  /\ OnScript(Goes(j, pc), 0)
           /\ CleansUp(Goes(j, pc), apk, ver)
BY DEF OnScript, CleansUp, Goes, Job

LEMMA FailedKeeps ==
    ASSUME NEW j, NEW kid, NEW apk, NEW ver, OnScript(j, kid), CleansUp(j, apk, ver),
           j.cmd # "kill"
    PROVE  /\ OnScript(Failed(j), 0)
           /\ CleansUp(Failed(j), apk, ver)
<1>0. j \in Job
  BY DEF OnScript
<1>1. CASE j.cmd = "install"
  <2>1. j.step \in 1 .. 5
    BY <1>1, InstallScript DEF OnScript
  <2>2. /\ Pushing(Now(j).what) <=> j.step \in {1, 2}
        /\ Now(j).loop <=> j.step \in {3, 4, 5}
    BY <1>0, <1>1, <2>1, InstallNow
  <2>3. Failed(j) \in {Retries(j, FALSE), Retries(j, TRUE), ToCleanup(j)}
    BY <2>1, <2>2 DEF Failed, Retries
  <2>4. /\ Failed(j) \in Job /\ Failed(j).cmd = "install" /\ Failed(j).pc = "version"
        /\ Failed(j).step \in {j.step, 4} /\ Failed(j).cut = j.cut
    <3>1. CASE Failed(j) = Retries(j, FALSE)
      BY ZenonT(60), <1>0, <1>1, <3>1, RetriesJob
    <3>2. CASE Failed(j) = Retries(j, TRUE)
      BY ZenonT(60), <1>0, <1>1, <3>2, RetriesJob
    <3>3. CASE Failed(j) = ToCleanup(j)
      BY <1>0, <1>1, <3>3, ToCleanupJob
    <3> QED
      BY Zenon, <2>3, <3>1, <3>2, <3>3
  <2> QED
    BY <1>0, <1>1, <2>1, <2>4, InstallScript DEF OnScript, CleansUp
<1>2. CASE j.cmd # "install"
  <2>1. j.cmd \in DOMAIN Scripts \ {"install", "kill"}
    BY <1>0, <1>2 DEF Job
  <2>2. ~Pushing(Now(j).what)
    BY <2>1, OtherScripts DEF Now, OnScript
  <2>3. Failed(j) \in {Retries(j, FALSE), Retries(j, TRUE), Goes(j, "done")}
    BY <2>2 DEF Failed, Retries
  <2>4. /\ Failed(j) \in Job /\ Failed(j).cmd = j.cmd /\ Failed(j).pc \in {"version", "done"}
        /\ Failed(j).step = j.step
    <3>1. "done" \in Pc
      BY DEF Pc
    <3>2. CASE Failed(j) = Retries(j, FALSE)
      BY Zenon, <1>0, <3>2, RetriesJob
    <3>3. CASE Failed(j) = Retries(j, TRUE)
      BY Zenon, <1>0, <3>3, RetriesJob
    <3>4. CASE Failed(j) = Goes(j, "done")
      BY <1>0, <3>1, <3>4, GoesJob
    <3> QED
      BY Zenon, <2>3, <3>2, <3>3, <3>4
  <2> QED
    BY <1>2, <2>4 DEF OnScript, CleansUp
<1> QED
  BY <1>1, <1>2

LEMMA FinishedKeeps ==
    ASSUME NEW j, NEW kid, NEW apk, NEW ver, OnScript(j, kid), j.cmd # "kill",
           IF j.cmd = "install" THEN /\ j.step \in {4, 5} /\ ~j.cut => ~ver
                                     /\ j.step = 5 /\ ~j.cut => ~apk
           ELSE ~apk /\ ~ver
    PROVE  /\ OnScript(Finished(j), 0)
           /\ CleansUp(Finished(j), apk, ver)
           /\ Finished(j).cut = j.cut
<1>0. j \in Job /\ j.step \in 1 .. Len(Scripts[j.cmd])
  BY DEF OnScript
<1>1. Len(Scripts[j.cmd]) \in Nat /\ (j.cmd = "install" => Len(Scripts[j.cmd]) = 5)
  <2>1. CASE j.cmd = "install"
    BY <2>1, InstallScript
  <2>2. CASE j.cmd # "install"
    BY <1>0, <2>2, OtherScripts DEF Job
  <2> QED
    BY <2>1, <2>2
<1>2. CASE j.step = Len(Scripts[j.cmd])
  <2>1. Finished(j) = Goes(j, "done")
    BY <1>2 DEF Finished
  <2>2. /\ Finished(j) \in Job /\ Finished(j).cmd = j.cmd /\ Finished(j).pc = "done"
        /\ Finished(j).step = j.step /\ Finished(j).cut = j.cut
    <3>1. "done" \in Pc
      BY DEF Pc
    <3> QED
      BY <1>0, <2>1, <3>1, GoesJob
  <2> QED
    BY <1>0, <1>1, <1>2, <2>2 DEF OnScript, CleansUp
<1>3. CASE j.step # Len(Scripts[j.cmd])
  <2>1. Finished(j) = Advances(j)
    BY <1>3 DEF Finished, Advances
  <2>2. /\ Finished(j) \in Job /\ Finished(j).cmd = j.cmd /\ Finished(j).pc = "version"
        /\ Finished(j).step = j.step + 1 /\ Finished(j).cut = j.cut
    BY <1>0, <2>1, AdvancesJob, Zenon
  <2> QED
    BY <1>0, <1>1, <1>3, <2>2 DEF OnScript, CleansUp
<1> QED
  BY <1>2, <1>3

-----------------------------------------------------------------------------
(* All clients.                                                            *)

\* A step of one client leaves the others, their children and files alone.
LEMMA OneMoves ==
    ASSUME JobInv, NEW c \in DOMAIN job, NEW g, job' = [job EXCEPT ![c] = g],
           child' \in [DOMAIN job -> Nat], \A d \in DOMAIN job \ {c}: child'[d] = child[d],
           \A d \in DOMAIN job \ {c}: \A f \in {"apk", "ver"}: There(d, f)' = There(d, f),
           OnScript(g, child'[c]), CleansUp(g, There(c, "apk")', There(c, "ver")')
    PROVE  JobInv'
<1>1. g \in Job
  BY DEF OnScript
<1>2. /\ job' \in [DOMAIN job -> Job] /\ DOMAIN job' = DOMAIN job /\ job'[c] = g
      /\ \A d \in DOMAIN job \ {c}: job'[d] = job[d]
  BY <1>1 DEF JobInv
<1>3. ASSUME NEW d \in DOMAIN job
      PROVE  /\ OnScript(job'[d], child'[d])
             /\ CleansUp(job'[d], There(d, "apk")', There(d, "ver")')
  <2>1. CASE d = c
    BY <1>2, <2>1
  <2>2. CASE d # c
    <3>1. /\ job'[d] = job[d] /\ child'[d] = child[d]
          /\ There(d, "apk")' = There(d, "apk") /\ There(d, "ver")' = There(d, "ver")
      BY <1>2, <2>2
    <3> QED
      BY <3>1 DEF JobInv
  <2> QED
    BY <2>1, <2>2
<1> QED
  BY <1>2, <1>3, Zenon DEF JobInv

\* Steps that change neither children nor files.
LEMMA OneGoes ==
    ASSUME JobInv, NEW c \in DOMAIN job, NEW g, job' = [job EXCEPT ![c] = g],
           UNCHANGED <<child, pushed>>, OnScript(g, child[c]),
           CleansUp(g, There(c, "apk"), There(c, "ver"))
    PROVE  JobInv'
<1>1. /\ child' \in [DOMAIN job -> Nat] /\ child' = child
      /\ \A d, f: There(d, f)' = There(d, f)
  BY DEF JobInv, There
<1>2. /\ \A d \in DOMAIN job \ {c}: child'[d] = child[d]
      /\ \A d \in DOMAIN job \ {c}: \A f \in {"apk", "ver"}: There(d, f)' = There(d, f)
  BY <1>1
<1>3. OnScript(g, child'[c]) /\ CleansUp(g, There(c, "apk")', There(c, "ver")')
  BY <1>1
<1> QED
  BY <1>1, <1>2, <1>3, OneMoves, Zenon

\* The client, when it is not waiting for the server it started.
LEMMA NoChild ==
    ASSUME JobInv, NEW c \in DOMAIN job
    PROVE  /\ OnScript(job[c], child[c])
           /\ CleansUp(job[c], There(c, "apk"), There(c, "ver"))
           /\ job[c].pc # "starting" => child[c] = 0
           /\ job[c].pc \notin {"kill", "done"} => job[c].cmd # "kill"
           /\ child[c] # 0 => job[c].cmd # "kill"
BY DEF JobInv, OnScript

\* A service that needs no file is done.
LEMMA DoneKeeps ==
    ASSUME NEW j, NEW kid, NEW apk, NEW ver, OnScript(j, kid), CleansUp(j, apk, ver),
           j.cmd # "kill", j.cmd = "install" => j.step \in {1, 2, 3}
    PROVE  OnScript(Finished(j), 0) /\ CleansUp(Finished(j), apk, ver)
<1>1. IF j.cmd = "install" THEN /\ j.step \in {4, 5} /\ ~j.cut => ~ver
                                /\ j.step = 5 /\ ~j.cut => ~apk
      ELSE ~apk /\ ~ver
  BY DEF CleansUp
<1> QED
  BY <1>1, FinishedKeeps, Zenon

\* An install command never asks the server itself, nor waits for its own sake.
LEMMA NotInstall ==
    ASSUME NEW j, NEW kid, OnScript(j, kid), Now(j).what \in {"wait", "start", "query"},
           j.cmd # "kill"
    PROVE  j.cmd # "install"
<1>1. SUFFICES ASSUME j.cmd = "install" PROVE FALSE
  OBVIOUS
<1>2. j \in Job /\ j.step \in 1 .. 5
  BY <1>1, InstallScript DEF OnScript
<1> QED
  BY <1>1, <1>2, InstallNow

\* What a step that touches no file makes of a client.
Move(j, g) ==
    \/ g = Failed(j)
    \/ \E p \in {"launch", "outdated", "service", "stream", "broken", "starting"}: g = Goes(j, p)
    \/ Now(j).what \in {"start", "query"} /\ g = Finished(j)
    \/ Waiting(j) /\ g = Goes(j, "waiting")
    \/ j.pc = "waiting" /\ g = Waited(j)

LEMMA MoveKeeps ==
    ASSUME NEW j, NEW kid, NEW apk, NEW ver, NEW g, OnScript(j, kid), CleansUp(j, apk, ver),
           j.cmd # "kill", Move(j, g)
    PROVE  OnScript(g, 0) /\ CleansUp(g, apk, ver)
<1>0. j \in Job
  BY DEF OnScript
<1>1. CASE g = Failed(j)
  BY <1>1, FailedKeeps, Zenon
<1>2. CASE \E p \in {"launch", "outdated", "service", "stream", "broken", "starting"}: g = Goes(j, p)
  <2>1. PICK p \in {"launch", "outdated", "service", "stream", "broken", "starting"}: g = Goes(j, p)
    BY <1>2
  <2>2. p \in Pc /\ p \notin {"kill", "done", "waiting"}
    BY <2>1 DEF Pc
  <2> QED
    BY <2>1, <2>2, GoesKeeps, Zenon
<1>3. CASE Now(j).what \in {"wait", "start", "query"} /\ g = Finished(j)
  <2>1. j.cmd # "install"
    BY <1>3, NotInstall
  <2> QED
    BY <1>3, <2>1, DoneKeeps, Zenon
<1>4. CASE Waiting(j) /\ g = Goes(j, "waiting")
  <2>1. "waiting" \in Pc
    BY DEF Pc
  <2>2. /\ g \in Job /\ g.cmd = j.cmd /\ g.pc = "waiting"
        /\ g.step = j.step /\ g.cut = j.cut /\ g.wait = j.wait
    BY <1>0, <1>4, <2>1, GoesJob
  <2>3. j.wait \/ j.cmd # "install"
    BY <1>4, NotInstall DEF Waiting
  <2> QED
    BY <2>2, <2>3 DEF OnScript, CleansUp
<1>5. CASE j.pc = "waiting" /\ g = Waited(j)
  <2>1. CASE j.wait
    <3>1. g = Retries(j, FALSE)
      BY <1>5, <2>1 DEF Waited, Retries
    <3>2. /\ g \in Job /\ g.cmd = j.cmd /\ g.pc = "version" /\ g.step = j.step
          /\ g.cut = j.cut
      BY <1>0, <3>1, RetriesJob, Zenon
    <3> QED
      BY <3>2 DEF OnScript, CleansUp
  <2>2. CASE ~j.wait
    <3>1. g = Finished(j)
      BY <1>5, <2>2 DEF Waited
    <3>2. j.cmd # "install"
      BY <1>5, <2>2 DEF CleansUp
    <3> QED
      BY <3>1, <3>2, DoneKeeps, Zenon
  <2> QED
    BY <2>1, <2>2
<1> QED
  BY <1>1, <1>2, <1>3, <1>4, <1>5 DEF Move

\* adb_connect() and its answers.
LEMMA ConnectStep ==
    ASSUME JobInv, NEW c \in DOMAIN job,
           \/ AsksVersion(c) \/ KillsOutdated(c) \/ LaunchFails(c)
           \/ AsksService(c) \/ WaitAnswered(c)
    PROVE  JobInv'
<1>1. /\ job[c].pc \in {"version", "outdated", "launch", "service", "waiting"}
      /\ UNCHANGED <<child, pushed>>
  BY DEF AsksVersion, KillsOutdated, LaunchFails, AsksService, WaitAnswered
<1>2. \E g: job' = [job EXCEPT ![c] = g] /\ Move(job[c], g)
  <2>1. CASE AsksVersion(c)
    BY Zenon, <2>1 DEF AsksVersion, Move
  <2>2. CASE KillsOutdated(c)
    BY Zenon, <2>2 DEF KillsOutdated, Move
  <2>3. CASE LaunchFails(c)
    BY Zenon, <2>3 DEF LaunchFails, Move
  <2>4. CASE AsksService(c)
    BY Zenon, <2>4 DEF AsksService, Move
  <2>5. CASE WaitAnswered(c)
    BY Zenon, <2>5 DEF WaitAnswered, Move
  <2> QED
    BY <2>1, <2>2, <2>3, <2>4, <2>5
<1>3. PICK g: job' = [job EXCEPT ![c] = g] /\ Move(job[c], g)
  BY Zenon, <1>2
<1>4. /\ OnScript(job[c], child[c]) /\ CleansUp(job[c], There(c, "apk"), There(c, "ver"))
      /\ child[c] = 0 /\ job[c].cmd # "kill"
  BY <1>1, NoChild
<1>5. OnScript(g, child[c]) /\ CleansUp(g, There(c, "apk"), There(c, "ver"))
  BY <1>3, <1>4, MoveKeeps, Zenon
<1> QED
  BY <1>1, <1>3, <1>5, OneGoes, Zenon

LEMMA KillServerStep ==
    ASSUME JobInv, NEW c \in DOMAIN job, KillServer(c)
    PROVE  JobInv'
<1> DEFINE g == Goes(job[c], "done")
<1>1. /\ job' = [job EXCEPT ![c] = g] /\ job[c].pc = "kill" /\ UNCHANGED <<child, pushed>>
  BY DEF KillServer
<1>2. /\ OnScript(job[c], child[c]) /\ CleansUp(job[c], There(c, "apk"), There(c, "ver"))
      /\ child[c] = 0 /\ job[c].cmd = "kill" /\ job[c] \in Job
  BY <1>1, NoChild DEF OnScript
<1>3. "done" \in Pc
  BY DEF Pc
<1>4. g \in Job /\ g.cmd = job[c].cmd /\ g.pc = "done"
  BY <1>2, <1>3, GoesJob
<1> HIDE DEF g
<1>5. OnScript(g, child[c]) /\ CleansUp(g, There(c, "apk"), There(c, "ver"))
  BY <1>2, <1>4 DEF OnScript, CleansUp
<1> QED
  BY <1>1, <1>5, OneGoes, Zenon

LEMMA LaunchesStep ==
    ASSUME JobInv, NEW c \in DOMAIN job, Launches(c)
    PROVE  JobInv'
<1> DEFINE g == Goes(job[c], "starting")
<1>1. /\ job' = [job EXCEPT ![c] = g] /\ job[c].pc = "launch"
      /\ child' = [child EXCEPT ![c] = job[c].version] /\ pushed' = pushed
  BY DEF Launches
<1>2. /\ OnScript(job[c], child[c]) /\ CleansUp(job[c], There(c, "apk"), There(c, "ver"))
      /\ job[c].cmd # "kill" /\ job[c] \in Job
  BY <1>1, NoChild DEF OnScript
<1>3. "starting" \in Pc /\ "starting" \notin {"kill", "done", "waiting"}
  BY DEF Pc
<1>4. g.pc = "starting"
  BY <1>2, <1>3, GoesJob
<1>5. OnScript(g, 0) /\ CleansUp(g, There(c, "apk"), There(c, "ver"))
  BY <1>2, <1>3, GoesKeeps, Zenon
<1> HIDE DEF g
<1>6. OnScript(g, child'[c])
  BY <1>4, <1>5 DEF OnScript
<1>7. child' \in [DOMAIN job -> Nat] /\ \A d \in DOMAIN job \ {c}: child'[d] = child[d]
  <2>1. child \in [DOMAIN job -> Nat] /\ job[c].version \in Nat
    BY <1>2 DEF JobInv, Job
  <2> QED
    BY <1>1, <2>1
<1>8. \A d, f: There(d, f)' = There(d, f)
  BY <1>1 DEF There
<1> QED
  BY <1>1, <1>5, <1>6, <1>7, <1>8, OneMoves, Zenon

LEMMA ChildBindsStep ==
    ASSUME JobInv, NEW c \in DOMAIN job, ChildBinds(c)
    PROVE  JobInv'
<1>1. child[c] # 0 /\ child' = [child EXCEPT ![c] = 0] /\ pushed' = pushed
  BY DEF ChildBinds
<1>2. \E g: job' = [job EXCEPT ![c] = g] /\ Move(job[c], g)
  BY Zenon DEF ChildBinds, Move
<1>3. PICK g: job' = [job EXCEPT ![c] = g] /\ Move(job[c], g)
  BY Zenon, <1>2
<1>4. /\ OnScript(job[c], child[c]) /\ CleansUp(job[c], There(c, "apk"), There(c, "ver"))
      /\ job[c].cmd # "kill"
  BY <1>1, NoChild
<1>5. OnScript(g, 0) /\ CleansUp(g, There(c, "apk"), There(c, "ver"))
  BY <1>3, <1>4, MoveKeeps, Zenon
<1>6. /\ child' \in [DOMAIN job -> Nat] /\ child'[c] = 0
      /\ \A d \in DOMAIN job \ {c}: child'[d] = child[d]
  <2>1. child \in [DOMAIN job -> Nat]
    BY DEF JobInv
  <2> QED
    BY <1>1, <2>1
<1>7. \A d, f: There(d, f)' = There(d, f)
  BY <1>1 DEF There
<1> QED
  BY <1>3, <1>5, <1>6, <1>7, OneMoves, Zenon

\* What the service of a client does to the files.
LEMMA AppliedFiles ==
    ASSUME JobInv, NEW c \in DOMAIN job, job[c].cmd # "kill"
    PROVE  /\ \A d \in DOMAIN job \ {c}: \A f \in {"apk", "ver"}:
                 <<d, f>> \in Applied(c) <=> <<d, f>> \in pushed
           /\ job[c].cmd # "install" => Applied(c) = pushed
           /\ job[c].cmd = "install" =>
                 /\ job[c].step = 4 => <<c, "ver">> \notin Applied(c)
                 /\ job[c].step = 5 => /\ <<c, "apk">> \notin Applied(c)
                                       /\ <<c, "ver">> \in Applied(c) => <<c, "ver">> \in pushed
<1>0. OnScript(job[c], child[c]) /\ job[c] \in Job
  BY NoChild DEF OnScript
<1>1. \A d \in DOMAIN job \ {c}: \A f \in {"apk", "ver"}:
         <<d, f>> \in Applied(c) <=> <<d, f>> \in pushed
  BY DEF Applied
<1>2. CASE job[c].cmd # "install"
  <2>1. ~Pushing(Now(job[c]).what) /\ ~Removing(Now(job[c]).what)
    BY <1>0, <1>2, OtherScripts DEF OnScript, Job, Now
  <2> QED
    BY <1>1, <1>2, <2>1 DEF Applied
<1>3. CASE job[c].cmd = "install"
  <2>1. job[c].step \in 1 .. 5
    BY <1>0, <1>3, InstallScript DEF OnScript
  <2>2. /\ job[c].step = 4 => Now(job[c]).what = "rm_ver"
        /\ job[c].step = 5 => Now(job[c]).what = "rm_apk"
    BY <1>0, <1>3, <2>1, InstallNow
  <2>3. job[c].step = 4 => Applied(c) = pushed \ {<<c, "ver">>}
    BY <2>2 DEF Applied, Pushing, Removing, File
  <2>4. job[c].step = 5 => Applied(c) = pushed \ {<<c, "apk">>}
    BY <2>2 DEF Applied, Pushing, Removing, File
  <2> QED
    BY <1>1, <1>3, <2>3, <2>4
<1> QED
  BY <1>2, <1>3

LEMMA OtherFiles ==
    ASSUME JobInv, NEW c \in DOMAIN job, job[c].cmd # "kill", pushed' \in {pushed, Applied(c)}
    PROVE  \A d \in DOMAIN job \ {c}: \A f \in {"apk", "ver"}: There(d, f)' = There(d, f)
<1>1. ASSUME NEW d \in DOMAIN job \ {c}, NEW f \in {"apk", "ver"}
      PROVE  There(d, f)' = There(d, f)
  <2>1. <<d, f>> \in Applied(c) <=> <<d, f>> \in pushed
    BY Zenon, AppliedFiles
  <2>2. <<d, f>> \in pushed' <=> <<d, f>> \in pushed
    BY <2>1
  <2> QED
    BY <2>2 DEF There
<1> QED
  BY <1>1

\* The stream was read to its end.
LEMMA StreamEndsStep ==
    ASSUME JobInv, NEW c \in DOMAIN job, StreamEnds(c)
    PROVE  JobInv'
<1> DEFINE j == job[c]
           g == Finished(j)
<1>1. /\ job' = [job EXCEPT ![c] = g] /\ j.pc = "stream" /\ child' = child
      /\ pushed' = Applied(c)
  BY DEF StreamEnds
<1>2. /\ OnScript(j, child[c]) /\ CleansUp(j, There(c, "apk"), There(c, "ver"))
      /\ j.cmd # "kill" /\ child[c] = 0
  BY <1>1, NoChild
<1>3. IF j.cmd = "install" THEN /\ j.step \in {4, 5} /\ ~j.cut => ~There(c, "ver")'
                                /\ j.step = 5 /\ ~j.cut => ~There(c, "apk")'
      ELSE ~There(c, "apk")' /\ ~There(c, "ver")'
  <2>1. /\ There(c, "ver")' <=> <<c, "ver">> \in Applied(c)
        /\ There(c, "apk")' <=> <<c, "apk">> \in Applied(c)
    BY <1>1 DEF There
  <2>2. CASE j.cmd = "install"
    <3>1. /\ j.step = 4 => ~There(c, "ver")'
          /\ j.step = 5 => ~There(c, "apk")' /\ (There(c, "ver")' => There(c, "ver"))
      BY <1>2, <2>1, <2>2, AppliedFiles DEF There
    <3> QED
      BY <1>2, <2>2, <3>1 DEF CleansUp
  <2>3. CASE j.cmd # "install"
    <3>1. Applied(c) = pushed
      BY Zenon, <1>2, <2>3, AppliedFiles
    <3> QED
      BY <1>2, <2>1, <2>3, <3>1 DEF CleansUp, There
  <2> QED
    BY <2>2, <2>3
<1> HIDE DEF j
<1>4. OnScript(g, 0) /\ CleansUp(g, There(c, "apk")', There(c, "ver")')
  BY <1>2, <1>3, FinishedKeeps, Zenon
<1>5. /\ child' \in [DOMAIN job -> Nat] /\ child'[c] = 0
      /\ \A d \in DOMAIN job \ {c}: child'[d] = child[d]
  BY <1>1, <1>2 DEF JobInv
<1>6. \A d \in DOMAIN job \ {c}: \A f \in {"apk", "ver"}: There(d, f)' = There(d, f)
  BY <1>1, <1>2, OtherFiles DEF j
<1> HIDE DEF g
<1> QED
  BY <1>1, <1>4, <1>5, <1>6, OneMoves, Zenon

\* A push that failed goes on to the "rm" commands, whatever it wrote.
LEMMA PushGivesUp ==
    ASSUME JobInv, NEW c \in DOMAIN job, job[c].pc \in {"stream", "broken"},
           Pushing(Now(job[c]).what), job' = [job EXCEPT ![c] = Failed(job[c])],
           pushed' \in {pushed, Applied(c)}, child' = child
    PROVE  JobInv'
<1> DEFINE j == job[c]
           g == Failed(j)
<1>1. /\ OnScript(j, child[c]) /\ CleansUp(j, There(c, "apk"), There(c, "ver"))
      /\ j.cmd # "kill" /\ child[c] = 0 /\ j \in Job
  BY NoChild DEF OnScript
<1>2. j.cmd = "install"
  BY <1>1, OtherScripts DEF OnScript, Job, Now
<1>3. j.step \in {1, 2}
  <2>1. j.step \in 1 .. 5
    BY <1>1, <1>2, InstallScript DEF OnScript
  <2> QED
    BY <1>1, <1>2, <2>1, InstallNow
<1>4. CleansUp(j, There(c, "apk")', There(c, "ver")')
  BY <1>1, <1>2, <1>3 DEF CleansUp
<1>5. OnScript(g, 0) /\ CleansUp(g, There(c, "apk")', There(c, "ver")')
  BY <1>1, <1>4, FailedKeeps, Zenon
<1>6. /\ child' \in [DOMAIN job -> Nat] /\ child'[c] = 0
      /\ \A d \in DOMAIN job \ {c}: child'[d] = child[d]
  BY <1>1 DEF JobInv
<1>7. \A d \in DOMAIN job \ {c}: \A f \in {"apk", "ver"}: There(d, f)' = There(d, f)
  BY <1>1, OtherFiles, Zenon
<1>8. job' = [job EXCEPT ![c] = g]
  OBVIOUS
<1> HIDE DEF g
<1> QED
  BY <1>5, <1>6, <1>7, <1>8, OneMoves, Zenon

LEMMA CutJob ==
    ASSUME NEW j \in Job, NEW x \in BOOLEAN, NEW h, h = [j EXCEPT !.cut = x]
    PROVE  /\ h \in Job /\ h.cmd = j.cmd /\ h.pc = j.pc /\ h.step = j.step
           /\ h.wait = j.wait /\ h.cut = x
BY Zenon DEF Job

\* A lost connection is taken for the end of the output: what an "rm" command
\* did not remove stays, and cut remembers it.
LEMMA StreamBrokenStep ==
    ASSUME JobInv, NEW c \in DOMAIN job, job[c].pc = "broken", child' = child,
           ~Pushing(Now(job[c]).what), pushed' \in {pushed, Applied(c)},
           job' = [job EXCEPT ![c] = TakenForEnd(job[c])]
    PROVE  JobInv'
<1> DEFINE j == job[c]
           x == j.cut \/ Removing(Now(j).what)
           g == [Finished(j) EXCEPT !.cut = x]
<1>1. /\ OnScript(j, child[c]) /\ CleansUp(j, There(c, "apk"), There(c, "ver"))
      /\ j.cmd # "kill" /\ child[c] = 0 /\ j \in Job
  BY NoChild DEF OnScript
<1>2. j.cmd = "install" => j.step \in 3 .. 5 /\ (j.step \in {4, 5} => Removing(Now(j).what))
  <2>1. j.cmd = "install" => j.step \in 1 .. 5
    BY Zenon, <1>1, InstallScript DEF OnScript
  <2> QED
    BY <1>1, <2>1, InstallNow
<1>3. /\ OnScript(Finished(j), 0) /\ CleansUp(Finished(j), FALSE, FALSE)
      /\ Finished(j).cut = j.cut /\ Finished(j) \in Job
  <2>1. IF j.cmd = "install" THEN /\ j.step \in {4, 5} /\ ~j.cut => ~FALSE
                                  /\ j.step = 5 /\ ~j.cut => ~FALSE
        ELSE ~FALSE /\ ~FALSE
    OBVIOUS
  <2>2. OnScript(Finished(j), 0) /\ CleansUp(Finished(j), FALSE, FALSE)
        /\ Finished(j).cut = j.cut
    BY Zenon, <1>1, <2>1, FinishedKeeps
  <2> QED
    BY Zenon, <2>2 DEF OnScript
<1>4. x \in BOOLEAN
  BY <1>1 DEF Job
<1>5. /\ g \in Job /\ g.cmd = Finished(j).cmd /\ g.pc = Finished(j).pc
      /\ g.step = Finished(j).step /\ g.wait = Finished(j).wait /\ g.cut = x
  <2> HIDE DEF x
  <2> QED
    BY <1>3, <1>4, CutJob
<1>6. job' = [job EXCEPT ![c] = g]
  BY DEF TakenForEnd
<1>7. Finished(j).cmd = j.cmd /\ (j.step = 3 /\ j.cmd = "install" => Finished(j).step = 4)
  <2>1. Finished(j) \in {Goes(j, "done"), Advances(j)}
    BY DEF Finished, Advances
  <2>2. j.step = 3 /\ j.cmd = "install" => Finished(j) = Advances(j)
    BY InstallScript DEF Finished, Advances
  <2>3. "done" \in Pc
    BY DEF Pc
  <2>4. Goes(j, "done").cmd = j.cmd /\ Advances(j).cmd = j.cmd /\ Advances(j).step = j.step + 1
    BY <1>1, <2>3, GoesJob, AdvancesJob
  <2> QED
    BY <2>1, <2>2, <2>4
<1>8. OnScript(g, 0)
  <2> HIDE DEF g, x
  <2> QED
    BY <1>3, <1>5 DEF OnScript
<1>9. CleansUp(g, There(c, "apk")', There(c, "ver")')
  <2>1. CASE j.cmd = "install"
    <3>1. j.step = 3 => g.step = 4 /\ g.pc # "done"
      BY <1>3, <1>5, <1>7, <2>1 DEF CleansUp
    <3>2. j.step \in {4, 5} => g.cut
      BY Zenon, <1>2, <1>5, <2>1
    <3> HIDE DEF g, x
    <3>3. j.step \in {3, 4, 5}
      BY <1>2, <2>1
    <3> QED
      BY <1>3, <1>5, <1>7, <2>1, <3>1, <3>2, <3>3 DEF CleansUp
  <2>2. CASE j.cmd # "install"
    <3>1. Applied(c) = pushed
      BY Zenon, <1>1, <2>2, AppliedFiles
    <3> HIDE DEF g, x
    <3> QED
      BY <1>1, <1>5, <1>7, <2>2, <3>1 DEF CleansUp, There
  <2> QED
    BY <2>1, <2>2
<1>a. /\ child' \in [DOMAIN job -> Nat] /\ child'[c] = 0
      /\ \A d \in DOMAIN job \ {c}: child'[d] = child[d]
  BY <1>1 DEF JobInv
<1>b. \A d \in DOMAIN job \ {c}: \A f \in {"apk", "ver"}: There(d, f)' = There(d, f)
  BY <1>1, OtherFiles, Zenon
<1> HIDE DEF g
<1> QED
  BY <1>6, <1>8, <1>9, <1>a, <1>b, OneMoves, Zenon

\* The server exits or the device is lost: every client that talks to it sees it.
LEMMA AllCutStep ==
    ASSUME JobInv, ServerExits \/ DeviceLost
    PROVE  JobInv'
<1>1. UNCHANGED <<child, pushed>>
  BY DEF ServerExits, DeviceLost
<1>2. PICK h: /\ job' = [c \in DOMAIN job |-> h[c]]
              /\ \A c \in DOMAIN job:
                    h[c] = job[c] \/ (job[c].pc \in {"stream", "waiting"} /\ Move(job[c], h[c]))
  <2>1. CASE ServerExits
    <3> DEFINE k == [c \in DOMAIN job |-> Cut(job[c])]
    <3>1. job' = [c \in DOMAIN job |-> k[c]]
      BY <2>1 DEF ServerExits
    <3>2. ASSUME NEW c \in DOMAIN job
          PROVE  k[c] = job[c] \/ (job[c].pc \in {"stream", "waiting"} /\ Move(job[c], k[c]))
      <4>1. k[c] = Cut(job[c])
        OBVIOUS
      <4> QED
        BY <4>1, Zenon DEF Cut, Move
    <3> QED
      BY <3>1, <3>2
  <2>2. CASE DeviceLost
    <3> DEFINE k == [c \in DOMAIN job |-> IF job[c].pc = "stream" THEN Goes(job[c], "broken")
                                          ELSE job[c]]
    <3>1. job' = [c \in DOMAIN job |-> k[c]]
      BY <2>2 DEF DeviceLost
    <3>2. ASSUME NEW c \in DOMAIN job
          PROVE  k[c] = job[c] \/ (job[c].pc \in {"stream", "waiting"} /\ Move(job[c], k[c]))
      <4>1. k[c] = IF job[c].pc = "stream" THEN Goes(job[c], "broken") ELSE job[c]
        OBVIOUS
      <4> QED
        BY <4>1, Zenon DEF Move
    <3> QED
      BY <3>1, <3>2
  <2> QED
    BY <2>1, <2>2
<1>3. ASSUME NEW c \in DOMAIN job
      PROVE  OnScript(h[c], child[c]) /\ CleansUp(h[c], There(c, "apk"), There(c, "ver"))
  <2>0. /\ OnScript(job[c], child[c]) /\ CleansUp(job[c], There(c, "apk"), There(c, "ver"))
        /\ job[c].pc \in {"stream", "waiting"} => child[c] = 0 /\ job[c].cmd # "kill"
    BY NoChild
  <2>1. CASE h[c] = job[c]
    BY <2>0, <2>1
  <2>2. CASE job[c].pc \in {"stream", "waiting"} /\ Move(job[c], h[c])
    <3>1. child[c] = 0 /\ job[c].cmd # "kill" /\ Move(job[c], h[c])
      BY <2>0, <2>2
    <3> QED
      BY <2>0, <3>1, MoveKeeps, Zenon
  <2> QED
    BY <1>2, <2>1, <2>2
<1>4. /\ DOMAIN job' = DOMAIN job
      /\ \A c \in DOMAIN job: job'[c] = h[c]
  BY <1>2
<1>5. /\ job' \in [DOMAIN job' -> Job]
      /\ child' \in [DOMAIN job' -> Nat]
  <2>1. \A c \in DOMAIN job: h[c] \in Job
    BY <1>3 DEF OnScript
  <2> QED
    BY <1>1, <1>2, <1>4, <2>1 DEF JobInv
<1>6. ASSUME NEW c \in DOMAIN job'
      PROVE  OnScript(job'[c], child'[c]) /\ CleansUp(job'[c], There(c, "apk")', There(c, "ver")')
  <2>1. job'[c] = h[c] /\ child'[c] = child[c] /\ c \in DOMAIN job
    BY <1>1, <1>4
  <2>2. There(c, "apk")' = There(c, "apk") /\ There(c, "ver")' = There(c, "ver")
    BY <1>1 DEF There
  <2> QED
    BY <1>3, <2>1, <2>2
<1> QED
  BY <1>5, <1>6, Zenon DEF JobInv

LEMMA JobInit == CommandInit => JobInv
<1>1. SUFFICES ASSUME CommandInit PROVE JobInv
  OBVIOUS
<1>2. PICK r \in Runs: job = [c \in DOMAIN r |->
          [cmd |-> r[c].cmd, version |-> r[c].version, step |-> 1, wait |-> FALSE,
           pc |-> IF r[c].cmd = "kill" THEN "kill" ELSE "version", cut |-> FALSE]]
  BY Zenon, <1>1 DEF CommandInit
<1>3. DOMAIN job = DOMAIN r
  BY <1>2
<1>4. ASSUME NEW c \in DOMAIN job
      PROVE  /\ job[c] \in Job /\ job[c].step = 1
             /\ job[c].pc = (IF job[c].cmd = "kill" THEN "kill" ELSE "version")
  <2>1. r[c].cmd \in DOMAIN Scripts /\ r[c].version \in Nat
    BY <1>3, RunsAssumption
  <2>2. job[c] = [cmd |-> r[c].cmd, version |-> r[c].version, step |-> 1, wait |-> FALSE,
                  pc |-> IF r[c].cmd = "kill" THEN "kill" ELSE "version", cut |-> FALSE]
    BY <1>2, <1>3
  <2> QED
    BY <2>1, <2>2 DEF Job, Pc
<1>5. /\ job \in [DOMAIN job -> Job] /\ child \in [DOMAIN job -> Nat]
      /\ \A c \in DOMAIN job: child[c] = 0
  BY <1>1, <1>2, <1>4 DEF CommandInit
<1>6. ASSUME NEW c \in DOMAIN job
      PROVE  OnScript(job[c], child[c]) /\ CleansUp(job[c], There(c, "apk"), There(c, "ver"))
  <2>1. ~There(c, "apk") /\ ~There(c, "ver")
    BY <1>1 DEF CommandInit, There
  <2>2. job[c].cmd # "kill" => Len(Scripts[job[c].cmd]) \in Nat /\ Len(Scripts[job[c].cmd]) >= 1
    <3>1. CASE job[c].cmd = "install"
      BY <3>1, InstallScript
    <3>2. CASE job[c].cmd \notin {"install", "kill"}
      BY <1>4, <3>2, OtherScripts DEF Job
    <3> QED
      BY <3>1, <3>2
  <2> QED
    BY <1>4, <1>5, <2>1, <2>2 DEF OnScript, CleansUp
<1> QED
  BY <1>5, <1>6 DEF JobInv

LEMMA JobStep ==
    ASSUME JobInv, [CommandNext]_commandvars
    PROVE  JobInv'
<1>1. CASE UNCHANGED <<job, child, pushed>>
  BY <1>1, Zenon DEF JobInv, There
<1>2. ASSUME NEW c \in DOMAIN job, PushFails(c) PROVE JobInv'
  BY Zenon, <1>2, PushGivesUp DEF PushFails
<1>3. ASSUME NEW c \in DOMAIN job, StreamBroken(c) PROVE JobInv'
  <2>1. CASE Pushing(Now(job[c]).what)
    BY Zenon, <1>3, <2>1, PushGivesUp DEF StreamBroken
  <2>2. CASE ~Pushing(Now(job[c]).what)
    <3>1. job[c].pc = "broken" /\ child' = child /\ pushed' \in {pushed, Applied(c)}
      BY <1>3 DEF StreamBroken
    <3>2. job' = [job EXCEPT ![c] = TakenForEnd(job[c])]
      BY <1>3, <2>2 DEF StreamBroken
    <3> QED
      BY <2>2, <3>1, <3>2, StreamBrokenStep, Zenon
  <2> QED
    BY <2>1, <2>2
<1>4. ASSUME NEW c \in DOMAIN job, Steps(c) \/ LaunchFails(c) PROVE JobInv'
  BY ZenonT(60), <1>2, <1>3, <1>4, ConnectStep, KillServerStep, LaunchesStep, ChildBindsStep,
     StreamEndsStep, Zenon DEF Steps
<1> QED
  BY <1>1, <1>4, AllCutStep DEF CommandNext, DeviceBack, commandvars

\* For any number of clients and faults: a command that has ended left none of
\* its files on the device, unless the connection was lost under an "rm" command
\* (install_app() of commandline.c, adb_connect() of adb_client.c).
THEOREM InstallLeavesNothing == CommandSpec => []InstallCleansUp
<1>1. CommandInit => JobInv
  BY JobInit
<1>2. JobInv /\ [CommandNext]_commandvars => JobInv'
  BY JobStep
<1>3. JobInv => InstallCleansUp
  BY Zenon DEF JobInv, OnScript, CleansUp, There, InstallCleansUp
<1> QED
  BY <1>1, <1>2, <1>3, PTL DEF CommandSpec

-----------------------------------------------------------------------------
(* The record of a transport.                                              *)

Others(t) == \A u \in Transports \ {t}: tr'[u] = tr[u]

LEMMA Updated1 ==
    ASSUME NEW f \in [Transports -> Transport], NEW t \in Transports, NEW g \in Transport
    PROVE  /\ [f EXCEPT ![t] = g] \in [Transports -> Transport]
           /\ [f EXCEPT ![t] = g][t] = g
           /\ \A u \in Transports \ {t}: [f EXCEPT ![t] = g][u] = f[u]
OBVIOUS

LEMMA Replaced ==
    ASSUME HostType, NEW t \in Transports, NEW g \in Transport, tr' = [tr EXCEPT ![t] = g]
    PROVE  tr' \in [Transports -> Transport] /\ Others(t) /\ tr'[t] = g
BY Updated1, Zenon DEF Others, HostType

LEMMA RegisterFields ==
    ASSUME HostType, NEW t \in Transports, NEW r \in Int, NEW th \in SUBSET {"in", "out"},
           tr' = [tr EXCEPT ![t].phase = "up", ![t].refs = r, ![t].threads = th]
    PROVE  /\ tr' \in [Transports -> Transport] /\ Others(t)
           /\ tr'[t].phase = "up" /\ tr'[t].refs = r /\ tr'[t].threads = th
           /\ tr'[t].kicked = tr[t].kicked /\ tr'[t].conn = tr[t].conn
<1> DEFINE g == [tr[t] EXCEPT !.phase = "up", !.refs = r, !.threads = th]
<1>1. tr \in [Transports -> Transport] /\ tr[t] \in Transport
  BY Zenon DEF HostType
<1>2. tr' = [tr EXCEPT ![t] = g]
  BY <1>1, Zenon
<1>3. /\ g \in Transport /\ g.phase = "up" /\ g.refs = r /\ g.threads = th
      /\ g.kicked = tr[t].kicked /\ g.conn = tr[t].conn
  BY <1>1, Zenon DEF Transport, Phase
<1> HIDE DEF g
<1>4. tr' \in [Transports -> Transport] /\ Others(t) /\ tr'[t] = g
  BY <1>2, <1>3, Replaced, Zenon
<1> QED
  BY <1>3, <1>4, Zenon

LEMMA PhaseFields ==
    ASSUME HostType, NEW t \in Transports, NEW p \in Phase, tr' = [tr EXCEPT ![t].phase = p]
    PROVE  /\ tr' \in [Transports -> Transport] /\ Others(t) /\ tr'[t].phase = p
           /\ tr'[t].refs = tr[t].refs /\ tr'[t].threads = tr[t].threads
           /\ tr'[t].kicked = tr[t].kicked /\ tr'[t].conn = tr[t].conn
<1> DEFINE g == [tr[t] EXCEPT !.phase = p]
<1>1. tr \in [Transports -> Transport] /\ tr[t] \in Transport
  BY Zenon DEF HostType
<1>2. tr' = [tr EXCEPT ![t] = g]
  BY <1>1, Zenon
<1>3. /\ g \in Transport /\ g.phase = p /\ g.refs = tr[t].refs /\ g.threads = tr[t].threads
      /\ g.kicked = tr[t].kicked /\ g.conn = tr[t].conn
  BY <1>1, Zenon DEF Transport
<1> HIDE DEF g
<1> QED
  BY <1>1, <1>2, <1>3, Updated1 DEF Others

LEMMA QueuedFields ==
    ASSUME HostType, NEW t \in Transports, NEW c \in {"offline", "noperm"},
           tr' = [tr EXCEPT ![t].phase = "queued", ![t].conn = c]
    PROVE  /\ tr' \in [Transports -> Transport] /\ Others(t) /\ tr'[t].phase = "queued"
           /\ tr'[t].refs = tr[t].refs /\ tr'[t].threads = tr[t].threads
           /\ tr'[t].kicked = tr[t].kicked /\ tr'[t].conn = c
<1> DEFINE g == [tr[t] EXCEPT !.phase = "queued", !.conn = c]
<1>1. tr \in [Transports -> Transport] /\ tr[t] \in Transport
  BY Zenon DEF HostType
<1>2. tr' = [tr EXCEPT ![t] = g]
  BY <1>1, Zenon
<1>3. /\ g \in Transport /\ g.phase = "queued" /\ g.refs = tr[t].refs
      /\ g.threads = tr[t].threads /\ g.kicked = tr[t].kicked /\ g.conn = c
  <2>1. c \in {"offline", "noperm", "device"}
    OBVIOUS
  <2> QED
    BY <1>1, <2>1, Zenon DEF Transport, Phase
<1> HIDE DEF g
<1>4. tr' \in [Transports -> Transport] /\ Others(t) /\ tr'[t] = g
  BY <1>2, <1>3, Replaced, Zenon
<1> QED
  BY <1>3, <1>4, Zenon

\* A packet or the loss of the link changes nothing but the state of the connection.
SameLife(t) ==
    /\ tr'[t].phase = tr[t].phase /\ tr'[t].refs = tr[t].refs
    /\ tr'[t].threads = tr[t].threads /\ tr'[t].kicked = tr[t].kicked

LEMMA LinkFields ==
    ASSUME HostType, NEW t \in Transports,
           \/ tr' = [tr EXCEPT ![t].link = FALSE]
           \/ tr' = [tr EXCEPT ![t].bye = "input", ![t].conn = "offline"]
           \/ tr' = [tr EXCEPT ![t].conn = "device"]
    PROVE  /\ tr' \in [Transports -> Transport] /\ Others(t) /\ SameLife(t)
           /\ tr'[t].conn = "noperm" => tr[t].conn = "noperm"
<1>1. tr \in [Transports -> Transport] /\ tr[t] \in Transport
  BY Zenon DEF HostType
<1>2. CASE tr' = [tr EXCEPT ![t].link = FALSE]
  <2> DEFINE g == [tr[t] EXCEPT !.link = FALSE]
  <2>1. tr' = [tr EXCEPT ![t] = g]
    BY <1>1, <1>2, Zenon
  <2>2. /\ g \in Transport /\ g.phase = tr[t].phase /\ g.refs = tr[t].refs
        /\ g.threads = tr[t].threads /\ g.kicked = tr[t].kicked /\ g.conn = tr[t].conn
    BY <1>1, Zenon DEF Transport
  <2> HIDE DEF g
  <2> QED
    BY <1>1, <2>1, <2>2, Updated1 DEF Others, SameLife
<1>3. CASE tr' = [tr EXCEPT ![t].bye = "input", ![t].conn = "offline"]
  <2> DEFINE g == [tr[t] EXCEPT !.bye = "input", !.conn = "offline"]
  <2>1. tr' = [tr EXCEPT ![t] = g]
    BY <1>1, <1>3, Zenon
  <2>2. /\ g \in Transport /\ g.phase = tr[t].phase /\ g.refs = tr[t].refs
        /\ g.threads = tr[t].threads /\ g.kicked = tr[t].kicked /\ g.conn = "offline"
    BY <1>1, Zenon DEF Transport
  <2> HIDE DEF g
  <2> QED
    BY <1>1, <2>1, <2>2, Updated1 DEF Others, SameLife
<1>4. CASE tr' = [tr EXCEPT ![t].conn = "device"]
  <2> DEFINE g == [tr[t] EXCEPT !.conn = "device"]
  <2>1. tr' = [tr EXCEPT ![t] = g]
    BY <1>1, <1>4, Zenon
  <2>2. /\ g \in Transport /\ g.phase = tr[t].phase /\ g.refs = tr[t].refs
        /\ g.threads = tr[t].threads /\ g.kicked = tr[t].kicked /\ g.conn = "device"
    BY <1>1, Zenon DEF Transport
  <2> HIDE DEF g
  <2> QED
    BY <1>1, <2>1, <2>2, Updated1 DEF Others, SameLife
<1> QED
  BY <1>2, <1>3, <1>4

\* kick_transport() of a transport whose thread th, if any, ends.
KickedAs(f, t) ==
    /\ f \in [Transports -> Transport]
    /\ \A u \in Transports \ {t}: f[u] = tr[u]
    /\ f[t].phase = tr[t].phase /\ f[t].refs = tr[t].refs /\ f[t].conn = tr[t].conn
    /\ f[t].kicked = TRUE /\ f[t].threads \subseteq tr[t].threads

LEMMA KickFields ==
    ASSUME HostType, NEW t \in Transports
    PROVE  /\ KickedAs(Kicked(tr, t), t)
           /\ KickedAs([Kicked(tr, t) EXCEPT ![t].threads = @ \ {"in"}], t)
           /\ KickedAs([Kicked(tr, t) EXCEPT ![t].threads = @ \ {"out"},
                                             ![t].bye = IF @ = "no" THEN "main" ELSE @], t)
<1>1. tr \in [Transports -> Transport] /\ tr[t] \in Transport
  BY Zenon DEF HostType
<1> DEFINE g == [tr[t] EXCEPT !.kicked = TRUE, !.link = FALSE]
           k == Kicked(tr, t)
<1>2. k = [tr EXCEPT ![t] = g]
  BY <1>1, Zenon DEF Kicked
<1>3. /\ g \in Transport /\ g.phase = tr[t].phase /\ g.refs = tr[t].refs
      /\ g.conn = tr[t].conn /\ g.kicked = TRUE /\ g.threads = tr[t].threads
  BY <1>1, Zenon DEF Transport
<1>4. k \in [Transports -> Transport] /\ k[t] = g /\ \A u \in Transports \ {t}: k[u] = tr[u]
  <2> HIDE DEF g, k
  <2> QED
    BY <1>1, <1>2, <1>3
<1> HIDE DEF g, k
<1>5. KickedAs(k, t)
  BY <1>3, <1>4 DEF KickedAs
<1>6. KickedAs([k EXCEPT ![t].threads = @ \ {"in"}], t)
  <2> DEFINE h == [g EXCEPT !.threads = g.threads \ {"in"}]
  <2>1. [k EXCEPT ![t].threads = @ \ {"in"}] = [k EXCEPT ![t] = h]
    BY <1>4, Zenon
  <2>2. g.threads \ {"in"} \in SUBSET {"in", "out"}
    BY <1>3 DEF Transport
  <2>3. /\ h \in Transport /\ h.phase = g.phase /\ h.refs = g.refs /\ h.conn = g.conn
        /\ h.kicked = g.kicked /\ h.threads = g.threads \ {"in"}
    BY <1>3, <2>2, Zenon DEF Transport
  <2> HIDE DEF h
  <2>4. /\ [k EXCEPT ![t] = h] \in [Transports -> Transport] /\ [k EXCEPT ![t] = h][t] = h
        /\ \A u \in Transports \ {t}: [k EXCEPT ![t] = h][u] = k[u]
    BY <1>4, <2>3, Updated1, Zenon
  <2>5. KickedAs([k EXCEPT ![t] = h], t)
    <3> DEFINE m == [k EXCEPT ![t] = h]
    <3>1. m \in [Transports -> Transport] /\ m[t] = h /\ \A u \in Transports \ {t}: m[u] = k[u]
      BY <2>4
    <3> HIDE DEF m
    <3>2. KickedAs(m, t)
      BY <1>3, <1>4, <2>3, <3>1 DEF KickedAs
    <3> QED
      BY <3>2 DEF m
  <2> QED
    BY <2>1, <2>5
<1>7. KickedAs([k EXCEPT ![t].threads = @ \ {"out"},
                         ![t].bye = IF @ = "no" THEN "main" ELSE @], t)
  <2> DEFINE b == IF g.bye = "no" THEN "main" ELSE g.bye
             h == [g EXCEPT !.threads = g.threads \ {"out"}, !.bye = b]
  <2>1. [k EXCEPT ![t].threads = @ \ {"out"}, ![t].bye = IF @ = "no" THEN "main" ELSE @]
        = [k EXCEPT ![t] = h]
    BY <1>3, <1>4, Zenon DEF Transport
  <2>2. g.threads \ {"out"} \in SUBSET {"in", "out"} /\ b \in {"no", "main", "input"}
    BY <1>3 DEF Transport
  <2>3. /\ h \in Transport /\ h.phase = g.phase /\ h.refs = g.refs /\ h.conn = g.conn
        /\ h.kicked = g.kicked /\ h.threads = g.threads \ {"out"}
    <3> HIDE DEF b
    <3> QED
      BY <1>3, <2>2, Zenon DEF Transport
  <2> HIDE DEF h
  <2>4. /\ [k EXCEPT ![t] = h] \in [Transports -> Transport] /\ [k EXCEPT ![t] = h][t] = h
        /\ \A u \in Transports \ {t}: [k EXCEPT ![t] = h][u] = k[u]
    BY <1>4, <2>3, Updated1, Zenon
  <2>5. KickedAs([k EXCEPT ![t] = h], t)
    <3> DEFINE m == [k EXCEPT ![t] = h]
    <3>1. m \in [Transports -> Transport] /\ m[t] = h /\ \A u \in Transports \ {t}: m[u] = k[u]
      BY <2>4
    <3> HIDE DEF m
    <3>2. KickedAs(m, t)
      BY <1>3, <1>4, <2>3, <3>1 DEF KickedAs
    <3> QED
      BY <3>2 DEF m
  <2> QED
    BY <2>1, <2>5
<1> QED
  BY <1>5, <1>6, <1>7 DEF k

\* transport_unref_locked(): only the last reference sends the message.
LEMMA UnrefFields ==
    ASSUME HostType, NEW t \in Transports, NEW f, KickedAs(f, t), Unref(f, t)
    PROVE  /\ tr' \in [Transports -> Transport] /\ Others(t)
           /\ tr'[t].refs = tr[t].refs - 1 /\ tr'[t].kicked = TRUE
           /\ tr'[t].phase = IF tr[t].refs = 1 THEN "removing" ELSE tr[t].phase
           /\ tr'[t].conn = tr[t].conn /\ tr'[t].threads \subseteq tr[t].threads
           /\ regq' = IF tr[t].refs = 1 THEN Append(regq, [t |-> t, action |-> 0]) ELSE regq
<1> DEFINE n == f[t].refs - 1
           a == [f[t] EXCEPT !.refs = n]
           g == [f EXCEPT ![t].refs = n]
           b == [a EXCEPT !.kicked = TRUE, !.link = FALSE, !.phase = "removing"]
<1>0. f \in [Transports -> Transport] /\ f[t] \in Transport /\ f[t].refs = tr[t].refs
  BY DEF KickedAs
<1>1. n \in Int /\ n = tr[t].refs - 1 /\ (n = 0 <=> tr[t].refs = 1)
  <2>1. f[t].refs \in Int
    BY <1>0 DEF Transport
  <2> QED
    BY <1>0, <2>1
<1>2. /\ tr' = IF n = 0 THEN [Kicked(g, t) EXCEPT ![t].phase = "removing"] ELSE g
      /\ regq' = IF n = 0 THEN Append(regq, [t |-> t, action |-> 0]) ELSE regq
  BY DEF Unref
<1>3. g = [f EXCEPT ![t] = a]
  <2> HIDE DEF n
  <2> QED
    BY <1>0, Zenon
<1>4. /\ a \in Transport /\ a.refs = n /\ a.phase = f[t].phase /\ a.kicked = f[t].kicked
      /\ a.conn = f[t].conn /\ a.threads = f[t].threads
  <2> HIDE DEF n
  <2> QED
    BY <1>0, <1>1, Zenon DEF Transport
<1>5. g \in [Transports -> Transport] /\ g[t] = a /\ \A u \in Transports \ {t}: g[u] = f[u]
  <2> HIDE DEF a, g
  <2> QED
    BY <1>0, <1>3, <1>4
<1>6. [Kicked(g, t) EXCEPT ![t].phase = "removing"] = [g EXCEPT ![t] = b]
  <2> HIDE DEF a, g
  <2> QED
    BY <1>5, Zenon DEF Kicked
<1>7. /\ b \in Transport /\ b.refs = n /\ b.phase = "removing" /\ b.kicked = TRUE
      /\ b.conn = f[t].conn /\ b.threads = f[t].threads
  <2> HIDE DEF a, n
  <2> QED
    BY <1>4, Zenon DEF Transport, Phase
<1>8. CASE n = 0
  <2> DEFINE h == [g EXCEPT ![t] = b]
  <2>1. tr' = h /\ regq' = Append(regq, [t |-> t, action |-> 0])
    BY <1>2, <1>6, <1>8
  <2> HIDE DEF a, g, b
  <2>2. h \in [Transports -> Transport] /\ h[t] = b /\ \A u \in Transports \ {t}: h[u] = g[u]
    BY <1>5, <1>7, Updated1, Zenon
  <2> HIDE DEF h, n
  <2> QED
    BY <1>1, <1>5, <1>7, <1>8, <2>1, <2>2 DEF KickedAs, Others
<1>9. CASE n # 0
  <2>1. tr' = g /\ regq' = regq
    BY <1>2, <1>9
  <2> HIDE DEF a, g, b, n
  <2> QED
    BY <1>1, <1>4, <1>5, <1>9, <2>1 DEF KickedAs, Others
<1> QED
  BY Zenon, <1>8, <1>9

-----------------------------------------------------------------------------
(* The steps of the server.                                                *)

\* What the messages of the queue name.
LEMMA MessageFields ==
    ASSUME NEW q \in Seq(Message)
    PROVE  \A i \in DOMAIN q: q[i] \in Message /\ q[i].t \in Transports /\ q[i].action \in {0, 1}
<1>1. \A i \in DOMAIN q: q[i] \in Message
  OBVIOUS
<1> QED
  BY <1>1 DEF Message

\* A message more at the end.
LEMMA MoreMessages ==
    ASSUME NEW q \in Seq(Message), NEW m \in Message
    PROVE  /\ Append(q, m) \in Seq(Message) /\ DOMAIN Append(q, m) = DOMAIN q \cup {Len(q) + 1}
           /\ Append(q, m)[Len(q) + 1] = m /\ \A i \in DOMAIN q: Append(q, m)[i] = q[i]
<1> QED
  OBVIOUS

\* The messages behind the first.
LEMMA LessMessages ==
    ASSUME NEW q \in Seq(Message), q # <<>>
    PROVE  /\ Tail(q) \in Seq(Message) /\ 1 \in DOMAIN q /\ Head(q) = q[1]
           /\ \A i \in DOMAIN Tail(q): /\ i + 1 \in DOMAIN q /\ i + 1 # 1 /\ i \in Nat
                                       /\ Tail(q)[i] = q[i + 1]
<1> QED
  OBVIOUS

\* The messages that wait stay right while no transport they name goes back.
LEMMA QueueKept ==
    ASSUME regq \in Seq(Message), QueueInv, regq' = regq,
           \A u \in Transports: Gone(u) => Gone(u)',
           \A u \in Transports: Awaits(u) => Awaits(u)'
    PROVE  QueueInv'
<1>1. \A i \in DOMAIN regq: regq[i].t \in Transports
  BY MessageFields, Zenon
<1> QED
  BY <1>1 DEF QueueInv

\* A message is sent: one that registers a transport is the first about it.
LEMMA QueueGrows ==
    ASSUME regq \in Seq(Message), QueueInv, NEW m \in Message, regq' = Append(regq, m),
           \A u \in Transports: Gone(u) => Gone(u)',
           \A u \in Transports: Awaits(u) => Awaits(u)',
           m.action = 0 => Gone(m.t)',
           m.action = 1 => Awaits(m.t)' /\ ~Awaits(m.t)
    PROVE  regq' \in Seq(Message) /\ QueueInv'
<1>1. \A i \in DOMAIN regq: regq[i].t \in Transports
  BY MessageFields, Zenon
<1>2. /\ regq' \in Seq(Message) /\ DOMAIN regq' = DOMAIN regq \cup {Len(regq) + 1}
      /\ regq'[Len(regq) + 1] = m /\ \A i \in DOMAIN regq: regq'[i] = regq[i]
  BY MoreMessages, Zenon
<1>3. m.action \in {0, 1} /\ m.t \in Transports
  BY DEF Message
<1>4. ASSUME NEW i \in DOMAIN regq'
      PROVE  IF regq'[i].action = 0 THEN Gone(regq[i].t)' ELSE Awaits(regq[i].t)'
  <2>1. CASE i = Len(regq) + 1
    BY <1>2, <1>3, <2>1
  <2>2. CASE i \in DOMAIN regq
    BY <1>1, <1>2, <2>2 DEF QueueInv
  <2> QED
    BY <1>2, <2>1, <2>2
<1>5. ASSUME NEW i \in DOMAIN regq, regq[i].action = 1
      PROVE  Awaits(regq[i].t)
  BY <1>5 DEF QueueInv
<1>6. ASSUME NEW i \in DOMAIN regq', NEW j \in DOMAIN regq',
             regq'[i].action = 1, regq'[j].action = 1, regq'[i].t = regq'[j].t
      PROVE  i = j
  BY <1>2, <1>5, <1>6 DEF QueueInv
<1> QED
  BY <1>2, <1>4, <1>6 DEF QueueInv

\* The main thread took the first message.
LEMMA QueueShrinks ==
    ASSUME regq \in Seq(Message), QueueInv, regq # <<>>, regq' = Tail(regq),
           \A u \in Transports: Gone(u) => Gone(u)',
           \A u \in Transports: Awaits(u) => Awaits(u)' \/ (Head(regq).action = 1 /\ u = Head(regq).t)
    PROVE  regq' \in Seq(Message) /\ QueueInv'
<1>1. \A i \in DOMAIN regq: regq[i].t \in Transports /\ regq[i].action \in {0, 1}
  BY MessageFields, Zenon
<1>2. /\ regq' \in Seq(Message) /\ 1 \in DOMAIN regq /\ Head(regq) = regq[1]
      /\ \A i \in DOMAIN regq': i + 1 \in DOMAIN regq /\ i + 1 # 1 /\ regq'[i] = regq[i + 1] /\ i \in Nat
  BY LessMessages, Zenon
<1>3. ASSUME NEW i \in DOMAIN regq'
      PROVE  IF regq'[i].action = 0 THEN Gone(regq[i].t)' ELSE Awaits(regq[i].t)'
  <2>1. regq'[i] = regq[i + 1] /\ i + 1 \in DOMAIN regq /\ i + 1 # 1
    BY <1>2
  <2>2. CASE regq[i + 1].action = 0
    BY <1>1, <2>1, <2>2 DEF QueueInv
  <2>3. CASE regq[i + 1].action = 1
    <3>1. Awaits(regq[i + 1].t)
      BY <2>1, <2>3 DEF QueueInv
    <3>2. ~(regq[1].action = 1 /\ regq[i + 1].t = regq[1].t)
      BY <1>2, <2>1, <2>3 DEF QueueInv
    <3> QED
      BY <1>1, <1>2, <2>1, <2>3, <3>1, <3>2
  <2> QED
    BY <1>1, <2>1, <2>2, <2>3
<1>4. ASSUME NEW i \in DOMAIN regq', NEW j \in DOMAIN regq',
             regq'[i].action = 1, regq'[j].action = 1, regq'[i].t = regq'[j].t
      PROVE  i = j
  <2>1. i + 1 = j + 1
    BY <1>2, <1>4 DEF QueueInv
  <2> QED
    BY <1>2, <2>1
<1> QED
  BY <1>2, <1>3, <1>4 DEF QueueInv

\* A reference is given back by a thread or by "disconnect:".
LEMMA UnrefStep ==
    ASSUME HostInv, NEW t \in Transports, tr[t].conn # "noperm", NEW f, KickedAs(f, t),
           Unref(f, t), local_transports' = SlotsWithout(t), UNCHANGED <<listener, disconnect>>
    PROVE  HostInv'
<1>0. HostType /\ PhaseInv /\ QueueInv /\ SlotInv /\ ListenerInv
  BY DEF HostInv
<1> DEFINE m == [t |-> t, action |-> 0]
<1>1. /\ tr' \in [Transports -> Transport] /\ Others(t)
      /\ tr'[t].refs = tr[t].refs - 1 /\ tr'[t].kicked = TRUE
      /\ tr'[t].phase = IF tr[t].refs = 1 THEN "removing" ELSE tr[t].phase
      /\ tr'[t].conn = tr[t].conn /\ tr'[t].threads \subseteq tr[t].threads
      /\ regq' = IF tr[t].refs = 1 THEN Append(regq, m) ELSE regq
  BY <1>0, UnrefFields, Zenon
<1>2. tr[t].refs \in Int /\ regq \in Seq(Message)
  BY <1>0 DEF HostType, Transport
<1>3. m \in Message /\ m.t = t /\ m.action = 0
  BY DEF Message
<1> HIDE DEF m
<1>4. regq' \in Seq(Message) /\ QueueInv'
  <2>1. \A u \in Transports: Gone(u) => Gone(u)'
    BY <1>1 DEF Gone, Others
  <2>2. \A u \in Transports: Awaits(u) => Awaits(u)'
    <3>1. Awaits(t) => Awaits(t)'
      BY <1>0, <1>1, <1>2 DEF Awaits, PhaseInv
    <3>2. \A u \in Transports \ {t}: Awaits(u) => Awaits(u)'
      BY <1>1 DEF Awaits, Others
    <3> QED
      BY <3>1, <3>2, Zenon
  <2>3. CASE tr[t].refs # 1
    <3>1. regq' = regq
      BY <1>1, <2>3
    <3>2. QueueInv'
      BY <1>0, <1>2, <2>1, <2>2, <3>1, QueueKept, Zenon
    <3> QED
      BY <1>2, <3>1, <3>2
  <2>4. CASE tr[t].refs = 1
    <3>1. regq' = Append(regq, m) /\ Gone(t)' /\ m.action # 1
      BY <1>1, <1>3, <2>4 DEF Gone
    <3>2. m.action = 0 => Gone(m.t)'
      BY <1>3, <3>1, Zenon
    <3> QED
      BY <1>0, <1>2, <1>3, <2>1, <2>2, <3>1, <3>2, QueueGrows, Zenon
  <2> QED
    BY <2>3, <2>4
<1>5. PhaseInv'
  <2>1. ASSUME NEW u \in Transports, u # t
        PROVE  tr'[u] = tr[u]
    BY <1>1, <2>1 DEF Others
  <2>2. tr[t].phase \in {"absent", "none", "queued", "failed"} => tr[t].refs <= 0 /\ tr[t].threads = {}
    BY <1>0 DEF PhaseInv
  <2>3. tr[t].phase # "leaked"
    BY <1>0 DEF PhaseInv
  <2> QED
    BY <1>0, <1>1, <1>2, <2>1, <2>2, <2>3 DEF PhaseInv
<1>6. HostType'
  <2>1. local_transports' \in [Slots -> Emu \cup {None}]
    BY <1>0 DEF HostType, SlotsWithout
  <2> QED
    BY <1>0, <1>1, <1>4, <2>1, Zenon DEF HostType
<1>7. SlotInv'
  <2>1. \A i \in Slots: /\ local_transports'[i] # t \/ t = None
                        /\ local_transports[i] # t => local_transports'[i] = local_transports[i]
                        /\ local_transports'[i] # None => local_transports'[i] = local_transports[i]
    BY DEF SlotsWithout
  <2>2. t # None /\ \A i \in Slots: local_transports[i] # None => local_transports[i] \in Transports
    BY <1>0, HostAssumption DEF HostType, Transports, None
  <2>3. \A u \in Transports: Live(u)' => u # t /\ Live(u)
    BY <1>1, Zenon DEF Live, Others
  <2>4. \A i \in Slots: local_transports'[i] # None => ~Gone(local_transports[i])'
    BY <1>0, <1>1, <2>1, <2>2 DEF SlotInv, Gone, Others
  <2>5. \A u \in Emu: Live(u)' => \E i \in Slots: local_transports'[i] = u
    BY <1>0, <2>1, <2>3 DEF SlotInv, Transports
  <2>6. \A u, v \in Emu: Live(u)' /\ Live(v)' /\ Port[u] = Port[v] => u = v
    BY <1>0, <2>3 DEF SlotInv, Transports
  <2> QED
    BY <2>4, <2>5, <2>6, Zenon DEF SlotInv
<1>8. ListenerInv'
  <2>1. \A u \in Transports: Freed(u)' => Freed(u)
    BY <1>1 DEF Freed, Others
  <2> QED
    BY <1>0, <2>1 DEF ListenerInv
<1> QED
  BY <1>4, <1>5, <1>6, <1>7, <1>8, Zenon DEF HostInv

\* Nothing the invariant reads changes.
LEMMA SameTables ==
    ASSUME HostInv, UNCHANGED <<tr, regq, local_transports, listener, disconnect>>
    PROVE  HostInv'
<1>1. HostType' /\ PhaseInv'
  BY DEF HostInv, HostType, PhaseInv
<1>2. QueueInv'
  BY DEF HostInv, QueueInv, Gone, Awaits
<1>3. SlotInv' /\ ListenerInv'
  BY DEF HostInv, SlotInv, ListenerInv, Gone, Live, Freed
<1> QED
  BY <1>1, <1>2, <1>3, Zenon DEF HostInv

\* Listeners of t are freed with it, the others stay.
LEMMA DisconnectsKeep ==
    ASSUME HostType, ListenerInv, NEW t \in Transports, RunDisconnects(t),
           \A u \in Transports: Freed(u)' => Freed(u) \/ u = t
    PROVE  /\ listener' \in [Names -> [to: Targets \cup {"none"}, t: Nodes]]
           /\ disconnect' \in [Names -> Nodes] /\ ListenerInv'
<1>1. NoListener \in [to: Targets \cup {"none"}, t: Nodes] /\ None \in Nodes
  BY DEF NoListener, Nodes, None
<1>2. ASSUME NEW n \in Names
      PROVE  /\ disconnect[n] = t => listener'[n] = NoListener /\ disconnect'[n] = None
             /\ disconnect[n] # t => listener'[n] = listener[n] /\ disconnect'[n] = disconnect[n]
  BY DEF RunDisconnects
<1>3. /\ listener' \in [Names -> [to: Targets \cup {"none"}, t: Nodes]]
      /\ disconnect' \in [Names -> Nodes]
  BY <1>1 DEF RunDisconnects, HostType
<1>4. ASSUME NEW n \in Names, listener'[n] # NoListener
      PROVE  /\ listener'[n].t \in Transports /\ disconnect'[n] = listener'[n].t
             /\ ~Freed(listener[n].t)'
  BY <1>2, <1>4 DEF ListenerInv
<1> QED
  BY <1>3, <1>4 DEF ListenerInv

\* The same when no listener changes.
LEMMA ListenersKeep ==
    ASSUME ListenerInv, UNCHANGED <<listener, disconnect>>,
           \A u \in Transports: Freed(u)' => Freed(u)
    PROVE  ListenerInv'
BY DEF ListenerInv

\* Slots stay right while no transport comes to life or goes.
LEMMA SlotsKeep ==
    ASSUME HostType, SlotInv, local_transports' = local_transports,
           \A u \in Emu: Gone(u)' => Gone(u),
           \A u \in Emu: Live(u)' => Live(u)
    PROVE  SlotInv'
<1>1. \A i \in Slots: local_transports[i] # None => local_transports[i] \in Emu
  BY DEF HostType
<1> QED
  BY <1>1 DEF SlotInv

\* The link of a transport is lost, or a packet changes the state of its
\* connection, which closes its listeners.
LEMMA LinkStep ==
    ASSUME HostInv, NEW t \in Transports, tr[t].phase # "leaked",
           \/ tr' = [tr EXCEPT ![t].link = FALSE]
           \/ tr' = [tr EXCEPT ![t].bye = "input", ![t].conn = "offline"]
           \/ tr' = [tr EXCEPT ![t].conn = "device"],
           RunDisconnects(t) \/ UNCHANGED <<listener, disconnect>>,
           UNCHANGED <<regq, local_transports>>
    PROVE  HostInv'
<1>0. HostType /\ PhaseInv /\ QueueInv /\ SlotInv /\ ListenerInv
  BY DEF HostInv
<1>1. /\ tr' \in [Transports -> Transport] /\ Others(t) /\ SameLife(t)
      /\ tr'[t].conn = "noperm" => tr[t].conn = "noperm"
  BY <1>0, LinkFields, Zenon
<1>2. \A u \in Transports: tr'[u].phase = tr[u].phase /\ tr'[u].kicked = tr[u].kicked
  BY <1>1 DEF Others, SameLife
<1>3. PhaseInv'
  BY <1>0, <1>1 DEF PhaseInv, Others, SameLife
<1>4. QueueInv'
  <2>1. \A u \in Transports: (Gone(u) => Gone(u)') /\ (Awaits(u) => Awaits(u)')
    BY <1>2 DEF Gone, Awaits
  <2>2. regq \in Seq(Message)
    BY <1>0 DEF HostType
  <2> QED
    BY <1>0, <2>1, <2>2, QueueKept
<1>5. SlotInv'
  <2>1. \A u \in Emu: (Gone(u)' => Gone(u)) /\ (Live(u)' => Live(u))
    BY <1>2 DEF Gone, Live, Transports
  <2> QED
    BY <1>0, <2>1, SlotsKeep
<1>6. /\ listener' \in [Names -> [to: Targets \cup {"none"}, t: Nodes]]
      /\ disconnect' \in [Names -> Nodes] /\ ListenerInv'
  <2>1. \A u \in Transports: Freed(u)' => Freed(u)
    BY <1>2 DEF Freed
  <2>2. CASE RunDisconnects(t)
    BY <1>0, <2>1, <2>2, DisconnectsKeep
  <2>3. CASE UNCHANGED <<listener, disconnect>>
    BY <1>0, <2>1, <2>3, ListenersKeep DEF HostType
  <2> QED
    BY <2>2, <2>3
<1>7. HostType'
  BY <1>0, <1>1, <1>6 DEF HostType
<1> QED
  BY <1>3, <1>4, <1>5, <1>6, <1>7, Zenon DEF HostInv

\* The registration of a transport is sent.  An emulator has its slot by then.
LEMMA RegistersStep ==
    ASSUME HostInv, NEW t \in Transports, NEW c \in {"offline", "noperm"},
           c = "noperm" => t \in Usb, tr[t].phase = "none", Registers(t, c),
           UNCHANGED <<listener, disconnect>>,
           local_transports' \in [Slots -> Emu \cup {None}],
           SlotInv'
    PROVE  HostInv'
<1>0. HostType /\ PhaseInv /\ QueueInv /\ ListenerInv
  BY DEF HostInv
<1> DEFINE m == [t |-> t, action |-> 1]
<1>1. tr' = [tr EXCEPT ![t].phase = "queued", ![t].conn = c] /\ regq' = Append(regq, m)
  BY DEF Registers
<1>2. /\ tr' \in [Transports -> Transport] /\ Others(t) /\ tr'[t].phase = "queued"
      /\ tr'[t].refs = tr[t].refs /\ tr'[t].threads = tr[t].threads /\ tr'[t].conn = c
  BY <1>0, <1>1, QueuedFields, Zenon
<1>3. m \in Message /\ m.t = t /\ m.action = 1
  BY DEF Message
<1> HIDE DEF m
<1>4. PhaseInv'
  BY <1>0, <1>2 DEF PhaseInv, Others
<1>5. regq' \in Seq(Message) /\ QueueInv'
  <2>1. \A u \in Transports: (Gone(u) => Gone(u)') /\ (Awaits(u) => Awaits(u)')
    BY <1>2 DEF Gone, Awaits, Others
  <2>2. Awaits(t)' /\ ~Awaits(t)
    BY <1>2 DEF Awaits
  <2>3. regq \in Seq(Message)
    BY <1>0 DEF HostType
  <2>4. m.action = 1 => Awaits(m.t)' /\ ~Awaits(m.t)
    BY <1>3, <2>2
  <2>5. m.action # 0
    BY <1>3
  <2> QED
    BY <1>0, <1>1, <1>3, <2>1, <2>3, <2>4, <2>5, QueueGrows, Zenon
<1>6. ListenerInv'
  <2>1. \A u \in Transports: Freed(u)' => Freed(u)
    BY <1>2 DEF Freed, Others
  <2> QED
    BY <1>0, <2>1, ListenersKeep
<1>7. HostType'
  BY <1>0, <1>2, <1>5 DEF HostType
<1> QED
  BY <1>4, <1>5, <1>6, <1>7, Zenon DEF HostInv

\* A device on USB or over TCP takes no slot.
LEMMA OtherRegisters ==
    ASSUME HostInv, NEW t \in Transports \ Emu, NEW c \in {"offline", "noperm"},
           c = "noperm" => t \in Usb, tr[t].phase = "none", Registers(t, c),
           UNCHANGED <<listener, disconnect, local_transports>>
    PROVE  HostInv'
<1>1. HostType /\ SlotInv
  BY DEF HostInv
<1>2. tr' = [tr EXCEPT ![t].phase = "queued", ![t].conn = c]
  BY DEF Registers
<1>3. Others(t)
  BY <1>1, <1>2, QueuedFields, Zenon
<1>4. \A u \in Emu: (Gone(u)' => Gone(u)) /\ (Live(u)' => Live(u))
  BY <1>3 DEF Gone, Live, Others, Transports
<1>5. SlotInv'
  BY <1>1, <1>4, SlotsKeep
<1>6. local_transports' \in [Slots -> Emu \cup {None}]
  BY <1>1 DEF HostType
<1> QED
  BY <1>5, <1>6, RegistersStep, Zenon

\* init_socket_transport() finds the first slot that is free.
FreeSlots == {j \in Slots: local_transports[j] = None}
LEMMA FirstSlot ==
    ASSUME NEW i \in FreeSlots
    PROVE  (CHOOSE j \in Slots: /\ local_transports[j] = None
                                /\ \A k \in Slots: k < j => local_transports[k] # None) \in FreeSlots
<1>1. FreeSlots \subseteq Nat
  BY Zenon, HostAssumption DEF FreeSlots
<1>2. PICK j \in FreeSlots: \A k \in FreeSlots: ~(<<k, j>> \in OpToRel(<, Nat))
  BY <1>1, NatLessThanWellFounded, WFMin
<1>3. \A k \in Slots: k < j => local_transports[k] # None
  BY ZenonT(60), <1>1, <1>2, HostAssumption DEF OpToRel, FreeSlots
<1> QED
  BY <1>2, <1>3 DEF FreeSlots

\* An emulator is registered when no slot has its port and one is free.
LEMMA EmulatorRegisters ==
    ASSUME HostInv, NEW t \in Emu, tr[t].phase = "none", EmulatorFits(t), Registers(t, "offline"),
           NEW i \in FreeSlots, local_transports' = [local_transports EXCEPT ![i] = t],
           UNCHANGED <<listener, disconnect>>
    PROVE  HostInv'
<1>0. HostType /\ SlotInv /\ t \in Transports
  BY DEF HostInv, Transports
<1>1. tr' = [tr EXCEPT ![t].phase = "queued", ![t].conn = "offline"]
  BY DEF Registers
<1>2. Others(t) /\ tr'[t].phase = "queued"
  BY <1>0, <1>1, QueuedFields, Zenon
<1>3. /\ local_transports' \in [Slots -> Emu \cup {None}] /\ i \in Slots /\ local_transports[i] = None
      /\ local_transports'[i] = t
      /\ \A j \in Slots \ {i}: local_transports'[j] = local_transports[j]
      /\ \A j \in Slots: local_transports[j] # None => local_transports[j] \in Emu
  BY <1>0, Zenon DEF HostType, FreeSlots
<1>4. t # None /\ \A u \in Emu: u # None /\ u \in Transports
  BY HostAssumption DEF None, Transports
<1>5. \A u \in Emu \ {t}: (Gone(u)' <=> Gone(u)) /\ (Live(u)' <=> Live(u))
  BY <1>2, <1>4, Zenon DEF Gone, Live, Others
<1>6. ~Gone(t)'
  BY <1>2, Zenon DEF Gone
<1>7. \A j \in Slots: local_transports'[j] # None => ~Gone(local_transports[j])'
  BY <1>0, <1>3, <1>5, <1>6 DEF SlotInv
<1>8. \A u \in Emu: Live(u)' => \E j \in Slots: local_transports'[j] = u
  BY <1>0, <1>3, <1>4, <1>5, Zenon DEF SlotInv
<1>9. \A u \in Emu: Live(u) => Port[u] # Port[t]
  BY <1>0, <1>4, Zenon DEF SlotInv, EmulatorFits, Occupied
<1>10. \A u, v \in Emu: Live(u)' /\ Live(v)' /\ Port[u] = Port[v] => u = v
  BY <1>0, <1>5, <1>9 DEF SlotInv
<1>11. SlotInv'
  BY <1>7, <1>8, <1>10 DEF SlotInv
<1> QED
  BY <1>0, <1>3, <1>11, RegistersStep, Zenon

LEMMA LocalConnectStep ==
    ASSUME HostInv, NEW t \in Transports, LocalConnect(t), UNCHANGED <<listener, disconnect>>
    PROVE  HostInv'
<1>1. t \in Emu /\ tr[t].phase = "none"
  BY DEF LocalConnect
<1>2. CASE EmulatorFits(t)
  <2> DEFINE i == CHOOSE j \in Slots: /\ local_transports[j] = None
                                      /\ \A k \in Slots: k < j => local_transports[k] # None
  <2>1. Registers(t, "offline") /\ local_transports' = [local_transports EXCEPT ![i] = t]
    BY <1>2, Zenon DEF LocalConnect
  <2>2. i \in FreeSlots
    <3>1. PICK j \in Slots: local_transports[j] = None
      BY <1>2 DEF EmulatorFits
    <3>2. j \in FreeSlots
      BY <3>1 DEF FreeSlots
    <3> QED
      BY <3>2, FirstSlot, Zenon
  <2> HIDE DEF i
  <2> QED
    BY <1>1, <1>2, <2>1, <2>2, EmulatorRegisters, Zenon
<1>3. CASE ~EmulatorFits(t)
  <2>0. HostType /\ PhaseInv /\ QueueInv /\ SlotInv /\ ListenerInv /\ "failed" \in Phase
    BY DEF HostInv, Phase
  <2>1. tr' = [tr EXCEPT ![t].phase = "failed"] /\ UNCHANGED <<regq, local_transports>>
    BY <1>3, Zenon DEF LocalConnect
  <2>2. /\ tr' \in [Transports -> Transport] /\ Others(t) /\ tr'[t].phase = "failed"
        /\ tr'[t].refs = tr[t].refs /\ tr'[t].threads = tr[t].threads
        /\ tr'[t].kicked = tr[t].kicked /\ tr'[t].conn = tr[t].conn
    BY <2>0, <2>1, PhaseFields, Zenon
  <2>3. PhaseInv'
    BY <1>1, <2>0, <2>2 DEF PhaseInv, Others
  <2>4. QueueInv'
    <3>1. \A u \in Transports: (Gone(u) => Gone(u)') /\ (Awaits(u) => Awaits(u)')
      BY <1>1, <2>2 DEF Gone, Awaits, Others
    <3>2. regq \in Seq(Message)
      BY <2>0 DEF HostType
    <3> QED
      BY <2>0, <2>1, <3>1, <3>2, QueueKept, Zenon
  <2>5. SlotInv'
    <3>1. \A u \in Emu: (Gone(u)' => Gone(u)) /\ (Live(u)' => Live(u))
      BY <2>2 DEF Gone, Live, Others, Transports
    <3> QED
      BY <2>0, <2>1, <3>1, SlotsKeep, Zenon
  <2>6. ListenerInv'
    <3>1. \A u \in Transports: Freed(u)' => Freed(u)
      BY <2>2 DEF Freed, Others
    <3> QED
      BY <2>0, <3>1, ListenersKeep
  <2>7. HostType'
    BY <2>0, <2>1, <2>2 DEF HostType
  <2> QED
    BY <2>3, <2>4, <2>5, <2>6, <2>7, Zenon DEF HostInv
<1> QED
  BY <1>2, <1>3

\* transport_registration_func(), action 1.
LEMMA MainRegisterStep ==
    ASSUME HostInv, MainRegister
    PROVE  HostInv'
<1>0. HostType /\ PhaseInv /\ QueueInv /\ SlotInv /\ ListenerInv
  BY DEF HostInv
<1> DEFINE t == Head(regq).t
           r == IF tr[t].conn = "noperm" THEN 0 ELSE 2
           th == IF tr[t].conn = "noperm" THEN {} ELSE {"in", "out"}
<1>1. /\ regq # <<>> /\ Head(regq).action = 1 /\ regq' = Tail(regq)
      /\ tr' = [tr EXCEPT ![t].phase = "up", ![t].refs = r, ![t].threads = th]
      /\ UNCHANGED <<local_transports, listener, disconnect>>
  BY Zenon DEF MainRegister
<1>2. regq \in Seq(Message) /\ t \in Transports /\ Awaits(t)
  <2>1. regq \in Seq(Message)
    BY <1>0 DEF HostType
  <2>2. 1 \in DOMAIN regq /\ Head(regq) = regq[1]
    BY <1>1, <2>1, LessMessages
  <2>3. t \in Transports
    BY <2>1, <2>2, MessageFields
  <2> QED
    BY <1>0, <1>1, <2>1, <2>2, <2>3 DEF QueueInv
<1>3. r \in Int /\ th \in SUBSET {"in", "out"} /\ (tr[t].conn = "noperm" => th = {})
  OBVIOUS
<1> HIDE DEF r, th
<1>4. /\ tr' \in [Transports -> Transport] /\ Others(t)
      /\ tr'[t].phase = "up" /\ tr'[t].refs = r /\ tr'[t].threads = th
      /\ tr'[t].kicked = tr[t].kicked /\ tr'[t].conn = tr[t].conn
  BY <1>0, <1>1, <1>2, <1>3, RegisterFields, Zenon
<1>5. regq' \in Seq(Message) /\ QueueInv'
  <2>1. \A u \in Transports: Gone(u) => Gone(u)'
    BY <1>2, <1>4 DEF Gone, Awaits, Others
  <2>2. \A u \in Transports \ {t}: Awaits(u) => Awaits(u)'
    BY <1>4 DEF Awaits, Others
  <2>3. \A u \in Transports: Awaits(u) => Awaits(u)' \/ (Head(regq).action = 1 /\ u = Head(regq).t)
    BY <1>1, <2>2, Zenon
  <2> QED
    BY <1>0, <1>1, <1>2, <2>1, <2>3, QueueShrinks, Zenon
<1> HIDE DEF t
<1>6. PhaseInv'
  <2>1. tr[t].conn = "noperm" => t \in Usb /\ th = {}
    BY <1>0, <1>2, <1>3 DEF PhaseInv
  <2>2. \A u \in Transports \ {t}: tr'[u] = tr[u]
    BY <1>4 DEF Others
  <2> QED
    BY <1>0, <1>4, <2>1, <2>2, Zenon DEF PhaseInv
<1>7. SlotInv'
  <2>1. \A u \in Emu: Gone(u)' => Gone(u)
    BY <1>4 DEF Gone, Others, Transports
  <2>2. Usb \cap Emu = {}
    BY HostAssumption
  <2>3. \A u \in Emu: Live(u)' => Live(u)
    BY <1>2, <1>4, <2>2 DEF Live, Others, Awaits, Transports
  <2> QED
    BY <1>0, <1>1, <2>1, <2>3, SlotsKeep
<1>8. ListenerInv'
  <2>1. \A u \in Transports: Freed(u)' => Freed(u)
    BY <1>4 DEF Freed, Others
  <2> QED
    BY <1>0, <1>1, <2>1, ListenersKeep
<1>9. HostType'
  BY <1>0, <1>1, <1>4, <1>5 DEF HostType
<1> QED
  BY <1>5, <1>6, <1>7, <1>8, <1>9, Zenon DEF HostInv

\* transport_registration_func(), action 0.
LEMMA MainRemoveStep ==
    ASSUME HostInv, MainRemove
    PROVE  HostInv'
<1>0. HostType /\ PhaseInv /\ QueueInv /\ SlotInv /\ ListenerInv /\ "freed" \in Phase
  BY DEF HostInv, Phase
<1> DEFINE t == Head(regq).t
<1>1. /\ regq # <<>> /\ Head(regq).action = 0 /\ regq' = Tail(regq)
      /\ tr' = [tr EXCEPT ![t].phase = "freed"] /\ RunDisconnects(t)
      /\ UNCHANGED local_transports
  BY Zenon DEF MainRemove
<1>2. regq \in Seq(Message) /\ t \in Transports /\ Gone(t)
  <2>1. regq \in Seq(Message)
    BY <1>0 DEF HostType
  <2>2. 1 \in DOMAIN regq /\ Head(regq) = regq[1]
    BY <1>1, <2>1, LessMessages
  <2>3. t \in Transports
    BY <2>1, <2>2, MessageFields
  <2> QED
    BY <1>0, <1>1, <2>1, <2>2, <2>3 DEF QueueInv
<1>3. /\ tr' \in [Transports -> Transport] /\ Others(t) /\ tr'[t].phase = "freed"
      /\ tr'[t].refs = tr[t].refs /\ tr'[t].threads = tr[t].threads
      /\ tr'[t].kicked = tr[t].kicked /\ tr'[t].conn = tr[t].conn
  BY <1>0, <1>1, <1>2, PhaseFields, Zenon
<1>4. regq' \in Seq(Message) /\ QueueInv'
  <2>1. \A u \in Transports: Gone(u) => Gone(u)'
    BY <1>3 DEF Gone, Others
  <2>2. \A u \in Transports: Awaits(u) => Awaits(u)'
    BY <1>2, <1>3 DEF Awaits, Gone, Others
  <2> QED
    BY <1>0, <1>1, <1>2, <2>1, <2>2, QueueShrinks, Zenon
<1> HIDE DEF t
<1>5. PhaseInv'
  BY <1>0, <1>2, <1>3 DEF PhaseInv, Others, Gone
<1>6. SlotInv'
  <2>1. \A u \in Emu: (Gone(u)' => Gone(u)) /\ (Live(u)' => Live(u))
    BY <1>2, <1>3 DEF Gone, Live, Others, Transports
  <2> QED
    BY <1>0, <1>1, <2>1, SlotsKeep, Zenon
<1>7. /\ listener' \in [Names -> [to: Targets \cup {"none"}, t: Nodes]]
      /\ disconnect' \in [Names -> Nodes] /\ ListenerInv'
  <2>1. \A u \in Transports: Freed(u)' => Freed(u) \/ u = t
    BY <1>3 DEF Freed, Others
  <2> QED
    BY <1>0, <1>1, <1>2, <2>1, DisconnectsKeep, Zenon
<1>8. HostType'
  BY <1>0, <1>1, <1>3, <1>4, <1>7 DEF HostType
<1> QED
  BY <1>4, <1>5, <1>6, <1>7, <1>8, Zenon DEF HostInv

\* unregister_usb_transport(): the device is off the list and never freed.
LEMMA UnpluggedStep ==
    ASSUME HostInv, NEW t \in Transports, UsbUnplugged(t)
    PROVE  HostInv'
<1>0. HostType /\ PhaseInv /\ QueueInv /\ SlotInv /\ ListenerInv /\ "leaked" \in Phase
  BY DEF HostInv, Phase
<1>1. /\ tr[t].conn = "noperm" /\ tr' = [tr EXCEPT ![t].phase = "leaked"]
      /\ UNCHANGED <<regq, local_transports, listener, disconnect>>
  BY DEF UsbUnplugged
<1>2. t \in Usb /\ t \notin Emu /\ ~Gone(t) /\ tr[t].threads = {}
  BY <1>0, <1>1, HostAssumption DEF PhaseInv, Gone
<1>3. /\ tr' \in [Transports -> Transport] /\ Others(t) /\ tr'[t].phase = "leaked"
      /\ tr'[t].refs = tr[t].refs /\ tr'[t].threads = tr[t].threads
      /\ tr'[t].kicked = tr[t].kicked /\ tr'[t].conn = tr[t].conn
  BY <1>0, <1>1, PhaseFields, Zenon
<1>4. PhaseInv'
  BY <1>0, <1>1, <1>2, <1>3 DEF PhaseInv, Others
<1>5. QueueInv'
  <2>1. \A u \in Transports: (Gone(u) => Gone(u)') /\ (Awaits(u) => Awaits(u)')
    BY <1>2, <1>3 DEF Gone, Awaits, Others
  <2>2. regq \in Seq(Message)
    BY <1>0 DEF HostType
  <2> QED
    BY <1>0, <1>1, <2>1, <2>2, QueueKept, Zenon
<1>6. SlotInv'
  <2>1. \A u \in Emu: (Gone(u)' => Gone(u)) /\ (Live(u)' => Live(u))
    BY <1>2, <1>3 DEF Gone, Live, Others, Transports
  <2> QED
    BY <1>0, <1>1, <2>1, SlotsKeep
<1>7. ListenerInv'
  <2>1. \A u \in Transports: Freed(u)' => Freed(u)
    BY <1>3 DEF Freed, Others
  <2> QED
    BY <1>0, <1>1, <2>1, ListenersKeep, Zenon
<1>8. HostType'
  BY <1>0, <1>1, <1>3 DEF HostType
<1> QED
  BY <1>4, <1>5, <1>6, <1>7, <1>8, Zenon DEF HostInv

\* acquire_one_transport() answers with a transport of the list.
LEMMA AcquiredIsListed ==
    ASSUME NEW cands \in Requested, AcquireOne(cands) # None
    PROVE  AcquireOne(cands) \in Listing /\ AcquireOne(cands) \in Transports
<1> DEFINE m == {t \in cands \cap Listing: Usable(t)}
<1>1. Cardinality(m) = 1 /\ AcquireOne(cands) = CHOOSE t \in m: TRUE
  BY Zenon DEF AcquireOne
<1>2. m # {}
  <2> HIDE DEF m
  <2> QED
    BY <1>1, FS_EmptySet
<1>3. AcquireOne(cands) \in m
  <2> HIDE DEF m
  <2> QED
    BY <1>1, <1>2
<1>4. cands \subseteq Transports
  BY DEF Requested, Transports
<1> QED
  BY <1>3, <1>4

\* A listener is bound to a transport of the list, or bound again.
LEMMA ForwardStep ==
    ASSUME HostInv, NEW n \in Names, NEW to \in Targets, NEW cands \in Requested, NEW b \in BOOLEAN,
           ReqForward(n, to, cands, b)
    PROVE  HostInv'
<1>0. HostType /\ PhaseInv /\ QueueInv /\ SlotInv /\ ListenerInv
  BY DEF HostInv
<1> DEFINE t == AcquireOne(cands)
           l == [to |-> to, t |-> t]
<1>1. /\ t # None /\ ListIsSound /\ UNCHANGED <<tr, regq, local_transports>>
      /\ listener' = [listener EXCEPT ![n] = l] /\ disconnect' = [disconnect EXCEPT ![n] = t]
  BY Zenon DEF ReqForward, Rebind, Granted
<1>2. t \in Transports /\ ~Freed(t)
  BY <1>1, AcquiredIsListed DEF ListIsSound
<1> HIDE DEF t
<1>3. l \in [to: Targets \cup {"none"}, t: Nodes] /\ l.t = t
  BY <1>2 DEF Nodes
<1> HIDE DEF l
<1>4. /\ listener' \in [Names -> [to: Targets \cup {"none"}, t: Nodes]] /\ disconnect' \in [Names -> Nodes]
      /\ listener'[n] = l /\ disconnect'[n] = t
      /\ \A k \in Names \ {n}: listener'[k] = listener[k] /\ disconnect'[k] = disconnect[k]
  <2>1. t \in Nodes
    BY <1>2 DEF Nodes
  <2> QED
    BY <1>0, <1>1, <1>3, <2>1 DEF HostType
<1>5. \A u \in Transports: Freed(u)' <=> Freed(u)
  BY <1>1, Zenon DEF Freed
<1>6. ListenerInv'
  BY <1>0, <1>2, <1>3, <1>4, <1>5 DEF ListenerInv
<1>7. HostType'
  BY <1>0, <1>1, <1>4 DEF HostType
<1>8. PhaseInv' /\ QueueInv' /\ SlotInv'
  BY Zenon, <1>0, <1>1 DEF PhaseInv, QueueInv, SlotInv, Gone, Awaits, Live
<1> QED
  BY <1>6, <1>7, <1>8, Zenon DEF HostInv

\* Listeners are closed by "killforward".
LEMMA KillForwardStep ==
    ASSUME HostInv, NEW K \in SUBSET Names,
           listener' = [n \in Names |-> IF n \in K THEN NoListener ELSE listener[n]],
           disconnect' = [n \in Names |-> IF n \in K THEN None ELSE disconnect[n]],
           UNCHANGED <<tr, regq, local_transports>>
    PROVE  HostInv'
<1>0. HostType /\ PhaseInv /\ QueueInv /\ SlotInv /\ ListenerInv
  BY ZenonT(60) DEF HostInv
<1>1. NoListener \in [to: Targets \cup {"none"}, t: Nodes] /\ None \in Nodes
  BY DEF NoListener, Nodes, None
<1>2. /\ listener' \in [Names -> [to: Targets \cup {"none"}, t: Nodes]]
      /\ disconnect' \in [Names -> Nodes]
  BY ZenonT(60), <1>0, <1>1 DEF HostType
<1>3. \A u \in Transports: Freed(u)' <=> Freed(u)
  BY ZenonT(60) DEF Freed
<1>4. ListenerInv'
  BY Zenon, <1>0, <1>3 DEF ListenerInv
<1>5. HostType'
  BY <1>0, <1>2 DEF HostType
<1>6. PhaseInv' /\ QueueInv' /\ SlotInv'
  BY <1>0, Zenon DEF PhaseInv, QueueInv, SlotInv, Gone, Awaits, Live
<1> QED
  BY <1>4, <1>5, <1>6, Zenon DEF HostInv

\* A thread of a transport ends, or a client disconnects it.
LEMMA ThreadEndsStep ==
    ASSUME HostInv, NEW t \in Transports, OutputEnds(t) \/ InputEnds(t)
    PROVE  HostInv'
<1>1. CASE Freed(t)
  <2>1. UNCHANGED <<tr, regq, local_transports, listener, disconnect>>
    BY <1>1, Zenon DEF OutputEnds, InputEnds
  <2> QED
    BY <2>1, SameTables
<1>2. CASE ~Freed(t)
  <2>1. tr[t].conn # "noperm"
    BY DEF HostInv, PhaseInv, OutputEnds, InputEnds
  <2>2. HostType
    BY DEF HostInv
  <2>3. /\ KickedAs([Kicked(tr, t) EXCEPT ![t].threads = @ \ {"in"}], t)
        /\ KickedAs([Kicked(tr, t) EXCEPT ![t].threads = @ \ {"out"},
                                          ![t].bye = IF @ = "no" THEN "main" ELSE @], t)
    BY <2>2, KickFields, Zenon
  <2>4. /\ \/ Unref([Kicked(tr, t) EXCEPT ![t].threads = @ \ {"in"}], t)
           \/ Unref([Kicked(tr, t) EXCEPT ![t].threads = @ \ {"out"},
                                          ![t].bye = IF @ = "no" THEN "main" ELSE @], t)
        /\ local_transports' = SlotsWithout(t) /\ UNCHANGED <<listener, disconnect>>
    BY <1>2, Zenon DEF OutputEnds, InputEnds
  <2> QED
    BY <2>1, <2>3, <2>4, UnrefStep, Zenon
<1> QED
  BY <1>1, <1>2

LEMMA DisconnectStep ==
    ASSUME HostInv, NEW t \in Transports, ReqDisconnect(t)
    PROVE  HostInv'
<1>1. t \in Tcp /\ Unref(Kicked(tr, t), t) /\ local_transports' = SlotsWithout(t)
      /\ UNCHANGED <<listener, disconnect>>
  BY DEF ReqDisconnect
<1>2. tr[t].conn # "noperm"
  BY Zenon, <1>1, HostAssumption DEF HostInv, PhaseInv
<1>3. KickedAs(Kicked(tr, t), t)
  BY KickFields, Zenon DEF HostInv
<1> QED
  BY <1>1, <1>2, <1>3, UnrefStep, Zenon

\* A transport that is not registered, in phase p.
FreshIn(p) == [phase |-> p, kicked |-> FALSE, conn |-> "offline", refs |-> 0, threads |-> {},
               link |-> TRUE, bye |-> "no"]

LEMMA FreshTransport ==
    ASSUME NEW p \in Phase
    PROVE  FreshIn(p) \in Transport
<1>1. /\ "offline" \in {"offline", "noperm", "device"} /\ 0 \in Int /\ {} \in SUBSET {"in", "out"}
      /\ "no" \in {"no", "main", "input"} /\ TRUE \in BOOLEAN /\ FALSE \in BOOLEAN
  OBVIOUS
<1> QED
  BY <1>1, Zenon DEF Transport, FreshIn

LEMMA FreshFields ==
    ASSUME NEW p
    PROVE  /\ FreshIn(p).phase = p /\ FreshIn(p).refs = 0 /\ FreshIn(p).threads = {}
           /\ FreshIn(p).conn = "offline"
  BY DEF FreshIn

LEMMA HostStarts == HostInit => HostInv
<1> SUFFICES ASSUME HostInit PROVE HostInv
  OBVIOUS
<1>1. PICK W \in Worlds:
         tr = [t \in Transports |-> [Free EXCEPT !.phase = IF t \in W THEN "none" ELSE "absent"]]
  BY DEF HostInit
<1>2. ASSUME NEW t \in Transports
      PROVE  /\ tr[t] \in Transport /\ tr[t].phase \in {"none", "absent"}
             /\ tr[t].refs = 0 /\ tr[t].threads = {} /\ tr[t].conn = "offline"
  <2> DEFINE p == IF t \in W THEN "none" ELSE "absent"
  <2>1. tr[t] = [Free EXCEPT !.phase = p] /\ p \in {"none", "absent"}
    BY <1>1
  <2>2. p \in Phase
    BY <2>1 DEF Phase
  <2> HIDE DEF p
  <2>3. tr[t] = FreshIn(p)
    BY <2>1, Zenon DEF Free, FreshIn
  <2>4. tr[t].phase = p /\ tr[t].refs = 0 /\ tr[t].threads = {} /\ tr[t].conn = "offline"
    BY <2>3, FreshFields, Zenon
  <2>5. tr[t] \in Transport
    BY <2>2, <2>3, FreshTransport, Zenon
  <2> QED
    BY <2>1, <2>4, <2>5, Zenon
<1>3. tr \in [Transports -> Transport]
  <2>1. tr = [t \in Transports |-> tr[t]]
    BY <1>1, Zenon
  <2> QED
    BY <1>2, <2>1, Zenon
<1>4. /\ regq = <<>> /\ local_transports = [i \in Slots |-> None]
      /\ listener = [n \in Names |-> NoListener] /\ disconnect = [n \in Names |-> None]
  BY DEF HostInit
<1>5. HostType
  <2>1. regq \in Seq(Message)
    BY <1>4
  <2>2. NoListener \in [to: Targets \cup {"none"}, t: Nodes] /\ None \in Nodes
    BY DEF NoListener, Nodes, None
  <2> QED
    BY <1>3, <1>4, <2>1, <2>2 DEF HostType
<1>6. PhaseInv
  BY <1>2 DEF PhaseInv
<1>7. QueueInv
  BY <1>4 DEF QueueInv
<1>8. SlotInv
  BY <1>2, <1>4 DEF SlotInv, Live, Transports
<1>9. ListenerInv
  BY <1>4 DEF ListenerInv
<1> QED
  BY <1>5, <1>6, <1>7, <1>8, <1>9, Zenon DEF HostInv

\* One step per group of handlers.
LEMMA HostStep == HostInv /\ [HostNext]_hostvars => HostInv'
<1> SUFFICES ASSUME HostInv, [HostNext]_hostvars PROVE HostInv'
  OBVIOUS
<1>1. CASE MainRegister
  BY <1>1, MainRegisterStep
<1>2. CASE MainRemove
  BY <1>2, MainRemoveStep
<1>3. CASE ReqKillForwardAll
  <2>1. /\ listener' = [n \in Names |-> IF n \in Names THEN NoListener ELSE listener[n]]
        /\ disconnect' = [n \in Names |-> IF n \in Names THEN None ELSE disconnect[n]]
        /\ UNCHANGED <<tr, regq, local_transports>>
    BY <1>3 DEF ReqKillForwardAll
  <2> QED
    BY <2>1, KillForwardStep
<1>4. ASSUME NEW t \in Transports, OutputEnds(t) \/ InputEnds(t)
      PROVE  HostInv'
  BY <1>4, ThreadEndsStep
<1>5. ASSUME NEW t \in Transports, LinkFails(t) \/ HandleOffline(t) \/ HandleConnect(t)
      PROVE  HostInv'
  <2>1. /\ tr[t].phase # "leaked" /\ UNCHANGED <<regq, local_transports>>
        /\ \/ tr' = [tr EXCEPT ![t].link = FALSE]
           \/ tr' = [tr EXCEPT ![t].bye = "input", ![t].conn = "offline"]
           \/ tr' = [tr EXCEPT ![t].conn = "device"]
        /\ RunDisconnects(t) \/ UNCHANGED <<listener, disconnect>>
    BY <1>5 DEF LinkFails, HandleOffline, HandleConnect
  <2> QED
    BY <2>1, LinkStep, Zenon
<1>6. ASSUME NEW t \in Transports, UsbFound(t, "offline") \/ UsbFound(t, "noperm") \/ ReqConnect(t)
      PROVE  HostInv'
  <2>1. t \in Transports \ Emu
    BY <1>6, HostAssumption DEF UsbFound, ReqConnect
  <2>2. PICK c \in {"offline", "noperm"}:
           /\ c = "noperm" => t \in Usb
           /\ tr[t].phase = "none" /\ Registers(t, c)
           /\ UNCHANGED <<listener, disconnect, local_transports>>
    BY <1>6 DEF UsbFound, ReqConnect
  <2> QED
    BY <2>1, <2>2, OtherRegisters, Zenon
<1>7. ASSUME NEW t \in Transports, UsbUnplugged(t)
      PROVE  HostInv'
  BY <1>7, UnpluggedStep
<1>8. ASSUME NEW t \in Transports, StartupScan(t) \/ ReqEmulator(t)
      PROVE  HostInv'
  <2>1. LocalConnect(t) /\ UNCHANGED <<listener, disconnect>>
    BY <1>8, Zenon DEF StartupScan, ReqEmulator
  <2> QED
    BY <2>1, LocalConnectStep
<1>9. ASSUME NEW t \in Transports, ReqDisconnect(t)
      PROVE  HostInv'
  BY <1>9, DisconnectStep
<1>10. ASSUME NEW cands \in Requested, NEW n \in Names, NEW to \in Targets, NEW b \in BOOLEAN,
              ReqForward(n, to, cands, b)
       PROVE  HostInv'
  BY <1>10, ForwardStep
<1>11. ASSUME NEW cands \in Requested, NEW n \in Names, ReqKillForward(n, cands)
       PROVE  HostInv'
  <2>1. /\ listener' = [listener EXCEPT ![n] = NoListener]
        /\ disconnect' = [disconnect EXCEPT ![n] = None]
        /\ UNCHANGED <<tr, regq, local_transports>>
    BY <1>11 DEF ReqKillForward
  <2>2. DOMAIN listener = Names /\ DOMAIN disconnect = Names
    BY DEF HostInv, HostType
  <2>3. /\ listener' = [k \in Names |-> IF k \in {n} THEN NoListener ELSE listener[k]]
        /\ disconnect' = [k \in Names |-> IF k \in {n} THEN None ELSE disconnect[k]]
    BY <2>1, <2>2, Zenon
  <2>4. {n} \in SUBSET Names
    BY Zenon
  <2> QED
    BY <2>1, <2>3, <2>4, KillForwardStep, Zenon
<1>12. ASSUME \/ \E cands \in Requested, c \in Clients: ReqTransport(c, cands)
              \/ \E n \in Names: Forwarded(n)
              \/ \E k \in Trackers: ReqTrack(k) \/ TrackerCloses(k)
              \/ \E c \in Clients: ReqService(c)
              \/ \E w \in Waiters: ReqWaitFor(w) \/ WaitScan(w) \/ WaitChecks(w)
              \/ UNCHANGED hostvars
       PROVE  HostInv'
  <2>1. UNCHANGED <<tr, regq, local_transports, listener, disconnect>>
    BY <1>12, Zenon DEF ReqTransport, Forwarded, ReqTrack, TrackerCloses, ReqService, ReqWaitFor,
                        WaitScan, WaitChecks, hostvars
  <2> QED
    BY <2>1, SameTables
<1> QED
  BY <1>1, <1>2, <1>3, <1>4, <1>5, <1>6, <1>7, <1>8, <1>9, <1>10, <1>11, <1>12, Zenon DEF HostNext

\* However devices come, go and are disconnected, and however their two threads
\* end: no listener stays bound to a transport that was freed, no slot of
\* local_transports[] keeps one, and an emulator that is connected is connected
\* once (install_listener(), run_transport_disconnects(), local_connect()).
THEOREM TablesStayInOrder == HostSpec => []TablesInOrder
<1>1. HostInv => TablesInOrder
  <2> SUFFICES ASSUME HostInv PROVE TablesInOrder
    OBVIOUS
  <2>1. HostType /\ SlotInv /\ ListenerInv
    BY DEF HostInv
  <2>2. ListenersServed
    BY <2>1 DEF ListenerInv, ListenersServed
  <2>3. \A i \in Slots: local_transports[i] # None => ~Freed(local_transports[i])
    BY <2>1 DEF SlotInv, Gone, Freed
  <2>4. ASSUME NEW t \in Emu, NEW u \in Emu, t # u, Port[t] = Port[u],
               ~tr[t].kicked, ~tr[u].kicked, {tr[t].phase, tr[u].phase} \subseteq {"queued", "up"}
        PROVE  FALSE
    <3>1. Live(t) /\ Live(u)
      BY <2>4 DEF Live
    <3> QED
      BY <2>1, <2>4, <3>1 DEF SlotInv
  <2>5. OncePerPort
    BY <2>3, <2>4, Zenon DEF OncePerPort
  <2> QED
    BY <2>2, <2>5 DEF TablesInOrder
<1> QED
  BY <1>1, HostStarts, HostStep, PTL DEF HostSpec
=============================================================================
