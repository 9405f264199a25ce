----------------------------- MODULE AdbCommand -----------------------------
(***************************************************************************)
(* The adb client and the start of its server: every command connects with *)
(* adb_connect() (adb_client.c), which asks the server for its version,    *)
(* kills a server of another version and starts one when there is none     *)
(* (launch_server() of adb.c), before it asks for the service it wants.    *)
(* Commands are scripts of services (commandline.c); send_shellcommand()   *)
(* repeats until the service was reached.  Several clients run at a time,  *)
(* the device goes away and comes back, "adb kill-server" ends the server. *)
(***************************************************************************)
EXTENDS Integers, Sequences, FiniteSets

CONSTANTS
    Runs,       \* the sets of commands to explore: client -> [cmd, version]
    Faults      \* bound on the times the device goes away or no process can be made

VARIABLES
    job,        \* each client: command, version, place in the script
    server,     \* version of the server that has the port (0: none), dying after "kill"
    child,      \* servers a client started that did not bind the port yet
    online, faults,
    pushed      \* files of "adb install" that are on the device: <<client, file>>

commandvars == <<job, server, child, online, faults, pushed>>

NoServer == [version |-> 0, dying |-> FALSE]

\* A service of a script: what it does on the device, and whether the client
\* repeats until it is connected.
Service(what, loop) == [what |-> what, loop |-> loop]

\* devices, connect, disconnect, get-state: answered by the server.
HostQuery == <<Service("query", FALSE)>>
\* "adb shell <command>" without -p: one try.
Shell == <<Service("run", FALSE)>>
\* remount, reboot, tcpip, usb, root: a service of the device, one try.
Restart == <<Service("run", FALSE)>>
\* logcat(): send_shellcommand().
Logcat == <<Service("run", TRUE)>>
\* uninstall_app(): pm_command().
Uninstall == <<Service("pm", TRUE)>>
\* "adb wait-for-device <command>".
WaitFor == <<Service("wait", FALSE), Service("run", FALSE)>>
StartServer == <<Service("start", FALSE)>>
\* install_app() with a verification file.
Install == <<Service("push_apk", FALSE), Service("push_ver", FALSE), Service("pm", TRUE),
             Service("rm_ver", TRUE), Service("rm_apk", TRUE)>>

Scripts == [devices |-> HostQuery, shell |-> Shell, reboot |-> Restart, logcat |-> Logcat,
            uninstall |-> Uninstall, wait |-> WaitFor, start |-> StartServer,
            install |-> Install, kill |-> <<>>]

ASSUME RunsAssumption ==
    \A r \in Runs: \A c \in DOMAIN r: r[c] \in [cmd: DOMAIN Scripts, version: Nat]

Now(j) == Scripts[j.cmd][j.step]
File(what) == IF what \in {"push_apk", "rm_apk"} THEN "apk" ELSE "ver"
Pushing(what) == what \in {"push_apk", "push_ver"}
Removing(what) == what \in {"rm_apk", "rm_ver"}

CommandInit ==
    /\ \E r \in Runs: job = [c \in DOMAIN r |->
          [cmd |-> r[c].cmd, version |-> r[c].version, step |-> 1, wait |-> FALSE,
           pc |-> IF r[c].cmd = "kill" THEN "kill" ELSE "version", cut |-> FALSE]]
    /\ server \in {NoServer, [version |-> 1, dying |-> FALSE]}
    /\ child = [c \in DOMAIN job |-> 0]
    /\ online \in BOOLEAN
    /\ faults = 0
    /\ pushed = {}

-----------------------------------------------------------------------------
(* What a client does next.                                                *)

Goes(j, pc) == [j EXCEPT !.pc = pc]

\* The service is done: the next one, or the command returns.
Finished(j) ==
    IF j.step = Len(Scripts[j.cmd]) THEN Goes(j, "done")
    ELSE [j EXCEPT !.step = @ + 1, !.pc = "version"]

\* Mutant: install_app() returns when a push failed.
ReturnsAtOnce(j) == Goes(j, "done")

\* A push failed: goto cleanup_apk, which deletes both files.
ToCleanup(j) == [j EXCEPT !.step = 4, !.pc = "version"]

\* adb_connect() or the service failed.  send_shellcommand() waits for the
\* device and tries again; the result of that wait is not looked at.
Failed(j) ==
    IF j.wait THEN [j EXCEPT !.wait = FALSE, !.pc = "version"]
    ELSE IF Now(j).loop THEN [j EXCEPT !.wait = TRUE, !.pc = "version"]
    ELSE IF Pushing(Now(j).what) THEN ToCleanup(j)
    ELSE Goes(j, "done")

\* A "wait-for-" was answered.
Waited(j) == IF j.wait THEN [j EXCEPT !.wait = FALSE, !.pc = "version"] ELSE Finished(j)

Waiting(j) == j.wait \/ Now(j).what = "wait"

-----------------------------------------------------------------------------
(* adb_connect().                                                          *)

\* _adb_connect("host:version").  A server that is dying does not answer.
AsksVersion(c) ==
    /\ job[c].pc = "version"
    /\ job' = [job EXCEPT ![c] =
          IF server = NoServer THEN Goes(@, "launch")
          ELSE IF server.dying THEN Failed(@)
          ELSE IF server.version # job[c].version THEN Goes(@, "outdated")
          ELSE IF ~@.wait /\ Now(@).what = "start" THEN Finished(@)
          ELSE Goes(@, "service")]
    /\ UNCHANGED <<server, child, online, faults, pushed>>

\* "adb server is out of date.  killing...": whatever server is there by now.
KillsOutdated(c) ==
    /\ job[c].pc = "outdated"
    /\ server' = IF server = NoServer THEN server ELSE [server EXCEPT !.dying = TRUE]
    /\ job' = [job EXCEPT ![c] = Goes(@, "launch")]
    /\ UNCHANGED <<child, online, faults, pushed>>

\* "adb kill-server": returns 0 also when there is no server.
KillServer(c) ==
    /\ job[c].pc = "kill"
    /\ server' = IF server = NoServer THEN server ELSE [server EXCEPT !.dying = TRUE]
    /\ job' = [job EXCEPT ![c] = Goes(@, "done")]
    /\ UNCHANGED <<child, online, faults, pushed>>

\* Mutant: a client that waits for the answer to "wait-for-" is not woken.
CutStreams(j) == IF j.pc = "stream" THEN Goes(j, "broken")
                 ELSE IF j.pc = "waiting" THEN Goes(j, "hung") ELSE j
\* The connections of a server that exits are closed.
Cut(j) == IF j.pc = "stream" THEN Goes(j, "broken")
          ELSE IF j.pc = "waiting" THEN Failed(j) ELSE j

ServerExits ==
    /\ server.dying
    /\ server' = NoServer
    /\ job' = [c \in DOMAIN job |-> Cut(job[c])]
    /\ UNCHANGED <<child, online, faults, pushed>>

\* launch_server(): fork and execl("adb", "fork-server", "server").
Launches(c) ==
    /\ job[c].pc = "launch"
    /\ child' = [child EXCEPT ![c] = job[c].version]
    /\ job' = [job EXCEPT ![c] = Goes(@, "starting")]
    /\ UNCHANGED <<server, online, faults, pushed>>

\* No pipe or no process: "failed to start daemon".
LaunchFails(c) ==
    /\ job[c].pc = "launch" /\ faults < Faults
    /\ faults' = faults + 1
    /\ job' = [job EXCEPT ![c] = Failed(@)]
    /\ UNCHANGED <<server, child, online, pushed>>

\* The child binds the port and writes "OK", or exits when the port is taken:
\* "ADB server didn't ACK".
ChildBinds(c) ==
    /\ child[c] # 0
    /\ child' = [child EXCEPT ![c] = 0]
    /\ IF server = NoServer
       THEN /\ server' = [version |-> child[c], dying |-> FALSE]
            /\ job' = [job EXCEPT ![c] = IF ~@.wait /\ Now(@).what = "start" THEN Finished(@)
                                         ELSE Goes(@, "service")]
       ELSE /\ job' = [job EXCEPT ![c] = Failed(@)]
            /\ UNCHANGED server
    /\ UNCHANGED <<online, faults, pushed>>

\* _adb_connect(service), after the version was found to be right.
AsksService(c) ==
    /\ job[c].pc = "service"
    /\ job' = [job EXCEPT ![c] =
          IF server = NoServer \/ server.dying THEN Failed(@)
          ELSE IF Waiting(@) THEN Goes(@, "waiting")
          ELSE IF Now(@).what = "query" THEN Finished(@)
          ELSE IF online THEN Goes(@, "stream")
          ELSE Failed(@)]
    /\ UNCHANGED <<server, child, online, faults, pushed>>

\* adb_status() after "wait-for-any": the device is there.
WaitAnswered(c) ==
    /\ job[c].pc = "waiting" /\ online /\ ~server.dying
    /\ job' = [job EXCEPT ![c] = Waited(@)]
    /\ UNCHANGED <<server, child, online, faults, pushed>>

-----------------------------------------------------------------------------
(* The service on the device.                                              *)

Applied(c) ==
    LET w == Now(job[c]).what IN
    IF Pushing(w) THEN pushed \cup {<<c, File(w)>>}
    ELSE IF Removing(w) THEN pushed \ {<<c, File(w)>>} ELSE pushed

\* The stream is read to its end: read_and_dump(), or the status of a push.
StreamEnds(c) ==
    /\ job[c].pc = "stream"
    /\ pushed' = Applied(c)
    /\ job' = [job EXCEPT ![c] = Finished(@)]
    /\ UNCHANGED <<server, child, online, faults>>

\* The device refuses a push after part of the file was written.
PushFails(c) ==
    /\ job[c].pc = "stream" /\ Pushing(Now(job[c]).what)
    /\ pushed' \in {pushed, Applied(c)}
    /\ job' = [job EXCEPT ![c] = Failed(@)]
    /\ UNCHANGED <<server, child, online, faults>>

\* read_and_dump() takes a lost connection for the end of the output.
TakenForEnd(j) == [Finished(j) EXCEPT !.cut = j.cut \/ Removing(Now(j).what)]

\* The connection was lost under the stream: a push fails.
StreamBroken(c) ==
    /\ job[c].pc = "broken"
    /\ pushed' \in {pushed, Applied(c)}
    /\ job' = [job EXCEPT ![c] =
          IF Pushing(Now(@).what) THEN Failed(@) ELSE TakenForEnd(@)]
    /\ UNCHANGED <<server, child, online, faults>>

DeviceLost ==
    /\ online /\ faults < Faults
    /\ online' = FALSE
    /\ faults' = faults + 1
    /\ job' = [c \in DOMAIN job |-> IF job[c].pc = "stream" THEN Goes(job[c], "broken") ELSE job[c]]
    /\ UNCHANGED <<server, child, pushed>>

DeviceBack ==
    /\ ~online
    /\ online' = TRUE
    /\ UNCHANGED <<job, server, child, faults, pushed>>

-----------------------------------------------------------------------------
Steps(c) ==
    \/ AsksVersion(c) \/ KillsOutdated(c) \/ KillServer(c) \/ Launches(c) \/ ChildBinds(c)
    \/ AsksService(c) \/ WaitAnswered(c) \/ StreamEnds(c) \/ PushFails(c) \/ StreamBroken(c)

CommandNext ==
    \/ ServerExits \/ DeviceLost \/ DeviceBack
    \/ \E c \in DOMAIN job: Steps(c) \/ LaunchFails(c)

\* Processes run, a server that was told to exits, and the device comes back.
CommandFairness ==
    /\ WF_commandvars(ServerExits) /\ WF_commandvars(DeviceBack)
    /\ \A c \in 1 .. 3: WF_commandvars(c \in DOMAIN job /\ Steps(c))

CommandSpec == CommandInit /\ [][CommandNext]_commandvars /\ CommandFairness

-----------------------------------------------------------------------------
(* Properties.                                                             *)

\* Every command ends once the device stays: whatever clients start or kill
\* servers at the same time, send_shellcommand() gets through when no two
\* looping commands are of different versions.
CommandsEnd == <>(\A c \in DOMAIN job: job[c].pc = "done")

\* "adb install" leaves no file on the device, whichever push failed and
\* however often the device or the server went away, unless the connection was
\* lost under one of the "rm" commands, which are not repeated then.
InstallCleansUp ==
    \A c \in DOMAIN job: job[c].pc = "done" /\ ~job[c].cut => \A f \in {"apk", "ver"}: <<c, f>> \notin pushed
=============================================================================
