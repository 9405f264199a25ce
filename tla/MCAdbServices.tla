--------------------------- MODULE MCAdbServices ---------------------------
(***************************************************************************)
(* The services of adbd: file transfers with the host's sync client, and   *)
(* the shells and threads that end and are closed.  A behaviour runs one   *)
(* of the two while the other rests.                                       *)
(***************************************************************************)
EXTENDS AdbSync, AdbService
VARIABLE part

Do(c, f) == [do |-> c, f |-> f]
MCChunks == [f \in {"a", "b"} |-> IF f = "a" THEN 2 ELSE 1]
MCFound == {w \in [{"a", "b"} -> {"absent", "same", "stale", "longer"}]:
               w["b"] = IF w["a"] = "absent" THEN "absent" ELSE "stale"}
MCPlans == {<<Do("push", "a"), Do("sync", "dir")>>,
            <<Do("pushdir", "dir"), Do("pulldir", "dir")>>, <<Do("pull", "a"), Do("ls", "dir")>>,
            <<Do("push", "a"), Do("synclist", "dir")>>}

MCKinds == {<<"shell", "shell">>, <<"shell", "remount">>, <<"usb", "shell">>,
            <<"reboot", "remount">>, <<"backup", "none">>}

-----------------------------------------------------------------------------

\* The last run of the client has ended, without a file on the device.
SyncIdle ==
    /\ plan = <<Do("push", "a"), Do("push", "a")>>
    /\ run = 2 /\ cpc = "exited"
    /\ list = <<>> /\ answers = <<>> /\ skip = {} /\ cur = "none" /\ sent = 0
    /\ code = [r \in Run |-> "none"]
    /\ host = [f \in File |-> Host(f)]
    /\ req = [r \in Run |-> <<>>] /\ ans = [r \in Run |-> <<>>]
    /\ link = [r \in Run |-> "none"]
    /\ svc = [r \in Run |-> Idle]
    /\ path = [f \in File |-> NoInode]
    /\ inode = [n \in (0..2) \X File |-> Absent]
    /\ faults = 0 /\ short = {} /\ kept = {} /\ alone = TRUE

\* Nobody has opened a service.
ServicesIdle ==
    /\ kind = <<"shell", "none">>
    /\ sock = [s \in Streams |-> "none"]
    /\ num = [s \in Streams |-> NoFd]
    /\ want = [s \in Streams |-> FALSE]
    /\ force_eof = [s \in Streams |-> FALSE]
    /\ fd_table = [n \in Fds |-> None]
    /\ osfd = [n \in Fds |-> None]
    /\ holders = [s \in Streams |-> {}]
    /\ tty = [s \in Streams |-> 0]
    /\ wrote = [s \in Streams |-> 0]
    /\ passed = [s \in Streams |-> 0]
    /\ waiter = [s \in Streams |-> "none"]
    /\ notify = <<>>
    /\ system_ro = 1
    /\ how = [s \in Streams |-> "none"]
    /\ adbd = "runs"

DeviceInit ==
    \/ part = "sync" /\ SyncInit /\ ServicesIdle
    \/ part = "service" /\ SyncIdle /\ ServiceInit

DeviceNext ==
    \/ part = "sync" /\ SyncNext /\ UNCHANGED <<servicevars, part>>
    \/ part = "service" /\ ServiceNext /\ UNCHANGED <<syncvars, part>>

DeviceSpec ==
    /\ DeviceInit /\ [][DeviceNext]_<<syncvars, servicevars, part>>
    /\ WF_syncvars(part = "sync" /\ ClientSteps)
    /\ \A r \in Run : WF_syncvars(part = "sync" /\ ServiceSteps(r))
    /\ WF_servicevars(part = "service" /\ ShellExitHeard)
    /\ \A s \in Streams :
          /\ WF_servicevars(part = "service" /\ LocalSocketReads(s))
          /\ WF_servicevars(part = "service" /\ (ShellReaped(s) \/ ShellExitTold(s)))
          /\ WF_servicevars(part = "service" /\ BackupReaped(s))
          /\ WF_servicevars(part = "service" /\ ThreadAnswers(s))
          /\ WF_servicevars(part = "service" /\ ThreadCloses(s))
          /\ WF_servicevars(part = "service" /\ HostReady(s))

\* A transfer comes to its end at both ends (file_sync_client.c,
\* file_sync_service.c), and a service that ends on its own has its stream
\* closed (services.c:330-420).
ServicesEnd == SyncEnds /\ EndedIsClosed
=============================================================================
