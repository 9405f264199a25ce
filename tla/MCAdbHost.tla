----------------------------- MODULE MCAdbHost -----------------------------
(***************************************************************************)
(* The adb server on the host, and the adb commands that start it, use it  *)
(* and kill it: a behaviour runs one of them while the other rests.        *)
(***************************************************************************)
EXTENDS AdbHost, AdbCommand
VARIABLE part

MCPort == [t \in {4, 5} |-> 1]
MCWorlds == {{1, 2}, {4, 5}, {2, 4}}

C(cmd, version) == [cmd |-> cmd, version |-> version]
MCRuns == {<<C("install", 1), C("logcat", 1), C("kill", 1)>>,
           <<C("install", 1), C("shell", 2), C("devices", 1)>>,
           <<C("uninstall", 1), C("start", 2), C("wait", 1)>>,
           <<C("logcat", 1), C("reboot", 1), C("wait", 2)>>}

-----------------------------------------------------------------------------

\* A server that no device is ever connected to.
ServerIdle ==
    /\ tr = [t \in Transports |-> [Free EXCEPT !.phase = "absent"]]
    /\ next = [n \in Nodes |-> IF n = None THEN None ELSE -1]
    /\ prev = [n \in Nodes |-> IF n = None THEN None ELSE -1]
    /\ regq = <<>>
    /\ local_transports = [i \in Slots |-> None]
    /\ scan = {}
    /\ listener = [n \in Names |-> NoListener]
    /\ disconnect = [n \in Names |-> None]
    /\ tracker = [k \in Trackers |-> [open |-> FALSE, told |-> {}]]
    /\ waiter = [w \in Waiters |-> [pc |-> "none", t |-> None]]
    /\ smart = [c \in Clients |-> None]
    /\ requests = 0
    /\ wild = FALSE

\* Nobody runs a command.
CommandsIdle ==
    /\ job = <<>> /\ server = NoServer /\ child = <<>>
    /\ online = TRUE /\ faults = 0 /\ pushed = {}

AdbInit ==
    \/ part = "server" /\ HostInit /\ CommandsIdle
    \/ part = "commands" /\ ServerIdle /\ CommandInit

AdbNext ==
    \/ part = "server" /\ HostNext /\ UNCHANGED <<commandvars, part>>
    \/ part = "commands" /\ CommandNext /\ UNCHANGED <<hostvars, part>>

AdbSpec ==
    /\ AdbInit /\ [][AdbNext]_<<hostvars, commandvars, part>>
    /\ WF_hostvars(part = "server" /\ MainRegister)
    /\ WF_hostvars(part = "server" /\ MainRemove)
    /\ \A t \in Transports : /\ WF_hostvars(part = "server" /\ OutputEnds(t))
                             /\ WF_hostvars(part = "server" /\ InputEnds(t))
                             /\ WF_hostvars(part = "server" /\ HandleOffline(t))
    /\ \A w \in Waiters : /\ WF_hostvars(part = "server" /\ WaitScan(w))
                          /\ WF_hostvars(part = "server" /\ WaitChecks(w))
    /\ WF_commandvars(part = "commands" /\ ServerExits)
    /\ WF_commandvars(part = "commands" /\ DeviceBack)
    /\ \A c \in 1 .. 3 :
          WF_commandvars(part = "commands" /\ c \in DOMAIN job /\ Steps(c))
=============================================================================
