----------------------------- MODULE AdbService -----------------------------
(***************************************************************************)
(* The services of adbd and the local sockets that carry their output:     *)
(* service_to_fd() and the threads and processes it starts (services.c,    *)
(* backup_service.c, remount_service.c), the reading half of               *)
(* local_socket_event_func() and local_socket_destroy() (sockets.c), and   *)
(* the socket on which a thread tells the event loop that a shell has      *)
(* exited (fdevent.c).                                                     *)
(*                                                                         *)
(* What these share are the numbers of file descriptors: the thread that   *)
(* waits for a child knows the descriptor of the stream by its number, and *)
(* a number that was closed is given out again.  osfd is the process's     *)
(* descriptor table, fd_table the table of the event loop.  A callback of  *)
(* the event loop is one step; threads and processes run between them.     *)
(***************************************************************************)
EXTENDS Integers, Sequences, FiniteSetsExt

CONSTANTS
    Streams,        \* the streams the host opens
    Kinds,          \* the services to explore: a function from Streams each
    Fds,            \* the numbers of descriptors: enough for every stream
    MaxOut,         \* units of output of one service
    MAX_PAYLOAD     \* units read in one callback

ASSUME ServiceAssumption ==
    /\ Streams \subseteq Nat \ {0} /\ Fds \subseteq Nat
    /\ MaxOut \in Nat /\ MAX_PAYLOAD \in Nat \ {0}

NoFd == -1
None == 0

VARIABLES
    kind,           \* the service of each stream
    sock, num,      \* the local socket: its state, and fde.fd
    want,           \* FDE_READ is wanted: the host is ready for more
    force_eof,      \* fde.force_eof
    fd_table,       \* fd_table[]: the socket registered under a number
    osfd,           \* the kernel's: the open end a number stands for
    holders,        \* who has the far end open: "child", "bg" or "thread"
    tty,            \* output written and not yet read
    wrote, passed,  \* output written, output sent to the host
    waiter,         \* the thread that waits for the child
    notify,         \* the numbers written to SHELL_EXIT_NOTIFY_FD
    system_ro,      \* remount_service.c
    how,            \* history: who closed the stream
    adbd            \* "runs", "fatal" (an assertion of fdevent.c failed) or "exited"

ends == <<holders, tty, wrote>>
servicevars == <<kind, sock, num, want, force_eof, fd_table, osfd, ends, passed,
                 waiter, notify, system_ro, how, adbd>>

Threaded == {"remount", "usb", "reboot"}
Shells == {"shell"}

ServiceInit ==
    /\ kind \in Kinds
    /\ sock = [s \in Streams |-> "none"]
    /\ num = [s \in Streams |-> NoFd]
    /\ want = [s \in Streams |-> FALSE]
    /\ force_eof = [s \in Streams |-> FALSE]
    /\ fd_table = [n \in Fds |-> None]
    /\ osfd = [n \in Fds |-> None]
    /\ holders = [s \in Streams |-> {}]
    /\ tty = [s \in Streams |-> 0]
    /\ wrote = [s \in Streams |-> 0]
    /\ passed = [s \in Streams |-> 0]
    /\ waiter = [s \in Streams |-> "none"]
    /\ notify = <<>>
    /\ system_ro = 1
    /\ how = [s \in Streams |-> "none"]
    /\ adbd = "runs"

-----------------------------------------------------------------------------
(* create_local_service_socket(), called for A_OPEN.                       *)

\* open(), socketpair(): the lowest number that is free, while there is one.
Unused == {n \in Fds: osfd[n] = None}
Lowest == Min(Unused)

\* create_local_socket(): fdevent_install() registers the number, whatever
\* the table holds there.
Install(s, n) ==
    /\ sock' = [sock EXCEPT ![s] = "open"]
    /\ num' = [num EXCEPT ![s] = n]
    /\ want' = [want EXCEPT ![s] = TRUE]
    /\ fd_table' = [fd_table EXCEPT ![n] = s]

Refused(s) ==
    /\ sock' = [sock EXCEPT ![s] = "refused"]
    /\ UNCHANGED <<num, want, fd_table, osfd>>

\* create_subproc_thread(): when create_subprocess() fails the thread that
\* waits is started all the same, with a pid that was never set.
OpenShell(s) ==
    /\ adbd = "runs" /\ sock[s] = "none" /\ kind[s] \in Shells
    /\ \/ /\ Unused # {}
          /\ osfd' = [osfd EXCEPT ![Lowest] = s]
          /\ Install(s, Lowest)
          /\ holders' = [holders EXCEPT ![s] = {"child"}]
          /\ waiter' = [waiter EXCEPT ![s] = "waits"]
       \/ /\ Refused(s)
          /\ waiter' = [waiter EXCEPT ![s] = "astray"]
          /\ UNCHANGED holders
    /\ UNCHANGED <<kind, force_eof, tty, wrote, passed, notify, system_ro, how, adbd>>

\* backup_service(): s[1] is closed once the child has it.
OpenBackup(s) ==
    /\ adbd = "runs" /\ sock[s] = "none" /\ kind[s] = "backup"
    /\ \/ /\ Unused # {}
          /\ osfd' = [osfd EXCEPT ![Lowest] = s]
          /\ Install(s, Lowest)
          /\ holders' = [holders EXCEPT ![s] = {"child"}]
          /\ waiter' = [waiter EXCEPT ![s] = "waits"]
       \/ Refused(s) /\ UNCHANGED <<holders, waiter>>
    /\ UNCHANGED <<kind, force_eof, tty, wrote, passed, notify, system_ro, how, adbd>>

\* create_service_thread(): the other end of the pair belongs to the thread.
FarEnd(s) == -s
OpenThread(s) ==
    /\ adbd = "runs" /\ sock[s] = "none" /\ kind[s] \in Threaded
    /\ \/ LET n == Lowest
              m == Min(Unused \ {n}) IN
          /\ Unused \ {n} # {}
          /\ osfd' = [osfd EXCEPT ![n] = s, ![m] = FarEnd(s)]
          /\ Install(s, n)
          /\ holders' = [holders EXCEPT ![s] = {"thread"}]
       \/ Refused(s) /\ UNCHANGED holders
    /\ UNCHANGED <<kind, force_eof, tty, wrote, passed, waiter, notify, system_ro, how, adbd>>

-----------------------------------------------------------------------------
(* Threads and processes.                                                  *)

Writes1(s) ==
    /\ wrote[s] < MaxOut
    /\ tty' = [tty EXCEPT ![s] = @ + 1]
    /\ wrote' = [wrote EXCEPT ![s] = @ + 1]

Alive(s) == s \in {osfd[n]: n \in Fds}      \* adbd still holds the near end

ProcessWrites(s) ==
    /\ adbd = "runs" /\ holders[s] \cap {"child", "bg"} # {} /\ Alive(s)
    /\ Writes1(s)
    /\ UNCHANGED <<kind, sock, num, want, force_eof, fd_table, osfd, holders, passed,
                   waiter, notify, system_ro, how, adbd>>

\* The shell leaves a process behind that keeps the terminal open.
ForksBackground(s) ==
    /\ adbd = "runs" /\ kind[s] \in Shells /\ "child" \in holders[s]
    /\ holders' = [holders EXCEPT ![s] = @ \cup {"bg"}]
    /\ UNCHANGED <<kind, sock, num, want, force_eof, fd_table, osfd, tty, wrote, passed,
                   waiter, notify, system_ro, how, adbd>>

ProcessExits(s, p) ==
    /\ adbd = "runs" /\ p \in holders[s] \cap {"child", "bg"}
    /\ holders' = [holders EXCEPT ![s] = @ \ {p}]
    /\ UNCHANGED <<kind, sock, num, want, force_eof, fd_table, osfd, tty, wrote, passed,
                   waiter, notify, system_ro, how, adbd>>

Exited(s) == "child" \notin holders[s]

\* subproc_waiter_service(): waitpid(), then the number of the descriptor.
ShellReaped(s) ==
    /\ adbd = "runs" /\ kind[s] \in Shells /\ waiter[s] = "waits" /\ Exited(s)
    /\ waiter' = [waiter EXCEPT ![s] = "tells"]
    /\ UNCHANGED <<kind, sock, num, want, force_eof, fd_table, osfd, ends, passed,
                   notify, system_ro, how, adbd>>

ShellExitTold(s) ==
    /\ adbd = "runs" /\ waiter[s] = "tells"
    /\ notify' = Append(notify, num[s])
    /\ waiter' = [waiter EXCEPT ![s] = "gone"]
    /\ UNCHANGED <<kind, sock, num, want, force_eof, fd_table, osfd, ends, passed,
                   system_ro, how, adbd>>

\* The thread with a pid that was never set may reap the child of another
\* stream, whose own thread then waits for ever.
StrayReaps(s, t) ==
    /\ adbd = "runs" /\ waiter[s] = "astray" /\ waiter[t] = "waits" /\ Exited(t)
    /\ waiter' = [waiter EXCEPT ![s] = "tells", ![t] = "lost"]
    /\ UNCHANGED <<kind, sock, num, want, force_eof, fd_table, osfd, ends, passed,
                   notify, system_ro, how, adbd>>

\* backup_child_waiter(): closes the number, which is the local socket's too.
BackupReaped(s) ==
    /\ adbd = "runs" /\ kind[s] = "backup" /\ waiter[s] = "waits" /\ Exited(s)
    /\ osfd' = [osfd EXCEPT ![num[s]] = None]
    /\ waiter' = [waiter EXCEPT ![s] = "gone"]
    /\ UNCHANGED <<kind, sock, num, want, force_eof, fd_table, ends, passed,
                   notify, system_ro, how, adbd>>

\* remount_system(): once it has worked it is not done again.
Remounts == IF system_ro = 0 THEN {0} ELSE {0, -1}

\* remount_service(), restart_usb_service(), restart_tcp_service(),
\* restart_root_service(), reboot_service(): at most one message, which the
\* reboot sends only when it failed.
ThreadAnswers(s) ==
    /\ adbd = "runs" /\ "thread" \in holders[s] /\ wrote[s] = 0
    /\ Writes1(s)
    /\ IF kind[s] = "remount" THEN system_ro' \in Remounts ELSE UNCHANGED system_ro
    /\ UNCHANGED <<kind, sock, num, want, force_eof, fd_table, osfd, holders, passed,
                   waiter, notify, how, adbd>>

ThreadCloses(s) ==
    /\ adbd = "runs" /\ "thread" \in holders[s]
    /\ wrote[s] = 1 \/ kind[s] = "reboot"
    /\ holders' = [holders EXCEPT ![s] = {}]
    /\ osfd' = [n \in Fds |-> IF osfd[n] = FarEnd(s) THEN None ELSE osfd[n]]
    /\ UNCHANGED <<kind, sock, num, want, force_eof, fd_table, tty, wrote, passed,
                   waiter, notify, system_ro, how, adbd>>

-----------------------------------------------------------------------------
(* The event loop.                                                         *)

\* local_socket_close(), local_socket_destroy() and fdevent_unregister(): the
\* number is closed, whatever it stands for by now.
CloseSocket(s, by) ==
    IF fd_table[num[s]] # s
    THEN /\ adbd' = "fatal"
         /\ UNCHANGED <<sock, want, fd_table, osfd, how>>
    ELSE /\ sock' = [sock EXCEPT ![s] = "closed"]
         /\ want' = [want EXCEPT ![s] = FALSE]
         /\ fd_table' = [fd_table EXCEPT ![num[s]] = None]
         /\ osfd' = [osfd EXCEPT ![num[s]] = None]
         /\ how' = [how EXCEPT ![s] = by]
         /\ adbd' = IF kind[s] = "usb" THEN "exited" ELSE adbd

\* The far end of a terminal or socket pair is closed.
AtEnd(o) == holders[o] = {}

\* Mutant: the forced end of file is taken although data is still there.
EofIfForced(s, o) == force_eof[s] \/ (AtEnd(o) /\ tty[o] < MAX_PAYLOAD)

\* The reading loop ends at MAX_PAYLOAD, at EAGAIN or at the end of file, which
\* a read after the last unit meets in the same callback.
\* force_eof asks for r to be 0, and r is what the last read (-1) or the
\* enqueue() of the remote socket (1) returned.
EndSeen(s, o) == AtEnd(o) /\ tty[o] < MAX_PAYLOAD

\* local_socket_event_func() for FDE_READ: o is the open end that the number
\* stands for.  A number that is closed reads as an error.
ReadEvent(s) ==
    LET o == osfd[num[s]] IN
    IF o = None THEN CloseSocket(s, "error") /\ UNCHANGED <<tty, passed>>
    ELSE LET k == Min({tty[o], MAX_PAYLOAD}) IN
         /\ tty' = [tty EXCEPT ![o] = @ - k]
         /\ passed' = [passed EXCEPT ![s] = @ + k]
         /\ IF EndSeen(s, o) THEN CloseSocket(s, "end")
            ELSE /\ want' = IF k > 0 THEN [want EXCEPT ![s] = FALSE] ELSE want
                 /\ UNCHANGED <<sock, fd_table, osfd, how, adbd>>

\* Mutant: only data is waited for.
ReportedData(s) ==
    LET o == osfd[num[s]] IN want[s] /\ (o = None \/ (o > 0 /\ tty[o] > 0))

\* select() reports a number that has data or is at its end; one that is
\* closed makes it fail with EBADF, and fdevent_fd_check() fakes a read.
Reported(s) ==
    LET o == osfd[num[s]] IN
    want[s] /\ (o = None \/ (o > 0 /\ (tty[o] > 0 \/ AtEnd(o))))

LocalSocketReads(s) ==
    /\ adbd = "runs" /\ sock[s] = "open" /\ fd_table[num[s]] = s /\ Reported(s)
    /\ ReadEvent(s)
    /\ UNCHANGED <<kind, num, force_eof, holders, wrote, waiter, notify, system_ro>>

\* fdevent_subproc_event_func(): marks whatever is registered under the
\* number now, and calls its handler when nothing can be read there.
ShellExitHeard ==
    /\ adbd = "runs" /\ notify # <<>>
    /\ notify' = Tail(notify)
    /\ LET n == Head(notify)
           s == IF n = NoFd THEN None ELSE fd_table[n] IN
       IF s = None
       THEN UNCHANGED <<sock, want, force_eof, fd_table, osfd, tty, passed, how, adbd>>
       ELSE /\ force_eof' = [force_eof EXCEPT ![s] = TRUE]
            /\ IF osfd[n] > 0 /\ tty[osfd[n]] > 0
               THEN UNCHANGED <<sock, want, fd_table, osfd, tty, passed, how, adbd>>
               ELSE ReadEvent(s)
    /\ UNCHANGED <<kind, num, holders, wrote, waiter, system_ro>>

\* A_OKAY from the host: local_socket_ready().
HostReady(s) ==
    /\ adbd = "runs" /\ sock[s] = "open" /\ ~want[s]
    /\ want' = [want EXCEPT ![s] = TRUE]
    /\ UNCHANGED <<kind, sock, num, force_eof, fd_table, osfd, ends, passed, waiter,
                   notify, system_ro, how, adbd>>

\* Mutant: the socket is destroyed and stays in the list of sockets.
DestroyedStaysListed(s) ==
    /\ adbd = "runs" /\ sock[s] = "open"
    /\ IF fd_table[num[s]] # s
       THEN adbd' = "fatal" /\ UNCHANGED <<fd_table, osfd, how>>
       ELSE /\ fd_table' = [fd_table EXCEPT ![num[s]] = None]
            /\ osfd' = [osfd EXCEPT ![num[s]] = None]
            /\ how' = [how EXCEPT ![s] = "host"]
            /\ UNCHANGED adbd
    /\ UNCHANGED <<sock, want>>
    /\ UNCHANGED <<kind, num, force_eof, ends, passed, waiter, notify, system_ro>>

\* A_CLSE from the host.
HostCloses(s) ==
    /\ adbd = "runs" /\ sock[s] = "open"
    /\ CloseSocket(s, "host")
    /\ UNCHANGED <<kind, num, force_eof, ends, passed, waiter, notify, system_ro>>

Main ==
    \/ ShellExitHeard
    \/ \E s \in Streams: OpenShell(s) \/ OpenBackup(s) \/ OpenThread(s) \/ LocalSocketReads(s)

ServiceNext ==
    \/ Main
    \/ \E s \in Streams:
          \/ ProcessWrites(s) \/ ForksBackground(s)
          \/ ProcessExits(s, "child") \/ ProcessExits(s, "bg")
          \/ ShellReaped(s) \/ ShellExitTold(s) \/ BackupReaped(s)
          \/ ThreadAnswers(s) \/ ThreadCloses(s)
          \/ HostReady(s) \/ HostCloses(s)
          \/ \E t \in Streams: StrayReaps(s, t)

\* The event loop and the threads run; the host acknowledges what it gets.
\* Nothing makes a process exit or the host close.
ServiceFairness ==
    /\ WF_servicevars(ShellExitHeard)
    /\ \A s \in Streams:
          /\ WF_servicevars(LocalSocketReads(s))
          /\ WF_servicevars(ShellReaped(s) \/ ShellExitTold(s))
          /\ WF_servicevars(BackupReaped(s))
          /\ WF_servicevars(ThreadAnswers(s)) /\ WF_servicevars(ThreadCloses(s))
          /\ WF_servicevars(HostReady(s))

ServiceSpec == ServiceInit /\ [][ServiceNext]_servicevars /\ ServiceFairness

-----------------------------------------------------------------------------
(* Properties.                                                             *)

\* adbd closes the stream of a shell or of a thread on its own only when all
\* of its output was sent: no late notice of a shell's exit, for this number
\* or for the stream that had it before, cuts the output short ("Don't allow
\* a forced eof if data is still there", sockets.c:374).
AllOutput ==
    \A s \in Streams: kind[s] # "backup" /\ how[s] \in {"end", "error"} =>
       passed[s] = wrote[s] /\ holders[s] = {}

\* The test of fdevent_unregister(): "fd_table out of sync" (fdevent.c:463).
RegistrationKept == adbd # "fatal"

\* A stream whose service has ended is closed, also when its output waited
\* for the host or the thread that waits for the child was misled.
EndedIsClosed ==
    \A s \in Streams:
       sock[s] = "open" /\ holders[s] = {} ~> sock[s] = "closed" \/ adbd # "runs"

\* Whatever races, adbd loses no output of a service and keeps its table of
\* descriptors (services.c:330-420, sockets.c:330-380).
ShellsKept == AllOutput /\ RegistrationKept
=============================================================================
