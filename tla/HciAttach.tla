----------------------------- MODULE HciAttach -----------------------------
(***************************************************************************)
(* The attach daemon (hciattach.c, rtb_init and rtb_config of              *)
(* hciattach_rtk.c): it opens the serial port, powers the controller on,   *)
(* changes the speed, downloads the patch, hands the port to the kernel's  *)
(* HCI line discipline, and then waits: a hang-up makes it reset the       *)
(* controller and start over, SIGTERM and SIGINT make it power off and     *)
(* end.  The controller, the kernel and the senders of signals are         *)
(* external.                                                               *)
(***************************************************************************)
EXTENDS Naturals, FiniteSets

CONSTANTS
    OpenMax,    \* descriptors the process may have open
    CloseMax,   \* descriptors a detached child closes (20)
    MaxHangups, \* bound: hang-ups of the port
    MaxTerms    \* bound: SIGTERM and SIGINT

ASSUME AttachAssumption ==
    /\ OpenMax \in Nat /\ OpenMax > 3 /\ CloseMax \in Nat
    /\ MaxHangups \in Nat /\ MaxTerms \in Nat

VARIABLES
    opts,           \* [detach, mp]: the options -n and -m
    pc,
    fds, n,         \* open descriptors and what they are; the port's
    efuse,          \* hci_phy_efuse is not NULL
    baud,           \* the speed of the configuration file: "none", "init" or "fast"
    ret,            \* rtb_config's ret after the download
    host, ldisc,    \* the port's speed and line discipline
    controller,     \* [power, speed, patched]
    alarm, handlers, canceled, revents,
    hup, wakes,     \* the port has hung up; a signal interrupted ppoll and the loop ends
    hangups, terms,
    code            \* the exit status

program == <<fds, n, efuse, baud, ret, host, ldisc, revents, code>>
signals == <<alarm, handlers, canceled, wakes>>
env == <<hup, hangups, terms>>
vars == <<opts, pc, fds, n, efuse, baud, ret, host, ldisc, controller, alarm, handlers, canceled,
          revents, hup, wakes, hangups, terms, code>>

Slots == 0 .. OpenMax - 1
Starting == {"start", "power", "ident", "files", "baud", "download", "iqk", "reset", "mp",
             "attach", "setup"}
Waiting == {"check", "armed", "blocked"}

\* The variables keep their types; the port's descriptor is open while the daemon waits.
TypeOK ==
    /\ opts \in [detach : BOOLEAN, mp : BOOLEAN]
    /\ pc \in Starting \cup Waiting \cup {"leave", "recover", "deinit", "close", "exited"}
    /\ fds \in [Slots -> {"free", "std", "tty", "epoll"}] /\ n \in Slots
    /\ efuse \in BOOLEAN /\ baud \in {"none", "init", "fast"}
    /\ ret \in {0, 2, 255}
    /\ host \in {"init", "fast"} /\ ldisc \in {"tty", "hci"}
    /\ controller \in [power : BOOLEAN, speed : {"init", "fast"}, patched : BOOLEAN]
    /\ alarm \in BOOLEAN /\ handlers \in BOOLEAN /\ canceled \in BOOLEAN /\ wakes \in BOOLEAN
    /\ revents \in {"none", "hup"} /\ hup \in BOOLEAN
    /\ hangups \in 0 .. MaxHangups /\ terms \in 0 .. MaxTerms
    /\ code \in 0 .. 1
    /\ pc \in Waiting => fds[n] = "tty" /\ ldisc = "hci" /\ handlers

\* p.revents is not initialised.
Init ==
    /\ opts \in [detach : BOOLEAN, mp : BOOLEAN]
    /\ pc = "start"
    /\ fds = [f \in Slots |-> IF f < 3 THEN "std" ELSE "free"] /\ n = 0
    /\ efuse = FALSE /\ baud = "none" /\ ret = 0
    /\ host = "init" /\ ldisc = "tty"
    /\ controller = [power |-> FALSE, speed |-> "init", patched |-> FALSE]
    /\ alarm = FALSE /\ handlers = FALSE /\ canceled = FALSE /\ wakes = FALSE
    /\ revents \in {"none", "hup"} /\ hup = FALSE
    /\ hangups = 0 /\ terms = 0
    /\ code = 0

Exit(c) == code' = c /\ pc' = "exited"

\* The first step of a failing branch that ends the program with exit(1).
GiveUp(here) ==
    /\ pc = here
    /\ Exit(1)
    /\ UNCHANGED <<opts, fds, n, efuse, baud, ret, host, ldisc, controller, revents, signals, env>>

-----------------------------------------------------------------------------
(* Initialisation: init_uart, rtb_init and rtb_config.                     *)

Free == {f \in Slots : fds[f] = "free"}
Least(s) == CHOOSE f \in s : \A g \in s : f <= g

\* The alarm is set, the port opened at its initial speed, epoll created; the OTP may be missing.
Start ==
    /\ pc = "start" /\ Cardinality(Free) >= 2
    /\ LET f == Least(Free) IN
          /\ n' = f
          /\ fds' = [fds EXCEPT ![f] = "tty", ![Least(Free \ {f})] = "epoll"]
    /\ \E e \in BOOLEAN : efuse' = e
    /\ host' = "init" /\ ldisc' = "tty" /\ hup' = FALSE /\ alarm' = TRUE
    /\ pc' = "power"
    /\ UNCHANGED <<opts, baud, ret, controller, handlers, canceled, revents, wakes, hangups,
                   terms, code>>

\* The power request: a controller that was off starts without a patch, at its initial speed.
PowerOn ==
    /\ pc = "power"
    /\ controller' = IF controller.power THEN controller
                     ELSE [power |-> TRUE, speed |-> "init", patched |-> FALSE]
    /\ pc' = "ident"
    /\ UNCHANGED <<opts, program, signals, env>>

\* A command is answered only when both ends have the same speed; otherwise it times out.
Heard == host = controller.speed

\* The steps that wait for an answer.
Expects ==
    /\ pc \in {"ident", "baud", "iqk", "reset", "mp"}
    /\ pc = "baud" => baud = "fast"
    /\ pc = "iqk" => efuse
    /\ pc = "reset" => ret = 0
    /\ pc = "mp" => opts.mp /\ baud # "init"

TriesAgain ==
    /\ Expects
    /\ pc' = "power"
    /\ UNCHANGED <<opts, program, controller, signals, env>>

\* start_xfer_wait without an answer within a second calls exit.
TimesOut ==
    /\ Expects
    /\ Exit(1)
    /\ UNCHANGED <<opts, fds, n, efuse, baud, ret, host, ldisc, controller, revents, signals, env>>

\* The versions name a known chip; whether the second read succeeds is not looked at.
Identify ==
    /\ pc = "ident" /\ Heard
    /\ pc' = "files"
    /\ UNCHANGED <<opts, program, controller, signals, env>>

\* The configuration (its speed, or none when it cannot be read) and the firmware.
ReadFiles ==
    /\ pc = "files"
    /\ \E b \in {"none", "init", "fast"} : baud' = b
    /\ pc' = "baud"
    /\ UNCHANGED <<opts, fds, n, efuse, ret, host, ldisc, controller, revents, signals, env, code>>

\* change_baud: whether the controller took the new speed is not looked at.
ChangeBaud ==
    /\ pc = "baud"
    /\ IF baud = "fast"
       THEN /\ Heard
            /\ \/ controller' = [controller EXCEPT !.speed = "fast"]
               \/ UNCHANGED controller
            /\ host' = "fast"
       ELSE UNCHANGED <<controller, host>>
    /\ pc' = "download"
    /\ UNCHANGED <<opts, fds, n, efuse, baud, ret, ldisc, revents, signals, env, code>>

\* The download ends with result r, and the controller has applied the patch or not.
DownloadReturns(r, applied) ==
    /\ pc = "download"
    /\ ret' = r
    /\ controller' = [controller EXCEPT !.patched = applied]
    /\ pc' = "iqk"
    /\ UNCHANGED <<opts, fds, n, efuse, baud, host, ldisc, revents, signals, env, code>>

\* start_xfer_wait ends the program within the download.
DownloadExits ==
    /\ pc = "download"
    /\ Exit(1)
    /\ UNCHANGED <<opts, fds, n, efuse, baud, ret, host, ldisc, controller, revents, signals, env>>

\* h4_write_iqk when the OTP was read; its result is not looked at.
WriteIqk ==
    /\ pc = "iqk" /\ (efuse => Heard)
    /\ pc' = "reset"
    /\ UNCHANGED <<opts, program, controller, signals, env>>

\* The HCI reset after a result of 0, and only then.
HciReset ==
    /\ pc = "reset" /\ (ret = 0 => Heard)
    /\ pc' = "mp"
    /\ UNCHANGED <<opts, program, controller, signals, env>>

\* In MP mode the speed goes back to the initial one.
MpSpeed ==
    /\ pc = "mp"
    /\ IF opts.mp /\ baud # "init"
       THEN /\ Heard
            /\ \/ controller' = [controller EXCEPT !.speed = "init"]
               \/ UNCHANGED controller
            /\ host' \in {"init", host}
       ELSE UNCHANGED <<controller, host>>
    /\ pc' = "attach"
    /\ UNCHANGED <<opts, fds, n, efuse, baud, ret, ldisc, revents, signals, env, code>>

\* init_uart sets the line discipline, except in MP mode.
Attach ==
    /\ pc = "attach"
    /\ ldisc' = IF opts.mp THEN ldisc ELSE "hci"
    /\ pc' = "setup"
    /\ UNCHANGED <<opts, fds, n, efuse, baud, ret, host, controller, revents, signals, env, code>>

\* main after init_uart: the alarm off, the handlers; the child that stays closes its descriptors.
Setup ==
    /\ pc = "setup"
    /\ alarm' = FALSE /\ handlers' = TRUE
    /\ fds' = IF opts.detach
              THEN [f \in Slots |-> IF f < CloseMax /\ f # n THEN "free" ELSE fds[f]]
              ELSE fds
    /\ pc' = IF opts.mp THEN "close" ELSE "check"
    /\ UNCHANGED <<opts, n, efuse, baud, ret, host, ldisc, controller, canceled, revents,
                   wakes, env, code>>

\* An error of a call or of the controller on the way: init_uart returns -1.
InitFails ==
    /\ pc = "baud" => baud = "fast"
    /\ pc = "reset" => ret = 0
    /\ pc = "mp" => opts.mp
    /\ pc = "attach" => ~opts.mp
    /\ \E here \in Starting \ {"download", "iqk", "setup"} : GiveUp(here)

-----------------------------------------------------------------------------
(* The wait.                                                               *)

\* The loop's test; only a turn of the loop clears revents.
Check ==
    /\ pc = "check"
    /\ pc' = IF canceled THEN "leave" ELSE "armed"
    /\ revents' = IF canceled THEN revents ELSE "none"
    /\ UNCHANGED <<opts, fds, n, efuse, baud, ret, host, ldisc, controller, signals, env, code>>

\* ppoll returns when the port has hung up, and otherwise blocks.
Ppoll ==
    /\ pc \in {"armed", "blocked"}
    /\ IF hup THEN revents' = "hup" /\ pc' = "leave"
              ELSE pc = "armed" /\ pc' = "blocked" /\ UNCHANGED revents
    /\ UNCHANGED <<opts, fds, n, efuse, baud, ret, host, ldisc, controller, signals, env, code>>

LeaveWithoutRecovery ==
    /\ pc = "leave"
    /\ ldisc' = "tty"
    /\ pc' = "deinit"
    /\ UNCHANGED <<opts, fds, n, efuse, baud, ret, host, controller, revents, signals, env, code>>

\* The line discipline is restored; a hang-up leads to the recovery.
Leave ==
    /\ pc = "leave"
    /\ ldisc' = "tty"
    /\ pc' = IF revents = "hup" THEN "recover" ELSE "deinit"
    /\ UNCHANGED <<opts, fds, n, efuse, baud, ret, host, controller, revents, signals, env, code>>

LeaveFails == GiveUp("leave")

\* reset_bluetooth switches the controller off and on again, or fails; then start over.
Recover ==
    /\ pc = "recover"
    /\ \/ controller' = [power |-> TRUE, speed |-> "init", patched |-> FALSE]
       \/ controller' = [controller EXCEPT !.power = FALSE]
       \/ UNCHANGED controller
    /\ pc' = "start"
    /\ UNCHANGED <<opts, program, signals, env>>

\* rtb_deinit.
Deinit ==
    /\ pc = "deinit"
    /\ controller' = [controller EXCEPT !.power = FALSE] \/ UNCHANGED controller
    /\ pc' = "close"
    /\ UNCHANGED <<opts, program, signals, env>>

Close ==
    /\ pc = "close"
    /\ fds' = [fds EXCEPT ![n] = "free"]
    /\ Exit(0)
    /\ UNCHANGED <<opts, n, efuse, baud, ret, host, ldisc, controller, revents, signals, env>>

-----------------------------------------------------------------------------
(* Signals and the port.                                                   *)

Hangup ==
    /\ pc \in Waiting /\ ~hup /\ hangups < MaxHangups
    /\ hup' = TRUE /\ hangups' = hangups + 1
    /\ UNCHANGED <<opts, pc, program, controller, signals, terms>>

\* sig_term, or the default action before the handler is installed.  ppoll is interrupted only
\* when it has blocked.
Term ==
    /\ pc # "exited" /\ terms < MaxTerms
    /\ terms' = terms + 1
    /\ IF handlers
       THEN /\ canceled' = TRUE
            /\ wakes' = (wakes \/ pc = "blocked")
            /\ pc' = IF pc = "blocked" THEN "check" ELSE pc
            /\ UNCHANGED code
       ELSE Exit(1) /\ UNCHANGED <<canceled, wakes>>
    /\ UNCHANGED <<opts, fds, n, efuse, baud, ret, host, ldisc, controller, alarm, handlers,
                   revents, hup, hangups>>

\* sig_alarm.
Alarm ==
    /\ alarm /\ pc # "exited"
    /\ Exit(1)
    /\ UNCHANGED <<opts, fds, n, efuse, baud, ret, host, ldisc, controller, revents, signals, env>>

AttachStep ==
    \/ Start \/ PowerOn \/ TimesOut \/ Identify \/ ChangeBaud
    \/ WriteIqk \/ HciReset \/ MpSpeed \/ Attach \/ Setup \/ InitFails
    \/ Check \/ Ppoll \/ Leave \/ LeaveFails \/ Recover \/ Deinit \/ Close

-----------------------------------------------------------------------------
(* Properties.                                                             *)

\* A normal end leaves the port closed and with the terminal's line discipline; nothing but a
\* signal ends a daemon normally, except in MP mode.
CleanExit ==
    pc = "exited" /\ code = 0 =>
        /\ fds[n] = "free" /\ ldisc = "tty"
        /\ ~opts.mp => canceled

\* rtb_config returns 0 only when the controller has the patch ("Returns 0 on success").
SuccessIsPatched == pc \in {"attach", "setup"} => controller.patched

\* A recovery ends: the initialisation it starts reaches the wait again or ends the daemon
\* (goto start; start_xfer_wait and its timeouts).
RecoveryEnds == pc = "recover" ~> pc \in Waiting \cup {"exited"}

\* The daemon recovers, and when it ends normally it leaves the port as it found it
\* (hciattach.c:540-640).
DaemonEnds == []CleanExit /\ RecoveryEnds
=============================================================================
