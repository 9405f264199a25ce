----------------------------- MODULE MCBtDaemon -----------------------------
(***************************************************************************)
(* The attach daemon with its downloads, and the making of the             *)
(* configuration: a behaviour runs one of them while the other rests.      *)
(*                                                                         *)
(* Firmware files of both formats for chip 1: lengths around the fragment  *)
(* size 3, equal and different priorities, parts for another chip.         *)
(***************************************************************************)
EXTENDS BtDaemon, RtbConfig
VARIABLE part

S(eco, priority, len) == [eco |-> eco, priority |-> priority, key |-> 0, len |-> len]
Snippets(opcode, snippets) == [opcode |-> opcode, snippets |-> snippets]
Second(p, m, k, c) ==
    [format |-> 2, config |-> c, chip |-> 1,
     file |-> <<Snippets("snippets", <<S(1, p, m), S(2, 0, 3), S(1, 1, k)>>),
                Snippets("dummy", <<S(1, 0, 2)>>), Snippets("other", <<S(1, 0, 4)>>),
                Snippets("security", <<S(1, 0, 1)>>)>>]

Sec(cut, priority, len, start, secure) ==
    [image |-> TRUE, cut |-> cut, priority |-> priority, len |-> len, start |-> start,
     remain |-> start \/ secure, secure |-> secure]
Unknown == [image |-> FALSE, cut |-> 1, priority |-> 0, len |-> 2, start |-> TRUE,
            remain |-> TRUE, secure |-> FALSE]
Third(p, m, k, s, c) ==
    [format |-> 3, config |-> c, chip |-> 1,
     file |-> <<Sec(1, p, m, TRUE, TRUE), Sec(2, 0, 3, TRUE, TRUE), Sec(1, 1, k, s, TRUE),
                Unknown, Sec(1, 1, 2, TRUE, s), Sec(1, 0, 1, FALSE, TRUE)>>]
Long(c) == [format |-> 3, config |-> c, chip |-> 1, file |-> <<Sec(1, 0, 13, TRUE, FALSE)>>]

MCPatches ==
    {Second(0, 2, 1, 0), Second(1, 5, 3, 4), Second(2, 7, 3, 0), Second(1, 2, 1, 1), Second(0, 0, 1, 4),
     Third(0, 2, 1, FALSE, 1), Third(1, 0, 7, TRUE, 0), Third(2, 6, 1, TRUE, 4), Long(1)}
    \cup {[format |-> f, config |-> 1, chip |-> 1, file |-> <<>>] : f \in {0, 1, 2}}

-----------------------------------------------------------------------------
(* Configuration files: complete ones, a long item, a wrong signature, a   *)
(* wrong length.                                                           *)

Item(ofs, data) == [ofs |-> ofs, data |-> data]
File(entries) == [magic |-> TRUE, high |-> 0, entries |-> entries]
Speed == Item("baud", <<3>>)
Rf    == Item("radio", <<1, 2, 3, 4>>)
MCFiles ==
    {File(<<Speed, Item("flow", <<4>>), Item("mac", <<1, 2>>), Rf>>),
     File(<<Item("flow", <<5>>), Rf, Item("gain", <<9, 9>>), Item("tail", <<1>>)>>),
     File(<<Item("mac", <<7, 8>>), Item("flow", <<3>>)>>),
     File(<<Item("baud", <<2, 4>>)>>),
     [File(<<Speed, Item("flow", <<6>>)>>) EXCEPT !.magic = FALSE],
     [File(<<Speed, Item("flow", <<6>>)>>) EXCEPT !.high = 1]}

Fuse(mac, radio, gain) == [mac |-> mac, radio |-> radio, gain |-> gain]
MCFuses ==
    {Fuse(<<255, 255>>, <<255, 6, 7, 8>>, <<255, 255>>),
     Fuse(<<255, 5>>, <<38, 6, 255, 8>>, <<255, 6>>),
     Fuse(<<4, 5>>, <<2, 6, 7, 8>>, <<4, 6>>)}

-----------------------------------------------------------------------------

\* The daemon could not open its device and has ended.
DaemonIdle ==
    /\ opts = [detach |-> FALSE, mp |-> FALSE]
    /\ pc = "exited"
    /\ fds = [f \in Slots |-> IF f < 3 THEN "std" ELSE "free"] /\ n = 0
    /\ efuse = FALSE /\ baud = "none" /\ ret = 0
    /\ host = "init" /\ ldisc = "tty"
    /\ controller = [power |-> FALSE, speed |-> "init", patched |-> FALSE]
    /\ alarm = FALSE /\ handlers = FALSE /\ canceled = FALSE /\ wakes = FALSE
    /\ revents = "none" /\ hup = FALSE
    /\ hangups = 0 /\ terms = 0
    /\ code = 1
    /\ patch = NoPatch /\ version = 0 /\ dpc = "idle"
    /\ queue = <<>> /\ fw_len = 0 /\ sent_fw_len = 0 /\ sent_config_len = 0
    /\ packet = [index |-> 0, data |-> <<>>] /\ dret = 0
    /\ taken = [log |-> <<>>, applied |-> FALSE]
    /\ cur_index = 0 /\ end_index = 0
    /\ security = 0 /\ writes = <<>>

ConfigIdle ==
    /\ rtbpc = "init" /\ inits = MaxInits /\ mp_mode = FALSE
    /\ fuse = Fuse(<<255, 255>>, <<255, 255, 255, 255>>, <<255, 255>>)
    /\ buf = NoFile /\ list_configs = << >> /\ config_buf = NoConfig
    /\ rtb_cfg = Cleared /\ fw_buf = FALSE

BtInit ==
    \/ part = "daemon" /\ DaemonInit /\ ConfigIdle
    \/ part = "config" /\ DaemonIdle /\ RtbInit

BtNext ==
    \/ part = "daemon" /\ Next /\ UNCHANGED <<rtbvars, part>>
    \/ part = "config" /\ RtbNext /\ UNCHANGED <<daemonVars, part>>

BtSpec ==
    /\ BtInit /\ [][BtNext]_<<daemonVars, rtbvars, part>>
    /\ []<>~Runs \/ []<><<Step>>_daemonVars
=============================================================================
