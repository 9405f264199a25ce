------------------------------ MODULE MCSerial ------------------------------
(***************************************************************************)
(* The programs that talk over a serial line: the RCP tool, the decoder of *)
(* the frames it reads, and the captouch daemon.  A behaviour runs one of  *)
(* them while the others rest.                                             *)
(*                                                                         *)
(* The tool has two rates, RCPs of two kinds, and updates with up to four  *)
(* images of up to two blocks. The decoder has the frame check sequence of *)
(* the code: sFcsTable holds, for every byte, eight steps of the shift     *)
(* register with the polynomial 0x8408. The daemon has two channels, one   *)
(* of which cannot be tuned, and a few sessions of the PC tool.            *)
(***************************************************************************)
EXTENDS RcpTool, HdlcDecoder, CapTouch, TLC
LOCAL INSTANCE Bitwise
VARIABLE part

Conf(i, f, b, r) == [ic |-> i, flow |-> f, baud |-> b, rest |-> r]
MCConfigs == {Conf(1, TRUE, 1, 1), Conf(1, FALSE, 2, 1), Conf(1, TRUE, 3, 1), Conf(1, FALSE, 1, 2),
              Conf(2, TRUE, 1, 1)}
MCConfigBins == {Conf(1, TRUE, 1, 1)}
MCTable == <<1, 2>>

Bin(i, n) == [offer |-> TRUE, src |-> TRUE, image |-> i, blocks |-> n]
Unreadable == [offer |-> FALSE, src |-> TRUE, image |-> "other", blocks |-> 1]
OfferOnly  == [offer |-> TRUE, src |-> FALSE, image |-> "other", blocks |-> 0]

Job(cmd, l, f, d, r) == [cmd |-> cmd, bins |-> l, force |-> f, dual |-> d, direct |-> r]
MCJobs == {Job("update", <<Bin("boot", 2), Bin("other", 1), OfferOnly>>, FALSE, FALSE, TRUE),
           Job("update", <<Unreadable, Bin("data1", 1), Bin("other", 2)>>, TRUE, FALSE, FALSE),
           Job("update", <<Bin("other", 2)>>, FALSE, TRUE, TRUE),
           Job("update", [k \in 1 .. 4 |-> Bin("other", 1)], FALSE, TRUE, FALSE),
           Job("version", <<>>, FALSE, TRUE, FALSE)}

-----------------------------------------------------------------------------

ShiftStep(x, k) == IF x % 2 = 1 THEN (x \div 2) ^^ 33800 ELSE x \div 2

Table == [b \in Byte |-> FoldLeft(ShiftStep, b, <<1, 2, 3, 4, 5, 6, 7, 8>>)]

ByteXor(a, b) == a ^^ b

\* Bytes of every kind the framing tells apart.
ShortPayloads == {<<133>>, <<126>>, <<17, 133>>}
\* Nothing, plain bytes, a stray flag, a stray escape.
LineNoises == {<<>>, <<0>>, <<126, 0>>, <<126, 125>>}

-----------------------------------------------------------------------------

\* Channel 0 is on target with a bias of 1; channel 1 is always above it.
MCSensor == (0 :> [ok |-> 1, high |-> 2]) @@ (1 :> [ok |-> 0, high |-> 0])

Tune(c) == [type |-> "tune", ch |-> c]
Config == [type |-> "config_ch", ch |-> 1, mbias |-> 1, th |-> 1, enable |-> TRUE]
Start(set) == [type |-> "start", set |-> set]
Stop == [type |-> "stop"]

\* A long session of one channel; a short one of both; stops and restarts; and
\* commands that need no monitoring.
MCSessions ==
    {[commands |-> <<Start({1}), Tune(0), Stop>>, ticks |-> 3],
     [commands |-> <<Start({0, 1}), Config>>, ticks |-> 2],
     [commands |-> <<Start({1}), Stop, Stop, Start({1})>>, ticks |-> 2],
     [commands |-> <<Start({0}), Start({1})>>, ticks |-> 2],
     [commands |-> <<[type |-> "config", val |-> 1], Tune(1), [type |-> "query_ch", ch |-> 0],
                     [type |-> "reset"], [type |-> "other"]>>,
      ticks |-> 0]}

-----------------------------------------------------------------------------

\* The tool has returned without a word from the RCP.
ToolIdle ==
    /\ pc = "done"
    /\ tries = MaxTries /\ ftries = 0 /\ ret = FALSE /\ fret = FALSE
    /\ probe = [i |-> 1, flow |-> FALSE]
    /\ parse_file_ok = FALSE /\ param = ZeroConfig /\ orig = param
    /\ flowctl_enable = FALSE /\ is_config_same = FALSE
    /\ tty = [baud |-> NoBaud, flow |-> FALSE]
    /\ LET c == Conf(1, TRUE, 1, 1) IN rcp = [cfg |-> c, baud |-> c.baud, flow |-> c.flow]
    /\ inbox = <<>> /\ flight = <<>> /\ faults = 0
    /\ job = Job("version", <<>>, FALSE, TRUE, FALSE) /\ upc = "scan" /\ files = <<>>
    /\ round = 1 /\ index = 1 /\ count = 0 /\ polls = 0
    /\ is_download = {} /\ contentPacketsSent = 0 /\ partial = FALSE
    /\ uret = "ok" /\ fw = Cfu!Idle

\* The PC tool has nothing to say.
TouchIdle ==
    /\ pc_tool = Nothing /\ session = [commands |-> << >>, ticks |-> 0] /\ starts = 0
    /\ uart = << >> /\ rx_buf = << >> /\ braces = [start |-> 0, end |-> 0] /\ rx_sema = 0
    /\ rx = [req |-> Nothing, todo |-> << >>, mbias |-> 0]
    /\ cur = 0
    /\ regs = [c \in Channels |-> [enable |-> FALSE, mbias |-> 0, th |-> 0]]
    /\ common = [ctc_enable |-> FALSE, config |-> 0]
    /\ monitored = {} /\ monitor_stop = FALSE /\ timer = FALSE
    /\ ticks = 0 /\ handler = [pc |-> "off"]
    /\ pages = [i \in 0 .. PageNum - 1 |-> BlankPage]
    /\ rx_cnt = 0 /\ tx_cnt = 0 /\ timer_sema = 0
    /\ tx = [t \in TxThreads |-> [pc |-> "none", page |-> 0]]
    /\ tx_buf = << >> /\ header = [seq |-> 0, sum |-> << >>] /\ tx_mutex = 0
    /\ line = [kind |-> "none"] /\ packets = << >> /\ late = FALSE

SerialInit ==
    \/ part = "tool" /\ ToolInit /\ HdlcInit /\ TouchIdle
    \/ part = "decoder" /\ ToolIdle /\ HdlcInit /\ TouchIdle
    \/ part = "touch" /\ ToolIdle /\ HdlcInit /\ TouchInit

SerialNext ==
    \/ part = "tool" /\ Next /\ UNCHANGED <<hdlcvars, touchvars, part>>
    \/ part = "decoder" /\ HdlcNext /\ UNCHANGED <<toolVars, touchvars, part>>
    \/ part = "touch" /\ TouchNext /\ UNCHANGED <<toolVars, hdlcvars, part>>

SerialSpec ==
    /\ SerialInit /\ [][SerialNext]_<<toolVars, hdlcvars, touchvars, part>>
    /\ WF_toolVars(part = "tool" /\ ToolStep)
    /\ WF_toolVars(part = "tool" /\ RcpReboots)
    /\ WF_touchvars(part = "touch" /\ UartRead)
    /\ WF_touchvars(part = "touch" /\ RxThread)
    /\ WF_touchvars(part = "touch" /\ Handler)
    /\ \A t \in TxThreads : WF_touchvars(part = "touch" /\ TxThread(t))
=============================================================================
