------------------------------ MODULE CapTouch ------------------------------
(***************************************************************************)
(* The captouch calibration daemon (cmds/captouch).  A PC tool sends JSON  *)
(* commands over a UART and waits for each answer.  Four kinds of thread   *)
(* work on one set of unlocked globals (cap_ctrl, the page buffer, the     *)
(* transmit buffer) and on the driver's "current channel" attribute:       *)
(*   - uart_rx_thread collects bytes until the braces balance;             *)
(*   - cap_rx_thread parses a command, runs it and answers;                *)
(*   - the SIGALRM handler samples the monitored channels into a page;     *)
(*   - a monitor_tx_thread, one more for each start command, sends pages.  *)
(* Only the writes to the UART are under a mutex (tx_mutex).  The handler  *)
(* runs in the main thread, which does nothing else, so that its steps     *)
(* interleave with those of the others.                                    *)
(***************************************************************************)
EXTENDS Integers, Sequences, FiniteSets, FiniteSetsExt, SequencesExt

CONSTANTS
    Channels,   \* the channels, 0 .. CAP_MAX_CH - 1
    Sessions,   \* bound: the commands the PC tool sends, and how often the
                \* timer expires
    MaxTx,      \* bound: start commands, each of which adds a thread
    MaxBias,    \* MBIAS_MAX_VALUE
    Sensor      \* from which bias a channel's average is on target, and from
                \* which it is above

ASSUME TouchAssumption ==
    /\ Channels = 0 .. Cardinality(Channels) - 1
    /\ MaxBias \in 1 .. 255
    /\ Sensor \in [Channels -> [ok : Nat, high : Nat]]

VARIABLES
    pc_tool,    \* the PC tool: the command it waits for the answer of
    session,    \* the commands it has not sent yet, its timer's bound
    starts,     \* start commands sent
    uart,       \* pieces of commands on the line to the daemon
    rx_buf,     \* cap_rx_buf up to cmd_rx_cnt
    braces,     \* [start |-> cmd_start_cnt, end |-> cmd_end_cnt]
    rx_sema,    \* complete commands announced to cap_rx_thread
    rx,         \* cap_rx_thread: its request, what is left to do, its mbias
    cur,        \* the driver's ch_num: the channel the attributes are of
    regs,       \* the driver's attributes of each channel
    common,     \* the driver's attributes of all of them
    monitored,  \* monitor_cfg.channels
    monitor_stop,
    timer,      \* the interval timer is armed
    ticks,      \* its expirations so far
    handler,    \* the running signal handler
    pages,      \* cap_monitor_buf: CAP_DATA_PAGE_NUM pages
    rx_cnt,     \* pages sampled
    tx_cnt,     \* pages sent
    timer_sema, \* pages announced to the tx threads
    tx,         \* the tx threads
    tx_buf,     \* cap_tx_buf
    header,     \* cap_tx_data_header_buf
    tx_mutex,   \* the tx thread that holds it, or 0
    line,       \* the last item written to the UART
    packets,    \* the data packets the PC tool received
    late        \* a page was sampled over before it was sent

command == <<pc_tool, session, starts, uart, rx_buf, braces, rx_sema>>
monitor == <<monitored, monitor_stop, timer>>
sampled == <<ticks, handler, pages, rx_cnt, late>>
sending == <<tx, tx_buf, header, tx_mutex>>
touchvars == <<command, rx, cur, regs, common, monitor, sampled, tx_cnt, timer_sema,
               sending, line, packets>>

Nothing == [type |-> "none"]
PageNum == 2
TxThreads == 1 .. MaxTx

Blank == [ch |-> -1, from |-> -1, tick |-> 0]
BlankPage == [i \in 1 .. Cardinality(Channels) |-> Blank]

\* app_init() and the creation of the two threads.
TouchInit ==
    /\ pc_tool = Nothing /\ session \in Sessions /\ starts = 0 /\ uart = << >>
    /\ rx_buf = << >> /\ braces = [start |-> 0, end |-> 0] /\ rx_sema = 0
    /\ rx = [req |-> Nothing, todo |-> << >>, mbias |-> 0]
    /\ cur = 0
    /\ regs = [c \in Channels |-> [enable |-> FALSE, mbias |-> 0, th |-> 0]]
    /\ common = [ctc_enable |-> FALSE, config |-> 0]
    /\ monitored = {} /\ monitor_stop = FALSE /\ timer = FALSE
    /\ ticks = 0 /\ handler = [pc |-> "off"]
    /\ pages = [i \in 0 .. PageNum - 1 |-> BlankPage]
    /\ rx_cnt = 0 /\ tx_cnt = 0 /\ timer_sema = 0
    /\ tx = [t \in TxThreads |-> [pc |-> "none", page |-> 0]]
    /\ tx_buf = << >> /\ header = [seq |-> 0, sum |-> << >>] /\ tx_mutex = 0
    /\ line = [kind |-> "none"] /\ packets = << >> /\ late = FALSE

-----------------------------------------------------------------------------
(* The PC tool, and uart_rx_thread(). *)

\* The PC tool sends a command once the one before it is answered.
SendCommand ==
    /\ pc_tool = Nothing /\ session.commands # << >>
    /\ LET r == Head(session.commands)
       IN  /\ pc_tool' = r
           /\ starts' = IF r.type = "start" THEN starts + 1 ELSE starts
           /\ uart' = uart \o <<[part |-> "{", req |-> r], [part |-> "}", req |-> r]>>
    /\ session' = [session EXCEPT !.commands = Tail(@)]
    /\ UNCHANGED <<rx_buf, braces, rx_sema, rx, cur, regs, common, monitor, sampled,
                   tx_cnt, timer_sema, sending, line, packets>>

Count(s, b) == Len(SelectSeq(s, LAMBDA p : p.part = b))

\* Mutant: only the count of opening braces restarts.
KeepsEnd(b) == [start |-> 0, end |-> b.end]

\* Both counters restart once a command is announced.
Announced(b) == [start |-> 0, end |-> 0]

\* uart_rx_thread(): a read returns some of the bytes that are there.  The
\* bytes go behind the ones that are already in the buffer, and balanced
\* braces make a command.
UartRead ==
    \E n \in 1 .. Len(uart) :
      LET got   == SubSeq(uart, 1, n)
          new   == [start |-> braces.start + Count(got, "{"),
                    end   |-> braces.end + Count(got, "}")]
          whole == new.start # 0 /\ new.start = new.end
      IN  /\ rx_buf' = rx_buf \o got
          /\ uart' = SubSeq(uart, n + 1, Len(uart))
          /\ braces' = IF whole THEN Announced(new) ELSE new
          /\ rx_sema' = IF whole THEN rx_sema + 1 ELSE rx_sema
          /\ UNCHANGED <<pc_tool, session, starts, rx, cur, regs, common, monitor,
                         sampled, tx_cnt, timer_sema, sending, line, packets>>

-----------------------------------------------------------------------------
(* cap_rx_process(): a command is a script of accesses to the driver and   *)
(* to cap_ctrl, which the other threads may interrupt between any two.     *)

Op(o) == [op |-> o]
Select(c) == [op |-> "select", ch |-> c]
PutEnable(v) == [op |-> "enable", val |-> v]
PutMbias(v) == [op |-> "mbias", val |-> v]
PutThresholds(v) == [op |-> "th", val |-> v]
PutCtcEnable(v) == [op |-> "ctc_enable", val |-> v]
PutConfig(v) == [op |-> "config", val |-> v]
Ack == [op |-> "answer", kind |-> "ack"]
Answer(r) == [op |-> "answer", kind |-> r.type]

\* ctc_start(): every channel is selected and switched on or off.
CtcStart(set) ==
    FlattenSeq([i \in 1 .. Cardinality(Channels) |->
                   <<Select(i - 1), PutEnable(i - 1 \in set)>>])
       \o <<PutCtcEnable(TRUE)>>

\* cap_monitor_start(), the answer, and only then cap_monitor_start_daemon().
MonitorStart(set) ==
    <<[op |-> "configure", set |-> set], Op("rewind_rx"), Op("rewind_tx")>>
       \o CtcStart(set)
       \o <<Ack, Op("busy"), Op("arm"), Op("spawn")>>

\* ctc_tune_mbias(), and the read-back for the answer.
TuneMbias(r) ==
    <<Select(r.ch), PutEnable(TRUE), Op("tune"), Select(r.ch), Answer(r)>>

\* ctc_set_ch_config(): the four thresholds are one.
ConfigChannel(r) ==
    <<Select(r.ch), PutMbias(r.mbias), PutThresholds(r.th), PutEnable(r.enable), Ack>>

\* What each type of command does.
Script(r) ==
    CASE r.type = "query"     -> <<Answer(r)>>
      [] r.type = "query_ch"  -> <<Select(r.ch), Answer(r)>>
      [] r.type = "config"    -> <<PutConfig(r.val), Ack>>
      [] r.type = "config_ch" -> ConfigChannel(r)
      [] r.type = "start"     -> MonitorStart(r.set)
      [] r.type = "stop"      -> <<Op("stop"), Op("disarm"), Ack>>
      [] r.type = "reset"     -> <<PutCtcEnable(FALSE), PutCtcEnable(TRUE), Ack>>
      [] r.type = "tune"      -> TuneMbias(r)
      [] OTHER                -> <<[op |-> "answer", kind |-> "error"]>>

\* cap_rx_thread(): it takes the buffer, clears it and parses the first object.
TakeCommand ==
    /\ rx.todo = << >> /\ rx_sema > 0
    /\ rx_sema' = rx_sema - 1
    /\ rx_buf' = << >>
    /\ rx' = [req |-> Head(rx_buf).req, todo |-> Script(Head(rx_buf).req),
              mbias |-> 0]
    /\ UNCHANGED <<pc_tool, session, starts, uart, braces, cur, regs, common, monitor,
                   sampled, tx_cnt, timer_sema, sending, line, packets>>

At(o) == rx.todo # << >> /\ Head(rx.todo).op = o
This == Head(rx.todo)
Done == rx' = [rx EXCEPT !.todo = Tail(@)]

\* ctc_set_cur_chx()
RunSelect ==
    /\ At("select") /\ cur' = This.ch /\ Done
    /\ UNCHANGED <<command, regs, common, monitor, sampled, tx_cnt, timer_sema,
                   sending, line, packets>>

\* ctc_set_chx_enable(), ctc_set_chx_mbias() and the thresholds, of whatever
\* channel is current.
RunPut ==
    /\ \E f \in {"enable", "mbias", "th"} :
          At(f) /\ regs' = [regs EXCEPT ![cur][f] = This.val]
    /\ Done
    /\ UNCHANGED <<command, cur, common, monitor, sampled, tx_cnt, timer_sema,
                   sending, line, packets>>

\* ctc_set_ctc_enable(), and the eight attributes of ctc_set_config() as one.
RunCommon ==
    /\ \E f \in {"ctc_enable", "config"} :
          At(f) /\ common' = [common EXCEPT ![f] = This.val]
    /\ Done
    /\ UNCHANGED <<command, cur, regs, monitor, sampled, tx_cnt, timer_sema,
                   sending, line, packets>>

\* ctc_get_chx_ave_data()
AveData ==
    LET b == regs[cur].mbias
    IN  IF b >= Sensor[cur].high THEN "high"
        ELSE IF b >= Sensor[cur].ok THEN "ok" ELSE "low"

\* The check before the loop of ctc_tune_mbias().
RunTune ==
    /\ At("tune")
    /\ rx' = [rx EXCEPT !.todo =
                 IF AveData = "ok" THEN Tail(@) ELSE <<Op("try")>> \o Tail(@)]
    /\ UNCHANGED <<command, cur, regs, common, monitor, sampled, tx_cnt, timer_sema,
                   sending, line, packets>>

\* One pass of the loop sets the bias ...
RunTry ==
    /\ At("try")
    /\ regs' = [regs EXCEPT ![cur].mbias = rx.mbias]
    /\ rx' = [rx EXCEPT !.todo = <<Op("look")>> \o Tail(@)]
    /\ UNCHANGED <<command, cur, common, monitor, sampled, tx_cnt, timer_sema,
                   sending, line, packets>>

NextMbias(data) == IF data = "high" THEN (rx.mbias - 1) % 256 ELSE rx.mbias + 1

\* ... and, after a sleep, looks at the average it gives.
RunLook ==
    /\ At("look")
    /\ LET next == NextMbias(AveData)
       IN  rx' = IF AveData = "ok" THEN [rx EXCEPT !.todo = Tail(@)]
                 ELSE [rx EXCEPT !.mbias = next, !.todo =
                         IF next < MaxBias THEN <<Op("try")>> \o Tail(@) ELSE Tail(@)]
    /\ UNCHANGED <<command, cur, regs, common, monitor, sampled, tx_cnt, timer_sema,
                   sending, line, packets>>

\* cap_monitor_start(): the configuration and the counters.
RunConfigure ==
    /\ At("configure") /\ monitored' = This.set /\ Done
    /\ UNCHANGED <<command, cur, regs, common, monitor_stop, timer, sampled, tx_cnt,
                   timer_sema, sending, line, packets>>

RunRewindRx ==
    /\ At("rewind_rx") /\ rx_cnt' = 0 /\ Done
    /\ UNCHANGED <<command, cur, regs, common, monitor, ticks, handler, pages, late,
                   tx_cnt, timer_sema, sending, line, packets>>

RunRewindTx ==
    /\ At("rewind_tx") /\ tx_cnt' = 0 /\ Done
    /\ UNCHANGED <<command, cur, regs, common, monitor, sampled, timer_sema, sending,
                   line, packets>>

\* cap_monitor_start_daemon(): the flag, the timer, the thread.
RunBusy ==
    /\ At("busy") /\ monitor_stop' = FALSE /\ Done
    /\ UNCHANGED <<command, cur, regs, common, monitored, timer, sampled, tx_cnt,
                   timer_sema, sending, line, packets>>

RunArm ==
    /\ At("arm") /\ timer' = TRUE /\ Done
    /\ UNCHANGED <<command, cur, regs, common, monitored, monitor_stop, sampled,
                   tx_cnt, timer_sema, sending, line, packets>>

RunSpawn ==
    /\ At("spawn")
    /\ LET t == Min({u \in TxThreads : tx[u].pc = "none"})
       IN  tx' = [tx EXCEPT ![t].pc = "wait"]
    /\ Done
    /\ UNCHANGED <<command, cur, regs, common, monitor, sampled, tx_cnt, timer_sema,
                   tx_buf, header, tx_mutex, line, packets>>

\* cap_monitor_stop(): a second stop leaves the timer alone.
RunStop ==
    /\ At("stop")
    /\ monitor_stop' = TRUE
    /\ rx' = [rx EXCEPT !.todo = IF monitor_stop THEN Tail(Tail(@)) ELSE Tail(@)]
    /\ UNCHANGED <<command, cur, regs, common, monitored, timer, sampled, tx_cnt,
                   timer_sema, sending, line, packets>>

\* timer_stop()
RunDisarm ==
    /\ At("disarm") /\ timer' = FALSE /\ Done
    /\ UNCHANGED <<command, cur, regs, common, monitored, monitor_stop, sampled,
                   tx_cnt, timer_sema, sending, line, packets>>

\* Mutant: nobody waits for the mutex.
MutexIgnored == TRUE

MutexFree == tx_mutex = 0

\* cap_uart_send_string(): one write, under the mutex.
RunAnswer ==
    /\ At("answer") /\ MutexFree
    /\ line' = [kind |-> "answer"]
    /\ pc_tool' = Nothing
    /\ Done
    /\ UNCHANGED <<session, starts, uart, rx_buf, braces, rx_sema, cur, regs, common,
                   monitor, sampled, tx_cnt, timer_sema, sending, packets>>

RxThread ==
    \/ TakeCommand \/ RunSelect \/ RunPut \/ RunCommon \/ RunTune \/ RunTry \/ RunLook
    \/ RunConfigure \/ RunRewindRx \/ RunRewindTx \/ RunBusy \/ RunArm
    \/ RunSpawn \/ RunStop \/ RunDisarm \/ RunAnswer

-----------------------------------------------------------------------------
(* monitor_timer_handler() and cap_monitor_get_data(). *)

\* Mutant: there is one page.
PageOfOne(cnt) == 0

PageOf(cnt) == cnt % PageNum

\* The timer expires; the handler fixes its page before it samples.
TimerFires ==
    /\ timer /\ handler.pc = "off" /\ ticks < session.ticks
    /\ ticks' = ticks + 1
    /\ handler' = [pc |-> "channel", page |-> PageOf(rx_cnt), ch |-> 0, pos |-> 1]
    /\ late' = (late \/ rx_cnt - tx_cnt >= PageNum)
    /\ UNCHANGED <<command, rx, cur, regs, common, monitor, pages, rx_cnt, tx_cnt,
                   timer_sema, sending, line, packets>>

\* The loop over the channels: it selects the next monitored one ...
HandlerSelects ==
    /\ handler.pc = "channel"
    /\ LET ahead == {c \in monitored : c >= handler.ch}
       IN  \/ /\ ahead # {}
              /\ cur' = Min(ahead)
              /\ handler' = [handler EXCEPT !.pc = "read", !.ch = Min(ahead)]
           \/ /\ ahead = {}
              /\ handler' = [handler EXCEPT !.pc = "count"]
              /\ UNCHANGED cur
    /\ UNCHANGED <<command, rx, regs, common, monitor, ticks, pages, rx_cnt, late,
                   tx_cnt, timer_sema, sending, line, packets>>

\* ... and reads the data of the current one (ctc_get_ch_rt_data()).
HandlerReads ==
    /\ handler.pc = "read"
    /\ pages' = [pages EXCEPT ![handler.page][handler.pos] =
                    [ch |-> handler.ch, from |-> cur, tick |-> ticks]]
    /\ handler' = [handler EXCEPT !.pc = "channel", !.ch = @ + 1, !.pos = @ + 1]
    /\ UNCHANGED <<command, rx, cur, regs, common, monitor, ticks, rx_cnt, late,
                   tx_cnt, timer_sema, sending, line, packets>>

HandlerCounts ==
    /\ handler.pc = "count"
    /\ rx_cnt' = rx_cnt + 1
    /\ handler' = [handler EXCEPT !.pc = "post"]
    /\ UNCHANGED <<command, rx, cur, regs, common, monitor, ticks, pages, late,
                   tx_cnt, timer_sema, sending, line, packets>>

HandlerPosts ==
    /\ handler.pc = "post"
    /\ timer_sema' = timer_sema + 1
    /\ handler' = [pc |-> "off"]
    /\ UNCHANGED <<command, rx, cur, regs, common, monitor, ticks, pages, rx_cnt,
                   late, tx_cnt, sending, line, packets>>

Handler == HandlerSelects \/ HandlerReads \/ HandlerCounts \/ HandlerPosts

-----------------------------------------------------------------------------
(* monitor_tx_thread() and cap_monitor_send_data(). *)

TxGoes(t, p) == tx' = [tx EXCEPT ![t].pc = p]

TxWakes(t) ==
    /\ tx[t].pc = "wait" /\ timer_sema > 0
    /\ timer_sema' = timer_sema - 1
    /\ TxGoes(t, "woken")
    /\ UNCHANGED <<command, rx, cur, regs, common, monitor, sampled, tx_cnt, tx_buf,
                   header, tx_mutex, line, packets>>

\* One page is sent for each wake-up, if one is due.
TxLooks(t) ==
    /\ tx[t].pc = "woken"
    /\ tx' = [tx EXCEPT ![t] = IF tx_cnt < rx_cnt
                               THEN [pc |-> "copy", page |-> PageOf(tx_cnt)]
                               ELSE [pc |-> "check", page |-> 0]]
    /\ UNCHANGED <<command, rx, cur, regs, common, monitor, sampled, tx_cnt,
                   timer_sema, tx_buf, header, tx_mutex, line, packets>>

TxCopies(t) ==
    /\ tx[t].pc = "copy"
    /\ tx_buf' = SubSeq(pages[tx[t].page], 1, Cardinality(monitored))
    /\ TxGoes(t, "count")
    /\ UNCHANGED <<command, rx, cur, regs, common, monitor, sampled, tx_cnt,
                   timer_sema, header, tx_mutex, line, packets>>

TxCounts(t) ==
    /\ tx[t].pc = "count"
    /\ tx_cnt' = tx_cnt + 1
    /\ TxGoes(t, "header")
    /\ UNCHANGED <<command, rx, cur, regs, common, monitor, sampled, timer_sema,
                   tx_buf, header, tx_mutex, line, packets>>

\* The header and its checksum are made before the mutex is taken.
TxHeader(t) ==
    /\ tx[t].pc = "header"
    /\ header' = [seq |-> tx_cnt, sum |-> tx_buf]
    /\ TxGoes(t, "lock")
    /\ UNCHANGED <<command, rx, cur, regs, common, monitor, sampled, tx_cnt,
                   timer_sema, tx_buf, tx_mutex, line, packets>>

TxLocks(t) ==
    /\ tx[t].pc = "lock" /\ MutexFree
    /\ tx_mutex' = t
    /\ line' = [kind |-> "header", header |-> header]
    /\ TxGoes(t, "data")
    /\ UNCHANGED <<command, rx, cur, regs, common, monitor, sampled, tx_cnt,
                   timer_sema, tx_buf, header, packets>>

TxWrites(t) ==
    /\ tx[t].pc = "data"
    /\ line' = [kind |-> "data"]
    /\ packets' = IF line.kind = "header"
                  THEN Append(packets, [header |-> line.header, data |-> tx_buf])
                  ELSE packets
    /\ tx_mutex' = 0
    /\ TxGoes(t, "check")
    /\ UNCHANGED <<command, rx, cur, regs, common, monitor, sampled, tx_cnt,
                   timer_sema, tx_buf, header>>

\* The stop flag is looked at after a wake-up only.
TxChecks(t) ==
    /\ tx[t].pc = "check"
    /\ TxGoes(t, IF monitor_stop THEN "ended" ELSE "wait")
    /\ UNCHANGED <<command, rx, cur, regs, common, monitor, sampled, tx_cnt,
                   timer_sema, tx_buf, header, tx_mutex, line, packets>>

TxThread(t) ==
    \/ TxWakes(t) \/ TxLooks(t) \/ TxCopies(t) \/ TxCounts(t) \/ TxHeader(t)
    \/ TxLocks(t) \/ TxWrites(t) \/ TxChecks(t)

-----------------------------------------------------------------------------
TouchNext ==
    \/ SendCommand
    \/ UartRead
    \/ RxThread
    \/ TimerFires
    \/ Handler
    \/ \E t \in TxThreads : TxThread(t)

\* The threads and a running handler keep running; nothing is assumed of the
\* PC tool or of the timer.
TouchFairness ==
    /\ WF_touchvars(UartRead) /\ WF_touchvars(RxThread) /\ WF_touchvars(Handler)
    /\ \A t \in TxThreads : WF_touchvars(TxThread(t))

TouchSpec == TouchInit /\ [][TouchNext]_touchvars /\ TouchFairness

-----------------------------------------------------------------------------
\* A PC tool that waits for each answer gets every command answered
\* (uart_rx_thread(), cap_rx_process()), however the bytes arrive and whatever
\* the handler does to the channel in between.
CommandsAnswered == (pc_tool # Nothing) ~> (pc_tool = Nothing)

\* Between the header of a data packet and its data no other thread writes to
\* the UART (cap_monitor_send_data(), cap_uart_send_string()).
Unbroken == line.kind = "header" /\ line' # line => line'.kind = "data"

\* In the first monitoring session, as long as the tx thread keeps up with the
\* timer, the n-th packet has sequence number n, carries the n-th sample and its
\* checksum fits (monitor_tx_thread(), cap_monitor_get_data()).
PacketsInOrder ==
    starts <= 1 /\ ~ late =>
        \A i \in DOMAIN packets :
            /\ packets[i].header = [seq |-> i, sum |-> packets[i].data]
            /\ \A k \in DOMAIN packets[i].data : packets[i].data[k].tick = i

\* What the PC tool receives while it monitors (cap_monitor_send_data(),
\* monitor_tx_thread()) is whole and in order.
PacketsIntact == [][Unbroken /\ PacketsInOrder']_touchvars
=============================================================================
