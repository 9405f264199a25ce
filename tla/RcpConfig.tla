----------------------------- MODULE RcpConfig -----------------------------
(***************************************************************************)
(* The configuration of the radio co-processor (RCP) by the host tool      *)
(* (openthread/.../RcpConfig.c, main.c): hunt for the baud rate, write the *)
(* configuration with flow control off, verify it, and turn flow control   *)
(* on after the firmware update (CfuUpdate; RcpTool composes the two).     *)
(* The RCP is external; requests and responses may be lost, and a response *)
(* may come after its timeout and be taken for the answer to a later       *)
(* request, since all have the same tid.                                   *)
(***************************************************************************)
EXTENDS Naturals, Sequences

CONSTANTS
    Configs,        \* configurations: records of ic, flow, baud, rest
    baudrate_table, \* the rates tried in turn
    ConfigBins,     \* the configurations a ConfigBin may hold
    UsbInterface,   \* the device node is a USB one (no flow control)
    MaxTries,       \* rounds of main's retry loops (3 in the code)
    MaxFaults       \* bound: lost, late or refused requests, failing opens

NoBaud == 0

ASSUME RcpAssumption ==
    /\ \A c \in Configs : /\ c \in [ic : Nat, flow : BOOLEAN, baud : Nat, rest : Nat]
                          /\ c.baud # NoBaud
    /\ ConfigBins \subseteq Configs
    /\ MaxTries \in Nat \ {0} /\ MaxFaults \in Nat

\* config_param before anything was read into it (a static object).
ZeroConfig == [ic |-> 0, flow |-> TRUE, baud |-> NoBaud, rest |-> 0]
NoFlow(c) == [c EXCEPT !.flow = FALSE]
Values == Configs \cup {NoFlow(c) : c \in Configs} \cup {[c EXCEPT !.flow = TRUE] : c \in Configs}
              \cup {ZeroConfig, NoFlow(ZeroConfig)}

Timeout == [kind |-> "timeout"]
Response == [kind : {"config"}, cfg : Values] \cup [kind : {"status"}, ok : BOOLEAN]

VARIABLES
    pc,             \* where the tool is
    tries, ftries,  \* rounds of rtkrcp_config and of rtkrcp_config_flowctl
    ret, fret,      \* they have returned true
    probe,          \* [i, flow]: the rate and flow control being tried
    parse_file_ok,  \* there is a ConfigBin
    param,          \* config_param
    flowctl_enable, is_config_same,
    tty,            \* [baud, flow] the device is opened with
    rcp,            \* the RCP: [cfg, baud, flow], stored and current settings
    inbox,          \* responses in the tty's input
    flight,         \* late responses, with the rate they are sent at
    orig,           \* history: the configuration loaded from ConfigBin or the RCP
    faults          \* faults so far

mainVars == <<tries, ftries, ret, fret>>
confVars == <<probe, param, flowctl_enable, is_config_same, orig>>
lineVars == <<rcp, inbox, flight, faults>>
vars == <<pc, mainVars, confVars, parse_file_ok, tty, lineVars>>

Places == {"config", "file_open", "file_read", "file_check", "probe_open", "probe_read",
           "probe_check", "decide", "write", "reopen", "verify", "returned", "update", "updating",
           "flowctl", "flowctl_set", "flowctl_returned", "test", "done", "exit"}

\* The variables keep their types.
TypeOK ==
    /\ pc \in Places
    /\ tries \in 0 .. MaxTries /\ ftries \in 0 .. MaxTries
    /\ ret \in BOOLEAN /\ fret \in BOOLEAN
    /\ probe.i \in 1 .. Len(baudrate_table) + 1 /\ probe.flow \in BOOLEAN
    /\ parse_file_ok \in BOOLEAN
    /\ param \in Values /\ orig \in Values
    /\ flowctl_enable \in BOOLEAN /\ is_config_same \in BOOLEAN
    /\ tty.flow \in BOOLEAN
    /\ rcp.cfg \in Values /\ rcp.flow \in BOOLEAN
    /\ \A k \in DOMAIN inbox : inbox[k] \in Response
    /\ \A k \in DOMAIN flight : flight[k].resp \in Response
    /\ faults \in 0 .. MaxFaults

\* rtkrcp_config_parse: a file of another length leaves config_param zero but counts as parsed.
Init ==
    /\ pc = "config"
    /\ tries = 0 /\ ftries = 0 /\ ret = FALSE /\ fret = FALSE
    /\ probe = [i |-> 1, flow |-> FALSE]
    /\ parse_file_ok \in BOOLEAN
    /\ param \in {ZeroConfig} \cup (IF parse_file_ok THEN ConfigBins ELSE {})
    /\ flowctl_enable = FALSE /\ is_config_same = FALSE
    /\ tty = [baud |-> NoBaud, flow |-> FALSE]
    /\ \E c \in Configs : rcp = [cfg |-> c, baud |-> c.baud, flow |-> c.flow]
    /\ inbox = <<>> /\ flight = <<>>
    /\ orig = param
    /\ faults = 0

-----------------------------------------------------------------------------
(* The RCP and the line.                                                   *)

Ok(b) == [kind |-> "status", ok |-> b]

\* What the RCP does with a request, and its answer.
Handle(q) ==
    CASE q.op = "read"  -> [rcp |-> rcp, resp |-> [kind |-> "config", cfg |-> rcp.cfg]]
      [] q.op = "write" -> [rcp |-> [cfg |-> q.cfg, baud |-> q.cfg.baud, flow |-> q.cfg.flow],
                            resp |-> Ok(TRUE)]
      [] q.op = "flow"  -> [rcp |-> [cfg |-> [rcp.cfg EXCEPT !.flow = TRUE], baud |-> rcp.baud,
                                     flow |-> TRUE],
                            resp |-> Ok(TRUE)]

\* At another rate the RCP hears nothing; with other flow control it may or may not.
Heard    == tty.baud = rcp.baud
Unheard  == tty.baud # rcp.baud \/ tty.flow # rcp.flow

\* Response r is the first frame to be read; left stays in the input.
Outcome(newrcp, newflight, fault, frames) ==
    [rcp |-> newrcp, flight |-> newflight, faults |-> faults + fault,
     r |-> IF frames = <<>> THEN Timeout ELSE Head(frames),
     left |-> IF frames = <<>> THEN <<>> ELSE Tail(frames)]

(***************************************************************************)
(* ConfigRequest: the ways a request may end.  It is lost, refused or      *)
(* answered too late, at the cost of a fault; or it is answered.           *)
(***************************************************************************)
ConfigRequest(q) ==
    LET h == Handle(q)
        late == Append(flight, [resp |-> h.resp, baud |-> rcp.baud])
    IN  {o \in {Outcome(rcp, flight, 1, inbox)}
               \cup (IF Unheard THEN {Outcome(rcp, flight, 0, inbox)} ELSE {})
               \cup (IF Heard THEN {Outcome(h.rcp, flight, 0, Append(inbox, h.resp)),
                                    Outcome(h.rcp, late, 1, inbox)} ELSE {})
               \cup (IF Heard /\ q.op # "read"
                     THEN {Outcome(rcp, flight, 1, Append(inbox, Ok(FALSE)))} ELSE {}) :
         o.faults <= MaxFaults}

Exchanged(o) == rcp' = o.rcp /\ flight' = o.flight /\ faults' = o.faults

\* A late response is readable if the host still listens at its rate.
Arrive ==
    /\ flight # <<>>
    /\ inbox' = IF Head(flight).baud = tty.baud THEN Append(inbox, Head(flight).resp) ELSE inbox
    /\ flight' = Tail(flight)
    /\ UNCHANGED <<pc, mainVars, confVars, parse_file_ok, tty, rcp, faults>>

\* device_open: exits for an unknown rate, and flushes the input.
device_open(baud, flow, opened, failed) ==
    /\ tty' = [baud |-> baud, flow |-> flow]
    /\ \/ baud = NoBaud /\ pc' = "exit" /\ UNCHANGED <<inbox, faults>>
       \/ baud # NoBaud /\ pc' = opened /\ inbox' = <<>> /\ UNCHANGED faults
       \/ baud # NoBaud /\ pc' = failed /\ faults < MaxFaults /\ faults' = faults + 1
          /\ UNCHANGED inbox
    /\ UNCHANGED <<rcp, flight>>

-----------------------------------------------------------------------------
(* rtkrcp_config.                                                          *)

EnterForgets ==
    /\ pc = "config"
    /\ tries' = tries + 1
    /\ is_config_same' = FALSE
    /\ probe' = [i |-> 1, flow |-> FALSE]
    /\ param' = IF parse_file_ok THEN param ELSE ZeroConfig
    /\ pc' = IF parse_file_ok THEN "file_open" ELSE "probe_open"
    /\ UNCHANGED <<ftries, ret, fret, flowctl_enable, orig, parse_file_ok, tty, lineVars>>

EnterConfig ==
    /\ pc = "config"
    /\ tries' = tries + 1
    /\ is_config_same' = FALSE
    /\ probe' = [i |-> 1, flow |-> FALSE]
    /\ pc' = IF parse_file_ok THEN "file_open" ELSE "probe_open"
    /\ UNCHANGED <<ftries, ret, fret, param, flowctl_enable, orig, parse_file_ok, tty, lineVars>>

ProbeStuck == IF ~probe.flow THEN [probe EXCEPT !.flow = TRUE] ELSE [i |-> 1, flow |-> FALSE]

\* The setting tried after one that failed: flow control on, then the next rate.
NextProbe ==
    IF ~probe.flow THEN [probe EXCEPT !.flow = TRUE]
    ELSE [i |-> IF pc \in {"file_open", "file_check"} THEN 1 ELSE probe.i + 1, flow |-> FALSE]
NextOpen == IF pc \in {"file_open", "file_check"} /\ ~probe.flow THEN "file_open" ELSE "probe_open"

\* The rate of ConfigBin: a failing open counts as a setting that failed.
FileOpen ==
    /\ pc = "file_open"
    /\ device_open(param.baud, probe.flow, "file_read", NextOpen)
    /\ probe' = IF pc' = NextOpen THEN NextProbe ELSE probe
    /\ UNCHANGED <<mainVars, param, flowctl_enable, is_config_same, orig, parse_file_ok>>

\* The hunt for the rate: a failing open ends rtkrcp_config, running out of rates the tool.
ProbeOpen ==
    /\ pc = "probe_open" /\ probe.i <= Len(baudrate_table)
    /\ device_open(baudrate_table[probe.i], probe.flow, "probe_read", "returned")
    /\ UNCHANGED <<mainVars, confVars, parse_file_ok>>

ProbeExit ==
    /\ pc = "probe_open" /\ probe.i > Len(baudrate_table)
    /\ pc' = "exit"
    /\ UNCHANGED <<mainVars, confVars, parse_file_ok, tty, lineVars>>

\* rtkrcp_config_read, whose result is not looked at, then readtoEmpty.
ReadAndDrain ==
    /\ pc \in {"file_read", "probe_read"}
    /\ \E o \in ConfigRequest([op |-> "read"]) : Exchanged(o) /\ inbox' = <<>>
    /\ pc' = IF pc = "file_read" THEN "file_check" ELSE "probe_check"
    /\ UNCHANGED <<mainVars, confVars, parse_file_ok, tty>>

\* rtkrcp_config_check of a response r: without a ConfigBin it loads the RCP's.
Loaded(r)  == IF r.kind = "config" /\ ~parse_file_ok THEN r.cfg ELSE param
WrongIc(r) == r.kind = "config" /\ parse_file_ok /\ param.ic # r.cfg.ic
SameIfFlowOff(r) == r.kind = "config" /\ ~Loaded(r).flow
SameConfig(r) == r.kind = "config" /\ Loaded(r) = r.cfg /\ ~Loaded(r).flow
LoadedFirst(r) == IF orig = ZeroConfig THEN Loaded(r) ELSE orig

Check ==
    /\ pc \in {"file_check", "probe_check"}
    /\ \E o \in ConfigRequest([op |-> "read"]) :
          /\ Exchanged(o) /\ inbox' = o.left
          /\ \/ /\ o.r = Timeout
                /\ pc' = NextOpen /\ probe' = NextProbe
                /\ UNCHANGED <<param, is_config_same, orig>>
             \/ /\ o.r # Timeout
                /\ pc' = IF WrongIc(o.r) THEN "exit" ELSE "decide"
                /\ param' = Loaded(o.r) /\ orig' = LoadedFirst(o.r)
                /\ is_config_same' = SameConfig(o.r)
                /\ UNCHANGED probe
    /\ UNCHANGED <<mainVars, flowctl_enable, parse_file_ok, tty>>

NothingToDo ==
    /\ pc = "decide" /\ is_config_same
    /\ pc' = "returned" /\ ret' = TRUE
    /\ UNCHANGED <<tries, ftries, fret, confVars, parse_file_ok, tty, lineVars>>

ForceThenLook ==
    /\ pc = "decide" /\ ~is_config_same
    /\ param' = NoFlow(param)
    /\ flowctl_enable' = param'.flow
    /\ inbox' = <<>>
    /\ pc' = "write"
    /\ UNCHANGED <<mainVars, probe, is_config_same, orig, parse_file_ok, tty, rcp, flight, faults>>

\* Flow control is forced off in what is written.
ForceNoFlow ==
    /\ pc = "decide" /\ ~is_config_same
    /\ flowctl_enable' = param.flow
    /\ param' = NoFlow(param)
    /\ inbox' = <<>>
    /\ pc' = "write"
    /\ UNCHANGED <<mainVars, probe, is_config_same, orig, parse_file_ok, tty, rcp, flight, faults>>

\* rtkrcp_config_write: a response with more than a status is a failure.
WriteConfig ==
    /\ pc = "write"
    /\ \E o \in ConfigRequest([op |-> "write", cfg |-> param]) :
          /\ Exchanged(o) /\ inbox' = o.left
          /\ pc' = IF o.r = Ok(TRUE) THEN "reopen" ELSE "returned"
    /\ UNCHANGED <<mainVars, confVars, parse_file_ok, tty>>

Reopen ==
    /\ pc = "reopen"
    /\ device_open(param.baud, FALSE, "verify", "returned")
    /\ UNCHANGED <<mainVars, confVars, parse_file_ok>>

\* The last check, and the return to the original flow control when it succeeds.
Verify ==
    /\ pc = "verify"
    /\ \E o \in ConfigRequest([op |-> "read"]) :
          /\ Exchanged(o) /\ inbox' = o.left
          /\ is_config_same' = (o.r # Timeout /\ SameConfig(o.r))
          /\ pc' = IF WrongIc(o.r) THEN "exit" ELSE "returned"
          /\ ret' = is_config_same'
          /\ param' = IF is_config_same' THEN [Loaded(o.r) EXCEPT !.flow = flowctl_enable]
                      ELSE Loaded(o.r)
    /\ UNCHANGED <<tries, ftries, fret, probe, flowctl_enable, orig, parse_file_ok, tty>>

-----------------------------------------------------------------------------
(* main: the retry loops, the firmware update and flow control.            *)

Returned ==
    /\ pc = "returned"
    /\ pc' = IF ret \/ tries = MaxTries THEN "update" ELSE "config"
    /\ UNCHANGED <<mainVars, confVars, parse_file_ok, tty, lineVars>>

\* rtk_cfu_update opens the device as it was last set.
OpenForUpdate ==
    /\ pc = "update"
    /\ device_open(tty.baud, tty.flow, "updating", "flowctl")
    /\ UNCHANGED <<mainVars, confVars, parse_file_ok>>

\* After a reboot the RCP runs with its stored configuration.
Rebooted == [rcp EXCEPT !.flow = rcp.cfg.flow]

\* rtk_cfu_update returns (its steps are those of CfuUpdate): the RCP has left the update mode.
UpdateReturns ==
    /\ pc = "updating"
    /\ pc' = "flowctl"
    /\ rcp' \in {rcp, Rebooted}
    /\ inbox' = <<>>
    /\ UNCHANGED <<mainVars, confVars, parse_file_ok, tty, flight, faults>>

\* rtkrcp_config_flowctl opens the device as it was last set.
Flowctl ==
    /\ pc = "flowctl"
    /\ ftries' = ftries + 1
    /\ IF UsbInterface \/ ~flowctl_enable
       THEN pc' = "flowctl_returned" /\ fret' = TRUE /\ UNCHANGED <<tty, lineVars>>
       ELSE /\ device_open(tty.baud, tty.flow, "flowctl_set", "flowctl_returned")
            /\ UNCHANGED fret
    /\ UNCHANGED <<tries, ret, confVars, parse_file_ok>>

FlowctlSet ==
    /\ pc = "flowctl_set"
    /\ \E o \in ConfigRequest([op |-> "flow"]) :
          /\ Exchanged(o) /\ inbox' = o.left
          /\ fret' = (o.r = Ok(TRUE))
          /\ tty' = IF o.r = Ok(TRUE) THEN [tty EXCEPT !.flow = flowctl_enable] ELSE tty
    /\ pc' = "flowctl_returned"
    /\ UNCHANGED <<tries, ftries, ret, confVars, parse_file_ok>>

FlowctlReturned ==
    /\ pc = "flowctl_returned"
    /\ pc' = IF fret \/ ftries = MaxTries THEN "test" ELSE "flowctl"
    /\ UNCHANGED <<mainVars, confVars, parse_file_ok, tty, lineVars>>

\* test_after_config_cfu_flowctl: its verdict is only logged.
Test ==
    /\ pc = "test"
    /\ \E o \in ConfigRequest([op |-> "read"]) : Exchanged(o) /\ inbox' = o.left
    /\ pc' = "done"
    /\ UNCHANGED <<mainVars, confVars, parse_file_ok, tty>>

Step == \/ EnterConfig \/ FileOpen \/ ProbeOpen \/ ProbeExit \/ ReadAndDrain \/ Check
        \/ NothingToDo \/ ForceNoFlow \/ WriteConfig \/ Reopen \/ Verify
        \/ Returned \/ OpenForUpdate \/ Flowctl \/ FlowctlSet \/ FlowctlReturned \/ Test

-----------------------------------------------------------------------------
(* Properties.                                                             *)

(***************************************************************************)
(* When rtkrcp_config has returned true, by finding nothing to do or by    *)
(* writing and verifying, the RCP holds the configuration of the host with *)
(* flow control off and runs at its rate: whatever was lost or came late.  *)
(***************************************************************************)
ConfiguredIfSuccess ==
    pc = "update" /\ ret => /\ rcp.cfg = NoFlow(param)
                            /\ rcp.baud = param.baud /\ tty.baud = rcp.baud

(***************************************************************************)
(* The RCP's stored configuration is only ever changed to the one loaded   *)
(* from ConfigBin or from the RCP, and flow control only turned on where   *)
(* that one has it: no round of main writes one that was never loaded.     *)
(***************************************************************************)
OnlyLoadedIsWritten ==
    [][/\ NoFlow(rcp'.cfg) # NoFlow(rcp.cfg) => NoFlow(rcp'.cfg) = NoFlow(orig)
       /\ rcp'.cfg.flow /\ ~rcp.cfg.flow => orig # ZeroConfig /\ orig.flow]_vars

(***************************************************************************)
(* When rtkrcp_config succeeds in its first round and rtkrcp_config_flowctl*)
(* in any, the tool leaves the RCP with the configuration loaded from      *)
(* ConfigBin or from the RCP, flow control included.                       *)
(***************************************************************************)
RestoredOnFirstTry ==
    pc = "done" /\ tries = 1 /\ ret /\ fret /\ ~UsbInterface => rcp.cfg = orig

(***************************************************************************)
(* A round that reports success did what it was to do (RcpConfig.c:593-    *)
(* 870).                                                                   *)
(***************************************************************************)
RcpConfigured == ConfiguredIfSuccess /\ RestoredOnFirstTry
=============================================================================
