------------------------------ MODULE RcpTool ------------------------------
(***************************************************************************)
(* The co-processor tool (main.c): rtkrcp_config, the firmware update and  *)
(* rtkrcp_config_flowctl, one after the other over the same serial line,   *)
(* with one budget of faults.  The update runs at the rate and with the    *)
(* flow control that the configuration left, whether or not it succeeded.  *)
(***************************************************************************)
EXTENDS RcpConfig

CONSTANTS Jobs, FwBinCountMax, MaxPolls

VARIABLES
    job, files, upc, round, index, count, polls, is_download, contentPacketsSent, partial,
    uret, fw            \* as in CfuUpdate, where upc is pc, uret is ret and fw is rcp

Cfu == INSTANCE CfuUpdate WITH pc <- upc, ret <- uret, rcp <- fw,
                               heard <- Heard, lossy <- Unheard

ASSUME ToolAssumption ==
    /\ \A j \in Jobs : Cfu!JobOK(j) /\ Len(Cfu!LoadedOffers(j.bins)) \in Nat
    /\ FwBinCountMax \in Nat /\ MaxPolls \in Nat \ {0}

updateVars == <<files, upc, round, index, count, polls, is_download, contentPacketsSent,
                partial, uret, fw>>
toolVars == <<vars, job, updateVars>>

\* Configuration and update keep their types (RcpConfig.c, FwUpdateProcess.c).
ToolTypeOK == TypeOK /\ Cfu!TypeOK

ToolInit == Init /\ Cfu!Init

Configure == Step /\ UNCHANGED <<job, updateVars>>

\* A late response that comes during the update is dropped by the next open.
LateResponse == pc # "updating" /\ Arrive /\ UNCHANGED <<job, updateVars>>

UpdateStep ==
    /\ pc = "updating"
    /\ Cfu!Tool
    /\ UNCHANGED <<pc, mainVars, confVars, parse_file_ok, tty, rcp, inbox, flight>>

RcpReboots ==
    /\ pc = "updating"
    /\ \/ Cfu!RcpDown /\ UNCHANGED rcp
       \/ Cfu!RcpUp /\ rcp' = Rebooted
    /\ UNCHANGED <<pc, mainVars, confVars, parse_file_ok, tty, inbox, flight>>

UpdateDone == Cfu!Return /\ UpdateReturns

\* exit(1) in getVersionReponseHandle.
UpdateExits ==
    /\ pc = "updating" /\ upc = "exited"
    /\ pc' = "exit"
    /\ UNCHANGED <<mainVars, confVars, parse_file_ok, tty, lineVars, job, updateVars>>

Finished == pc \in {"done", "exit"} /\ UNCHANGED toolVars

ToolStep == Configure \/ UpdateStep \/ UpdateDone \/ UpdateExits

Next == ToolStep \/ LateResponse \/ RcpReboots \/ Finished
Spec == ToolInit /\ [][Next]_toolVars

\* The tool keeps running, and the RCP comes back from its reboots.
FairSpec == Spec /\ WF_toolVars(ToolStep) /\ WF_toolVars(RcpReboots)

-----------------------------------------------------------------------------
(* Properties of the update, and of the whole.                             *)

\* A successful update leaves the RCP wanting nothing that was not sent, and what is marked
\* downloaded was received to its last block (FwUpdateProcess.c:384, 409).
SuccessIsComplete == Cfu!SuccessIsComplete

(***************************************************************************)
(* The hunt for the rate, the retry loops, the rounds of the update, its   *)
(* waits for the node and its polls come to an end (main.c:66-91,          *)
(* FwUpdateProcess.c:433-491).                                             *)
(***************************************************************************)
Terminates == <>(pc \in {"done", "exit"})
=============================================================================
