----------------------------- MODULE CfuUpdate -----------------------------
(***************************************************************************)
(* The firmware update of the co-processor (FwUpdateProcess.c,             *)
(* FwUpdateSubProcess.c): in odd rounds the tool offers all images, in     *)
(* even rounds it offers each again and sends the payload of those the RCP *)
(* accepts, block by block; an RCP with one bank reboots after each pair   *)
(* of rounds until it accepts nothing more.  The RCP is external.  RcpTool *)
(* runs these actions between the steps of RcpConfig.                      *)
(***************************************************************************)
EXTENDS Naturals, Sequences, FiniteSets

CONSTANTS
    Jobs,           \* [cmd, bins, force, dual, direct]: see JobOK
    FwBinCountMax,  \* images the tool can hold (20)
    MaxPolls,       \* version polls after a reboot (20)
    MaxFaults       \* bound: lost or cut requests and answers, failing writes

(***************************************************************************)
(* A job: the command; the offers in directory order, each readable        *)
(* (offer) or not, with a payload (src) of some blocks or without, for the *)
(* boot patch, for App_Data1 or for another image; the option              *)
(* forceIgnoreVersion; whether the RCP has two banks, and whether its node *)
(* goes away when it reboots.                                              *)
(***************************************************************************)
JobOK(j) ==
    /\ j.cmd \in {"update", "version"}
    /\ j.force \in BOOLEAN /\ j.dual \in BOOLEAN /\ j.direct \in BOOLEAN
    /\ \A k \in DOMAIN j.bins :
          /\ j.bins[k].offer \in BOOLEAN /\ j.bins[k].src \in BOOLEAN
          /\ j.bins[k].image \in {"boot", "data1", "other"}
          /\ j.bins[k].blocks \in Nat

VARIABLES
    job, files,         \* the job, and FwFiles: the offers the tool could load
    pc, round, index, count, polls,
    is_download,        \* images whose payload was sent
    contentPacketsSent,
    partial,            \* the static index of getVersionReponseHandle is not 0
    ret,                \* 0, -1, -2 of FwUpdateMainProcess as "ok", "version", "transfer"
    rcp,                \* the RCP: see RcpType
    faults,
    heard, lossy        \* the line, as RcpConfig left it: the RCP hears requests; some get lost

tool == <<files, round, index, count, polls, is_download, contentPacketsSent, partial, ret>>
vars == <<job, files, pc, round, index, count, polls, is_download, contentPacketsSent,
          partial, ret, rcp, faults>>

Bins == 1 .. Len(files)
NoBin == 0

(***************************************************************************)
(* The RCP: its mode ("normal", "cfu", "complete": payloads received, about*)
(* to reboot; "off": its node is gone), the images it wants, those offered *)
(* since it booted, the accepted one and the blocks it has of each.        *)
(***************************************************************************)
RcpType ==
    /\ rcp.mode \in {"normal", "cfu", "complete", "off"}
    /\ rcp.need \subseteq Bins /\ rcp.offered \subseteq Bins
    /\ rcp.open \in Bins \cup {NoBin}
    /\ \A b \in Bins : rcp.got[b] \in 0 .. files[b].blocks

\* The variables keep their types; the tool holds at most FwBinCountMax images.
TypeOK ==
    /\ job \in Jobs
    /\ pc \in {"scan", "enter", "version", "offer", "content", "round", "attach", "reattach",
               "poll", "leave", "done", "exited"}
    /\ Len(files) <= FwBinCountMax
    /\ round \in Nat /\ index \in 1 .. Len(files) + 1
    /\ count \in 0 .. Len(files) /\ polls \in 0 .. MaxPolls
    /\ is_download \subseteq Bins
    /\ contentPacketsSent \in Nat
    /\ partial \in BOOLEAN
    /\ ret \in {"ok", "version", "transfer", "scan"}
    /\ pc # "scan" => RcpType
    /\ faults \in 0 .. MaxFaults

Idle == [mode |-> "normal", need |-> {}, offered |-> {}, open |-> NoBin, got |-> <<>>]

Init ==
    /\ job \in Jobs
    /\ pc = "scan" /\ files = <<>>
    /\ round = 1 /\ index = 1 /\ count = 0 /\ polls = 0
    /\ is_download = {} /\ contentPacketsSent = 0 /\ partial = FALSE
    /\ ret = "ok" /\ rcp = Idle

Fault == \/ faults < MaxFaults /\ faults' = faults + 1
         \/ lossy /\ UNCHANGED faults
Fail(why) == ret' = why /\ pc' = "leave"

-----------------------------------------------------------------------------
(* Loading the directories and entering the update mode.                   *)

LoadOffer(b) == b.offer
LoadedOffers(bins) == SelectSeq(bins, LoadOffer)
TooMany == \E k \in DOMAIN job.bins :
              Len(LoadedOffers(SubSeq(job.bins, 1, k - 1))) >= FwBinCountMax

\* getOfferBins, getPayloadBins: an unreadable offer is passed over.  The RCP wants some images.
Scan ==
    /\ pc = "scan" /\ job.cmd = "update" /\ ~TooMany
    /\ files' = LoadedOffers(job.bins)
    /\ \E w \in SUBSET (1 .. Len(files')) :
          rcp' = [rcp EXCEPT !.need = {b \in w : files'[b].src},
                             !.got = [b \in 1 .. Len(files') |-> 0]]
    /\ pc' = "enter"
    /\ UNCHANGED <<job, round, index, count, polls, is_download, contentPacketsSent, partial, ret,
                   faults>>

ScanFails ==
    /\ pc = "scan" /\ job.cmd = "update" /\ TooMany
    /\ ret' = "scan" /\ pc' = "done"
    /\ UNCHANGED <<job, files, round, index, count, polls, is_download, contentPacketsSent,
                   partial, rcp, faults>>

\* FwVersionMainProcess needs no files.
NoScan ==
    /\ pc = "scan" /\ job.cmd = "version"
    /\ pc' = "enter"
    /\ UNCHANGED <<job, tool, rcp, faults>>

\* EnterFwUpdateMode: the loop goes on when it fails.
Enter ==
    /\ pc = "enter"
    /\ \/ heard /\ rcp' = [rcp EXCEPT !.mode = "cfu"] /\ UNCHANGED faults
       \/ Fault /\ UNCHANGED rcp
    /\ pc' = "version"
    /\ UNCHANGED <<job, tool>>

-----------------------------------------------------------------------------
(* Requests to the RCP.                                                    *)

(***************************************************************************)
(* FwGetVerison: an answer that is cut short leaves the handler's index    *)
(* where it was, and the next whole answer overruns it: exit(1).           *)
(***************************************************************************)
VersionAnswer(onAnswer, onTimeout) ==
    \/ rcp.mode = "cfu" /\ ~partial /\ onAnswer /\ UNCHANGED <<partial, faults>>
    \/ rcp.mode = "cfu" /\ partial /\ pc' = "exited" /\ UNCHANGED <<partial, faults, ret>>
    \/ rcp.mode = "cfu" /\ ~partial /\ onTimeout /\ Fault /\ partial' = TRUE
    \/ rcp.mode = "cfu" /\ onTimeout /\ Fault /\ UNCHANGED partial
    \/ rcp.mode # "cfu" /\ onTimeout /\ UNCHANGED <<partial, faults>>

\* is_send_offer, the same in odd and in even rounds, and a payload for the image.
Sendable(b) ==
    /\ files[b].src
    /\ job.force => b \notin is_download
    /\ files[b].image = "boot" => round <= 2
    /\ files[b].image = "data1" /\ ~job.dual => round <= 2

\* The RCP takes what it wants; with one bank it may leave some for later.
Accepts(b) == b \in rcp.need
Rejects(b) == ~Accepts(b) \/ (~job.dual /\ count > 0 /\ files[b].image = "other")

-----------------------------------------------------------------------------
(* FwUpdateMainProcess.                                                    *)

\* An odd round begins with a version request.
Version ==
    /\ pc = "version" /\ job.cmd = "update"
    /\ index' = 1 /\ count' = 0
    /\ VersionAnswer(pc' = "offer" /\ UNCHANGED ret, Fail("version"))
    /\ UNCHANGED <<job, files, round, polls, is_download, contentPacketsSent, rcp>>

\* FwVersionMainProcess prints the version, or that there is none.
PrintVersion ==
    /\ pc = "version" /\ job.cmd = "version"
    /\ VersionAnswer(pc' = "leave" /\ UNCHANGED ret, pc' = "leave" /\ UNCHANGED ret)
    /\ UNCHANGED <<job, files, round, index, count, polls, is_download, contentPacketsSent, rcp>>

\* The end of an odd round.
OffersMade ==
    /\ pc = "offer" /\ round % 2 = 1 /\ index > Len(files)
    /\ round' = round + 1 /\ index' = 1 /\ count' = 0
    /\ UNCHANGED <<job, files, pc, polls, is_download, contentPacketsSent, partial, ret, rcp, faults>>

PassOver ==
    /\ pc = "offer" /\ index <= Len(files) /\ ~Sendable(index)
    /\ index' = index + 1
    /\ UNCHANGED <<job, files, pc, round, count, polls, is_download, contentPacketsSent, partial,
                   ret, rcp, faults>>

\* FwUpdateOffer without an answer ends the update.
OfferLost ==
    /\ pc = "offer" /\ index <= Len(files) /\ Sendable(index)
    /\ \/ rcp.mode # "cfu" /\ UNCHANGED faults
       \/ rcp.mode = "cfu" /\ Fault
    /\ Fail("transfer")
    /\ UNCHANGED <<job, files, round, index, count, polls, is_download, contentPacketsSent, partial,
                   rcp>>

Offer ==
    /\ pc = "offer" /\ round % 2 = 1 /\ index <= Len(files) /\ Sendable(index)
    /\ rcp.mode = "cfu"
    /\ rcp' = [rcp EXCEPT !.offered = @ \cup {index}]
    /\ index' = index + 1
    /\ UNCHANGED <<job, files, pc, round, count, polls, is_download, contentPacketsSent, partial,
                   ret, faults>>

OfferRejected ==
    /\ pc = "offer" /\ round % 2 = 0 /\ index <= Len(files) /\ Sendable(index)
    /\ rcp.mode = "cfu" /\ Rejects(index)
    /\ index' = index + 1
    /\ UNCHANGED <<job, files, pc, round, count, polls, is_download, contentPacketsSent, partial,
                   ret, rcp, faults>>

OfferAccepted ==
    /\ pc = "offer" /\ round % 2 = 0 /\ index <= Len(files) /\ Sendable(index)
    /\ rcp.mode = "cfu" /\ Accepts(index)
    /\ rcp' = [rcp EXCEPT !.open = index, !.got[index] = 0]
    /\ count' = count + 1
    /\ contentPacketsSent' = 0
    /\ pc' = "content"
    /\ UNCHANGED <<job, files, round, index, polls, is_download, partial, ret, faults>>

\* FwUpdateSrc: the last block of the file carries FLAG_LAST_BLOCK; the RCP then has the image.
SendBlock ==
    /\ pc = "content" /\ contentPacketsSent < files[index].blocks
    /\ LET last == contentPacketsSent + 1 = files[index].blocks
       IN  rcp' = [rcp EXCEPT !.got[index] = @ + 1,
                              !.open = IF last THEN NoBin ELSE @,
                              !.need = IF last /\ ~job.force THEN @ \ {index} ELSE @]
    /\ contentPacketsSent' = contentPacketsSent + 1
    /\ UNCHANGED <<job, files, pc, round, index, count, polls, is_download, partial, ret, faults>>

\* The payload cannot be opened, a block or its answer is lost, or the RCP reports an error.
BlockFails ==
    /\ pc = "content"
    /\ Fault /\ Fail("transfer")
    /\ UNCHANGED <<job, files, round, index, count, polls, is_download, contentPacketsSent, partial,
                   rcp>>

\* All blocks are sent, or there were none.
PayloadSent ==
    /\ pc = "content" /\ contentPacketsSent = files[index].blocks
    /\ is_download' = is_download \cup {index}
    /\ index' = index + 1
    /\ pc' = "offer"
    /\ UNCHANGED <<job, files, round, count, polls, contentPacketsSent, partial, ret, rcp, faults>>

OnePairOnly ==
    /\ pc = "offer" /\ round % 2 = 0 /\ index > Len(files)
    /\ pc' = "leave" /\ round' = round + 1
    /\ polls' = 0
    /\ UNCHANGED <<job, files, index, count, is_download, contentPacketsSent, partial, ret, rcp, faults>>

\* The end of an even round: with one bank, once more after a reboot if anything was accepted.
PayloadsSent ==
    /\ pc = "offer" /\ round % 2 = 0 /\ index > Len(files)
    /\ IF job.dual \/ count = 0
       THEN pc' = "leave" /\ round' = round + 1 /\ UNCHANGED rcp
       ELSE /\ pc' = IF job.direct THEN "attach" ELSE "poll"
            /\ rcp' = [rcp EXCEPT !.mode = "complete"]
            /\ UNCHANGED round
    /\ polls' = 0
    /\ UNCHANGED <<job, files, index, count, is_download, contentPacketsSent, partial, ret, faults>>

\* The node is there, perhaps because the RCP has not gone down yet.
Attach ==
    /\ pc = "attach" /\ rcp.mode # "off"
    /\ pc' = "reattach"
    /\ UNCHANGED <<job, tool, rcp, faults>>

Reattach ==
    /\ pc = "reattach" /\ rcp.mode # "off"
    /\ \/ pc' = "version" /\ round' = round + 1 /\ UNCHANGED <<ret, faults>>
       \/ Fault /\ Fail("version") /\ UNCHANGED round
    /\ UNCHANGED <<job, files, index, count, polls, is_download, contentPacketsSent, partial, rcp>>

\* Version requests until one is answered, MaxPolls at most.
Poll ==
    /\ pc = "poll"
    /\ polls' = polls + 1
    /\ VersionAnswer(pc' = "version" /\ round' = round + 1 /\ UNCHANGED ret,
                     /\ IF polls' = MaxPolls THEN Fail("version") ELSE UNCHANGED <<pc, ret>>
                     /\ UNCHANGED round)
    /\ pc' = "exited" => UNCHANGED round
    /\ UNCHANGED <<job, files, index, count, is_download, contentPacketsSent, rcp>>

\* The waits at Exit outlast the RCP's own timers, and it is back to normal.
Leave ==
    /\ pc = "leave"
    /\ rcp' = [rcp EXCEPT !.mode = "normal"]
    /\ pc' = "done"
    /\ UNCHANGED <<job, tool, faults>>

\* rtk_cfu_update has returned; none of this is used again.
Return ==
    /\ pc = "done"
    /\ pc' = "scan" /\ files' = <<>>
    /\ round' = 1 /\ index' = 1 /\ count' = 0 /\ polls' = 0
    /\ is_download' = {} /\ contentPacketsSent' = 0 /\ partial' = FALSE
    /\ ret' = "ok" /\ rcp' = Idle
    /\ UNCHANGED job

\* The RCP reboots after its payloads, and stays in the update mode.
RcpDown ==
    /\ rcp.mode = "complete"
    /\ rcp' = [rcp EXCEPT !.mode = "off", !.offered = {}, !.open = NoBin]
    /\ UNCHANGED <<job, tool, pc, faults>>

RcpUp ==
    /\ rcp.mode = "off"
    /\ rcp' = [rcp EXCEPT !.mode = "cfu"]
    /\ UNCHANGED <<job, tool, pc, faults>>

Tool == \/ Scan \/ ScanFails \/ NoScan \/ Enter \/ Version \/ PrintVersion \/ OffersMade
        \/ PassOver \/ OfferLost \/ Offer \/ OfferRejected \/ OfferAccepted \/ SendBlock
        \/ BlockFails \/ PayloadSent \/ PayloadsSent \/ Attach \/ Reattach \/ Poll \/ Leave

-----------------------------------------------------------------------------
(* Properties.                                                             *)

(***************************************************************************)
(* When FwUpdateMainProcess returns true, the RCP wants no image that the  *)
(* directories hold and that was not sent, and every image marked          *)
(* downloaded (is_download) was received to its last block: the rounds do  *)
(* not stop early, and the marks are never ahead of the RCP.               *)
(***************************************************************************)
SuccessIsComplete ==
    pc = "done" /\ ret = "ok" =>
        /\ rcp.need \subseteq is_download
        /\ \A b \in is_download : rcp.got[b] = files[b].blocks
=============================================================================
