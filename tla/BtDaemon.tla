------------------------------ MODULE BtDaemon ------------------------------
(***************************************************************************)
(* The attach daemon with its patch download (rtb_download_fwc): the       *)
(* signature of the firmware file selects the format, and the download     *)
(* runs over the port at the speed that the attach left it, in the first   *)
(* initialisation and again in every recovery.                             *)
(***************************************************************************)
EXTENDS HciAttach, Sequences

CONSTANTS
    Patches,    \* the firmware and configuration files: [format, file, config, chip]
    FragSize, IndexFlag, MaxSections

VARIABLES
    patch, version, dpc, queue, fw_len, sent_fw_len, sent_config_len, packet, dret, taken,
    cur_index, end_index,       \* of the second format
    security, writes            \* of the third

V2 == INSTANCE PatchDownload WITH pc <- dpc, ret <- dret, controller <- taken, heard <- Heard
V3 == INSTANCE PatchSections WITH pc <- dpc, ret <- dret, controller <- taken, heard <- Heard

ASSUME PatchAssumption ==
    /\ \A p \in Patches : /\ p.format \in 0 .. 3
                          /\ p.format = 2 => V2!PatchOK(p)
                          /\ p.format = 3 => V3!PatchOK(p)
                          /\ p.format < 2 => p.file = <<>>
    /\ FragSize \in Nat \ {0} /\ IndexFlag \in Nat /\ IndexFlag > 1 /\ MaxSections \in Nat

only2 == <<cur_index, end_index>>
only3 == <<security, writes>>
download == <<version, dpc, queue, fw_len, sent_fw_len, sent_config_len, packet, dret, taken,
              only2, only3>>
daemonVars == <<vars, patch, download>>

NoPatch == [format |-> 0, file |-> <<>>, config |-> 0, chip |-> 0]

DaemonInit ==
    /\ Init
    /\ patch = NoPatch /\ version = 0 /\ dpc = "idle"
    /\ queue = <<>> /\ fw_len = 0 /\ sent_fw_len = 0 /\ sent_config_len = 0
    /\ packet = [index |-> 0, data |-> <<>>] /\ dret = 0
    /\ taken = [log |-> <<>>, applied |-> FALSE]
    /\ cur_index = 0 /\ end_index = 0
    /\ security = 0 /\ writes = <<>>

\* The static and local variables of a download that begins, or that has ended.
Fresh(p, v, where) ==
    /\ patch' = p /\ version' = v /\ dpc' = where
    /\ queue' = <<>> /\ fw_len' = 0 /\ sent_fw_len' = 0 /\ sent_config_len' = 0
    /\ packet' = [index |-> 0, data |-> <<>>] /\ dret' = V2!HCI_SUCCESS
    /\ taken' = [log |-> <<>>, applied |-> FALSE]
    /\ cur_index' = 0 /\ end_index' = 0
    /\ security' = 0 /\ writes' = <<>>

AttachOnly == AttachStep /\ UNCHANGED <<patch, download>>

\* rtb_read_config and rtb_read_firmware; only a configuration file names a speed.
ReadPatch ==
    /\ ReadFiles
    /\ patch' \in Patches
    /\ patch'.config = 0 => baud' = "none"
    /\ UNCHANGED download

\* patch_version has no value when the signature is unknown.
Versions == IF patch.format = 0 THEN 0 .. 3 ELSE {patch.format}

\* rtb_download_fwc calls the download of the file's format.
Begin ==
    /\ pc = "download" /\ dpc = "idle"
    /\ \E v \in Versions \cap {2, 3} : Fresh(patch, v, IF v = 2 THEN "build" ELSE "key")
    /\ UNCHANGED vars

\* No known format, or the first: HCI_FAIL, and nothing is sent.
Unsupported ==
    /\ dpc = "idle"
    /\ Versions \cap {0, 1} # {}
    /\ DownloadReturns(V2!HCI_FAIL, FALSE)
    /\ Fresh(NoPatch, 0, "idle")

DownloadStep ==
    /\ pc = "download"
    /\ \/ version = 2 /\ V2!Step /\ UNCHANGED only3
       \/ version = 3 /\ V3!Step /\ UNCHANGED only2
    /\ UNCHANGED <<vars, version>>

Downloaded ==
    /\ dpc = "done"
    /\ DownloadReturns(dret, taken.applied)
    /\ Fresh(NoPatch, 0, "idle")

DownloadTimedOut == dpc = "exited" /\ DownloadExits /\ UNCHANGED <<patch, download>>

Environment == (Alarm \/ Hangup \/ Term) /\ UNCHANGED <<patch, download>>

\* Step can be taken.
Runs == pc # "exited" /\ (pc = "blocked" => hup)

\* Blocked in ppoll, or ended.
Rest == ~Runs /\ UNCHANGED daemonVars

Step ==
    \/ AttachOnly \/ ReadPatch \/ Begin \/ Unsupported
    \/ DownloadStep \/ Downloaded \/ DownloadTimedOut

Next == Step \/ Environment \/ Rest

(***************************************************************************)
(* Weak fairness of Step, its enabling condition written out: the program  *)
(* itself takes its steps, as every wait of the initialisation has a       *)
(* timeout.  Hang-ups and signals need not come.                           *)
(***************************************************************************)
FairSpec == /\ DaemonInit /\ [][Next]_daemonVars
            /\ []<>~Runs \/ []<><<Step>>_daemonVars

-----------------------------------------------------------------------------
(* Properties.                                                             *)

\* The daemon and the download keep their types, and the counters of _get_patch_info stay within
\* the patch.
DaemonTypeOK ==
    /\ TypeOK
    /\ version \in {0, 2, 3}
    /\ version = 2 => V2!TypeOK
    /\ version = 3 => V3!TypeOK

\* The fragments cut the wanted bytes without a gap, an overlap or a change of order
\* (hci_get_patch_cmd_buf, hci_patch_get_cmd_buf), also when a recovery downloads again.
InOrder == (version = 2 => V2!InOrder) /\ (version = 3 => V3!InOrder)

\* The controller applies a patch only when it has all of it.
AppliedIsWhole == (version = 2 => V2!AppliedIsWhole) /\ (version = 3 => V3!AppliedIsWhole)

\* The index numbers let the controller tell a fragment from the one before it.
IndexesTellApart == (version = 2 => V2!IndexesTellApart) /\ (version = 3 => V3!IndexesTellApart)

\* A section's first byte comes after its own registers, and the patch is applied after the
\* register of the security header of the highest priority has been written
\* (hci_download_patch_v3, hci_patch_found_security_section).
RegistersBeforeImage == version = 3 => V3!RegistersBeforeImage /\ V3!SecurityBeforeApply

\* The controller gets the whole patch, in order, with numbers that tell the
\* fragments apart, whichever format the file has (hciattach_rtk.c, rtb_fwc.c).
PatchIsWhole == InOrder /\ AppliedIsWhole /\ IndexesTellApart
=============================================================================
