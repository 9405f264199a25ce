---------------------------- MODULE OtaRecovery ----------------------------
(***************************************************************************)
(* The over-the-air update of the device: the boot environment kept in     *)
(* flash, the daemon of the normal system that notices an update medium    *)
(* (recovery/recoveryd/recoveryd.c), the command-line requester            *)
(* (recovery/test/test.c), and the recovery program that installs the      *)
(* update (recovery/recovery.c and recovery/install.c).                    *)
(*                                                                         *)
(* Flash contents and the boot environment survive a power loss; all the   *)
(* other state is that of processes and is lost.  One action is one step   *)
(* between two points where losing power makes a difference.               *)
(***************************************************************************)
EXTENDS Naturals

CONSTANTS
    RETRYCOUNT,     \* polls of the storage state before recovery goes on
    DataPackages,   \* the update packages that may have been downloaded to /data
    MediumPackages, \* the update packages a medium may hold
    MaxFaults,      \* bound: power losses and failing commands
    MaxRequests     \* bound: commands stored by the requester

KM4BOOT   == 0
KM4IMAGE2 == 1
APIMAGE   == 2
VBMETA    == 3
DTB       == 4
KERNEL    == 5
ROOTFS    == 6
USERDATA  == 7
MISC      == 8
IMAGECNT  == 9

SLOTA == 0
SLOTB == 1

Images == KM4BOOT .. MISC

(***************************************************************************)
(* The partitions the update process visits: every image in slot A, and    *)
(* the images up to APIMAGE in slot B.                                     *)
(***************************************************************************)
Parts == {<<SLOTA, i>> : i \in Images} \cup {<<SLOTB, i>> : i \in KM4BOOT .. APIMAGE}

\* The order in which the two nested loops of upgrade_package visit them.
Before(p, q) == p[1] < q[1] \/ (p[1] = q[1] /\ p[2] <= q[2])

Sources == {"data", "usb"}
Digests == {"good", "corrupt"}

(***************************************************************************)
(* A package: how it is stored ("dir" is an ota directory with a           *)
(* flash_image.cfg, "gz" a tar archive, "swu" a swupdate image and         *)
(* "plain" a medium without any of them), the images its configuration     *)
(* marks for flashing, whether md5 files are checked, what the image files *)
(* contain and what their .md5 files hold.                                 *)
(***************************************************************************)
Package == [kind  : {"dir", "gz", "swu", "plain"},
            imgs  : SUBSET Images,
            check : BOOLEAN,
            image : [Images -> Digests],
            md5   : [Images -> {"good", "corrupt", "empty", "absent"}]]

ASSUME OtaAssumption ==
    /\ RETRYCOUNT \in Nat
    /\ MaxFaults \in Nat
    /\ MaxRequests \in Nat
    /\ DataPackages \subseteq Package
    /\ MediumPackages \subseteq Package

\* What a partition holds: whose image, and whether it is whole.
Content == [from : {"factory", "data", "usb", "wiped"}, digest : Digests \cup {"torn"}]

VARIABLES
    env,        \* u-boot environment: entry, cmd, update_mode
    flash,      \* the content of every partition
    pkg,        \* the package behind each source (never changes)
    hasData,    \* the package file named by the command exists
    inserted,   \* the update medium is plugged in
    mode,       \* what the machine runs
    daemon,     \* program point of recoveryd
    req,        \* program point of the requester
    pc,         \* program point of the recovery main function ("dead": it crashed)
    retry,      \* wait-loop counter
    mounted,    \* gStorageState/gStoragePath as set by the mount callback
    usbSeen,    \* install_from_usb: update_dir was formed in the wait loop
    opts,       \* the parsed options, "jumped" when parsing was skipped
    src,        \* the source being installed
    todo,       \* partitions the update process has still to write
    writing,    \* the update process is between erase/dd and sync
    status,     \* the status main is going to report
    ub,         \* history: indeterminate locals decided what main did
    faults,     \* history: power losses and failed commands so far
    requests,   \* history: commands stored so far
    wipes       \* history: wipes of user data, while ub is FALSE

program == <<pc, retry, mounted, usbSeen, opts, src, todo, writing, status>>
vars    == <<env, flash, pkg, hasData, inserted, mode, daemon, req, pc, retry,
             mounted, usbSeen, opts, src, todo, writing, status,
             ub, faults, requests, wipes>>

\* The types of the boot environment, the flash contents and the programs' state
\* (recovery.c, install.c, recoveryd.c).
TypeOK ==
    /\ env \in [entry : {"normal", "recovery"}, cmd : {"none", "update", "wipe"},
                update_mode : {"normal", "swupdate"}]
    /\ flash \in [Parts -> Content]
    /\ pkg \in [Sources -> Package]
    /\ hasData \in BOOLEAN
    /\ inserted \in BOOLEAN
    /\ mode \in {"off", "normal", "recovery", "swupdate"}
    /\ daemon \in {"poll", "found", "reboot"}
    /\ req \in {"idle", "entry", "mode"}
    /\ pc \in {"wait", "args", "decide", "install", "child", "wipe", "finish",
               "clear", "delete", "reboot", "dead"}
    /\ retry \in 0 .. RETRYCOUNT
    /\ mounted \in BOOLEAN
    /\ usbSeen \in BOOLEAN
    /\ opts \in {"none", "jumped", "update", "wipe"}
    /\ src \in Sources \cup {"none"}
    /\ todo \subseteq Parts
    /\ writing \in BOOLEAN
    /\ status \in {"success", "error"}
    /\ ub \in BOOLEAN
    /\ faults \in 0 .. MaxFaults
    /\ requests \in 0 .. MaxRequests
    /\ wipes \in Nat

-----------------------------------------------------------------------------

Init ==
    /\ env = [entry |-> "normal", cmd |-> "none", update_mode |-> "normal"]
    /\ flash = [p \in Parts |-> [from |-> "factory", digest |-> "good"]]
    /\ \E d \in DataPackages, m \in MediumPackages :
          pkg = [s \in Sources |-> IF s = "data" THEN d ELSE m]
    /\ hasData = FALSE
    /\ inserted \in BOOLEAN
    /\ mode = "off" /\ daemon = "poll" /\ req = "idle"
    /\ pc = "wait" /\ retry = 0 /\ mounted = FALSE /\ usbSeen = FALSE
    /\ opts = "none" /\ src = "none" /\ todo = {} /\ writing = FALSE
    /\ status = "success"
    /\ ub = FALSE /\ faults = 0 /\ requests = 0 /\ wipes = 0

\* A command or an environment write fails, or power is lost.
Fault == faults < MaxFaults /\ faults' = faults + 1

\* The machine stops: volatile state is gone.
GoesDown ==
    /\ mode' = "off" /\ daemon' = "poll" /\ req' = "idle"
    /\ pc' = "wait" /\ retry' = 0 /\ mounted' = FALSE /\ usbSeen' = FALSE
    /\ opts' = "none" /\ src' = "none" /\ todo' = {} /\ writing' = FALSE
    /\ status' = "success"

-----------------------------------------------------------------------------
(* The environment: the boot loader, the power supply, the medium.         *)

Boot ==
    /\ mode = "off"
    /\ mode' = IF env.entry = "normal" THEN "normal"
               ELSE IF env.update_mode = "swupdate" THEN "swupdate" ELSE "recovery"
    /\ UNCHANGED <<env, flash, pkg, hasData, inserted, daemon, req, ub, faults, requests, wipes>>
    /\ UNCHANGED program

PowerLoss ==
    /\ mode # "off"
    /\ Fault
    /\ GoesDown
    /\ UNCHANGED <<env, flash, pkg, hasData, inserted, ub, requests, wipes>>

InsertMedium ==
    /\ ~inserted
    /\ inserted' = TRUE
    /\ UNCHANGED <<env, flash, pkg, hasData, mode, daemon, req, ub, faults, requests, wipes>>
    /\ UNCHANGED program

\* swupdate installs a .swu image and leaves recovery.
SwUpdate ==
    /\ mode = "swupdate"
    /\ env' = [env EXCEPT !.entry = "normal"]
    /\ GoesDown
    /\ UNCHANGED <<flash, pkg, hasData, inserted, ub, faults, requests, wipes>>

\* The netlink thread reports a mount of what is plugged in, or an unmount at
\* some time after it was pulled (the steps of StorageReport).
StorageStateChange ==
    /\ mode = "recovery"
    /\ mounted \/ inserted
    /\ mounted' = ~mounted
    /\ UNCHANGED <<env, flash, pkg, hasData, inserted, mode, daemon, req, pc, retry, usbSeen,
                   opts, src, todo, writing, status, ub, faults, requests, wipes>>

-----------------------------------------------------------------------------
(* The normal system: recoveryd, and the requester.                        *)

NormalUnchanged == UNCHANGED <<flash, pkg, inserted, mode, ub, wipes>> /\ UNCHANGED program

\* checkOtaPackage found an ota directory or a .swu file and recorded which.
CheckOtaPackage ==
    /\ mode = "normal" /\ daemon = "poll"
    /\ inserted /\ pkg["usb"].kind # "plain"
    /\ \/ /\ env' = [env EXCEPT !.update_mode =
                        IF pkg["usb"].kind = "swu" THEN "swupdate" ELSE "normal"]
          /\ daemon' = "found"
          /\ UNCHANGED faults
       \/ /\ Fault                       \* fw_setenv could not be run
          /\ UNCHANGED <<env, daemon>>
       \/ /\ Fault                       \* fw_setenv ran and failed
          /\ daemon' = "found"
          /\ UNCHANGED env
    /\ UNCHANGED <<hasData, req, requests>>
    /\ NormalUnchanged

EnterRecovery ==
    /\ mode = "normal" /\ daemon = "found"
    /\ \/ /\ env' = [env EXCEPT !.entry = "recovery"]
          /\ daemon' = "reboot"
          /\ UNCHANGED faults
       \/ /\ Fault
          /\ daemon' \in {"poll", "reboot"}
          /\ UNCHANGED env
    /\ UNCHANGED <<hasData, req, requests>>
    /\ NormalUnchanged

DaemonReboot ==
    /\ mode = "normal" /\ daemon = "reboot"
    /\ GoesDown
    /\ UNCHANGED <<env, flash, pkg, hasData, inserted, ub, faults, requests, wipes>>

\* fw_setenv k v: it may exit with a failure nobody looks at.
Setenv(k, v) ==
    \/ env' = [env EXCEPT ![k] = v] /\ UNCHANGED faults
    \/ Fault /\ UNCHANGED env

\* The requester stores the command; the package it names has been downloaded.
StoreCommand(c) ==
    /\ mode = "normal" /\ req = "idle"
    /\ requests < MaxRequests
    /\ requests' = requests + 1
    /\ Setenv("cmd", c)
    /\ hasData' = (hasData \/ c = "update")
    /\ req' = "entry"
    /\ UNCHANGED daemon
    /\ NormalUnchanged

StoreEntry ==
    /\ mode = "normal" /\ req = "entry"
    /\ Setenv("entry", "recovery")
    /\ req' = "mode"
    /\ UNCHANGED <<hasData, daemon, requests>>
    /\ NormalUnchanged

StoreUpdateMode ==
    /\ mode = "normal" /\ req = "mode"
    /\ Setenv("update_mode", "normal")
    /\ req' = "idle"
    /\ UNCHANGED <<hasData, daemon, requests>>
    /\ NormalUnchanged

\* One of the requester's fw_setenv calls could not be run: it gives up.
AbandonRequest ==
    /\ mode = "normal" /\ req # "idle"
    /\ Fault
    /\ req' = "idle"
    /\ UNCHANGED <<env, hasData, daemon, requests>>
    /\ NormalUnchanged

\* The requester's -c option; the stored command stays.
CancelRequest ==
    /\ mode = "normal" /\ req = "idle"
    /\ Setenv("entry", "normal")
    /\ UNCHANGED <<hasData, daemon, req, requests>>
    /\ NormalUnchanged

UserReboot ==
    /\ mode = "normal" /\ req = "idle" /\ env.entry = "recovery"
    /\ GoesDown
    /\ UNCHANGED <<env, flash, pkg, hasData, inserted, ub, faults, requests, wipes>>

-----------------------------------------------------------------------------
(* The recovery program.                                                   *)

MainUnchanged == UNCHANGED <<pkg, inserted, mode, daemon, req, requests, mounted>>

\* One turn of the wait loop for the storage callback.
WaitStorage ==
    /\ mode = "recovery" /\ pc = "wait"
    /\ \/ /\ retry < RETRYCOUNT /\ mounted
          /\ pc' = "args" /\ usbSeen' = TRUE /\ UNCHANGED retry
       \/ /\ retry < RETRYCOUNT /\ ~mounted
          /\ retry' = retry + 1 /\ UNCHANGED <<pc, usbSeen>>
       \/ /\ retry = RETRYCOUNT
          /\ pc' = "args" /\ UNCHANGED <<usbSeen, retry>>
    /\ UNCHANGED <<env, flash, hasData, opts, src, todo, writing, status, ub, faults, wipes>>
    /\ MainUnchanged

\* goto INSTALL_FAILED.
InstallFailed == pc' = "finish" /\ status' = "error"

(***************************************************************************)
(* Read the partition table and the stored command.  The argument strings  *)
(* point into a frame get_args has left, so they may be read as garbage    *)
(* that matches no option.                                                 *)
(***************************************************************************)
GetArgs ==
    /\ mode = "recovery" /\ pc = "args"
    /\ \/ InstallFailed /\ UNCHANGED opts            \* load_partition_info failed
       \/ /\ env.cmd = "none"
          /\ IF usbSeen THEN pc' = "decide" /\ opts' = "jumped" /\ UNCHANGED status
                        ELSE InstallFailed /\ UNCHANGED opts
       \/ /\ env.cmd # "none"
          /\ opts' \in {env.cmd, "none"}
          /\ pc' = "decide" /\ UNCHANGED status
    /\ UNCHANGED <<env, flash, hasData, retry, usbSeen, src, todo, writing, ub, faults, wipes>>
    /\ MainUnchanged

HasOtaDir(p) == p.kind \in {"dir", "gz"}

\* access(update_dir): any answer is possible when update_dir was never set.
UpdateDirExists == IF usbSeen THEN {inserted /\ HasOtaDir(pkg["usb"])} ELSE BOOLEAN

ChooseStorage ==
    /\ mounted /\ TRUE \in UpdateDirExists
    /\ src' = "usb" /\ pc' = "install" /\ UNCHANGED <<status, ub>>

ChooseByOptions ==
    /\ ~mounted \/ FALSE \in UpdateDirExists
    /\ \/ opts = "update" /\ src' = "data" /\ pc' = "install" /\ UNCHANGED <<status, ub>>
       \/ opts = "wipe" /\ pc' = "wipe" /\ UNCHANGED <<src, status, ub>>
       \/ opts = "none" /\ InstallFailed /\ UNCHANGED <<src, ub>>
       \/ /\ opts = "jumped"         \* package_path and need_WipeData are indeterminate
          /\ ub' = TRUE
          /\ pc' \in {"wipe", "finish", "dead"}
          /\ status' = IF pc' = "finish" THEN "error" ELSE status
          /\ UNCHANGED src

Decide ==
    /\ mode = "recovery" /\ pc = "decide"
    /\ ChooseStorage \/ ChooseByOptions
    /\ UNCHANGED <<env, flash, hasData, retry, usbSeen, opts, todo, writing, faults, wipes>>
    /\ MainUnchanged

\* A faulty return: the update process's exit status is ignored for archives too.
UpgradeAlwaysSucceeds(ok) ==
    /\ pc' = "finish" /\ status' = "success"
    /\ todo' = {} /\ writing' = FALSE

(***************************************************************************)
(* install_package returns what upgrade_package returned for an archive,   *)
(* and INSTALL_SUCCESS whatever it returned for an ota directory.          *)
(***************************************************************************)
UpgradeReturns(ok) ==
    /\ pc' = "finish"
    /\ status' = IF ok \/ pkg[src].kind = "dir" THEN "success" ELSE "error"
    /\ todo' = {} /\ writing' = FALSE

SourcePresent == IF src = "usb" THEN inserted /\ mounted ELSE hasData

\* install_package up to the fork of the update process.
InstallPackage ==
    /\ mode = "recovery" /\ pc = "install"
    /\ \/ /\ SourcePresent /\ HasOtaDir(pkg[src])
          /\ pc' = "child"
          /\ todo' = {p \in Parts : p[2] \in pkg[src].imgs}
          /\ UNCHANGED <<writing, status>>
       \/ /\ SourcePresent /\ HasOtaDir(pkg[src])   \* bad configuration, or fork failed
          /\ UpgradeReturns(FALSE)
       \/ InstallFailed /\ UNCHANGED <<todo, writing>>  \* missing, or tar failed
    /\ UNCHANGED <<env, flash, hasData, retry, usbSeen, opts, src, ub, faults, wipes>>
    /\ MainUnchanged

\* The partition the update process has reached.
Current(p) == p \in todo /\ \A q \in todo : Before(p, q)

(***************************************************************************)
(* The md5 check.  verify_md5 compares two buffers that both stay empty    *)
(* when the .md5 file is empty and md5sum produced nothing.                *)
(***************************************************************************)
Verified(i) ==
    LET k == pkg[src] IN
    \/ (k.check => k.md5[i] = k.image[i]) /\ UNCHANGED faults
    \/ k.check /\ k.md5[i] = "empty" /\ Fault

(***************************************************************************)
(* The update process starts on a partition: extract, open, verify, then   *)
(* erase or overwrite.  Erasing or overwriting userdata may destroy the    *)
(* package file when the package lives there.                              *)
(***************************************************************************)
StartImage ==
    /\ mode = "recovery" /\ pc = "child" /\ ~writing
    /\ \E p \in Parts :
          /\ Current(p)
          /\ \/ /\ SourcePresent /\ Verified(p[2])
                /\ flash' = [flash EXCEPT ![p] = [from |-> src, digest |-> "torn"]]
                /\ hasData' \in (IF p[2] = USERDATA THEN {hasData, FALSE} ELSE {hasData})
                /\ writing' = TRUE
                /\ UNCHANGED <<pc, status, todo>>
             \/ UpgradeReturns(FALSE) /\ UNCHANGED <<flash, hasData, faults>>
    /\ UNCHANGED <<env, retry, usbSeen, opts, src, ub, wipes>>
    /\ MainUnchanged

\* A faulty step: the loop goes on before the data is on flash.
FinishImageUnsynced ==
    /\ mode = "recovery" /\ pc = "child" /\ writing
    /\ \E p \in Parts : Current(p) /\ todo' = todo \ {p}
    /\ writing' = FALSE
    /\ UNCHANGED <<env, flash, hasData, pc, retry, usbSeen, opts, src, status, ub, faults, wipes>>
    /\ MainUnchanged

\* dd and sync succeed.
FinishImage ==
    /\ mode = "recovery" /\ pc = "child" /\ writing
    /\ \E p \in Parts :
          /\ Current(p)
          /\ flash' = [flash EXCEPT ![p] = [from |-> src, digest |-> pkg[src].image[p[2]]]]
          /\ todo' = todo \ {p}
    /\ writing' = FALSE
    /\ UNCHANGED <<env, hasData, pc, retry, usbSeen, opts, src, status, ub, faults, wipes>>
    /\ MainUnchanged

\* erase or dd fails: the update process exits with a failure.
ImageFails ==
    /\ mode = "recovery" /\ pc = "child" /\ writing
    /\ Fault
    /\ UpgradeReturns(FALSE)
    /\ UNCHANGED <<env, flash, hasData, retry, usbSeen, opts, src, ub, wipes>>
    /\ MainUnchanged

ChildExits ==
    /\ mode = "recovery" /\ pc = "child" /\ ~writing /\ todo = {}
    /\ UpgradeReturns(TRUE)
    /\ UNCHANGED <<env, flash, hasData, retry, usbSeen, opts, src, ub, faults, wipes>>
    /\ MainUnchanged

\* The medium is pulled; a dd reading directly from it fails.
RemoveMedium ==
    /\ inserted
    /\ inserted' = FALSE
    /\ IF pc = "child" /\ writing /\ src = "usb" /\ pkg["usb"].kind = "dir"
       THEN Fault /\ UpgradeReturns(FALSE)
       ELSE UNCHANGED <<pc, status, todo, writing, faults>>
    /\ UNCHANGED <<env, flash, pkg, hasData, mode, daemon, req, retry, mounted, usbSeen,
                   opts, src, ub, requests, wipes>>

CountedWipes == IF ub THEN wipes ELSE wipes + 1

\* wipe_data(USERDATA, 0).
WipeData ==
    /\ mode = "recovery" /\ pc = "wipe"
    /\ \/ /\ flash' = [flash EXCEPT ![<<SLOTA, USERDATA>>] =
                         [from |-> "wiped", digest |-> "good"]]
          /\ wipes' = CountedWipes
          /\ hasData' \in {hasData, FALSE}
          /\ pc' = "finish"
          /\ UNCHANGED <<status, faults>>
       \/ /\ Fault                     \* the erase command fails
          /\ flash' = [flash EXCEPT ![<<SLOTA, USERDATA>>] =
                         [from |-> "wiped", digest |-> "torn"]]
          /\ wipes' = CountedWipes
          /\ hasData' \in {hasData, FALSE}
          /\ InstallFailed
       \/ /\ InstallFailed             \* the partition could not be unmounted
          /\ UNCHANGED <<flash, wipes, hasData, faults>>
    /\ UNCHANGED <<env, retry, usbSeen, opts, src, todo, writing, ub>>
    /\ MainUnchanged

\* A faulty finish_recovery: the entry is left alone.
FinishEntrySkipped ==
    /\ mode = "recovery" /\ pc = "finish"
    /\ pc' = "clear"
    /\ UNCHANGED <<env, flash, hasData, retry, usbSeen, opts, src, todo, writing, status,
                   ub, faults, wipes>>
    /\ MainUnchanged

\* finish_recovery, first environment write.
FinishEntry ==
    /\ mode = "recovery" /\ pc = "finish"
    /\ \/ env' = [env EXCEPT !.entry = "normal"] /\ pc' = "clear" /\ UNCHANGED faults
       \/ Fault /\ pc' \in {"clear", "delete"} /\ UNCHANGED env
    /\ UNCHANGED <<flash, hasData, retry, usbSeen, opts, src, todo, writing, status, ub, wipes>>
    /\ MainUnchanged

\* A faulty finish_recovery: the command is left in the environment.
FinishKeepsCmd ==
    /\ mode = "recovery" /\ pc = "clear"
    /\ pc' = "delete"
    /\ UNCHANGED <<env, flash, hasData, retry, usbSeen, opts, src, todo, writing, status,
                   ub, faults, wipes>>
    /\ MainUnchanged

\* finish_recovery, second environment write; its failure is not noticed.
FinishClearCmd ==
    /\ mode = "recovery" /\ pc = "clear"
    /\ Setenv("cmd", "none")
    /\ pc' = "delete"
    /\ UNCHANGED <<flash, hasData, retry, usbSeen, opts, src, todo, writing, status, ub, wipes>>
    /\ MainUnchanged

\* Delete an installed package; package_path is printed even if indeterminate.
DeletePackage ==
    /\ mode = "recovery" /\ pc = "delete"
    /\ hasData' = (hasData /\ ~(status = "success" /\ src = "data"))
    /\ pc' \in (IF status = "success" /\ opts = "jumped" THEN {"reboot", "dead"} ELSE {"reboot"})
    /\ UNCHANGED <<env, flash, retry, usbSeen, opts, src, todo, writing, status, ub, faults, wipes>>
    /\ MainUnchanged

RebootToNormal ==
    /\ mode = "recovery" /\ pc = "reboot"
    /\ GoesDown
    /\ UNCHANGED <<env, flash, pkg, hasData, inserted, ub, faults, requests, wipes>>

-----------------------------------------------------------------------------

Recovery ==
    \/ WaitStorage \/ GetArgs \/ Decide \/ InstallPackage
    \/ StartImage \/ FinishImage \/ ImageFails \/ ChildExits
    \/ WipeData \/ FinishEntry \/ FinishClearCmd \/ DeletePackage \/ RebootToNormal

Normal ==
    \/ CheckOtaPackage \/ EnterRecovery \/ DaemonReboot
    \/ StoreCommand("update") \/ StoreCommand("wipe") \/ StoreEntry \/ StoreUpdateMode
    \/ AbandonRequest \/ CancelRequest \/ UserReboot

World ==
    Boot \/ PowerLoss \/ InsertMedium \/ RemoveMedium \/ SwUpdate \/ StorageStateChange

Next == Recovery \/ Normal \/ World

Spec == Init /\ [][Next]_vars

(***************************************************************************)
(* The kernel keeps running the recovery program, the boot loader boots,   *)
(* and swupdate finishes; nothing is assumed of users, media and daemons.  *)
(***************************************************************************)
Fairness == WF_vars(Recovery) /\ WF_vars(Boot) /\ WF_vars(SwUpdate)

FairSpec == Spec /\ Fairness

-----------------------------------------------------------------------------
(* Properties.                                                             *)

PartsOf(s)      == {p \in Parts : p[2] \in pkg[s].imgs}
Installed(s, p) == flash[p] = [from |-> s, digest |-> pkg[s].image[p[2]]]
Reported        == mode = "recovery" /\ pc \in {"finish", "clear", "delete", "reboot"}

(***************************************************************************)
(* When main goes on to report success after installing an archive, every  *)
(* partition the archive's configuration names holds exactly the           *)
(* archive's image, in both slots (recovery.c:232, install.c:543).         *)
(***************************************************************************)
InstalledOnSuccess ==
    Reported /\ status = "success" /\ src # "none" =>
        (pkg[src].kind = "gz" => \A p \in PartsOf(src) : Installed(src, p))

(***************************************************************************)
(* The same for every kind of package, as the message of recovery.c:252    *)
(* says of an update from an ota directory too.                            *)
(***************************************************************************)
SuccessMeansInstalled ==
    Reported /\ status = "success" /\ src # "none" =>
        \A p \in PartsOf(src) : Installed(src, p)

\* p is half written and nobody is writing it.
TornAtRest(p) ==
    flash[p].digest = "torn" /\ ~(pc = "child" /\ writing /\ Current(p))

(***************************************************************************)
(* The two copies of a boot image are written one after the other and the  *)
(* update process stops at the first failure (install.c:462-529), so one   *)
(* failure never leaves both copies half written.                          *)
(***************************************************************************)
OneSlotIntact ==
    \A i \in KM4BOOT .. APIMAGE :
        /\ TornAtRest(<<SLOTA, i>>) \/ TornAtRest(<<SLOTB, i>>) => faults >= 1
        /\ TornAtRest(<<SLOTA, i>>) /\ TornAtRest(<<SLOTB, i>>) => faults >= 2

\* A stored wipe command that has not been carried out and acknowledged.
WipePending ==
    IF env.cmd = "wipe" /\ ~(mode = "recovery" /\ pc \in {"finish", "clear"}) THEN 1 ELSE 0

(***************************************************************************)
(* User data is wiped once per stored command, and once more for every     *)
(* power loss or failed fw_setenv between the wipe and the removal of the  *)
(* command (recovery.c:222-237, 46-56), unless main decided on             *)
(* uninitialised locals.                                                   *)
(***************************************************************************)
WipesAccounted == ~ub => wipes + WipePending <= requests + faults

(***************************************************************************)
(* An image that does not match its digest file reaches a partition only   *)
(* when the configuration turns the check off, when the digest file is     *)
(* wrong as well, or when it is empty and md5sum failed (install.c:485).   *)
(***************************************************************************)
VerifiedContent ==
    \A p \in Parts : flash[p].digest = "corrupt" =>
        /\ flash[p].from \in Sources
        /\ LET k == pkg[flash[p].from] IN
              \/ ~k.check
              \/ k.md5[p[2]] = "corrupt"
              \/ k.md5[p[2]] = "empty" /\ faults >= 1

(***************************************************************************)
(* The downloaded package disappears only when it is fully installed, or   *)
(* with the user data partition it is stored on (recovery.c:241-249).  An  *)
(* ota directory is excepted: its result is not looked at.                 *)
(***************************************************************************)
PackageKept ==
    [][hasData /\ ~hasData' =>
        \/ mode = "recovery" /\ pc = "delete" /\ src = "data"
           /\ (pkg["data"].kind = "dir" \/ \A p \in PartsOf("data") : Installed("data", p))
        \/ pc = "child" /\ Current(<<SLOTA, USERDATA>>)
        \/ pc = "wipe"]_vars

(***************************************************************************)
(* Once no update medium is plugged in, the machine ends up in the normal  *)
(* system for good: no environment left behind by power losses and failed  *)
(* writes keeps it rebooting (recovery.c:46-56, recoveryd.c:86-99).        *)
(***************************************************************************)
SettlesInNormal == <>[](~inserted) => <>[](mode = "normal" \/ pc = "dead")
=============================================================================
