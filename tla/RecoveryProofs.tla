------------------------ MODULE RecoveryProofs ------------------------------
(***************************************************************************)
(* Proofs about the recovery system.  OtaRecovery: type correctness and the*)
(* safety invariants that the runs check on small packages, for every set of*)
(* packages and every bound.  StorageMount: the mount the storage mounter  *)
(* remembers is the one on top of the mount point, and its reports are the *)
(* ones StorageReport promises, for any media, partitions and bounds.      *)
(***************************************************************************)
EXTENDS OtaRecovery, StorageMount, TLAPS

-----------------------------------------------------------------------------
(* The recovery program.                                                   *)

-----------------------------------------------------------------------------
(* Type correctness.                                                       *)

\* Zero is a value of every counter.
LEMMA ZeroInRange ==
    /\ 0 \in 0 .. RETRYCOUNT /\ 0 \in 0 .. MaxFaults /\ 0 \in 0 .. MaxRequests
    /\ 0 \in Nat
  BY OtaAssumption

\* A fresh device has the right types.
LEMMA InitType == Init => TypeOK
  <1> SUFFICES ASSUME Init PROVE TypeOK
    OBVIOUS
  <1>1. env \in [entry : {"normal", "recovery"}, cmd : {"none", "update", "wipe"},
                 update_mode : {"normal", "swupdate"}]
    BY DEF Init
  <1>2. flash \in [Parts -> Content]
    BY DEF Init, Content, Digests
  <1>3. pkg \in [Sources -> Package]
    BY OtaAssumption DEF Init, Sources
  <1>4. /\ hasData \in BOOLEAN /\ inserted \in BOOLEAN /\ mounted \in BOOLEAN
        /\ usbSeen \in BOOLEAN /\ writing \in BOOLEAN /\ ub \in BOOLEAN
    BY Zenon DEF Init
  <1> QED BY <1>1, <1>2, <1>3, <1>4, ZeroInRange, Zenon DEF Init, TypeOK

\* After a reboot or a power loss the volatile state is that of a fresh start.
LEMMA DownType ==
    ASSUME GoesDown
    PROVE  /\ mode' \in {"off", "normal", "recovery", "swupdate"}
           /\ daemon' \in {"poll", "found", "reboot"}
           /\ req' \in {"idle", "entry", "mode"}
           /\ pc' \in {"wait", "args", "decide", "install", "child", "wipe", "finish",
                       "clear", "delete", "reboot", "dead"}
           /\ retry' \in 0 .. RETRYCOUNT
           /\ mounted' \in BOOLEAN
           /\ usbSeen' \in BOOLEAN
           /\ opts' \in {"none", "jumped", "update", "wipe"}
           /\ src' \in Sources \cup {"none"}
           /\ todo' \subseteq Parts
           /\ writing' \in BOOLEAN
           /\ status' \in {"success", "error"}
  <1>1. {} \subseteq Parts
    OBVIOUS
  <1> QED BY <1>1, ZeroInRange, Zenon DEF GoesDown

\* A failure is only counted below the bound.
LEMMA FaultType == ASSUME TypeOK, Fault PROVE faults' \in 0 .. MaxFaults
  BY OtaAssumption DEF TypeOK, Fault

\* The types after install_package() reports an error (install.c:566).
LEMMA UpgradeFailsType ==
    ASSUME UpgradeReturns(FALSE)
    PROVE  /\ pc' \in {"wait", "args", "decide", "install", "child", "wipe", "finish",
                       "clear", "delete", "reboot", "dead"}
           /\ status' \in {"success", "error"}
           /\ todo' \subseteq Parts
           /\ writing' \in BOOLEAN
  <1>1. {} \subseteq Parts
    OBVIOUS
  <1>2. status' \in {"success", "error"}
    BY DEF UpgradeReturns
  <1> QED BY <1>1, <1>2, Zenon DEF UpgradeReturns

\* The types after install_package() reports success.
LEMMA UpgradeSucceedsType ==
    ASSUME UpgradeReturns(TRUE)
    PROVE  /\ pc' \in {"wait", "args", "decide", "install", "child", "wipe", "finish",
                       "clear", "delete", "reboot", "dead"}
           /\ status' \in {"success", "error"}
           /\ todo' \subseteq Parts
           /\ writing' \in BOOLEAN
  <1>1. {} \subseteq Parts
    OBVIOUS
  <1>2. status' \in {"success", "error"}
    BY DEF UpgradeReturns
  <1> QED BY <1>1, <1>2, Zenon DEF UpgradeReturns

\* The steps of the normal system (recoveryd.c, test.c) keep the types.
LEMMA NormalType == TypeOK /\ Normal => TypeOK'
  <1> SUFFICES ASSUME TypeOK, Normal PROVE TypeOK'
    OBVIOUS
  <1> USE OtaAssumption DEF TypeOK, NormalUnchanged, program
  <1>1. CASE CheckOtaPackage
    BY <1>1 DEF CheckOtaPackage, Fault
  <1>2. CASE EnterRecovery
    BY <1>2 DEF EnterRecovery, Fault
  <1>3. CASE DaemonReboot
    BY <1>3, DownType DEF DaemonReboot
  <1>4. CASE StoreCommand("update")
    BY <1>4 DEF StoreCommand, Setenv, Fault
  <1>5. CASE StoreCommand("wipe")
    BY <1>5 DEF StoreCommand, Setenv, Fault
  <1>6. CASE StoreEntry
    BY <1>6 DEF StoreEntry, Setenv, Fault
  <1>7. CASE StoreUpdateMode
    BY <1>7 DEF StoreUpdateMode, Setenv, Fault
  <1>8. CASE AbandonRequest
    BY <1>8 DEF AbandonRequest, Fault
  <1>9. CASE CancelRequest
    BY <1>9 DEF CancelRequest, Setenv, Fault
  <1>10. CASE UserReboot
    BY <1>10, DownType DEF UserReboot
  <1> QED BY <1>1, <1>2, <1>3, <1>4, <1>5, <1>6, <1>7, <1>8, <1>9, <1>10 DEF Normal

\* Media, power losses and boots keep the types.
LEMMA WorldType == TypeOK /\ World => TypeOK'
  <1> SUFFICES ASSUME TypeOK, World PROVE TypeOK'
    OBVIOUS
  <1> USE DEF TypeOK, program
  <1>1. CASE Boot
    BY <1>1 DEF Boot
  <1>2. CASE PowerLoss
    BY <1>2, DownType, FaultType DEF PowerLoss
  <1>3. CASE InsertMedium
    BY <1>3 DEF InsertMedium
  <1>4. CASE RemoveMedium
    <2>1. inserted' \in BOOLEAN /\ faults' \in 0 .. MaxFaults
      BY <1>4, FaultType, Zenon DEF RemoveMedium
    <2>2. /\ pc' \in {"wait", "args", "decide", "install", "child", "wipe", "finish",
                      "clear", "delete", "reboot", "dead"}
          /\ status' \in {"success", "error"}
          /\ todo' \subseteq Parts
          /\ writing' \in BOOLEAN
      BY <1>4, UpgradeFailsType, Zenon DEF RemoveMedium
    <2>3. UNCHANGED <<env, flash, pkg, hasData, mode, daemon, req, retry, mounted, usbSeen,
                      opts, src, ub, requests, wipes>>
      BY <1>4 DEF RemoveMedium
    <2> QED BY <2>1, <2>2, <2>3
  <1>5. CASE SwUpdate
    BY <1>5, DownType DEF SwUpdate
  <1>6. CASE StorageStateChange
    BY <1>6 DEF StorageStateChange
  <1> QED BY <1>1, <1>2, <1>3, <1>4, <1>5, <1>6 DEF World

\* What the update process and wipe_data write is content.
LEMMA WriteType ==
    ASSUME TypeOK, NEW p \in Parts, NEW f \in {"factory", "data", "usb", "wiped"},
           NEW d \in Digests \cup {"torn"}
    PROVE  [flash EXCEPT ![p] = [from |-> f, digest |-> d]] \in [Parts -> Content]
  BY DEF TypeOK, Content

\* What a package's image brings to a partition is a content.
LEMMA ImageType ==
    ASSUME TypeOK, NEW s \in Sources, NEW p \in Parts
    PROVE  p[2] \in Images /\ pkg[s].image[p[2]] \in Digests
  <1>1. p[2] \in Images
    BY DEF Parts, Images, KM4BOOT, MISC, APIMAGE
  <1>2. pkg[s] \in Package
    BY Zenon DEF TypeOK
  <1> QED BY <1>1, <1>2 DEF Package

\* Main is past its first step only in recovery mode.
ModeOK == pc # "wait" => mode = "recovery"

\* The update process only runs with a source, and there is none before.
SourceOK ==
    /\ pc \in {"install", "child"} => src \in Sources
    /\ pc \in {"wait", "args", "decide", "wipe"} => src = "none"

\* Partitions are written by the update process only.
WritingOK == writing => pc = "child"

FlowInv == TypeOK /\ ModeOK /\ SourceOK /\ WritingOK

\* The steps of the recovery program keep the types.
LEMMA RecoveryType == TypeOK /\ SourceOK /\ Recovery => TypeOK'
  <1> SUFFICES ASSUME TypeOK, SourceOK, Recovery PROVE TypeOK'
    OBVIOUS
  <1> USE DEF TypeOK, MainUnchanged, InstallFailed
  <1>1. CASE WaitStorage
    <2>1. retry' \in 0 .. RETRYCOUNT
      BY <1>1, OtaAssumption DEF WaitStorage
    <2>2. usbSeen' \in BOOLEAN /\ pc' \in {"wait", "args"}
      BY <1>1, Zenon DEF WaitStorage
    <2> QED BY <1>1, <2>1, <2>2 DEF WaitStorage
  <1>2. CASE GetArgs
    BY <1>2 DEF GetArgs
  <1>3. CASE Decide
    <2>1. /\ pc' \in {"install", "wipe", "finish", "dead"}
          /\ src' \in Sources \cup {"none"}
          /\ status' \in {"success", "error"}
          /\ ub' \in BOOLEAN
      BY <1>3, Zenon DEF Decide, ChooseStorage, ChooseByOptions, Sources
    <2> QED BY <1>3, <2>1 DEF Decide
  <1>4. CASE InstallPackage
    <2>1. /\ pc' \in {"wait", "args", "decide", "install", "child", "wipe", "finish",
                      "clear", "delete", "reboot", "dead"}
          /\ status' \in {"success", "error"}
          /\ todo' \subseteq Parts
          /\ writing' \in BOOLEAN
      <3>1. {p \in Parts : p[2] \in pkg[src].imgs} \subseteq Parts
        OBVIOUS
      <3> QED BY <1>4, <3>1, UpgradeFailsType, Zenon DEF InstallPackage
    <2> QED BY <1>4, <2>1 DEF InstallPackage
  <1>5. CASE StartImage
    <2>1. PICK p \in Parts :
            \/ /\ SourcePresent /\ Verified(p[2])
               /\ flash' = [flash EXCEPT ![p] = [from |-> src, digest |-> "torn"]]
               /\ hasData' \in (IF p[2] = USERDATA THEN {hasData, FALSE} ELSE {hasData})
               /\ writing' = TRUE
               /\ UNCHANGED <<pc, status, todo>>
            \/ UpgradeReturns(FALSE) /\ UNCHANGED <<flash, hasData, faults>>
      BY <1>5, Zenon DEF StartImage
    <2>2. flash' \in [Parts -> Content]
      <3>1. [flash EXCEPT ![p] = [from |-> src, digest |-> "torn"]] \in [Parts -> Content]
        BY <1>5, WriteType DEF StartImage, SourceOK, Sources
      <3> QED BY <2>1, <3>1, Zenon
    <2>3. faults' \in 0 .. MaxFaults /\ hasData' \in BOOLEAN
      BY <2>1, FaultType, Zenon DEF Verified
    <2>4. /\ pc' \in {"wait", "args", "decide", "install", "child", "wipe", "finish",
                      "clear", "delete", "reboot", "dead"}
          /\ status' \in {"success", "error"}
          /\ todo' \subseteq Parts
          /\ writing' \in BOOLEAN
      BY <2>1, UpgradeFailsType, Zenon
    <2> QED BY <1>5, <2>2, <2>3, <2>4 DEF StartImage
  <1>6. CASE FinishImage
    <2>1. PICK p \in Parts :
            /\ flash' = [flash EXCEPT ![p] = [from |-> src, digest |-> pkg[src].image[p[2]]]]
            /\ todo' = todo \ {p}
      BY <1>6, Zenon DEF FinishImage
    <2>2. src \in Sources
      BY <1>6 DEF FinishImage, SourceOK
    <2>3. flash' \in [Parts -> Content]
      BY <2>1, <2>2, WriteType, ImageType DEF Sources
    <2>4. todo' \subseteq Parts
      BY <2>1
    <2>5. writing' \in BOOLEAN
      BY <1>6, Zenon DEF FinishImage
    <2>6. /\ UNCHANGED <<env, hasData, pc, retry, usbSeen, opts, src, status, ub, faults, wipes>>
          /\ MainUnchanged
      BY <1>6 DEF FinishImage
    <2> QED BY <2>3, <2>4, <2>5, <2>6
  <1>7. CASE ImageFails
    BY <1>7, FaultType, UpgradeFailsType DEF ImageFails
  <1>8. CASE ChildExits
    BY <1>8, UpgradeSucceedsType DEF ChildExits
  <1>9. CASE WipeData
    <2>1. <<SLOTA, USERDATA>> \in Parts
      BY DEF Parts, Images, KM4BOOT, MISC, USERDATA
    <2>2. flash' \in [Parts -> Content]
      <3>1. /\ [flash EXCEPT ![<<SLOTA, USERDATA>>] = [from |-> "wiped", digest |-> "good"]]
                 \in [Parts -> Content]
            /\ [flash EXCEPT ![<<SLOTA, USERDATA>>] = [from |-> "wiped", digest |-> "torn"]]
                 \in [Parts -> Content]
        BY <2>1, WriteType DEF Digests
      <3> QED BY <1>9, <3>1, Zenon DEF WipeData
    <2>3. wipes' \in Nat
      <3>1. CountedWipes \in {wipes, wipes + 1}
        BY Zenon DEF CountedWipes
      <3>2. wipes \in Nat /\ wipes + 1 \in Nat
        BY DEF TypeOK
      <3> QED BY <1>9, <3>1, <3>2, Zenon DEF WipeData
    <2>4. faults' \in 0 .. MaxFaults
      BY <1>9, FaultType, Zenon DEF WipeData
    <2>5. hasData' \in BOOLEAN /\ pc' = "finish" /\ status' \in {"success", "error"}
      BY <1>9, Zenon DEF WipeData
    <2> QED BY <1>9, <2>2, <2>3, <2>4, <2>5 DEF WipeData
  <1>10. CASE FinishEntry
    BY <1>10, FaultType DEF FinishEntry
  <1>11. CASE FinishClearCmd
    BY <1>11, FaultType DEF FinishClearCmd, Setenv
  <1>12. CASE DeletePackage
    BY <1>12 DEF DeletePackage
  <1>13. CASE RebootToNormal
    BY <1>13, DownType DEF RebootToNormal
  <1> QED BY <1>1, <1>2, <1>3, <1>4, <1>5, <1>6, <1>7, <1>8, <1>9, <1>10, <1>11, <1>12, <1>13
          DEF Recovery

\* Outside recovery main either restarts or does not move, and flash is not written.
LEMMA NormalFrame ==
    ASSUME Normal
    PROVE  /\ mode = "normal" /\ UNCHANGED <<flash, pkg, ub, wipes>>
           /\ \/ GoesDown
              \/ UNCHANGED mode /\ UNCHANGED program
  BY DEF Normal, CheckOtaPackage, EnterRecovery, DaemonReboot, StoreCommand, StoreEntry,
         StoreUpdateMode, AbandonRequest, CancelRequest, UserReboot, NormalUnchanged

\* Media, power losses and boots leave flash, packages and wipes alone.
LEMMA WorldFrame ==
    ASSUME World
    PROVE  /\ UNCHANGED <<flash, pkg, ub, wipes>>
           /\ \/ Boot
              \/ PowerLoss
              \/ SwUpdate
              \/ RemoveMedium
              \/ InsertMedium /\ UNCHANGED mode /\ UNCHANGED program
              \/ StorageStateChange
  BY Zenon DEF World, Boot, PowerLoss, SwUpdate, RemoveMedium, InsertMedium, StorageStateChange

\* Every step keeps the control-flow invariant of the recovery program.
LEMMA FlowStep == FlowInv /\ [Next]_vars => FlowInv'
  <1> SUFFICES ASSUME FlowInv, [Next]_vars PROVE FlowInv'
    OBVIOUS
  <1>1. TypeOK'
    <2>1. CASE Recovery
      BY <2>1, RecoveryType DEF FlowInv
    <2>2. CASE Normal
      BY <2>2, NormalType DEF FlowInv
    <2>3. CASE World
      BY <2>3, WorldType DEF FlowInv
    <2>4. CASE UNCHANGED vars
      BY <2>4 DEF vars, FlowInv, TypeOK
    <2> QED BY <2>1, <2>2, <2>3, <2>4 DEF Next
  <1>2. ModeOK' /\ SourceOK'
    <2> USE DEF FlowInv, ModeOK, SourceOK
    <2>1. CASE Normal
      BY <2>1, NormalFrame, Zenon DEF GoesDown, program
    <2>2. CASE World
      BY <2>2, WorldFrame, Zenon DEF Boot, PowerLoss, SwUpdate, RemoveMedium, StorageStateChange,
         GoesDown, UpgradeReturns, program
    <2>3. CASE UNCHANGED vars
      BY <2>3 DEF vars
    <2>4. CASE Recovery
      <3> USE DEF MainUnchanged, InstallFailed, UpgradeReturns, Sources
      <3>1. CASE WaitStorage \/ GetArgs
        BY <3>1 DEF WaitStorage, GetArgs
      <3>2. CASE Decide
        BY <3>2, Zenon DEF Decide, ChooseStorage, ChooseByOptions
      <3>3. CASE InstallPackage
        BY <3>3 DEF InstallPackage
      <3>4. CASE StartImage \/ FinishImage \/ ImageFails \/ ChildExits
        BY <3>4, Zenon DEF StartImage, FinishImage, ImageFails, ChildExits
      <3>5. CASE WipeData \/ FinishEntry \/ FinishClearCmd \/ DeletePackage
        BY <3>5, Zenon DEF WipeData, FinishEntry, FinishClearCmd, DeletePackage
      <3>6. CASE RebootToNormal
        BY <3>6 DEF RebootToNormal, GoesDown
      <3> QED BY <2>4, <3>1, <3>2, <3>3, <3>4, <3>5, <3>6 DEF Recovery
    <2> QED BY <2>1, <2>2, <2>3, <2>4 DEF Next
  <1>3. WritingOK'
    <2>1. CASE GoesDown
      BY <2>1 DEF GoesDown, WritingOK
    <2>2. CASE UNCHANGED <<pc, writing>>
      BY <2>2 DEF FlowInv, WritingOK
    <2>3. CASE UpgradeReturns(FALSE) \/ UpgradeReturns(TRUE)
      BY <2>3 DEF UpgradeReturns, WritingOK
    <2>4. CASE UNCHANGED writing /\ pc # "child"
      BY <2>4 DEF FlowInv, WritingOK
    <2>5. CASE pc = "child" /\ pc' = "child"
      BY <2>5 DEF WritingOK
    <2>6. CASE Normal
      BY <2>6, <2>1, <2>2, NormalFrame DEF program
    <2>7. CASE World
      BY <2>7, <2>1, <2>2, <2>3, Zenon DEF World, Boot, PowerLoss, InsertMedium, RemoveMedium,
         SwUpdate, StorageStateChange, program
    <2>8. CASE UNCHANGED vars
      BY <2>8, <2>2 DEF vars
    <2>9. CASE WaitStorage \/ GetArgs \/ Decide \/ WipeData \/ FinishEntry \/ FinishClearCmd
               \/ DeletePackage
      BY <2>9, <2>4, Zenon DEF WaitStorage, GetArgs, Decide, WipeData, FinishEntry, FinishClearCmd,
         DeletePackage
    <2>10. CASE InstallPackage \/ ImageFails \/ ChildExits
      BY <2>10, <2>3, <2>4, Zenon DEF InstallPackage, ImageFails, ChildExits
    <2>11. CASE StartImage \/ FinishImage
      BY <2>11, <2>3, <2>5, Zenon DEF StartImage, FinishImage
    <2>12. CASE RebootToNormal
      BY <2>12, <2>1 DEF RebootToNormal
    <2> QED BY <2>6, <2>7, <2>8, <2>9, <2>10, <2>11, <2>12 DEF Next, Recovery
  <1> QED BY <1>1, <1>2, <1>3 DEF FlowInv

\* The control-flow invariant holds for ever.
LEMMA FlowInvariant == Spec => []FlowInv
  <1>1. Init => FlowInv
    <2>1. Init => ModeOK /\ SourceOK /\ WritingOK
      BY DEF Init, ModeOK, SourceOK, WritingOK
    <2> QED BY <2>1, InitType DEF FlowInv
  <1> QED BY <1>1, FlowStep, PTL DEF Spec

(***************************************************************************)
(* Every variable of the update system keeps its type, whatever packages   *)
(* and bounds there are: the update process only ever writes an image of   *)
(* the source main chose.                                                  *)
(***************************************************************************)
THEOREM TypeCorrect == Spec => []TypeOK
  BY FlowInvariant, PTL DEF FlowInv

-----------------------------------------------------------------------------
(* What is installed when success is reported.                             *)

\* The update process has written every partition it has dealt with.
ChildOK ==
    pc = "child" =>
        /\ HasOtaDir(pkg[src])
        /\ \A p \in PartsOf(src) : p \notin todo => Installed(src, p)

\* The report of main, for the package that was installed.
ReportOK ==
    pc \in {"finish", "clear", "delete", "reboot"} /\ status = "success" /\ src # "none" =>
        /\ HasOtaDir(pkg[src])
        /\ pkg[src].kind = "gz" => \A p \in PartsOf(src) : Installed(src, p)

InstallInv == ChildOK /\ ReportOK

\* At most one partition is the one being written.
LEMMA CurrentUnique ==
    ASSUME NEW p \in Parts, NEW q \in Parts, Current(p), Current(q)
    PROVE  p = q
  <1>1. Before(p, q) /\ Before(q, p)
    BY DEF Current
  <1>2. p = <<p[1], p[2]>> /\ q = <<q[1], q[2]>>
        /\ p[1] \in Nat /\ p[2] \in Nat /\ q[1] \in Nat /\ q[2] \in Nat
    BY DEF Parts, Images, KM4BOOT, MISC, APIMAGE, SLOTA, SLOTB
  <1>3. p[1] = q[1] /\ p[2] = q[2]
    BY <1>1, <1>2 DEF Before
  <1> QED BY <1>2, <1>3

\* Steps that write no partition and leave main where it is, or restart it.
LEMMA InstallFrame ==
    ASSUME InstallInv, UNCHANGED <<flash, pkg>>,
           UNCHANGED <<pc, src, todo, status>> \/ GoesDown
    PROVE  InstallInv'
  BY DEF InstallInv, ChildOK, ReportOK, GoesDown, PartsOf, Installed, HasOtaDir

\* upgrade_package returns an error: an archive is reported as failed.
LEMMA InstallFails ==
    ASSUME InstallInv, UNCHANGED <<flash, pkg, src>>, pc = "child", UpgradeReturns(FALSE)
    PROVE  InstallInv'
  BY DEF InstallInv, ChildOK, ReportOK, UpgradeReturns, PartsOf, Installed, HasOtaDir

\* Every step keeps what the update process has written and reported.
LEMMA InstallStep == FlowInv /\ InstallInv /\ [Next]_vars => InstallInv'
  <1> SUFFICES ASSUME FlowInv, InstallInv, [Next]_vars PROVE InstallInv'
    OBVIOUS
  <1>1. CASE Normal
    BY <1>1, NormalFrame, InstallFrame DEF program
  <1>2. CASE World
    <2>1. CASE RemoveMedium
      <3>1. CASE UNCHANGED <<pc, src, todo, status>>
        BY <2>1, <3>1, InstallFrame DEF RemoveMedium
      <3>2. CASE UpgradeReturns(FALSE) /\ pc = "child"
        BY <2>1, <3>2, InstallFails DEF RemoveMedium
      <3> QED BY <2>1, <3>1, <3>2, Zenon DEF RemoveMedium
    <2>2. CASE ~RemoveMedium
      BY <1>2, <2>2, WorldFrame, InstallFrame
         DEF Boot, PowerLoss, SwUpdate, StorageStateChange, program
    <2> QED BY <2>1, <2>2
  <1>3. CASE UNCHANGED vars
    BY <1>3, InstallFrame DEF vars
  <1>4. CASE WaitStorage \/ GetArgs
    BY <1>4 DEF WaitStorage, GetArgs, MainUnchanged, InstallFailed, InstallInv, ChildOK,
       ReportOK, FlowInv, SourceOK
  <1>5. CASE Decide
    BY <1>5, Zenon DEF Decide, ChooseStorage, ChooseByOptions, MainUnchanged, InstallFailed,
       InstallInv, ChildOK, ReportOK, FlowInv, SourceOK
  <1>6. CASE InstallPackage
    BY <1>6 DEF InstallPackage, UpgradeReturns, MainUnchanged, InstallFailed,
       InstallInv, ChildOK, ReportOK, HasOtaDir, PartsOf
  <1>7. CASE StartImage
    <2>1. CASE UpgradeReturns(FALSE) /\ UNCHANGED flash
      BY <1>7, <2>1, InstallFails DEF StartImage, MainUnchanged
    <2>2. CASE \E p \in Parts :
                 /\ Current(p)
                 /\ flash' = [flash EXCEPT ![p] = [from |-> src, digest |-> "torn"]]
                 /\ UNCHANGED <<pc, status, todo>>
      <3>1. PICK p \in Parts :
                 /\ Current(p)
                 /\ flash' = [flash EXCEPT ![p] = [from |-> src, digest |-> "torn"]]
                 /\ UNCHANGED <<pc, status, todo>>
        BY <2>2, Zenon
      <3>2. \A q \in Parts : q \notin todo => flash'[q] = flash[q]
        BY <3>1, Zenon DEF Current, FlowInv, TypeOK
      <3> QED BY <1>7, <3>1, <3>2 DEF StartImage, MainUnchanged, InstallInv, ChildOK, ReportOK,
             PartsOf, Installed, HasOtaDir
    <2> QED BY <1>7, <2>1, <2>2, Zenon DEF StartImage
  <1>8. CASE FinishImage
    <2>1. PICK p \in Parts :
            /\ Current(p)
            /\ flash' = [flash EXCEPT ![p] = [from |-> src, digest |-> pkg[src].image[p[2]]]]
            /\ todo' = todo \ {p}
      BY <1>8, Zenon DEF FinishImage
    <2>2. \A q \in Parts : q # p => flash'[q] = flash[q]
      BY <2>1 DEF FlowInv, TypeOK
    <2>3. flash'[p] = [from |-> src, digest |-> pkg[src].image[p[2]]]
      BY <2>1 DEF FlowInv, TypeOK
    <2> QED BY <1>8, <2>1, <2>2, <2>3 DEF FinishImage, MainUnchanged, InstallInv, ChildOK,
           ReportOK, PartsOf, Installed, HasOtaDir
  <1>9. CASE ImageFails
    BY <1>9, InstallFails, Zenon DEF ImageFails, MainUnchanged
  <1>10. CASE ChildExits
    BY <1>10 DEF ChildExits, UpgradeReturns, MainUnchanged, InstallInv, ChildOK, ReportOK,
       PartsOf, Installed, HasOtaDir
  <1>11. CASE WipeData
    BY <1>11, Zenon DEF WipeData, MainUnchanged, InstallFailed, InstallInv, ChildOK, ReportOK,
       FlowInv, SourceOK
  <1>12. CASE FinishEntry \/ FinishClearCmd \/ DeletePackage
    BY <1>12 DEF FinishEntry, FinishClearCmd, DeletePackage, MainUnchanged, InstallInv, ChildOK,
       ReportOK, PartsOf, Installed, HasOtaDir
  <1>13. CASE RebootToNormal
    BY <1>13, InstallFrame DEF RebootToNormal
  <1> QED BY <1>1, <1>2, <1>3, <1>4, <1>5, <1>6, <1>7, <1>8, <1>9, <1>10, <1>11, <1>12, <1>13
          DEF Next, Recovery

(***************************************************************************)
(* Whatever the packages, the power losses and the interleaving with the   *)
(* storage thread: when main reports success for an archive, every         *)
(* partition the archive names holds its image (recovery.c:232-252).       *)
(***************************************************************************)
THEOREM SuccessIsInstalled == Spec => []InstalledOnSuccess
  <1>1. Init => InstallInv
    BY DEF Init, InstallInv, ChildOK, ReportOK
  <1>2. InstallInv => InstalledOnSuccess
    BY DEF InstallInv, ReportOK, InstalledOnSuccess, Reported
  <1> QED BY <1>1, <1>2, FlowInvariant, InstallStep, PTL DEF Spec

-----------------------------------------------------------------------------
(* The package is kept until it is installed.                              *)

(***************************************************************************)
(* A downloaded package is deleted by main only when it is installed       *)
(* (recovery.c:241-249), for every package and every history of failures.  *)
(***************************************************************************)
THEOREM PackageIsKept == Spec => PackageKept
  <1> DEFINE Lost ==
        hasData /\ ~hasData' =>
          \/ mode = "recovery" /\ pc = "delete" /\ src = "data"
             /\ (pkg["data"].kind = "dir" \/ \A p \in PartsOf("data") : Installed("data", p))
          \/ pc = "child" /\ Current(<<SLOTA, USERDATA>>)
          \/ pc = "wipe"
  <1>1. FlowInv /\ InstallInv /\ [Next]_vars => [Lost]_vars
    <2> SUFFICES ASSUME FlowInv, InstallInv, Next, hasData, ~hasData' PROVE Lost
      BY DEF vars
    <2>1. Recovery
      BY Zenon DEF Next, Normal, World, CheckOtaPackage, EnterRecovery, DaemonReboot, StoreCommand,
         StoreEntry, StoreUpdateMode, AbandonRequest, CancelRequest, UserReboot, Boot,
         PowerLoss, InsertMedium, RemoveMedium, SwUpdate, StorageStateChange
    <2>2. StartImage \/ WipeData \/ DeletePackage
      BY <2>1, Zenon DEF Recovery, WaitStorage, GetArgs, Decide, InstallPackage, FinishImage,
         ImageFails, ChildExits, FinishEntry, FinishClearCmd, RebootToNormal
    <2>3. CASE StartImage
      <3>1. PICK p \in Parts : Current(p) /\ p[2] = USERDATA
        BY <2>3, Zenon DEF StartImage
      <3>2. p = <<SLOTA, USERDATA>>
        BY <3>1 DEF Parts, Images, KM4BOOT, APIMAGE, USERDATA, MISC
      <3> QED BY <2>3, <3>1, <3>2 DEF StartImage
    <2>4. CASE WipeData
      BY <2>4 DEF WipeData
    <2>5. CASE DeletePackage
      BY <2>5, Zenon DEF DeletePackage, InstallInv, ReportOK, HasOtaDir, FlowInv, TypeOK, Sources
    <2> QED BY <2>2, <2>3, <2>4, <2>5
  <1>2. Init => InstallInv
    BY DEF Init, InstallInv, ChildOK, ReportOK
  <1> QED BY <1>1, <1>2, FlowInvariant, InstallStep, PTL DEF Spec, PackageKept

-----------------------------------------------------------------------------
(* Half-written boot images.                                               *)

BootParts == {p \in Parts : p[2] \in KM4BOOT .. APIMAGE}

\* The same as OneSlotIntact, with the two copies as partitions.
TornOK ==
    \A p, q \in BootParts :
        /\ TornAtRest(p) => faults >= 1
        /\ TornAtRest(p) /\ TornAtRest(q) /\ p # q /\ p[2] = q[2] => faults >= 2

\* A step that tears no boot image keeps the count of torn ones covered by failures.
LEMMA TornFrame ==
    ASSUME FlowInv, TornOK, faults' \in Nat, faults' >= faults,
           \A p \in BootParts : TornAtRest(p)' => TornAtRest(p)
    PROVE  TornOK'
  <1>1. faults \in Nat
    BY OtaAssumption DEF FlowInv, TypeOK
  <1>2. BootParts' = BootParts
    BY DEF BootParts
  <1> QED BY <1>1, <1>2 DEF TornOK

\* A failure leaves at most one more partition torn: the one being written.
LEMMA TornFault ==
    ASSUME FlowInv, TornOK, Fault, UNCHANGED flash
    PROVE  TornOK'
  <1>1. faults \in Nat /\ faults' = faults + 1
    BY OtaAssumption DEF FlowInv, TypeOK, Fault
  <1>2. \A p \in BootParts : TornAtRest(p)' => TornAtRest(p) \/ Current(p)
    BY DEF TornAtRest
  <1>3. \A p, q \in BootParts : Current(p) /\ Current(q) => p = q
    BY CurrentUnique DEF BootParts
  <1>4. BootParts' = BootParts
    BY DEF BootParts
  <1> SUFFICES ASSUME NEW p \in BootParts, NEW q \in BootParts
               PROVE  /\ TornAtRest(p)' => faults' >= 1
                      /\ TornAtRest(p)' /\ TornAtRest(q)' /\ p # q /\ p[2] = q[2] => faults' >= 2
    BY <1>4 DEF TornOK
  <1>5. faults' >= 1
    BY <1>1
  <1>6. ASSUME TornAtRest(p)', TornAtRest(q)', p # q PROVE faults >= 1
    BY <1>2, <1>3, <1>6 DEF TornOK
  <1> QED BY <1>1, <1>5, <1>6

\* Every step keeps the count of torn boot images covered by failures.
LEMMA TornStep == FlowInv /\ TornOK /\ [Next]_vars => TornOK'
  <1> SUFFICES ASSUME FlowInv, TornOK, [Next]_vars PROVE TornOK'
    OBVIOUS
  <1>0. faults \in Nat
    BY OtaAssumption DEF FlowInv, TypeOK
  <1>a. ASSUME faults' \in Nat, faults' >= faults, UNCHANGED flash,
               UNCHANGED <<pc, todo, writing>> \/ pc # "child" \/ ~writing
        PROVE  TornOK'
    <2>1. \A p \in BootParts : TornAtRest(p)' => TornAtRest(p)
      BY <1>a DEF TornAtRest, Current
    <2> QED BY <1>a, <2>1, TornFrame
  <1>b. ASSUME Fault PROVE faults' \in Nat /\ faults' >= faults
    BY <1>0, <1>b DEF Fault
  <1>c. faults >= faults
    BY <1>0
  <1>1. CASE Normal
    <2>1. faults' \in Nat /\ faults' >= faults
      BY <1>1, <1>0, <1>b, <1>c DEF Normal, CheckOtaPackage, EnterRecovery, DaemonReboot, StoreCommand,
         StoreEntry, StoreUpdateMode, AbandonRequest, CancelRequest, UserReboot, Setenv
    <2>2. UNCHANGED <<pc, todo, writing>> \/ pc # "child"
      BY <1>1, NormalFrame DEF program, FlowInv, ModeOK
    <2> QED BY <1>1, <1>a, <2>1, <2>2, NormalFrame
  <1>2. CASE World
    <2>1. CASE PowerLoss
      BY <2>1, TornFault DEF PowerLoss
    <2>2. CASE RemoveMedium
      <3>1. CASE Fault
        BY <2>2, <3>1, TornFault DEF RemoveMedium
      <3>2. CASE UNCHANGED <<pc, todo, writing, faults>>
        BY <2>2, <3>2, <1>0, <1>a, <1>c DEF RemoveMedium
      <3> QED BY <2>2, <3>1, <3>2, Zenon DEF RemoveMedium
    <2>3. CASE SwUpdate
      <3>1. pc # "child" /\ UNCHANGED <<flash, faults>>
        BY <2>3 DEF SwUpdate, FlowInv, ModeOK
      <3> QED BY <3>1, <1>0, <1>a, <1>c
    <2>4. CASE Boot \/ InsertMedium \/ StorageStateChange
      <3>1. UNCHANGED <<pc, todo, writing, flash, faults>>
        BY <2>4 DEF Boot, InsertMedium, StorageStateChange, program
      <3> QED BY <3>1, <1>0, <1>a, <1>c
    <2> QED BY <1>2, <2>1, <2>2, <2>3, <2>4 DEF World
  <1>3. CASE UNCHANGED vars
    BY <1>3, <1>0, <1>a, <1>c DEF vars
  <1>4. CASE WaitStorage \/ GetArgs \/ Decide \/ InstallPackage \/ ChildExits \/ DeletePackage
             \/ RebootToNormal
    <2>1. (pc # "child" \/ ~writing) /\ UNCHANGED <<flash, faults>>
      BY <1>4, Zenon DEF WaitStorage, GetArgs, Decide, InstallPackage, ChildExits, DeletePackage,
         RebootToNormal
    <2> QED BY <2>1, <1>0, <1>a, <1>c
  <1>5. CASE FinishEntry \/ FinishClearCmd
    <2>1. pc # "child" /\ UNCHANGED flash
      BY <1>5 DEF FinishEntry, FinishClearCmd
    <2>2. faults' \in Nat /\ faults' >= faults
      BY <1>5, <1>0, <1>b, <1>c DEF FinishEntry, FinishClearCmd, Setenv
    <2> QED BY <2>1, <2>2, <1>a
  <1>6. CASE ImageFails
    BY <1>6, TornFault DEF ImageFails
  <1>7. CASE StartImage
    <2>1. PICK p \in Parts :
            /\ Current(p)
            /\ \/ /\ Verified(p[2])
                  /\ flash' = [flash EXCEPT ![p] = [from |-> src, digest |-> "torn"]]
                  /\ writing' = TRUE
                  /\ UNCHANGED <<pc, status, todo>>
               \/ UNCHANGED <<flash, faults>>
      BY <1>7, Zenon DEF StartImage
    <2>2. pc = "child" /\ ~writing
      BY <1>7 DEF StartImage
    <2>3. CASE UNCHANGED <<flash, faults>>
      BY <2>2, <2>3, <1>0, <1>a, <1>c
    <2>4. CASE /\ Verified(p[2])
               /\ flash' = [flash EXCEPT ![p] = [from |-> src, digest |-> "torn"]]
               /\ writing' = TRUE
               /\ UNCHANGED <<pc, status, todo>>
      <3>1. faults' \in Nat /\ faults' >= faults
        BY <2>4, <1>0, <1>b, <1>c DEF Verified
      <3>2. ASSUME NEW q \in BootParts, TornAtRest(q)' PROVE TornAtRest(q)
        <4>1. Current(p)'
          BY <2>1, <2>4 DEF Current
        <4>2. q # p
          BY <2>2, <2>4, <3>2, <4>1 DEF TornAtRest
        <4>3. q \in Parts /\ flash'[q] = flash[q]
          BY <2>4, <4>2 DEF BootParts, FlowInv, TypeOK
        <4> QED BY <2>2, <3>2, <4>3 DEF TornAtRest
      <3> QED BY <3>1, <3>2, TornFrame
    <2> QED BY <2>1, <2>3, <2>4, Zenon
  <1>8. CASE FinishImage
    <2>1. PICK p \in Parts :
            /\ Current(p)
            /\ flash' = [flash EXCEPT ![p] = [from |-> src, digest |-> pkg[src].image[p[2]]]]
            /\ todo' = todo \ {p}
      BY <1>8, Zenon DEF FinishImage
    <2>2. pc = "child" /\ src \in Sources /\ UNCHANGED faults
      BY Zenon, <1>8 DEF FinishImage, FlowInv, SourceOK
    <2>3. pkg[src].image[p[2]] # "torn"
      <3>1. pkg[src].image[p[2]] \in Digests
        BY <2>2, ImageType DEF FlowInv
      <3> QED BY <3>1 DEF Digests
    <2>4. ASSUME NEW q \in BootParts, TornAtRest(q)' PROVE TornAtRest(q)
      <3>1. q \in Parts
        BY DEF BootParts
      <3>2. flash'[p].digest = pkg[src].image[p[2]]
        BY <2>1 DEF FlowInv, TypeOK
      <3>3. q # p
        BY <2>3, <2>4, <3>2 DEF TornAtRest
      <3>4. flash'[q] = flash[q]
        BY <2>1, <3>1, <3>3 DEF FlowInv, TypeOK
      <3>5. ~Current(q)
        BY <2>1, <3>1, <3>3, CurrentUnique
      <3> QED BY <2>4, <3>4, <3>5 DEF TornAtRest
    <2> QED BY <1>0, <1>c, <2>2, <2>4, TornFrame
  <1>9. CASE WipeData
    <2>1. faults' \in Nat /\ faults' >= faults
      BY <1>9, <1>0, <1>b, <1>c, Zenon DEF WipeData
    <2>2. ASSUME NEW q \in BootParts, TornAtRest(q)' PROVE TornAtRest(q)
      <3>1. q \in Parts /\ q # <<SLOTA, USERDATA>>
        BY DEF BootParts, KM4BOOT, APIMAGE, USERDATA
      <3>2. flash'[q] = flash[q]
        BY <1>9, <3>1, Zenon DEF WipeData, FlowInv, TypeOK
      <3> QED BY <1>9, <2>2, <3>2 DEF TornAtRest, WipeData
    <2> QED BY <2>1, <2>2, TornFrame
  <1> QED BY <1>1, <1>2, <1>3, <1>4, <1>5, <1>6, <1>7, <1>8, <1>9 DEF Next, Recovery

(***************************************************************************)
(* One power loss or failing command leaves at least one whole copy of     *)
(* every boot image that has two, for every package: the update process    *)
(* finishes one copy before it touches the other (install.c:462-529).      *)
(***************************************************************************)
THEOREM OneSlotStaysIntact == Spec => []OneSlotIntact
  <1>1. Init => TornOK
    BY DEF Init, TornOK, TornAtRest, BootParts
  <1>2. TornOK => OneSlotIntact
    <2> SUFFICES ASSUME TornOK, NEW i \in KM4BOOT .. APIMAGE
                 PROVE  /\ TornAtRest(<<SLOTA, i>>) \/ TornAtRest(<<SLOTB, i>>) => faults >= 1
                        /\ TornAtRest(<<SLOTA, i>>) /\ TornAtRest(<<SLOTB, i>>) => faults >= 2
      BY Zenon DEF OneSlotIntact
    <2>1. <<SLOTA, i>> \in BootParts /\ <<SLOTB, i>> \in BootParts
      BY DEF BootParts, Parts, Images, KM4BOOT, APIMAGE, MISC
    <2>2. <<SLOTA, i>> # <<SLOTB, i>> /\ <<SLOTA, i>>[2] = <<SLOTB, i>>[2]
      BY DEF SLOTA, SLOTB
    <2> QED BY <2>1, <2>2 DEF TornOK
  <1> QED BY <1>1, <1>2, FlowInvariant, TornStep, PTL DEF Spec

-----------------------------------------------------------------------------
(* Wipes of user data.                                                     *)

\* Main wipes only on the stored command, unless it read indeterminate locals.
CommandOK ==
    /\ pc \in {"decide", "wipe"} /\ opts = "wipe" => env.cmd = "wipe"
    /\ pc = "wipe" => opts = "wipe" \/ ub

WipeInv == CommandOK /\ WipesAccounted

\* At most one wipe is pending.
LEMMA PendingRange == WipePending \in {0, 1}
  BY DEF WipePending

\* The arithmetic of counting a wipe against a command or a failure.
LEMMA CountArithmetic ==
    ASSUME NEW w \in Nat, NEW n \in Nat, NEW m \in Nat, NEW p \in {0, 1}, NEW q \in {0, 1},
           w + p <= n, m >= n + 1 \/ (m = n /\ q <= p)
    PROVE  w + q <= m
  OBVIOUS

\* A step that counts one more failure or one more request may leave a command pending.
LEMMA WipeCounted ==
    ASSUME FlowInv, WipesAccounted, UNCHANGED <<ub, wipes>>,
           faults' \in Nat, requests' \in Nat, requests' + faults' >= requests + faults + 1
    PROVE  WipesAccounted'
  <1>1. wipes \in Nat /\ faults \in Nat /\ requests \in Nat
    BY OtaAssumption DEF FlowInv, TypeOK
  <1>2. WipePending' \in {0, 1}
    BY DEF WipePending
  <1>3. CASE ub
    BY <1>3, Zenon DEF WipesAccounted
  <1>4. CASE ~ub
    <2>1. wipes + WipePending <= requests + faults
      BY <1>4 DEF WipesAccounted
    <2>a. \A m, n \in Nat : m + n \in Nat
      OBVIOUS
    <2>2. wipes' = wipes /\ requests + faults \in Nat /\ requests' + faults' \in Nat
      BY <1>1, <2>a, Zenon
    <2>3. wipes' + WipePending' <= requests' + faults'
      BY <1>1, <1>2, <2>1, <2>2, PendingRange, CountArithmetic, Zenon
    <2> QED BY <2>3 DEF WipesAccounted
  <1> QED BY <1>3, <1>4

\* Every step keeps the wipes covered by commands and failures.
LEMMA WipeStep == FlowInv /\ WipeInv /\ [Next]_vars => WipeInv'
  <1> SUFFICES ASSUME FlowInv, WipeInv, [Next]_vars PROVE WipeInv'
    OBVIOUS
  <1>0. wipes \in Nat /\ faults \in Nat /\ requests \in Nat
    BY OtaAssumption DEF FlowInv, TypeOK
  <1>p. WipePending \in {0, 1} /\ WipePending' \in {0, 1}
    BY DEF WipePending
  <1>a. ASSUME UNCHANGED <<ub, wipes, faults, requests>>, WipePending' <= WipePending
        PROVE  WipesAccounted'
    <2>1. CASE ub
      BY <1>a, <2>1, Zenon DEF WipesAccounted
    <2>2. CASE ~ub
      <3>1. wipes + WipePending <= requests + faults
        BY <2>2 DEF WipeInv, WipesAccounted
      <3>2. wipes' + WipePending' <= requests' + faults'
        <4>1. wipes' = wipes /\ requests' + faults' = requests + faults
          BY <1>a
        <4>2. requests + faults \in Nat /\ WipePending' <= WipePending
          BY <1>0, <1>a
        <4> QED BY <1>0, <1>p, <3>1, <4>1, <4>2, CountArithmetic
      <3> QED BY <3>2 DEF WipesAccounted
    <2> QED BY <2>1, <2>2
  <1>b. ASSUME UNCHANGED <<ub, wipes, requests>>, Fault
        PROVE  WipesAccounted'
    BY <1>0, <1>b, WipeCounted DEF WipeInv, Fault
  <1>1. CASE Normal
    <2>1. CommandOK'
      BY <1>1, NormalFrame, Zenon DEF CommandOK, GoesDown, program, FlowInv, ModeOK
    <2>2. WipesAccounted'
      <3>n. UNCHANGED <<ub, wipes>> /\ mode = "normal"
        BY <1>1, NormalFrame
      <3>1. CASE StoreCommand("update") \/ StoreCommand("wipe")
        <4>1. requests' = requests + 1 /\ (faults' = faults \/ faults' = faults + 1)
          BY <3>1 DEF StoreCommand, Setenv, Fault
        <4> QED BY <1>0, <3>n, <4>1, WipeCounted DEF WipeInv
      <3>2. CASE ~(StoreCommand("update") \/ StoreCommand("wipe"))
        <4>1. UNCHANGED requests /\ (Fault \/ UNCHANGED faults)
          BY <1>1, <3>2 DEF Normal, CheckOtaPackage, EnterRecovery, DaemonReboot,
             StoreEntry, StoreUpdateMode, AbandonRequest, CancelRequest, UserReboot, Setenv
        <4>2. env'.cmd = env.cmd
          BY <1>1, <3>2 DEF Normal, CheckOtaPackage, EnterRecovery, DaemonReboot,
             StoreEntry, StoreUpdateMode, AbandonRequest, CancelRequest, UserReboot, Setenv,
             FlowInv, TypeOK
        <4>3. mode' # "recovery"
          BY <1>1, NormalFrame, Zenon DEF GoesDown
        <4>4. WipePending' <= WipePending
          BY <3>n, <4>2, <4>3 DEF WipePending
        <4> QED BY <1>a, <1>b, <3>n, <4>1, <4>4
      <3> QED BY <3>1, <3>2
    <2> QED BY <2>1, <2>2 DEF WipeInv
  <1>2. CASE World
    <2>1. CASE PowerLoss
      BY <2>1, <1>b DEF PowerLoss, GoesDown, WipeInv, CommandOK
    <2>2. CASE RemoveMedium
      <3>1. CommandOK'
        BY <2>2 DEF RemoveMedium, UpgradeReturns, WipeInv, CommandOK
      <3>2. UNCHANGED <<env, ub, wipes, requests, mode>>
        BY <2>2 DEF RemoveMedium
      <3>3. CASE Fault
        BY <1>b, <3>1, <3>2, <3>3 DEF WipeInv
      <3>4. CASE UNCHANGED <<pc, faults>>
        <4>1. WipePending' <= WipePending
          BY <3>2, <3>4 DEF WipePending
        <4> QED BY <1>a, <3>1, <3>2, <3>4, <4>1 DEF WipeInv
      <3> QED BY <2>2, <3>3, <3>4, Zenon DEF RemoveMedium
    <2>3. CASE SwUpdate
      <3>1. WipePending' <= WipePending
        BY <2>3 DEF SwUpdate, GoesDown, WipePending, FlowInv, TypeOK
      <3> QED BY <2>3, <1>a, <3>1 DEF SwUpdate, GoesDown, WipeInv, CommandOK
    <2>4. CASE Boot \/ InsertMedium \/ StorageStateChange
      <3>1. /\ UNCHANGED <<env, pc, opts, ub, wipes, faults, requests>>
            /\ (pc = "wait" /\ mode = "off") \/ UNCHANGED mode
        BY <2>4 DEF Boot, InsertMedium, StorageStateChange, program, FlowInv, ModeOK
      <3>2. WipePending' <= WipePending
        BY <3>1 DEF WipePending
      <3> QED BY <1>a, <3>1, <3>2 DEF WipeInv, CommandOK
    <2> QED BY <1>2, <2>1, <2>2, <2>3, <2>4 DEF World
  <1>3. CASE UNCHANGED vars
    <2>1. WipePending' <= WipePending
      BY <1>3 DEF vars, WipePending
    <2> QED BY <1>3, <1>a, <2>1 DEF vars, WipeInv, CommandOK
  <1>4. CASE WaitStorage \/ GetArgs \/ InstallPackage \/ ChildExits \/ DeletePackage
    <2>1. /\ UNCHANGED <<env, mode, ub, wipes, faults, requests>>
          /\ mode = "recovery" /\ pc \notin {"finish", "clear"}
      BY <1>4, ZenonT(60) DEF WaitStorage, GetArgs, InstallPackage, ChildExits, DeletePackage, MainUnchanged
    <2>2. CommandOK'
      BY Zenon, <1>4 DEF WaitStorage, GetArgs, InstallPackage, ChildExits, DeletePackage, MainUnchanged,
         WipeInv, CommandOK, UpgradeReturns, InstallFailed
    <2>3. WipePending' <= WipePending
      BY <2>1 DEF WipePending
    <2> QED BY <1>a, <2>1, <2>2, <2>3 DEF WipeInv
  <1>5. CASE Decide
    <2>1. CommandOK'
      BY <1>5, Zenon DEF Decide, ChooseStorage, ChooseByOptions, MainUnchanged, InstallFailed,
         WipeInv, CommandOK
    <2>2. UNCHANGED <<env, mode, wipes, faults, requests>> /\ (ub' = ub \/ ub' = TRUE)
      BY <1>5, Zenon DEF Decide, ChooseStorage, ChooseByOptions, MainUnchanged
    <2>3. WipePending' <= WipePending
      BY <1>5, <2>2 DEF Decide, WipePending
    <2> QED BY <1>a, <2>1, <2>2, <2>3 DEF WipeInv, WipesAccounted
  <1>6. CASE StartImage \/ FinishImage \/ ImageFails
    <2>1. /\ UNCHANGED <<env, mode, ub, wipes, requests>> /\ pc = "child"
          /\ UNCHANGED faults \/ Fault
      BY <1>6, Zenon DEF StartImage, FinishImage, ImageFails, MainUnchanged, Verified
    <2>2. CommandOK'
      BY <1>6, Zenon DEF StartImage, FinishImage, ImageFails, MainUnchanged, WipeInv, CommandOK,
         UpgradeReturns
    <2>3. WipePending' <= WipePending
      BY <2>1 DEF WipePending
    <2> QED BY <1>a, <1>b, <2>1, <2>2, <2>3 DEF WipeInv
  <1>7. CASE WipeData
    <2>1. CommandOK'
      BY <1>7 DEF WipeData, MainUnchanged, InstallFailed, WipeInv, CommandOK
    <2>2. WipePending' = 0
      BY <1>7, Zenon DEF WipeData, MainUnchanged, InstallFailed, WipePending
    <2>3. CASE ub
      BY <1>7, <2>1, <2>3 DEF WipeData, WipeInv, WipesAccounted
    <2>4. CASE ~ub
      <3>1. WipePending = 1
        BY <1>7, <2>4 DEF WipeData, WipeInv, CommandOK, WipePending
      <3>2. UNCHANGED requests /\ (faults' = faults \/ faults' = faults + 1)
            /\ (wipes' = wipes \/ wipes' = wipes + 1) /\ ~ub'
        BY <1>7, <2>4, Zenon DEF WipeData, MainUnchanged, Fault, CountedWipes
      <3>3. wipes + 1 <= requests + faults
        BY <2>4, <3>1 DEF WipeInv, WipesAccounted
      <3>4. wipes' + 0 <= requests' + faults'
        BY <1>0, <3>2, <3>3
      <3> QED BY <2>1, <2>2, <3>4 DEF WipeInv, WipesAccounted
    <2> QED BY <2>3, <2>4
  <1>8. CASE FinishEntry
    <2>1. CommandOK'
      BY <1>8 DEF FinishEntry, WipeInv, CommandOK
    <2>2. UNCHANGED <<mode, ub, wipes, requests>>
      BY <1>8 DEF FinishEntry, MainUnchanged
    <2>3. CASE Fault
      BY <1>b, <2>1, <2>2, <2>3 DEF WipeInv
    <2>4. CASE pc' = "clear" /\ UNCHANGED faults
      <3>1. WipePending' <= WipePending
        BY <1>8, <2>2, <2>4 DEF FinishEntry, WipePending
      <3> QED BY <1>a, <2>1, <2>2, <2>4, <3>1 DEF WipeInv
    <2> QED BY <1>8, <2>3, <2>4 DEF FinishEntry
  <1>9. CASE FinishClearCmd
    <2>1. CommandOK'
      BY <1>9 DEF FinishClearCmd, WipeInv, CommandOK
    <2>2. UNCHANGED <<mode, ub, wipes, requests>>
      BY <1>9 DEF FinishClearCmd, MainUnchanged
    <2>3. CASE Fault
      BY <1>b, <2>1, <2>2, <2>3 DEF WipeInv
    <2>4. CASE env' = [env EXCEPT !["cmd"] = "none"] /\ UNCHANGED faults
      <3>1. WipePending' <= WipePending
        BY <1>p, <2>4 DEF WipePending, FlowInv, TypeOK
      <3> QED BY <1>a, <2>1, <2>2, <2>4, <3>1 DEF WipeInv
    <2> QED BY <1>9, <2>3, <2>4 DEF FinishClearCmd, Setenv
  <1>10. CASE RebootToNormal
    <2>1. WipePending' <= WipePending
      BY <1>10 DEF RebootToNormal, GoesDown, WipePending
    <2> QED BY <1>10, <1>a, <2>1 DEF RebootToNormal, GoesDown, WipeInv, CommandOK
  <1> QED BY <1>1, <1>2, <1>3, <1>4, <1>5, <1>6, <1>7, <1>8, <1>9, <1>10 DEF Next, Recovery

(***************************************************************************)
(* User data is never wiped more often than commands were stored and       *)
(* failures happened, as long as main did not read indeterminate locals.   *)
(***************************************************************************)
THEOREM WipesAreAccounted == Spec => []WipesAccounted
  <1>1. Init => WipeInv
    BY OtaAssumption DEF Init, WipeInv, CommandOK, WipesAccounted, WipePending
  <1> QED BY <1>1, FlowInvariant, WipeStep, PTL DEF Spec, WipeInv

-----------------------------------------------------------------------------
(* The md5 check.                                                          *)

\* Image i of source s may be written: it was checked, or need not be.
MayWrite(s, i) ==
    \/ ~pkg[s].check
    \/ pkg[s].md5[i] = pkg[s].image[i]
    \/ pkg[s].md5[i] = "empty" /\ faults >= 1

\* The image being written has passed the check.
WriteVerified == pc = "child" /\ writing => \A p \in Parts : Current(p) => MayWrite(src, p[2])

\* What VerifiedContent says of one partition.
PartVerified(p) ==
    flash[p].digest = "corrupt" =>
        /\ flash[p].from \in Sources
        /\ LET k == pkg[flash[p].from] IN
              \/ ~k.check
              \/ k.md5[p[2]] = "corrupt"
              \/ k.md5[p[2]] = "empty" /\ faults >= 1

VerifyInv == WriteVerified /\ \A p \in Parts : PartVerified(p)

\* Failures are never forgotten.
LEMMA FaultsGrow ==
    ASSUME FlowInv, [Next]_vars, faults >= 1
    PROVE  faults' >= 1
  <1>1. faults \in Nat
    BY OtaAssumption DEF FlowInv, TypeOK
  <1>2. UNCHANGED faults \/ Fault
    BY Zenon DEF Next, Recovery, Normal, World, vars, WaitStorage, GetArgs, Decide, InstallPackage,
       StartImage, FinishImage, ImageFails, ChildExits, WipeData, FinishEntry, FinishClearCmd,
       DeletePackage, RebootToNormal, CheckOtaPackage, EnterRecovery, DaemonReboot, StoreCommand,
       StoreEntry, StoreUpdateMode, AbandonRequest, CancelRequest, UserReboot, Setenv, Boot,
       PowerLoss, InsertMedium, RemoveMedium, SwUpdate, StorageStateChange, Verified
  <1> QED BY <1>1, <1>2 DEF Fault

\* No step changes a package's content.
LEMMA PackagesFixed == [Next]_vars => UNCHANGED pkg
  BY Zenon DEF Next, Recovery, Normal, World, vars, WaitStorage, GetArgs, Decide, InstallPackage,
     StartImage, FinishImage, ImageFails, ChildExits, WipeData, FinishEntry, FinishClearCmd,
     DeletePackage, RebootToNormal, CheckOtaPackage, EnterRecovery, DaemonReboot, StoreCommand,
     StoreEntry, StoreUpdateMode, AbandonRequest, CancelRequest, UserReboot, Boot,
     PowerLoss, InsertMedium, RemoveMedium, SwUpdate, StorageStateChange,
     MainUnchanged, NormalUnchanged

\* Only these steps write flash, and only StartImage starts a write.
LEMMA WriteFrame ==
    ASSUME FlowInv, Next, ~StartImage, ~FinishImage, ~WipeData
    PROVE  /\ UNCHANGED flash
           /\ pc' = "child" /\ writing' => pc = "child" /\ writing /\ UNCHANGED <<src, todo>>
  <1>a. ASSUME GoesDown PROVE ~(pc' = "child" /\ writing')
    BY <1>a DEF GoesDown
  <1>b. ASSUME UNCHANGED program
        PROVE  pc' = "child" /\ writing' => pc = "child" /\ writing /\ UNCHANGED <<src, todo>>
    BY <1>b DEF program
  <1>1. CASE Normal
    BY <1>1, <1>a, <1>b, NormalFrame
  <1>2. CASE World
    <2>1. CASE PowerLoss \/ SwUpdate
      BY <2>1, <1>a DEF PowerLoss, SwUpdate
    <2>2. CASE Boot \/ InsertMedium
      BY <2>2, <1>b DEF Boot, InsertMedium
    <2>3. CASE RemoveMedium
      BY <2>3 DEF RemoveMedium, UpgradeReturns
    <2>4. CASE StorageStateChange
      BY <2>4 DEF StorageStateChange
    <2> QED BY <1>2, <2>1, <2>2, <2>3, <2>4 DEF World
  <1>3. CASE Recovery
    <2>1. CASE WaitStorage \/ GetArgs \/ Decide
      BY <2>1, Zenon DEF WaitStorage, GetArgs, Decide, ChooseStorage, ChooseByOptions, InstallFailed
    <2>2. CASE InstallPackage
      <3>1. ~writing
        BY Zenon, <2>2 DEF InstallPackage, FlowInv, WritingOK
      <3>2. UNCHANGED writing \/ UpgradeReturns(FALSE)
        BY <2>2, Zenon DEF InstallPackage
      <3>3. ~writing'
        BY <3>1, <3>2, Zenon DEF UpgradeReturns
      <3> QED BY <2>2, <3>3 DEF InstallPackage
    <2>4. CASE ImageFails \/ ChildExits
      BY <2>4 DEF ImageFails, ChildExits, UpgradeReturns
    <2>3. CASE FinishEntry \/ FinishClearCmd \/ DeletePackage \/ RebootToNormal
      BY <2>3 DEF FinishEntry, FinishClearCmd, DeletePackage, RebootToNormal, GoesDown
    <2> QED BY <1>3, <2>1, <2>2, <2>3, <2>4 DEF Recovery
  <1> QED BY <1>1, <1>2, <1>3 DEF Next

\* Every step keeps what the md5 check has let through.
LEMMA VerifyStep == FlowInv /\ VerifyInv /\ [Next]_vars => VerifyInv'
  <1> SUFFICES ASSUME FlowInv, VerifyInv, [Next]_vars PROVE VerifyInv'
    OBVIOUS
  <1>0. UNCHANGED pkg /\ (faults >= 1 => faults' >= 1)
    BY PackagesFixed, FaultsGrow
  <1>a. ASSUME NEW p \in Parts, flash'[p] = flash[p] PROVE PartVerified(p)'
    BY <1>0, <1>a, Zenon DEF VerifyInv, PartVerified
  <1>b. ASSUME NEW p \in Parts, flash'[p].digest # "corrupt" PROVE PartVerified(p)'
    BY <1>b DEF PartVerified
  <1>c. ASSUME pc = "child" /\ writing, UNCHANGED <<src, todo>> PROVE WriteVerified'
    BY <1>0, <1>c, Zenon DEF VerifyInv, WriteVerified, MayWrite, Current
  <1>1. CASE UNCHANGED vars
    <2>1. \A p \in Parts : PartVerified(p)'
      BY <1>1, <1>a DEF vars
    <2>2. WriteVerified'
      BY <1>1, <1>c DEF vars, WriteVerified
    <2> QED BY <2>1, <2>2 DEF VerifyInv
  <1>2. CASE Next /\ ~StartImage /\ ~FinishImage /\ ~WipeData
    <2>1. \A p \in Parts : PartVerified(p)'
      BY <1>2, <1>a, WriteFrame
    <2>2. WriteVerified'
      BY <1>2, <1>c, WriteFrame DEF WriteVerified
    <2> QED BY <2>1, <2>2 DEF VerifyInv
  <1>3. CASE StartImage
    <2>1. PICK p \in Parts :
            /\ Current(p)
            /\ \/ /\ Verified(p[2])
                  /\ flash' = [flash EXCEPT ![p] = [from |-> src, digest |-> "torn"]]
                  /\ UNCHANGED <<pc, status, todo>>
               \/ UpgradeReturns(FALSE) /\ UNCHANGED <<flash, hasData, faults>>
      BY <1>3, Zenon DEF StartImage
    <2>2. CASE UpgradeReturns(FALSE) /\ UNCHANGED <<flash, hasData, faults>>
      <3>1. \A q \in Parts : PartVerified(q)'
        BY <2>2, <1>a, Zenon
      <3>2. WriteVerified'
        BY <2>2 DEF UpgradeReturns, WriteVerified
      <3> QED BY <3>1, <3>2 DEF VerifyInv
    <2>3. CASE /\ Verified(p[2])
               /\ flash' = [flash EXCEPT ![p] = [from |-> src, digest |-> "torn"]]
               /\ UNCHANGED <<pc, status, todo>>
      <3>1. ASSUME NEW q \in Parts PROVE PartVerified(q)'
        <4>1. flash'[q] = flash[q] \/ flash'[q].digest # "corrupt"
          BY <2>3 DEF FlowInv, TypeOK
        <4> QED BY <1>a, <1>b, <4>1
      <3>2. UNCHANGED src
        BY <1>3 DEF StartImage
      <3>3. MayWrite(src, p[2])'
        <4>1. CASE pkg[src].check => pkg[src].md5[p[2]] = pkg[src].image[p[2]]
          BY ZenonT(60), <1>0, <3>2, <4>1 DEF MayWrite
        <4>2. CASE pkg[src].md5[p[2]] = "empty" /\ Fault
          <5>1. faults' >= 1
            <6>1. faults \in Nat
              BY OtaAssumption DEF FlowInv, TypeOK
            <6>2. faults' = faults + 1
              BY <4>2, Zenon DEF Fault
            <6>3. \A n \in Nat : n + 1 >= 1
              OBVIOUS
            <6> QED BY <6>1, <6>2, <6>3, Zenon
          <5> QED BY <1>0, <3>2, <4>2, <5>1 DEF MayWrite
        <4> QED BY <2>3, <4>1, <4>2, Zenon DEF Verified
      <3>4. ASSUME NEW q \in Parts, Current(q)' PROVE q = p
        BY <2>1, <2>3, <3>4, CurrentUnique DEF Current
      <3>5. WriteVerified'
        BY <3>3, <3>4 DEF WriteVerified
      <3> QED BY <3>1, <3>5 DEF VerifyInv
    <2> QED BY <2>1, <2>2, <2>3, Zenon
  <1>4. CASE FinishImage
    <2>1. PICK p \in Parts :
            /\ Current(p)
            /\ flash' = [flash EXCEPT ![p] = [from |-> src, digest |-> pkg[src].image[p[2]]]]
      BY <1>4, Zenon DEF FinishImage
    <2>2. src \in Sources /\ MayWrite(src, p[2])
      BY <1>4, <2>1, Zenon DEF FinishImage, FlowInv, SourceOK, VerifyInv, WriteVerified
    <2>3. ASSUME NEW q \in Parts PROVE PartVerified(q)'
      <3>1. CASE q # p
        <4>1. flash'[q] = flash[q]
          BY <2>1, <3>1 DEF FlowInv, TypeOK
        <4> QED BY <1>a, <4>1, Zenon
      <3>2. CASE q = p
        <4>1. flash'[q].from = src /\ flash'[q].digest = pkg[src].image[q[2]]
          BY <2>1, <3>2, Zenon DEF FlowInv, TypeOK
        <4> QED BY <1>0, <2>2, <3>2, <4>1, Zenon DEF PartVerified, MayWrite
      <3> QED BY <3>1, <3>2
    <2>4. WriteVerified'
      BY <1>4, Zenon DEF FinishImage, WriteVerified
    <2> QED BY <2>3, <2>4 DEF VerifyInv
  <1>5. CASE WipeData
    <2>1. ASSUME NEW q \in Parts PROVE PartVerified(q)'
      <3>1. flash'[q] = flash[q] \/ flash'[q].digest # "corrupt"
        <4>1. \/ flash' = flash
              \/ flash' = [flash EXCEPT ![<<SLOTA, USERDATA>>] = [from |-> "wiped", digest |-> "good"]]
              \/ flash' = [flash EXCEPT ![<<SLOTA, USERDATA>>] = [from |-> "wiped", digest |-> "torn"]]
          BY <1>5, Zenon DEF WipeData
        <4> QED BY <4>1 DEF FlowInv, TypeOK
      <3> QED BY <1>a, <1>b, <3>1
    <2>2. WriteVerified'
      BY <1>5 DEF WipeData, InstallFailed, WriteVerified
    <2> QED BY <2>1, <2>2 DEF VerifyInv
  <1> QED BY <1>1, <1>2, <1>3, <1>4, <1>5

(***************************************************************************)
(* The md5 check of the update process (install.c:485-507) lets through    *)
(* exactly what VerifiedContent says, for every package.                   *)
(***************************************************************************)
THEOREM OnlyVerifiedContent == Spec => []VerifiedContent
  <1>1. Init => VerifyInv
    <2> SUFFICES ASSUME Init PROVE VerifyInv
      OBVIOUS
    <2>1. pc = "wait" /\ \A p \in Parts : flash[p].digest = "good"
      BY DEF Init
    <2>2. WriteVerified
      BY <2>1, Zenon DEF WriteVerified
    <2>3. \A p \in Parts : PartVerified(p)
      BY <2>1 DEF PartVerified
    <2> QED BY <2>2, <2>3 DEF VerifyInv
  <1>2. VerifyInv => VerifiedContent
    BY Zenon DEF VerifyInv, PartVerified, VerifiedContent
  <1> QED BY <1>1, <1>2, FlowInvariant, VerifyStep, PTL DEF Spec

-----------------------------------------------------------------------------
(* The storage mounter.                                                    *)

\* What the proofs need of the types.
Shape ==
    /\ stack \in Seq(Nodes)
    /\ thread \in {"read", "unmount", "report"}
    /\ reported \in BOOLEAN
    /\ gs \in Storage

\* The thread is in unmount_volume exactly while the state says so.
ThreadOK ==
    /\ gs.state = "Unmounting" <=> thread = "unmount"
    /\ thread = "report" => gs.state = "Idle"

\* The inductive invariant.
MountInv == Shape /\ ThreadOK /\ MountedIsTop /\ ReportedIsMounted

\* set_state changes nothing but the state.
LEMMA SetStateOnly ==
    ASSUME NEW s \in Storage, NEW st \in States
    PROVE  /\ SetState(s, st) \in Storage
           /\ SetState(s, st).state = st
           /\ SetState(s, st).kdev = s.kdev
BY DEF SetState, Storage

\* The handlers of add events keep the record well formed and the mounted node.
LEMMA AddedShape ==
    ASSUME NEW s \in Storage, NEW m \in Media, NEW i \in 0 .. NParts
    PROVE  /\ HandleDiskAdded(s, m) \in Storage
           /\ HandleDiskAdded(s, m).kdev = s.kdev
           /\ HandleDiskAdded(s, m).state \in {"Idle", "Pending"}
           /\ HandlePartitionAdded(s, m, i) \in Storage
           /\ HandlePartitionAdded(s, m, i).kdev = s.kdev
           /\ HandlePartitionAdded(s, m, i).state \in {s.state, "Idle"}
<1> USE MountAssumption
<1>1. /\ HandleDiskAdded(s, m) \in Storage
      /\ HandleDiskAdded(s, m).kdev = s.kdev
      /\ HandleDiskAdded(s, m).state \in {"Idle", "Pending"}
  <2> DEFINE n == IF HasNPARTS THEN NParts ELSE IF m \in Sd THEN 0 ELSE 1
  <2> DEFINE t == [s EXCEPT !.disk = m, !.nparts = n, !.pending = 1 .. n]
  <2> DEFINE st == IF n = 0 THEN "Idle" ELSE "Pending"
  <2>1. n \in Nat
    OBVIOUS
  <2>2. 1 .. n \in SUBSET Nat
    BY <2>1
  <2> HIDE DEF n
  <2>3. t \in Storage /\ t.kdev = s.kdev
    BY <2>1, <2>2, Zenon DEF Storage
  <2>4. st \in {"Idle", "Pending"} /\ st \in States
    BY DEF States
  <2>5. HandleDiskAdded(s, m) = SetState(t, st)
    BY DEF HandleDiskAdded, n
  <2> HIDE DEF t, st
  <2> QED BY <2>3, <2>4, <2>5, SetStateOnly
<1>2. /\ HandlePartitionAdded(s, m, i) \in Storage
      /\ HandlePartitionAdded(s, m, i).kdev = s.kdev
      /\ HandlePartitionAdded(s, m, i).state \in {s.state, "Idle"}
  <2> DEFINE s1 == [s EXCEPT !.nparts = IF i > s.nparts THEN i ELSE s.nparts]
  <2> DEFINE s2 == [s1 EXCEPT !.minors[i] = <<m, i>>, !.pending = s.pending \ {i}]
  <2>1. s1 \in Storage /\ s1.kdev = s.kdev /\ s1.state = s.state
    BY DEF Storage
  <2>2. s1.minors \in [1 .. NParts -> Nodes \cup {NoNode}] /\ s.pending \ {i} \in SUBSET Nat
    BY <2>1 DEF Storage
  <2>3. <<m, i>> \in Nodes
    BY DEF Nodes
  <2> HIDE DEF s1
  <2>4. s2 \in Storage /\ s2.kdev = s1.kdev /\ s2.state = s1.state
    BY <2>1, <2>2, <2>3, Zenon DEF Storage
  <2>5. HandlePartitionAdded(s, m, i) \in {s1, s2, SetState(s2, "Idle")}
    BY DEF HandlePartitionAdded, s1
  <2> HIDE DEF s2
  <2>6. "Idle" \in States
    BY DEF States
  <2> QED BY <2>1, <2>4, <2>5, <2>6, SetStateOnly
<1> QED BY <1>1, <1>2

\* The handlers that do not touch the mount point keep the invariant.
LEMMA QuietStep ==
    ASSUME MountInv, gs' \in Storage, gs'.kdev = gs.kdev,
           thread = "read", thread' = "read",
           gs'.state \in {gs.state, "Idle", "Pending", "NoMedia"},
           UNCHANGED <<stack, reported>>
    PROVE  MountInv'
  BY DEF MountInv, Shape, ThreadOK, MountedIsTop, ReportedIsMounted, IsTop

\* A mount puts the node that is remembered on top of the mount point.
LEMMA MountStep ==
    ASSUME MountInv, NEW n \in Nodes, thread = "read", thread' = "read",
           gs' \in Storage, gs'.state = "Mounted", gs'.kdev = n,
           stack' = Append(stack, n), reported' = TRUE
    PROVE  MountInv'
<1>1. stack' \in Seq(Nodes) /\ Len(stack') = Len(stack) + 1 /\ Len(stack) \in Nat
      /\ stack'[Len(stack')] = n
  BY DEF MountInv, Shape
<1>2. stack' # <<>>
  BY <1>1
<1> QED BY <1>1, <1>2 DEF MountInv, Shape, ThreadOK, MountedIsTop, ReportedIsMounted, IsTop

\* mount_volume: nothing mounted, or one node that is plugged in.
LEMMA MountOrNot ==
    ASSUME NEW s \in Storage, MountVolume(s), s.state = "Idle"
    PROVE  \/ gs' = s /\ UNCHANGED <<stack, reported>>
           \/ \E n \in Nodes : /\ n[1] \in plugged
                              /\ stack' = Append(stack, n)
                              /\ gs' = [SetState(s, "Mounted") EXCEPT !.kdev = n]
                              /\ reported' = TRUE
<1>1. CASE gs' = s /\ UNCHANGED <<stack, reported>>
  BY <1>1
<1>2. ASSUME NEW i \in Tries(s), NEW n \in DeviceNodes(s, i), DoMount(n),
             stack' = Append(stack, n),
             gs' = [SetState(s, "Mounted") EXCEPT !.kdev = n],
             reported' = TRUE
      PROVE  \E k \in Nodes : /\ k[1] \in plugged
                             /\ stack' = Append(stack, k)
                             /\ gs' = [SetState(s, "Mounted") EXCEPT !.kdev = k]
                             /\ reported' = TRUE
  BY <1>2, Zenon DEF DoMount
<1> QED BY <1>1, <1>2, Zenon DEF MountVolume

\* An add event: mounted something that is plugged in, or nothing changed there.
LEMMA AddStep ==
    ASSUME MountInv, HandleAdd
    PROVE  /\ MountInv'
           /\ UNCHANGED plugged
           /\ UNCHANGED reported \/ (plugged # {} /\ reported' = TRUE)
<1>1. PICK e \in Event :
        /\ Take(e)
        /\ LET s == IF e.node[2] = 0 THEN HandleDiskAdded(gs, e.node[1])
                    ELSE HandlePartitionAdded(gs, e.node[1], e.node[2])
           IN IF s.state = "Idle" THEN MountVolume(s)
              ELSE gs' = s /\ UNCHANGED <<stack, reported>>
        /\ UNCHANGED <<plugged, towalk, plugs, losses, thread>>
  BY Zenon DEF HandleAdd
<1> DEFINE s == IF e.node[2] = 0 THEN HandleDiskAdded(gs, e.node[1])
                ELSE HandlePartitionAdded(gs, e.node[1], e.node[2])
<1>2. e.node[1] \in Media /\ e.node[2] \in 0 .. NParts
  BY DEF Event, Nodes
<1>3. gs \in Storage /\ thread = "read" /\ thread' = "read"
  BY ZenonT(60), <1>1 DEF MountInv, Shape, Take
<1>4. s \in Storage /\ s.kdev = gs.kdev /\ s.state \in {gs.state, "Idle", "Pending"}
  BY ZenonT(60), <1>2, <1>3, AddedShape
<1>5. IF s.state = "Idle" THEN MountVolume(s) ELSE gs' = s /\ UNCHANGED <<stack, reported>>
  BY ZenonT(60), <1>1
<1> HIDE DEF s
<1>6. CASE gs' = s /\ UNCHANGED <<stack, reported>>
  BY Zenon, <1>1, <1>3, <1>4, <1>6, QuietStep
<1>7. ASSUME NEW n \in Nodes, n[1] \in plugged, stack' = Append(stack, n),
             gs' = [SetState(s, "Mounted") EXCEPT !.kdev = n], reported' = TRUE
      PROVE  MountInv' /\ UNCHANGED plugged /\ plugged # {} /\ reported' = TRUE
  <2>1. gs' \in Storage /\ gs'.state = "Mounted" /\ gs'.kdev = n
    BY <1>4, <1>7, Zenon DEF SetState, Storage, States
  <2>2. MountInv'
    BY <1>3, <1>7, <2>1, MountStep
  <2> QED BY <1>1, <1>7, <2>2
<1> QED BY <1>4, <1>5, <1>6, <1>7, MountOrNot, Zenon

\* umount, failing or not, and the report that follows it.
LEMMA UnmountStep ==
    ASSUME MountInv, DoUnmount
    PROVE  MountInv' /\ UNCHANGED <<plugged, reported>>
<1>1. /\ gs \in Storage /\ gs.state = "Unmounting" /\ reported = TRUE
      /\ stack \in Seq(Nodes) /\ IsTop(gs.kdev)
  BY DEF MountInv, Shape, ThreadOK, MountedIsTop, DoUnmount
<1>2. "Mounted" \in States /\ "Idle" \in States
  BY DEF States
<1>3. CASE /\ gs' = SetState(gs, "Mounted") /\ reported' = TRUE
           /\ thread' = "read" /\ UNCHANGED stack
  <2>1. gs' \in Storage /\ gs'.state = "Mounted" /\ gs'.kdev = gs.kdev
    BY <1>1, <1>2, <1>3, SetStateOnly, Zenon
  <2> QED BY <1>1, <1>3, <2>1 DEF MountInv, Shape, ThreadOK, MountedIsTop, ReportedIsMounted, IsTop, DoUnmount
<1>4. CASE /\ stack' = IF stack = <<>> THEN stack ELSE SubSeq(stack, 1, Len(stack) - 1)
           /\ gs' = SetState(gs, "Idle") /\ thread' = "report" /\ UNCHANGED reported
  <2>1. gs' \in Storage /\ gs'.state = "Idle"
    BY <1>1, <1>2, <1>4, SetStateOnly
  <2>2. stack' \in Seq(Nodes)
    BY <1>1, <1>4
  <2> QED BY <1>1, <1>4, <2>1, <2>2 DEF MountInv, Shape, ThreadOK, MountedIsTop, ReportedIsMounted, DoUnmount
<1> QED BY <1>3, <1>4, Zenon DEF DoUnmount

\* The callback after an unmount reports a bare mount point (storage_mount.c).
LEMMA ReportStep ==
    ASSUME MountInv, ReportUnmount
    PROVE  MountInv' /\ UNCHANGED plugged /\ reported' = FALSE
<1>1. gs' \in Storage /\ gs'.state = "Idle" /\ thread' = "read" /\ reported' = FALSE
      /\ stack' \in Seq(Nodes)
  BY DEF MountInv, Shape, ThreadOK, ReportUnmount, Storage
<1> QED BY <1>1, Zenon DEF MountInv, Shape, ThreadOK, MountedIsTop, ReportedIsMounted, ReportUnmount

\* A remove event starts an unmount or leaves the mount point alone.
LEMMA RemoveStep ==
    ASSUME MountInv, HandleDiskRemoved \/ HandlePartitionRemoved
    PROVE  MountInv' /\ UNCHANGED <<plugged, reported>>
<1>1. gs \in Storage /\ "NoMedia" \in States /\ "Unmounting" \in States
  BY DEF MountInv, Shape, States
<1>2. CASE HandleDiskRemoved
  <2>1. gs' = SetState(gs, "NoMedia") /\ thread = "read" /\ thread' = "read"
        /\ UNCHANGED <<plugged, stack, reported>>
    BY <1>2 DEF HandleDiskRemoved, Take
  <2> QED BY <1>1, <2>1, SetStateOnly, QuietStep, Zenon
<1>3. CASE HandlePartitionRemoved
  <2>1. thread = "read" /\ UNCHANGED <<plugged, stack, reported>>
    BY <1>3 DEF HandlePartitionRemoved, Take
  <2>2. CASE UNCHANGED <<gs, thread>>
    BY <1>1, <2>1, <2>2, QuietStep
  <2>3. CASE gs.state = "Mounted" /\ gs' = SetState(gs, "Unmounting") /\ thread' = "unmount"
    <3>1. gs' \in Storage /\ gs'.state = "Unmounting" /\ gs'.kdev = gs.kdev
      BY <1>1, <2>3, SetStateOnly, Zenon
    <3> QED BY <2>1, <2>3, <3>1 DEF MountInv, Shape, ThreadOK, MountedIsTop, ReportedIsMounted, IsTop
  <2> QED BY <1>3, <2>1, <2>2, <2>3, Zenon DEF HandlePartitionRemoved
<1> QED BY <1>2, <1>3

\* The kernel's steps and the walk through /sys touch neither mounts nor reports.
LEMMA KernelStep ==
    ASSUME MountInv, Kernel \/ Walk \/ UNCHANGED mountvars
    PROVE  MountInv' /\ UNCHANGED reported
<1>1. UNCHANGED <<gs, thread, stack, reported>>
  <2>1. CASE Kernel
    BY <2>1, Zenon DEF Kernel, Plug, Unplug, Lose
  <2>2. CASE Walk
    BY <2>2, Zenon DEF Walk, Retrigger
  <2>3. CASE UNCHANGED mountvars
    BY <2>3, Zenon DEF mountvars
  <2> QED
    BY <2>1, <2>2, <2>3, Zenon
<1> QED
  BY <1>1, Zenon DEF MountInv, Shape, ThreadOK, MountedIsTop, ReportedIsMounted, IsTop

\* The mounter starts with nothing mounted or reported.
LEMMA InitInv == MountInit => MountInv
<1> SUFFICES ASSUME MountInit PROVE MountInv
  OBVIOUS
<1>1. gs.state = "NoMedia" /\ thread = "read" /\ stack = <<>> /\ reported = FALSE
  BY DEF MountInit
<1>2. gs \in Storage
  <2>1. [i \in 1 .. NParts |-> NoNode] \in [1 .. NParts -> Nodes \cup {NoNode}]
    OBVIOUS
  <2>2. {} \in SUBSET Nat /\ 0 \in Nat /\ "NoMedia" \in States
    BY DEF States
  <2> QED BY <2>1, <2>2 DEF MountInit, Storage
<1>3. stack \in Seq(Nodes)
  BY <1>1
<1>4. reported \in BOOLEAN /\ ~reported
  BY <1>1, Zenon
<1>5. Shape /\ ThreadOK
  BY <1>1, <1>2, <1>3, <1>4 DEF Shape, ThreadOK
<1> QED BY <1>1, <1>4, <1>5 DEF MountInv, MountedIsTop, ReportedIsMounted

\* Every step keeps the invariant of the mounter.
LEMMA NextInv == MountInv /\ [MountNext]_mountvars => MountInv'
  BY AddStep, RemoveStep, UnmountStep, ReportStep, KernelStep, Zenon DEF MountNext, Thread

(***************************************************************************)
(* The node that the mounter will unmount is the one on top of the mount   *)
(* point and has been reported, whatever events were lost, duplicated or   *)
(* late.                                                                   *)
(***************************************************************************)
THEOREM MountedStaysTop == MountSpec => []MountedIsTop
<1>1. MountInv => MountedIsTop
  BY DEF MountInv
<1> QED BY <1>1, InitInv, NextInv, PTL DEF MountSpec

(***************************************************************************)
(* Nothing is reported as mounted after the mount point is bare, but       *)
(* between umount and the callback.                                        *)
(***************************************************************************)
THEOREM ReportedStaysMounted == MountSpec => []ReportedIsMounted
<1>1. MountInv => ReportedIsMounted
  BY DEF MountInv
<1> QED BY <1>1, InitInv, NextInv, PTL DEF MountSpec

(***************************************************************************)
(* The mounter implements StorageReport: a mount is reported only while a  *)
(* medium is plugged in.                                                   *)
(***************************************************************************)
THEOREM MounterImplementsReports == MountSpec => ReportsSpec
<1>1. MountInit => Reports!Init
  BY DEF MountInit, Reports!Init
<1>2. MountInv /\ [MountNext]_mountvars => [Reports!Next]_<<plugged # {}, reported>>
  <2> SUFFICES ASSUME MountInv, [MountNext]_mountvars
               PROVE  [Reports!Next]_<<plugged # {}, reported>>
    OBVIOUS
  <2> USE DEF Reports!Next, Reports!Insert, Reports!Remove, Reports!ReportMount, Reports!ReportUnmount
  <2>1. CASE HandleAdd
    BY <2>1, AddStep, Zenon
  <2>2. CASE HandleDiskRemoved \/ HandlePartitionRemoved \/ DoUnmount
    BY <2>2, RemoveStep, UnmountStep
  <2>3. CASE ReportUnmount
    BY <2>3, ReportStep, Zenon DEF MountInv, Shape
  <2>4. CASE Kernel \/ Walk \/ UNCHANGED mountvars
    BY <2>4, KernelStep
  <2> QED BY <2>1, <2>2, <2>3, <2>4, Zenon DEF MountNext, Thread
<1> QED BY <1>1, <1>2, InitInv, NextInv, PTL DEF MountSpec, ReportsSpec, Reports!Spec
=============================================================================
