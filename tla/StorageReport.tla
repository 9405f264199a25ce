--------------------------- MODULE StorageReport ---------------------------
(***************************************************************************)
(* What the recovery program may rely on from the storage mounter: media   *)
(* come and go, a mount is reported only while a medium is plugged in, and *)
(* an unmount may be reported late or never.  These are the steps that     *)
(* OtaRecovery's InsertMedium, RemoveMedium and StorageStateChange allow.  *)
(***************************************************************************)
VARIABLES present,      \* some medium is plugged in
          reported      \* the last callback was STORAGE_MOUNT_EVENT

Init == present \in BOOLEAN /\ reported = FALSE

Insert        == ~present /\ present' = TRUE /\ UNCHANGED reported
Remove        == present /\ present' = FALSE /\ UNCHANGED reported
ReportMount   == present /\ reported' = TRUE /\ UNCHANGED present
ReportUnmount == reported /\ reported' = FALSE /\ UNCHANGED present

Next == Insert \/ Remove \/ ReportMount \/ ReportUnmount

Spec == Init /\ [][Next]_<<present, reported>>
=============================================================================
