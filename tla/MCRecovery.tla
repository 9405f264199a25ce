---------------------------- MODULE MCRecovery ----------------------------
(* The updater and the medium mounter of the recovery system, side by side: *)
(* a behaviour runs one of them while the other rests.                      *)
(*                                                                         *)
(* Small packages for the updater: one image with two copies, and user      *)
(* data. Two USB media and one card for the mounter, each with two          *)
(* partitions that can be mounted.                                          *)
EXTENDS OtaRecovery, StorageMount
CONSTANTS u1, u2, card
VARIABLE part

Pack(kind, imgs, check, digest, md5) ==
    [kind  |-> kind, imgs |-> imgs, check |-> check,
     image |-> [i \in Images |-> digest], md5 |-> [i \in Images |-> md5]]

\* An archive and a directory with good images, checked.
Archive   == Pack("gz", {APIMAGE, USERDATA}, TRUE, "good", "good")
Directory == Pack("dir", {APIMAGE}, TRUE, "good", "good")
Plain     == Pack("plain", {}, FALSE, "good", "absent")

Corrupt   == Pack("gz", {APIMAGE}, TRUE, "corrupt", "empty")

Downloads == {Archive, Directory, Corrupt}
OnMedium  == {Directory, Pack("swu", {}, FALSE, "good", "absent"), Plain}

TwoUsb    == {u1, u2}
OneSd     == {card}
FirstTwo  == {1, 2}

-----------------------------------------------------------------------------

\* The normal system runs and nobody asks for an update.
UpdaterIdle ==
    /\ env = [entry |-> "normal", cmd |-> "none", update_mode |-> "normal"]
    /\ flash = [p \in Parts |-> [from |-> "factory", digest |-> "good"]]
    /\ pkg = [s \in Sources |-> IF s = "data" THEN Archive ELSE Plain]
    /\ hasData = FALSE /\ inserted = FALSE
    /\ mode = "normal" /\ daemon = "poll" /\ req = "idle"
    /\ pc = "wait" /\ retry = 0 /\ mounted = FALSE /\ usbSeen = FALSE
    /\ opts = "none" /\ src = "none" /\ todo = {} /\ writing = FALSE
    /\ status = "success"
    /\ ub = FALSE /\ faults = 0 /\ requests = 0 /\ wipes = 0

\* Nothing is plugged in and no event waits.
MounterIdle ==
    /\ plugged = {} /\ queue = <<>> /\ towalk = {} /\ plugs = 0 /\ losses = 0
    /\ gs = [state |-> "NoMedia", kdev |-> NoNode, disk |-> NoNode, nparts |-> 0,
             minors |-> [i \in 1 .. NParts |-> NoNode],
             pending |-> {}]
    /\ thread = "read" /\ stack = <<>> /\ reported = FALSE

RecoveryInit ==
    \/ part = "updater" /\ Init /\ MounterIdle
    \/ part = "mounter" /\ MountInit /\ UpdaterIdle

RecoveryNext ==
    \/ part = "updater" /\ Next /\ UNCHANGED <<mountvars, part>>
    \/ part = "mounter" /\ MountNext /\ UNCHANGED <<vars, part>>

\* The fairness of each component, where it is the one that runs.
RecoveryFairness ==
    /\ WF_vars(part = "updater" /\ Recovery)
    /\ WF_vars(part = "updater" /\ Boot)
    /\ WF_vars(part = "updater" /\ SwUpdate)
    /\ WF_mountvars(part = "mounter" /\ Thread)
    /\ WF_mountvars(part = "mounter" /\ Walk)

RecoverySpec == RecoveryInit /\ [][RecoveryNext]_<<vars, mountvars, part>> /\ RecoveryFairness
=============================================================================
