---------------------------- MODULE StorageMount ----------------------------
(***************************************************************************)
(* The storage mounter of the recovery system                              *)
(* (recovery/storage_mount/storage_mount.c): a thread that reads block     *)
(* uevents from a netlink socket, mounts the medium on one mount point and *)
(* tells the recovery program through a callback.                          *)
(*                                                                         *)
(* A block device node is a pair <<medium, partition>>, partition 0 being  *)
(* the whole disk.  The kernel's part is external: the queue of uevents,   *)
(* the mount table of the mount point (mounts may be stacked), and the     *)
(* media.  A medium keeps its device number while it is mounted, so the    *)
(* number is not given to another one.                                     *)
(***************************************************************************)
EXTENDS Naturals, Sequences, FiniteSets

CONSTANTS
    Usb, Sd,        \* media by the bus they are on
    NParts,         \* partitions on every medium
    Mountable,      \* the partitions (0: the whole disk) that hold a vfat
    HasNPARTS,      \* whether the kernel's disk events carry NPARTS
    MaxNodes,       \* length of the array of nodes mount_volume tries
    MaxPresent,     \* media that can be plugged in at the same time
    MaxPlugs,       \* bound: times a medium is plugged in
    MaxLosses,      \* bound: events lost
    NoNode          \* no device node

Media == Usb \cup Sd
Nodes == Media \X (0 .. NParts)

ASSUME MountAssumption ==
    /\ Usb \cap Sd = {}
    /\ NParts \in Nat
    /\ Mountable \subseteq 0 .. NParts
    /\ HasNPARTS \in BOOLEAN
    /\ MaxNodes \in Nat
    /\ MaxPresent \in Nat
    /\ MaxPlugs \in Nat
    /\ MaxLosses \in Nat
    /\ NoNode \notin Nodes

States == {"NoMedia", "Idle", "Pending", "Mounted", "Unmounting"}

Event == [action : {"add", "remove"}, node : Nodes]

(***************************************************************************)
(* gStorageStruct.  minors holds the node each partition number was last   *)
(* announced with (its minor number), pending the partition numbers still  *)
(* awaited.  is_sdcard_dev is set anew by every event, and mount_volume is *)
(* called in state Idle only, so retry_mount_num is never set: neither is  *)
(* part of the state.                                                      *)
(***************************************************************************)
Storage == [state   : States,
            kdev    : Nodes \cup {NoNode},
            disk    : Media \cup {NoNode},
            nparts  : Nat,
            minors  : [1 .. NParts -> Nodes \cup {NoNode}],
            pending : SUBSET Nat]

VARIABLES
    plugged,    \* media plugged in
    queue,      \* uevents in the netlink socket
    towalk,     \* media storage_retrigger_uevent has not passed yet
    plugs,      \* media plugged in so far
    losses,     \* events lost so far
    gs,         \* gStorageStruct
    thread,     \* where the netlink thread is
    stack,      \* what is mounted on the mount point, the last one on top
    reported    \* the last callback was STORAGE_MOUNT_EVENT

mountvars == <<plugged, queue, towalk, plugs, losses, gs, thread, stack, reported>>

-----------------------------------------------------------------------------
(* The kernel.                                                             *)

IsTop(n) == stack # <<>> /\ stack[Len(stack)] = n

\* The events of a medium: the disk before its partitions, and after them on removal.
AddEvents(m) ==
    [i \in 1 .. NParts + 1 |-> [action |-> "add", node |-> <<m, i - 1>>]]
RemoveEvents(m) ==
    [i \in 1 .. NParts + 1 |-> [action |-> "remove", node |-> <<m, NParts + 1 - i>>]]

Plug(m) ==
    /\ plugs < MaxPlugs /\ Cardinality(plugged) < MaxPresent
    /\ m \notin plugged
    /\ \A i \in 1 .. Len(stack) : stack[i][1] # m
    /\ plugged' = plugged \cup {m}
    /\ plugs' = plugs + 1
    /\ queue' = queue \o AddEvents(m)
    /\ UNCHANGED <<towalk, losses, gs, thread, stack, reported>>

Unplug(m) ==
    /\ m \in plugged
    /\ plugged' = plugged \ {m}
    /\ queue' = queue \o RemoveEvents(m)
    /\ UNCHANGED <<towalk, plugs, losses, gs, thread, stack, reported>>

(***************************************************************************)
(* storage_retrigger_uevent: the walk through /sys asks for add events of  *)
(* every medium that is there, whether or not it was announced before.     *)
(***************************************************************************)
Retrigger(m) ==
    /\ m \in towalk
    /\ towalk' = towalk \ {m}
    /\ queue' = IF m \in plugged THEN queue \o AddEvents(m) ELSE queue
    /\ UNCHANGED <<plugged, plugs, losses, gs, thread, stack, reported>>

\* A full socket buffer (ENOBUFS), or a message too long for the thread's buffer.
Lose ==
    /\ losses < MaxLosses
    /\ queue # <<>>
    /\ queue' = Tail(queue)
    /\ losses' = losses + 1
    /\ UNCHANGED <<plugged, towalk, plugs, gs, thread, stack, reported>>

-----------------------------------------------------------------------------
(* The netlink thread.                                                     *)

SetState(s, st) == [s EXCEPT !.state = st]

\* Mutant: the loop that builds partmask starts at 0.
PartmaskFromZero(s, m) ==
    LET n == IF HasNPARTS THEN NParts ELSE IF m \in Sd THEN 0 ELSE 1 IN
    SetState([s EXCEPT !.disk = m, !.nparts = n, !.pending = 0 .. n],
             IF n = 0 THEN "Idle" ELSE "Pending")

HandleDiskAdded(s, m) ==
    LET n == IF HasNPARTS THEN NParts ELSE IF m \in Sd THEN 0 ELSE 1 IN
    SetState([s EXCEPT !.disk = m, !.nparts = n, !.pending = 1 .. n],
             IF n = 0 THEN "Idle" ELSE "Pending")

\* Devices on the same bus have the same major number.
SameMajor(s, m) == s.disk # NoNode /\ (s.disk \in Sd <=> m \in Sd)

HandlePartitionAdded(s, m, i) ==
    LET s1 == [s EXCEPT !.nparts = IF i > s.nparts THEN i ELSE s.nparts]
        s2 == [s1 EXCEPT !.minors[i] = <<m, i>>, !.pending = s.pending \ {i}]
    IN IF ~SameMajor(s, m) THEN s1
       ELSE IF s2.pending = {} THEN SetState(s2, "Idle") ELSE s2

(***************************************************************************)
(* What the i-th device number of get_device_nodes can denote.  Beyond the *)
(* end of the array it is indeterminate.  The disk's major number with the *)
(* minor number of a device on the other bus, or with the minor number 0   *)
(* of a partition never announced, may denote any device of the disk's bus *)
(* or none.                                                                *)
(***************************************************************************)
DeviceNodes(s, i) ==
    IF s.nparts = 0 THEN {<<s.disk, 0>>}
    ELSE IF i > MaxNodes THEN Nodes \cup {NoNode}
    ELSE IF s.minors[i] # NoNode /\ SameMajor(s, s.minors[i][1]) THEN {s.minors[i]}
    ELSE {n \in Nodes : SameMajor(s, n[1])} \cup {NoNode}

\* Mutant: the error for a device that has gone is not looked at.
DoMountGone(n) == n \in Nodes /\ n[2] \in Mountable /\ ~IsTop(n)

\* Mounting what is already on top of the mount point fails with EBUSY.
DoMount(n) ==
    /\ n \in Nodes
    /\ n[1] \in plugged /\ n[2] \in Mountable
    /\ ~IsTop(n)

Tries(s) == IF s.nparts = 0 THEN {1} ELSE 1 .. s.nparts

(***************************************************************************)
(* mount_volume in state Idle: the first node that can be mounted.         *)
(***************************************************************************)
MountVolume(s) ==
    LET MayFail(i) == \E n \in DeviceNodes(s, i) : ~DoMount(n) IN
    \/ /\ \A i \in Tries(s) : MayFail(i)
       /\ gs' = s
       /\ UNCHANGED <<stack, reported>>
    \/ \E i \in Tries(s) : \E n \in DeviceNodes(s, i) :
          /\ DoMount(n)
          /\ \A j \in 1 .. i - 1 : MayFail(j)
          /\ stack' = Append(stack, n)
          /\ gs' = [SetState(s, "Mounted") EXCEPT !.kdev = n]
          /\ reported' = TRUE

Take(e) == thread = "read" /\ queue # <<>> /\ e = Head(queue) /\ queue' = Tail(queue)

HandleAdd ==
    \E e \in Event :
        /\ Take(e) /\ e.action = "add"
        /\ LET s == IF e.node[2] = 0 THEN HandleDiskAdded(gs, e.node[1])
                    ELSE HandlePartitionAdded(gs, e.node[1], e.node[2])
           IN IF s.state = "Idle" THEN MountVolume(s)
              ELSE gs' = s /\ UNCHANGED <<stack, reported>>
        /\ UNCHANGED <<plugged, towalk, plugs, losses, thread>>

HandleDiskRemoved ==
    \E e \in Event :
        /\ Take(e) /\ e.action = "remove"
        /\ e.node[2] = 0 /\ e.node[1] \notin Sd
        /\ gs' = SetState(gs, "NoMedia")
        /\ UNCHANGED <<plugged, towalk, plugs, losses, thread, stack, reported>>

HandlePartitionRemoved ==
    \E e \in Event :
        /\ Take(e) /\ e.action = "remove"
        /\ e.node[2] # 0 \/ e.node[1] \in Sd
        /\ IF gs.state = "Mounted" /\ e.node = gs.kdev
           THEN gs' = SetState(gs, "Unmounting") /\ thread' = "unmount"
           ELSE UNCHANGED <<gs, thread>>
        /\ UNCHANGED <<plugged, towalk, plugs, losses, stack, reported>>

\* do_unmount: given up after ten attempts, or done (also when nothing is mounted).
DoUnmount ==
    /\ thread = "unmount"
    /\ \/ /\ stack # <<>>
          /\ gs' = SetState(gs, "Mounted") /\ reported' = TRUE
          /\ thread' = "read"
          /\ UNCHANGED stack
       \/ /\ stack' = IF stack = <<>> THEN stack ELSE SubSeq(stack, 1, Len(stack) - 1)
          /\ gs' = SetState(gs, "Idle")
          /\ thread' = "report"
          /\ UNCHANGED reported
    /\ UNCHANGED <<plugged, queue, towalk, plugs, losses>>

\* Mutant: the loop around umount is not left.
UnmountAgain ==
    /\ thread = "report"
    /\ reported' = FALSE
    /\ gs' = [gs EXCEPT !.kdev = NoNode]
    /\ UNCHANGED <<plugged, queue, towalk, plugs, losses, thread, stack>>

ReportUnmount ==
    /\ thread = "report"
    /\ thread' = "read"
    /\ reported' = FALSE
    /\ gs' = [gs EXCEPT !.kdev = NoNode]
    /\ UNCHANGED <<plugged, queue, towalk, plugs, losses, stack>>

-----------------------------------------------------------------------------

\* Media plugged in before the socket is bound have no event in the queue.
MountInit ==
    /\ plugged \in {P \in SUBSET Media : Cardinality(P) <= MaxPresent}
    /\ queue = <<>> /\ towalk = Media /\ plugs = 0 /\ losses = 0
    /\ gs = [state |-> "NoMedia", kdev |-> NoNode, disk |-> NoNode, nparts |-> 0,
             minors |-> [i \in 1 .. NParts |-> NoNode],
             pending |-> {}]
    /\ thread = "read" /\ stack = <<>> /\ reported = FALSE

Thread == HandleAdd \/ HandleDiskRemoved \/ HandlePartitionRemoved \/ DoUnmount \/ ReportUnmount

Kernel == (\E m \in Media : Plug(m) \/ Unplug(m)) \/ Lose

Walk == \E m \in Media : Retrigger(m)

MountNext == Thread \/ Kernel \/ Walk

MountSpec == MountInit /\ [][MountNext]_mountvars

\* The netlink thread and the walk through /sys keep running.
MountFairSpec == MountSpec /\ WF_mountvars(Thread) /\ WF_mountvars(Walk)

-----------------------------------------------------------------------------
(* Properties.                                                             *)

(***************************************************************************)
(* While the mounter is in state Mounted or Unmounting, the node it        *)
(* remembers is the one on top of the mount point, and the recovery        *)
(* program has been told of a mount (storage_mount.c:229-230, 326-350).    *)
(***************************************************************************)
MountedIsTop ==
    gs.state \in {"Mounted", "Unmounting"} =>
        IsTop(gs.kdev) /\ reported

(***************************************************************************)
(* The recovery program is never told that a mount is there while nothing  *)
(* is mounted, except between umount and the callback (340-343).           *)
(***************************************************************************)
ReportedIsMounted == reported => stack # <<>> \/ thread = "report"

(***************************************************************************)
(* Once every event has been handled and none was lost, a single medium    *)
(* that is plugged in is mounted and reported, whatever came and went      *)
(* before: neither the duplicate events of the walk through /sys nor       *)
(* events that describe a past state leave it out                          *)
(* (storage_mount.c:290-309, 372-392, 550-555).                            *)
(***************************************************************************)
SettledIsMounted ==
    thread = "read" /\ queue = <<>> /\ towalk = {} /\ losses = 0 =>
        \A m \in Media : plugged = {m} =>
            /\ reported
            /\ \E i \in Mountable : IsTop(<<m, i>>)

(***************************************************************************)
(* The mounter keeps the promise the recovery program relies on.           *)
(***************************************************************************)
Reports == INSTANCE StorageReport WITH present <- plugged # {}, reported <- reported
ReportsSpec == Reports!Spec

(***************************************************************************)
(* If no event is lost, a medium that stays plugged in is eventually       *)
(* mounted for good, even if it was there before the socket was bound and  *)
(* has no event of its own                                                 *)
(* (storage_mount.c:454-479, 550-555, 574-582).                            *)
(***************************************************************************)
EventuallyReported ==
    <>[](\E m \in Media : plugged = {m}) /\ [](losses = 0) => <>[]reported

(***************************************************************************)
(* The only medium is served, whenever the events have been handled and in *)
(* the end (storage_mount.c:290-582).                                      *)
(***************************************************************************)
MediumServed == []SettledIsMounted /\ EventuallyReported
=============================================================================
