--------------------------- MODULE PatchSections ---------------------------
(***************************************************************************)
(* The download of a Bluetooth patch in the third file format              *)
(* (hci_download_v3.c): every section has registers the controller must be *)
(* told before its image, its own fragment numbers, and the section parsed *)
(* first carries the configuration after its image; one more packet, empty *)
(* and flagged, ends the download.  The controller is external.            *)
(***************************************************************************)
EXTENDS Naturals, Sequences, SequencesExt

CONSTANTS
    FragSize,   \* HCI_PATCH_FRAG_SIZE (252)
    IndexFlag,  \* the index of the closing packet (0x80)
    MaxSections \* sections the tool queues (64)

(***************************************************************************)
(* A patch: its sections, each with a cut, an OTA flag, a priority, the    *)
(* image's length, whether its two registers have addresses (start and     *)
(* remain) and whether the second has a value (secure); the length of the  *)
(* configuration; chipid.                                                  *)
(***************************************************************************)
SectionOK(s) ==
    /\ s.image \in BOOLEAN /\ s.start \in BOOLEAN /\ s.remain \in BOOLEAN
    /\ s.secure \in BOOLEAN
    /\ s.cut \in Nat /\ s.priority \in Nat /\ s.len \in Nat

PatchOK(p) ==
    /\ p.config \in Nat /\ p.chip \in Nat
    /\ \A k \in DOMAIN p.file : SectionOK(p.file[k])

VARIABLES
    patch,
    pc,
    queue,              \* the list of head_node: [id, priority, len, sent, cur, end, last, checked]
    fw_len, sent_fw_len, sent_config_len,
    security,           \* security_node, 0 for NULL
    writes,             \* register writes of this turn that are still to be made
    packet,             \* buf: [index, data]
    ret,                \* what hci_download_patch_v3 returns
    controller,         \* [log, applied]: see Take
    heard               \* both ends of the line have the same speed

host == <<queue, fw_len, sent_fw_len, sent_config_len, security>>
vars == <<patch, pc, queue, fw_len, sent_fw_len, sent_config_len, security, writes, packet, ret,
          controller>>

\* A byte is named by its section (0 for the configuration) and offset.
Bytes(id, from, n) == [k \in 1 .. n |-> <<id, from + k - 1>>]

HCI_FAIL == 0
HCI_SUCCESS == 1
HCI_IGNORE == 2
Failed == 255       \* -1 as uint8_t

-----------------------------------------------------------------------------
(* Parsing.                                                                *)

\* _insert_patch_queue: before the first node whose priority is not lower.
Insert(q, node) ==
    LET lower == SelectInSeq(q, LAMBDA n : n.priority >= node.priority)
    IN  IF lower = 0 THEN Append(q, node) ELSE InsertAt(q, lower, node)

\* The checks of _parse_patch_image: an image for this chip and cut that is not empty.
Fits(k) == LET s == patch.file[k] IN s.image /\ s.cut = patch.chip /\ s.len # 0

LastLength(n) == IF n % FragSize = 0 THEN FragSize ELSE n % FragSize

\* The section that is parsed first carries the configuration.
Total(k, q) == IF q = <<>> THEN patch.file[k].len + patch.config ELSE patch.file[k].len

Node(k, q) ==
    [id |-> k, priority |-> patch.file[k].priority, len |-> patch.file[k].len, sent |-> 0,
     cur |-> 1, end |-> 1 + ((Total(k, q) - 1) \div FragSize), last |-> LastLength(Total(k, q)),
     checked |-> FALSE]

ParsePatchImage(q, k) ==
    IF Fits(k) /\ Len(q) < MaxSections THEN Insert(q, Node(k, q)) ELSE q

ParseSections ==
    FoldLeft(ParsePatchImage, <<>>, [k \in 1 .. Len(patch.file) |-> k])

Length(q) == FoldLeft(LAMBDA n, node : n + node.len, 0, q)

Secure(k) == patch.file[k].remain /\ patch.file[k].secure

\* _select_security_section_node: the first parsed of the highest priority.
SelectSecurity(best, k) ==
    IF Secure(k) /\ (best = 0 \/ patch.file[k].priority > patch.file[best].priority)
    THEN k ELSE best

Queued(q) == {q[j].id : j \in DOMAIN q}

\* hci_vendor_read of the key id: only a part without a key is supported.
KeyRefused ==
    /\ pc = "key"
    /\ ret' = HCI_FAIL /\ pc' = "done"
    /\ UNCHANGED <<patch, host, writes, packet, controller>>

KeyTimesOut == pc = "key" /\ pc' = "exited" /\ UNCHANGED <<patch, host, writes, packet, ret, controller>>

\* hci_patch_download_init_parse.
InitParse ==
    LET q == ParseSections
    IN  /\ pc = "key" /\ heard
        /\ queue' = q
        /\ security' = FoldLeft(SelectSecurity, 0,
                          SelectSeq([k \in 1 .. Len(patch.file) |-> k], LAMBDA k : k \in Queued(q)))
        /\ fw_len' = Length(q)
        /\ IF Length(q) = 0
           THEN ret' = HCI_IGNORE /\ pc' = "done"
           ELSE UNCHANGED ret /\ pc' = "build"
        /\ UNCHANGED <<patch, sent_fw_len, sent_config_len, writes, packet, controller>>

-----------------------------------------------------------------------------
(* Building a packet.                                                      *)

TrimModulo(n) == n % IndexFlag
\* TRIM_INDEX: fragments of a section are numbered from 1 and never get the closing index.
TrimIndex(n) == IF n >= IndexFlag THEN 1 + ((n - IndexFlag) % (IndexFlag - 1)) ELSE n % IndexFlag

\* The first section of the queue that is not sent yet; 0 when all are.
Current == SelectInSeq(queue, LAMBDA n : n.cur <= n.end)

\* The registers told before a section's first fragment, those that have an address.
Registers(k) ==
    (IF patch.file[k].start THEN <<<<"start", k>>>> ELSE <<>>)
    \o (IF patch.file[k].remain THEN <<<<"remain", k>>>> ELSE <<>>)

\* Mutant: the test of the flag is turned round.
CheckedSection(n) == n.checked

NewSection(n) == ~n.checked

\* hci_patch_get_cmd_buf while a section is left: image bytes, and configuration after them.
BuildFragment ==
    LET j == Current
        n == queue[j]
        len == IF n.cur = n.end THEN n.last ELSE FragSize
        sending == IF n.sent + len <= n.len THEN len ELSE n.len - n.sent
        extra == len - sending
    IN  /\ pc = "build" /\ j # 0
        /\ queue' = [queue EXCEPT ![j] = [n EXCEPT !.sent = @ + sending, !.cur = @ + 1,
                                                   !.checked = TRUE]]
        /\ sent_fw_len' = sent_fw_len + sending
        /\ sent_config_len' = sent_config_len + extra
        /\ packet' = [index |-> TrimIndex(n.cur),
                      data |-> Bytes(n.id, n.sent, sending) \o Bytes(0, sent_config_len, extra)]
        /\ writes' = IF NewSection(n) THEN Registers(n.id) ELSE <<>>
        /\ ret' = HCI_SUCCESS /\ pc' = "write"
        /\ UNCHANGED <<patch, fw_len, security, controller>>

SecurityWrites == IF security = 0 THEN <<>> ELSE <<<<"security", security>>>>

Incomplete == sent_fw_len # fw_len \/ sent_config_len # patch.config

\* When all sections are sent: the closing packet, after the security header's register.
BuildClosing ==
    /\ pc = "build" /\ Current = 0
    /\ packet' = [index |-> IndexFlag, data |-> <<>>]
    /\ IF Incomplete
       THEN ret' = HCI_FAIL /\ pc' = "done" /\ UNCHANGED writes
       ELSE ret' = HCI_SUCCESS /\ pc' = "write" /\ writes' = SecurityWrites
    /\ UNCHANGED <<patch, host, controller>>

-----------------------------------------------------------------------------
(* Transfers.  The controller logs register writes and packets.            *)

Logged(reg, index, data) ==
    Append(controller.log, [reg |-> reg, index |-> index, data |-> data])
Tell(w) == heard /\ controller' = [controller EXCEPT !.log = Logged(w, 0, <<>>)]
Take == /\ heard
        /\ controller' = [log |-> Logged(<<>>, packet.index, packet.data),
                          applied |-> packet.index = IndexFlag]

\* hci_vendor_write.
Write ==
    /\ pc = "write" /\ writes # <<>>
    /\ Tell(Head(writes))
    /\ writes' = Tail(writes)
    /\ UNCHANGED <<patch, pc, host, packet, ret>>

\* A write that fails or is refused is HCI_FAIL, which is 0.
WriteFails ==
    /\ pc = "write" /\ writes # <<>>
    /\ Tell(Head(writes)) \/ UNCHANGED controller
    /\ ret' = HCI_FAIL /\ pc' = "done"
    /\ UNCHANGED <<patch, host, writes, packet>>

\* The host's flow control is set before the closing packet; tcsetattr may fail.
TcsetattrFails ==
    /\ pc = "write" /\ writes = <<>> /\ packet.index = IndexFlag
    /\ ret' = Failed /\ pc' = "done"
    /\ UNCHANGED <<patch, host, writes, packet, controller>>

\* start_xfer_wait ends the program when no answer comes in time, to a packet or a register write.
XferTimesOut ==
    /\ pc = "write"
    /\ IF writes # <<>> THEN Tell(Head(writes)) \/ UNCHANGED controller
                        ELSE Take \/ UNCHANGED controller
    /\ pc' = "exited"
    /\ UNCHANGED <<patch, host, writes, packet, ret>>

\* A write or read that fails, an error status, another command's answer: -1, kept in a uint8_t.
XferFails ==
    /\ pc = "write" /\ writes = <<>>
    /\ Take \/ UNCHANGED controller
    /\ ret' = Failed /\ pc' = "done"
    /\ UNCHANGED <<patch, host, writes, packet>>

\* The answer to the closing packet ends the loop with start_xfer_wait's 0.
Acknowledged ==
    /\ pc = "write" /\ writes = <<>>
    /\ Take
    /\ ret' = 0
    /\ pc' = IF packet.index = IndexFlag THEN "done" ELSE "build"
    /\ UNCHANGED <<patch, host, writes, packet>>

Step ==
    \/ KeyRefused \/ KeyTimesOut \/ InitParse
    \/ BuildFragment \/ BuildClosing
    \/ Write \/ WriteFails
    \/ TcsetattrFails \/ XferTimesOut \/ XferFails \/ Acknowledged

-----------------------------------------------------------------------------
(* Properties.                                                             *)

\* The variables keep their types; at most MaxSections sections are queued and no counter passes
\* what there is to send.
TypeOK ==
    /\ pc \in {"idle", "key", "build", "write", "done", "exited"}
    /\ Len(queue) <= MaxSections
    /\ \A j \in DOMAIN queue : queue[j].sent <= queue[j].len /\ queue[j].cur <= queue[j].end + 1
    /\ sent_fw_len \in 0 .. fw_len /\ sent_config_len \in 0 .. patch.config
    /\ security \in 0 .. Len(patch.file)
    /\ packet.index \in 0 .. IndexFlag
    /\ Len(packet.data) \in 0 .. FragSize
    /\ ret \in {HCI_FAIL, HCI_SUCCESS, HCI_IGNORE, Failed}

\* The sections that should be sent, taken from the file alone: the first MaxSections that fit,
\* by priority, among equals the later one first.
Chosen ==
    {k \in DOMAIN patch.file :
        Fits(k) /\ Cardinality({j \in 1 .. k - 1 : Fits(j)}) < MaxSections}
Order == SetToSortSeq(Chosen,
            LAMBDA a, b : \/ patch.file[a].priority < patch.file[b].priority
                          \/ patch.file[a].priority = patch.file[b].priority /\ a > b)
First == CHOOSE k \in Chosen : \A j \in Chosen : k <= j

\* The bytes that should be sent for a section.
Image(k) == Bytes(k, 0, patch.file[k].len) \o
                (IF k = First THEN Bytes(0, 0, patch.config) ELSE <<>>)

Wanted == FlattenSeq([j \in DOMAIN Order |-> Image(Order[j])])
Got == FlattenSeq([i \in DOMAIN controller.log |-> controller.log[i].data])

\* The fragments carry the sections by priority, each whole and without a gap, the configuration
\* right after the image that was parsed first (hci_patch_get_cmd_buf).
InOrder == IsPrefix(Got, Wanted)

\* The closing packet, on which the controller applies the patch, comes when it has everything.
AppliedIsWhole == controller.applied => Got = Wanted

\* The section a logged packet belongs to: the one of its first image byte.
Owner(i) == controller.log[i].data[1][1]
IsFragment(i) == controller.log[i].data # <<>>

\* When a section's first byte arrives, its registers have been told, and since then no register of
\* another section and no fragment of another section came between.
RegistersBeforeImage ==
    \A i \in DOMAIN controller.log :
       IsFragment(i) /\ controller.log[i].data[1] = <<Owner(i), 0>> /\ Owner(i) # 0 =>
          LET r == Registers(Owner(i))
          IN  /\ i > Len(r)
              /\ \A j \in DOMAIN r : controller.log[i - Len(r) + j - 1].reg = r[j]

\* The closing index names no fragment, and two fragments in a row of one section have different
\* indexes (TRIM_INDEX).
IndexesTellApart ==
    \A i \in DOMAIN controller.log :
       IsFragment(i) =>
          /\ controller.log[i].index \in 1 .. IndexFlag - 1
          /\ i > 1 /\ IsFragment(i - 1) => controller.log[i].index # controller.log[i - 1].index

\* The patch is applied only after the register of the security header of the highest priority
\* has been written (hci_patch_found_security_section).
SecurityBeforeApply ==
    LET above(j, k) == \/ patch.file[j].priority < patch.file[k].priority
                       \/ patch.file[j].priority = patch.file[k].priority /\ k <= j
        best == {k \in Chosen : Secure(k) /\ \A j \in Chosen : Secure(j) => above(j, k)}
    IN  controller.applied =>
           \A k \in best : \E i \in DOMAIN controller.log : controller.log[i].reg = <<"security", k>>
=============================================================================
