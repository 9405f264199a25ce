--------------------------- MODULE PatchDownload ---------------------------
(***************************************************************************)
(* The download of a Bluetooth patch in the second file format             *)
(* (hci_download_v2.c): the snippets of the file that fit the chip are     *)
(* queued by priority, and the queue and then the configuration are sent   *)
(* in fragments, each acknowledged with its index.  The controller is      *)
(* external; it applies what it has when it gets the flagged fragment.     *)
(***************************************************************************)
EXTENDS Naturals, Sequences, SequencesExt

CONSTANTS
    FragSize,   \* HCI_PATCH_FRAG_SIZE (252)
    IndexFlag   \* the flag of the last fragment's index (0x80)

(***************************************************************************)
(* A patch: the sections of its file, each an opcode and snippets with an  *)
(* eco, a priority, a key id and a length; the length of the configuration;*)
(* chipid.                                                                 *)
(***************************************************************************)
SnippetOK(s) == s.eco \in Nat /\ s.priority \in Nat /\ s.key \in Nat /\ s.len \in Nat

PatchOK(p) ==
    /\ p.config \in Nat /\ p.chip \in Nat
    /\ \A k \in DOMAIN p.file :
          /\ p.file[k].opcode \in {"snippets", "dummy", "security", "other"}
          /\ \A i \in DOMAIN p.file[k].snippets : SnippetOK(p.file[k].snippets[i])

VARIABLES
    patch,
    pc,
    queue,                      \* the list of head_node: [id, priority, len, sent]
    fw_len, sent_fw_len, sent_config_len,
    cur_index, end_index,
    packet,                     \* buf: [index, data]
    ret,                        \* what hci_download_patch_v2 returns
    controller,                 \* [log, applied]: the packets it has taken
    heard                       \* both ends of the line have the same speed

host == <<queue, fw_len, sent_fw_len, sent_config_len, cur_index, end_index>>
vars == <<patch, pc, queue, fw_len, sent_fw_len, sent_config_len, cur_index, end_index, packet,
          ret, controller>>

patch_key_id == 0   \* a static that nothing assigns
\* A byte is named by its snippet (section and place in it; 0 for the configuration) and offset.
ConfigId == <<0, 0>>
Bytes(id, from, n) == [k \in 1 .. n |-> <<id, from + k - 1>>]

HCI_FAIL == 0
HCI_SUCCESS == 1
HCI_IGNORE == 2
Failed == 255       \* -1 as uint8_t

-----------------------------------------------------------------------------
(* Parsing.                                                                *)

InsertLast(q, node) == Append(q, node)

\* _insert_patch_queue: before the first node whose priority is not lower.
Insert(q, node) ==
    LET lower == SelectInSeq(q, LAMBDA n : n.priority >= node.priority)
    IN  IF lower = 0 THEN Append(q, node) ELSE InsertAt(q, lower, node)

Node(k, i) ==
    LET s == patch.file[k].snippets[i]
    IN  [id |-> <<k, i>>, priority |-> s.priority, len |-> s.len, sent |-> 0]

\* _parse_patch_section: the section's snippets for this chip, a security header only with our key.
Fits(k, i, opcode) ==
    LET s == patch.file[k].snippets[i]
    IN  s.eco = patch.chip /\ (opcode = "security" => s.key = patch_key_id)

ParseSection(q, k, opcode) ==
    FoldLeft(LAMBDA r, i : IF Fits(k, i, opcode) THEN Insert(r, Node(k, i)) ELSE r,
             q, [i \in 1 .. Len(patch.file[k].snippets) |-> i])

Sections == [k \in 1 .. Len(patch.file) |-> k]

\* The sections of the first pass: dummy headers without a key, security headers with one.
FirstPass(k) ==
    \/ patch.file[k].opcode = "snippets"
    \/ patch.file[k].opcode = "dummy" /\ patch_key_id = 0
    \/ patch.file[k].opcode = "security" /\ patch_key_id # 0

FoundSecurity ==
    \E k \in DOMAIN patch.file :
       /\ FirstPass(k) /\ patch.file[k].opcode = "security"
       /\ \E i \in DOMAIN patch.file[k].snippets : Fits(k, i, "security")

SecondPass(k) == patch.file[k].opcode = "dummy" /\ patch_key_id # 0 /\ ~FoundSecurity

\* _parse_patch.
ParsePatch(q) ==
    LET parse(r, k) == ParseSection(r, k, patch.file[k].opcode)
    IN  FoldLeft(parse, FoldLeft(parse, q, SelectSeq(Sections, FirstPass)),
                 SelectSeq(Sections, SecondPass))

Length(q) == FoldLeft(LAMBDA n, node : n + node.len, 0, q)

\* _get_patch_info, on the first fragment: nothing that fits is HCI_IGNORE.
NothingFits ==
    /\ pc = "build" /\ cur_index = 0
    /\ Length(ParsePatch(queue)) = 0
    /\ ret' = HCI_IGNORE /\ pc' = "done"
    /\ UNCHANGED <<patch, queue, fw_len, sent_fw_len, sent_config_len, cur_index, end_index,
                   packet, controller>>

EndIndex(fw) == (fw + patch.config - 1) \div FragSize

LastLength(fw) ==
    LET n == (fw + patch.config) % FragSize IN IF n = 0 THEN FragSize ELSE n

-----------------------------------------------------------------------------
(* Building a fragment.                                                    *)

\* hci_get_patch_cmd_buf: the byte that names fragment n; only fragment 0 has number 0.
Index(n) == IF n >= IndexFlag THEN 1 + ((n - IndexFlag) % (IndexFlag - 1)) ELSE n % IndexFlag

\* The loop over the queue: each node gives what fits of its rest.
Fill(acc, node) ==
    LET total == acc.total + node.len
        n == IF acc.sent + acc.room < total THEN acc.room ELSE node.len - node.sent
    IN  IF acc.full \/ acc.sent >= total
        THEN [acc EXCEPT !.total = total, !.queue = Append(@, node)]
        ELSE [total |-> total, sent |-> acc.sent + n, room |-> acc.room - n,
              data |-> acc.data \o Bytes(node.id, node.sent, n),
              queue |-> Append(acc.queue, [node EXCEPT !.sent = @ + n]),
              full |-> acc.sent + acc.room < total]

\* The fragment of length len: what is left of the queue, then configuration bytes.
Fragment(q, len) ==
    FoldLeft(Fill, [total |-> 0, sent |-> sent_fw_len, room |-> len, data |-> <<>>,
                    queue |-> <<>>, full |-> FALSE], q)

\* The checks that the firmware and the configuration have been sent completely.
Incomplete(f, fw, last) ==
    \/ f.room > 0 /\ fw # f.sent
    \/ last /\ sent_config_len + f.room # patch.config

FlaggedEarly(end) == cur_index + 1 >= end

\* The last fragment has the flag in its index.
Flagged(end) == cur_index = end

\* One turn of the loop of hci_download_patch_v2 up to the transfer.
Build ==
    LET q == IF cur_index = 0 THEN ParsePatch(queue) ELSE queue
        fw == IF cur_index = 0 THEN Length(q) ELSE fw_len
        end == IF cur_index = 0 THEN EndIndex(fw) ELSE end_index
        last == cur_index = end
        f == Fragment(q, IF last THEN LastLength(fw) ELSE FragSize)
    IN  /\ pc = "build"
        /\ cur_index = 0 => fw # 0
        /\ queue' = f.queue
        /\ fw_len' = fw /\ end_index' = end
        /\ sent_fw_len' = f.sent
        /\ sent_config_len' = sent_config_len + f.room
        /\ packet' = [index |-> Index(cur_index) + IF Flagged(end) THEN IndexFlag ELSE 0,
                      data |-> f.data \o Bytes(ConfigId, sent_config_len, f.room)]
        /\ IF Incomplete(f, fw, last)
           THEN ret' = HCI_FAIL /\ pc' = "done" /\ UNCHANGED cur_index
           ELSE /\ ret' = HCI_SUCCESS /\ pc' = "xfer"
                /\ cur_index' = IF last THEN cur_index ELSE cur_index + 1
        /\ UNCHANGED <<patch, controller>>

-----------------------------------------------------------------------------
(* The transfer.                                                           *)

IsLast == packet.index >= IndexFlag

\* The host's flow control is set before the flagged fragment; tcsetattr may fail.
TcsetattrFails ==
    /\ pc = "xfer" /\ IsLast
    /\ ret' = Failed /\ pc' = "done"
    /\ UNCHANGED <<patch, host, packet, controller>>

\* The controller takes the fragment.  It answers with the index, in time or too late.
Take ==
    /\ heard
    /\ controller' = [log |-> Append(controller.log, packet), applied |-> IsLast]

\* start_xfer_wait ends the program when no answer comes in time.
XferTimesOut ==
    /\ pc = "xfer"
    /\ Take \/ UNCHANGED controller
    /\ pc' = "exited"
    /\ UNCHANGED <<patch, host, packet, ret>>

\* A write or read that fails, an error status, another command's answer: -1, kept in a uint8_t.
XferFails ==
    /\ pc = "xfer"
    /\ Take \/ UNCHANGED controller
    /\ ret' = Failed /\ pc' = "done"
    /\ UNCHANGED <<patch, host, packet>>

\* The answer has the flag of the last fragment: the loop ends with start_xfer_wait's 0.
Acknowledged ==
    /\ pc = "xfer"
    /\ Take
    /\ ret' = 0
    /\ pc' = IF IsLast THEN "done" ELSE "build"
    /\ UNCHANGED <<patch, host, packet>>

Step ==
    \/ NothingFits \/ Build
    \/ TcsetattrFails \/ XferTimesOut \/ XferFails \/ Acknowledged

-----------------------------------------------------------------------------
(* Properties.                                                             *)

\* The variables keep their types, and the counters of _get_patch_info stay within the patch.
TypeOK ==
    /\ pc \in {"idle", "build", "xfer", "done", "exited"}
    /\ \A k \in DOMAIN queue : queue[k].sent \in 0 .. queue[k].len
    /\ sent_fw_len \in 0 .. fw_len /\ sent_config_len \in 0 .. patch.config
    /\ cur_index \in 0 .. end_index
    /\ packet.index \in 0 .. 2 * IndexFlag - 1
    /\ Len(packet.data) \in 0 .. FragSize
    /\ ret \in {HCI_FAIL, HCI_SUCCESS, HCI_IGNORE, Failed}

\* What the file holds for this chip, without the code's lists: the snippets that fit, by
\* priority; among equals the one parsed last comes first.
Wanted ==
    LET places == UNION {{k} \X DOMAIN patch.file[k].snippets : k \in DOMAIN patch.file}
        snippet(x) == patch.file[x[1]].snippets[x[2]]
        chosen == {x \in places : /\ patch.file[x[1]].opcode \in {"snippets", "dummy"}
                                  /\ snippet(x).eco = patch.chip}
        parsed(x, y) == x[1] < y[1] \/ (x[1] = y[1] /\ x[2] < y[2])
        before(x, y) == \/ snippet(x).priority < snippet(y).priority
                        \/ snippet(x).priority = snippet(y).priority /\ parsed(y, x)
        order == SetToSortSeq(chosen, before)
    IN  FlattenSeq([j \in DOMAIN order |-> Bytes(order[j], 0, snippet(order[j]).len)])
        \o Bytes(ConfigId, 0, patch.config)

Got == FlattenSeq([i \in DOMAIN controller.log |-> controller.log[i].data])

\* The fragments cut the wanted bytes without a gap, an overlap or a change of order
\* (hci_get_patch_cmd_buf).
InOrder == IsPrefix(Got, Wanted)

\* The controller applies a patch only when it has all of it: the flagged fragment is the one
\* that completes the firmware and the configuration.
AppliedIsWhole == controller.applied => Got = Wanted

\* The index numbers let the controller tell a fragment from the one before it, and number 0 is
\* never used again after the first (hci_get_patch_cmd_buf).
IndexesTellApart ==
    \A i \in 2 .. Len(controller.log) :
       LET number(j) == controller.log[j].index % IndexFlag
       IN  number(i) # number(i - 1) /\ number(i) # 0
=============================================================================
