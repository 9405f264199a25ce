----------------------------- MODULE RtbConfig -----------------------------
(***************************************************************************)
(* The configuration of the Bluetooth controller (rtb_fwc.c).  For every   *)
(* rtb_init(), the first one and those of recoveries, the configuration    *)
(* file is read, overlaid with what is programmed in the fuses, taken      *)
(* apart into a list, used for the host's own settings (rtb_cfg) and put   *)
(* together again for the download.  Bytes are numbers, a fuse that is not *)
(* programmed is 255, and runs of bytes that are treated alike are one.    *)
(* Memory does not run out.                                                *)
(***************************************************************************)
EXTENDS Integers, Sequences

CONSTANTS
    Files,          \* configuration files that may be installed
    Fuses,          \* contents of the logical fuse map
    MaxInits        \* bound: calls of rtb_init()

VARIABLES
    rtbpc,          \* where rtb_config() is
    mp_mode,        \* bluetooth_is_mp_mode()
    inits,          \* calls of rtb_init()
    fuse,           \* the logical fuse map
    buf,            \* the file's content in memory
    list_configs,   \* the list of items
    rtb_cfg,        \* the host's settings
    config_buf,     \* the configuration to download: its items
    fw_buf          \* whether the firmware could be read

rtbvars == <<rtbpc, mp_mode, inits, fuse, buf, list_configs, rtb_cfg, config_buf, fw_buf>>

Unprogrammed == 255
NoConfig == << >>
NoFile == [magic |-> FALSE, high |-> 0, entries |-> << >>]
Cleared == [vendor_baud |-> 0, flow_ctrl |-> FALSE, parenb |-> FALSE, pareven |-> FALSE]

Bit(b, k) == (b \div 2^k) % 2 = 1

RtbInit ==
    /\ rtbpc = "init" /\ inits = 0
    /\ mp_mode \in BOOLEAN
    /\ fuse \in Fuses
    /\ buf = NoFile /\ list_configs = << >> /\ config_buf = NoConfig
    /\ rtb_cfg = Cleared
    /\ fw_buf = FALSE

KeepsSettings(c) == c

\* rtb_init() clears rtb_cfg.
Zeroed(c) == Cleared

\* rtb_init(), and a new one for each recovery.
BeginInit ==
    /\ rtbpc = "init" /\ inits < MaxInits
    /\ inits' = inits + 1
    /\ rtb_cfg' = Zeroed(rtb_cfg)
    /\ config_buf' = NoConfig
    /\ fw_buf' = FALSE
    /\ rtbpc' = "config"
    /\ UNCHANGED <<mp_mode, fuse, buf, list_configs>>

\* rtb_read_config() reads the whole file into memory ...
ConfigRead(f) ==
    /\ rtbpc = "config"
    /\ buf' = f
    /\ list_configs' = << >>
    /\ rtbpc' = "parse"
    /\ UNCHANGED <<mp_mode, inits, fuse, rtb_cfg, config_buf, fw_buf>>

\* ... or cannot, and the download goes on without a configuration.
ConfigUnread ==
    /\ rtbpc = "config"
    /\ list_configs' = << >>
    /\ rtbpc' = "firmware"
    /\ UNCHANGED <<mp_mode, inits, fuse, buf, rtb_cfg, config_buf, fw_buf>>

-----------------------------------------------------------------------------
(* rtb_parse_config() and rtb_read_config_from_efuse().                    *)

SizeOf(es) ==
    LET size[i \in 0 .. Len(es)] ==
          IF i = 0 THEN 0 ELSE size[i - 1] + 3 + Len(es[i].data)
    IN  size[Len(es)]

\* A fuse that is programmed replaces the byte of the file.
Programmed(b, f) == IF f # Unprogrammed THEN f ELSE b
Overlaid(data, f) == [i \in DOMAIN data |-> Programmed(data[i], f[i])]

\* 0x30: the address is taken as a whole, back to front, if any byte of it is
\* programmed.
Address(data) ==
    IF \E i \in DOMAIN fuse.mac : fuse.mac[i] # Unprogrammed
    THEN [i \in DOMAIN data |-> fuse.mac[Len(data) + 1 - i]]
    ELSE data

\* 0x278: the first byte says which of the others come from the fuses.
Radio(data) ==
    IF fuse.radio[1] = Unprogrammed THEN data
    ELSE [i \in DOMAIN data |->
             IF \/ i = 1
                \/ i = 2 /\ Bit(fuse.radio[1], 1)
                \/ i = 3 /\ Bit(fuse.radio[1], 2)
                \/ i = 4 /\ Bit(fuse.radio[1], 5)
             THEN fuse.radio[i] ELSE data[i]]

\* 0x18: MP mode closes the flow control.
FlowByte(data) == IF mp_mode /\ Bit(data[1], 2) THEN <<data[1] - 4>> ELSE data

\* The overlay of one entry.
FromEfuse(e) ==
    [e EXCEPT !.data = CASE e.ofs = "flow"  -> FlowByte(@)
                         [] e.ofs = "mac"   -> Address(@)
                         [] e.ofs = "radio" -> Radio(@)
                         [] e.ofs = "gain"  -> Overlaid(@, fuse.gain)
                         [] OTHER           -> @]

\* The low byte of the length is written before it is compared, so that only
\* the high byte of the file can be wrong.
Valid(f) == f.magic /\ f.high = SizeOf(f.entries) \div 256

\* The items go to the list, in their order.
ParseConfig ==
    /\ rtbpc = "parse" /\ Valid(buf)
    /\ list_configs' = [i \in DOMAIN buf.entries |-> FromEfuse(buf.entries[i])]
    /\ rtbpc' = "settings"
    /\ UNCHANGED <<mp_mode, inits, fuse, buf, rtb_cfg, config_buf, fw_buf>>

\* rtb_parse_config() returns -1, but the result is kept in an unsigned
\* variable, is not below 0, and an empty list is gone on with.
ParseFails ==
    /\ rtbpc = "parse" /\ ~Valid(buf)
    /\ rtbpc' = "settings"
    /\ UNCHANGED <<mp_mode, inits, fuse, buf, list_configs, rtb_cfg, config_buf, fw_buf>>

-----------------------------------------------------------------------------
(* The rest of rtb_read_config().                                          *)

\* 0x0c and 0x18: what the host takes from an item.  An item at 0x0c of more
\* than 12 bytes reaches up to 0x18; its second byte here is that one.
Taken(c, e) ==
    CASE e.ofs = "baud" -> [c EXCEPT !.vendor_baud = e.data[1],
                                     !.flow_ctrl = IF Len(e.data) > 1 THEN Bit(e.data[2], 2)
                                                   ELSE @]
      [] e.ofs = "flow" -> [c EXCEPT !.flow_ctrl = @ \/ Bit(e.data[1], 2),
                                     !.parenb = @ \/ Bit(e.data[1], 0),
                                     !.pareven = IF Bit(e.data[1], 0) THEN Bit(e.data[1], 1)
                                                 ELSE @]
      [] OTHER -> c

TakenAll(c, es) ==
    LET after[i \in 0 .. Len(es)] == IF i = 0 THEN c ELSE Taken(after[i - 1], es[i])
    IN  after[Len(es)]

\* The host's settings and the new buffer are made from the same list, which is
\* then freed.
Rebuild ==
    /\ rtbpc = "settings"
    /\ rtb_cfg' = TakenAll(rtb_cfg, list_configs)
    /\ config_buf' = list_configs
    /\ list_configs' = << >>
    /\ buf' = NoFile
    /\ rtbpc' = "firmware"
    /\ UNCHANGED <<mp_mode, inits, fuse, fw_buf>>

\* rtb_read_firmware()
FirmwareRead ==
    /\ rtbpc = "firmware"
    /\ fw_buf' = TRUE
    /\ rtbpc' = "download"
    /\ UNCHANGED <<mp_mode, inits, fuse, buf, list_configs, rtb_cfg, config_buf>>

\* Without firmware rtb_config() gives the configuration up as well.
FirmwareUnread ==
    /\ rtbpc = "firmware"
    /\ config_buf' = NoConfig
    /\ rtbpc' = "init"
    /\ UNCHANGED <<mp_mode, inits, fuse, buf, list_configs, rtb_cfg, fw_buf>>

\* The configuration goes to the controller (PatchDownload).
Downloads ==
    /\ rtbpc = "download"
    /\ rtbpc' = "init"
    /\ UNCHANGED <<mp_mode, inits, fuse, buf, list_configs, rtb_cfg, config_buf, fw_buf>>

RtbNext ==
    \/ BeginInit \/ ConfigUnread \/ ParseConfig \/ ParseFails \/ Rebuild
    \/ FirmwareRead \/ FirmwareUnread \/ Downloads
    \/ \E f \in Files : ConfigRead(f)

RtbSpec == RtbInit /\ [][RtbNext]_rtbvars

-----------------------------------------------------------------------------
\* The items at an offset of the downloaded configuration.
Sent(ofs) == {config_buf[i] : i \in {j \in DOMAIN config_buf : config_buf[j].ofs = ofs}}

\* The items that give the controller its flow control.
FlowBytes == {e.data[1] : e \in Sent("flow")}
             \cup {e.data[2] : e \in {d \in Sent("baud") : Len(d.data) > 1}}

\* Whatever the file and the fuses hold, in MP mode or not, and after recoveries
\* with another file or none: the host's speed, flow control and parity are the
\* ones that the download gives the controller (rtb_read_config(),
\* rtb_read_config_from_efuse(), rtb_init()).
SettingsAgree ==
    rtbpc = "download" =>
        /\ \A e \in Sent("baud") : rtb_cfg.vendor_baud = e.data[1]
        /\ Sent("baud") = {} => rtb_cfg.vendor_baud = 0
        /\ rtb_cfg.flow_ctrl = \E b \in FlowBytes : Bit(b, 2)
        /\ rtb_cfg.parenb = \E e \in Sent("flow") : Bit(e.data[1], 0)
=============================================================================
