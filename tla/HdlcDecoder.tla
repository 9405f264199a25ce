---------------------------- MODULE HdlcDecoder ----------------------------
(***************************************************************************)
(* The HDLC framing between the host tool and the radio co-processor       *)
(* (openthread/.../hdlc/CFUonHDLC.c): hdlc_encode, and hdlc_decode fed     *)
(* with whatever chunks of bytes read() returns, one response per request  *)
(* (RcpConfig.c:85-231).                                                   *)
(***************************************************************************)
EXTENDS Naturals, Sequences, SequencesExt

CONSTANTS
    BufLen,             \* sizeof(decodeBuffer) and sizeof(encodeBuffer)
    Payloads,           \* payloads the co-processor answers with
    Noises,             \* what may be on the line before a frame
    MaxRequests,        \* bound: requests
    BitXor(_, _),       \* the exclusive or of two numbers
    sFcsTable           \* the table of the frame check sequence

Byte == 0 .. 255
Max16 == 65535
Fcs16 == 0 .. Max16

kFlagXOn        == 17
kFlagXOff       == 19
kFlagSequence   == 126
kEscapeSequence == 125
kFlagSpecial    == 248
kInitFcs        == Max16
kGoodFcs        == 61624
kFcsSize        == 2

ASSUME HdlcAssumption ==
    /\ BufLen \in Nat \ {0}
    /\ Payloads \subseteq Seq(Byte) /\ Noises \subseteq Seq(Byte)
    /\ MaxRequests \in Nat
    /\ \A a, b \in Byte : BitXor(a, b) \in Byte /\ BitXor(a, sFcsTable[b]) \in Fcs16

UpdateFcs(f, b) == BitXor(f \div 256, sFcsTable[BitXor(f % 256, b)])

FlipBit5(b) == BitXor(b, 32)

-----------------------------------------------------------------------------
(* The encoder.                                                            *)

\* Mutant: the flag bytes are not escaped.
EscapeForgetsFlags(b) == b \in {kFlagXOn, kFlagXOff, kEscapeSequence, kFlagSpecial}

HdlcByteNeedsEscape(b) ==
    b \in {kFlagXOn, kFlagXOff, kEscapeSequence, kFlagSequence, kFlagSpecial}

EncodeByte(b) ==
    IF HdlcByteNeedsEscape(b) THEN <<kEscapeSequence, FlipBit5(b)>> ELSE <<b>>

EncodeAll(p) == FoldLeft(LAMBDA acc, b : acc \o EncodeByte(b), <<>>, p)

\* The room hdlc_encode asks for.
Accepted(p) == 1 + Len(p) * 2 + 2 + 1 <= BufLen

hdlc_encode(p) ==
    LET fcs == Max16 - FoldLeft(UpdateFcs, kInitFcs, p) IN
    <<kFlagSequence>> \o EncodeAll(p \o <<fcs % 256, fcs \div 256>>) \o <<kFlagSequence>>

-----------------------------------------------------------------------------
(* The decoder: pos is pDecBuffer - decodeBuffer.                          *)

Decoder == [state : {"NoSync", "Sync", "Escaped"},
            fcs   : Fcs16,
            len   : Nat,
            pos   : Nat,
            rem   : Nat,
            buf   : [1 .. BufLen -> Byte]]

VARIABLES
    dec,        \* the decoder's globals
    decoded_ret, \* result of hdlc_decode: "none" before it returns
    chunk,      \* bytes of the current hdlc_decode call not looked at yet
    wire,       \* bytes not read yet
    sent,       \* payload of the response on its way
    noise,      \* what precedes it
    room,       \* history: remainingLen when the request was made
    waiting,    \* in ttyWaitForFrame
    requests    \* requests made so far

hdlcvars == <<dec, decoded_ret, chunk, wire, sent, noise, room, waiting, requests>>

hdlc_decoder_reset(d) ==
    [d EXCEPT !.state = "NoSync", !.fcs = 0, !.len = 0, !.pos = 0]

\* Mutant: remainingLen is not tested.
StoreUnchecked(d, b) ==
    [d EXCEPT !.state = "Sync", !.fcs = UpdateFcs(d.fcs, b), !.buf[d.pos + 1] = b,
              !.pos = d.pos + 1, !.rem = d.rem - 1, !.len = d.len + 1]

\* A data byte, or what the code calls HDLD_DECODE_NO_BUFS.
Store(d, b) ==
    IF d.rem >= 1
    THEN [d EXCEPT !.state = "Sync", !.fcs = UpdateFcs(d.fcs, b), !.buf[d.pos + 1] = b,
                   !.pos = d.pos + 1, !.rem = d.rem - 1, !.len = d.len + 1]
    ELSE hdlc_decoder_reset(d)

\* Mutant: the frame check is part of the payload.
EndWithFcs(d) ==
    IF d.len >= kFcsSize /\ d.fcs = kGoodFcs
    THEN [d |-> d, ret |-> "COMPLETE"]
    ELSE [d |-> [d EXCEPT !.len = 0, !.pos = 0, !.fcs = kInitFcs], ret |-> "none"]

\* A flag in state Sync ends a frame, good or bad.
EndOfFrame(d) ==
    IF d.len >= kFcsSize /\ d.fcs = kGoodFcs
    THEN [d |-> [d EXCEPT !.pos = d.pos - kFcsSize, !.rem = d.rem + kFcsSize,
                          !.len = d.len - kFcsSize],
          ret |-> "COMPLETE"]
    ELSE [d |-> [d EXCEPT !.len = 0, !.pos = 0, !.fcs = kInitFcs], ret |-> "none"]

\* One round of hdlc_decode's loop: the new state, and whether it returns.
Decode(d, b) ==
    CASE d.state = "NoSync" ->
            [d |-> IF b = kFlagSequence
                   THEN [d EXCEPT !.state = "Sync", !.len = 0, !.fcs = kInitFcs] ELSE d,
             ret |-> "none"]
      [] d.state = "Sync" /\ b = kEscapeSequence ->
            [d |-> [d EXCEPT !.state = "Escaped"], ret |-> "none"]
      [] d.state = "Sync" /\ b = kFlagSequence -> EndOfFrame(d)
      [] d.state = "Sync" /\ b \notin {kEscapeSequence, kFlagSequence} ->
            [d |-> Store(d, b), ret |-> "none"]
      [] d.state = "Escaped" -> [d |-> Store(d, FlipBit5(b)), ret |-> "none"]

-----------------------------------------------------------------------------

\* ConfigRequest: the decoder is reset and the answer starts to come in.
Request ==
    /\ ~waiting
    /\ requests < MaxRequests
    /\ dec' = hdlc_decoder_reset(dec)
    /\ room' = dec.rem
    /\ \E p \in Payloads, n \in Noises :
          /\ Accepted(p)
          /\ sent' = p /\ noise' = n
          /\ wire' = n \o hdlc_encode(p)
          /\ wire' \in Seq(Byte)
    /\ chunk' = <<>> /\ decoded_ret' = "none"
    /\ waiting' = TRUE
    /\ requests' = requests + 1

\* ttyRead: read() returns some bytes and hdlc_decode is called with them.
TtyRead ==
    /\ waiting /\ decoded_ret # "COMPLETE"
    /\ chunk = <<>> /\ wire # <<>>
    /\ \E n \in 1 .. Len(wire) :
          /\ chunk' = SubSeq(wire, 1, n)
          /\ wire' = SubSeq(wire, n + 1, Len(wire))
    /\ decoded_ret' = "none"
    /\ UNCHANGED <<dec, sent, noise, room, waiting, requests>>

\* What follows the end of the frame in the chunk is never looked at.
DecodeByte ==
    /\ chunk # <<>>
    /\ LET r == Decode(dec, Head(chunk)) IN
          /\ dec' = r.d
          /\ IF r.ret = "COMPLETE"
             THEN decoded_ret' = "COMPLETE" /\ chunk' = <<>>
             ELSE /\ chunk' = Tail(chunk)
                  /\ decoded_ret' = IF Len(chunk) = 1 THEN "PENDING" ELSE "none"
    /\ UNCHANGED <<wire, sent, noise, room, waiting, requests>>

\* The wait ends with the frame, or times out; readtoEmpty discards the rest.
EndWait ==
    /\ waiting /\ chunk = <<>>
    /\ waiting' = FALSE
    /\ wire' = <<>>
    /\ UNCHANGED <<dec, decoded_ret, chunk, sent, noise, room, requests>>

HdlcInit ==
    /\ dec = [state |-> "NoSync", fcs |-> 0, len |-> 0, pos |-> 0, rem |-> BufLen,
              buf |-> [i \in 1 .. BufLen |-> 0]]
    /\ decoded_ret = "none"
    /\ chunk = <<>> /\ wire = <<>> /\ sent = <<>> /\ noise = <<>>
    /\ room = BufLen
    /\ waiting = FALSE
    /\ requests = 0

HdlcNext == Request \/ TtyRead \/ DecodeByte \/ EndWait

HdlcSpec == HdlcInit /\ [][HdlcNext]_hdlcvars

-----------------------------------------------------------------------------
(* Properties.                                                             *)

(***************************************************************************)
(* However frames, noise and resets follow each other, a byte is only      *)
(* stored inside decodeBuffer, and the frame that getConfigReponseHandle   *)
(* copies from the start of the buffer is the one just decoded             *)
(* (CFUonHDLC.c:228-233, 249-256; RcpConfig.c:103).                        *)
(***************************************************************************)
BufferSafe ==
    /\ dec \in Decoder
    /\ dec.rem >= 1 => dec.pos < BufLen
    /\ dec.pos = dec.len

(***************************************************************************)
(* A completed decode holds the payload that was encoded, byte for byte,   *)
(* however the bytes were cut into chunks and whatever came before.        *)
(***************************************************************************)
DecodedIsSent ==
    decoded_ret = "COMPLETE" => SubSeq(dec.buf, 1, dec.len) = sent

\* Every byte of the answer has been decoded.
Delivered == waiting /\ chunk = <<>> /\ wire = <<>>

(***************************************************************************)
(* If the decoder had room for the noise and the frame when the request    *)
(* was made, the frame is decoded, unless the noise ends in an escape      *)
(* that takes the opening flag.                                            *)
(***************************************************************************)
DecodedIfRoom ==
    /\ Delivered
    /\ room >= Len(noise) + Len(sent) + kFcsSize
    /\ noise # <<>> => Last(noise) # kEscapeSequence
    => decoded_ret = "COMPLETE"

(***************************************************************************)
(* A frame is decoded as it was encoded (CFUonHDLC.c:124-256): what the    *)
(* decoder hands over is what was sent, and it does hand over a frame it   *)
(* had room for.                                                           *)
(***************************************************************************)
Decodes == BufferSafe /\ DecodedIsSent /\ DecodedIfRoom
=============================================================================
