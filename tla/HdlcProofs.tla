----------------------------- MODULE HdlcProofs -----------------------------
(***************************************************************************)
(* Proofs about the HDLC framing: the decoder never stores a byte outside  *)
(* its buffer, for any buffer length, frame check sequence and line.       *)
(***************************************************************************)
EXTENDS HdlcDecoder, TLAPS

(***************************************************************************)
(* The inductive invariant: the bytes stored and the bytes left never add  *)
(* up to more than the buffer.  They add up to less after a reset, which   *)
(* does not give the room back.                                            *)
(***************************************************************************)
DecoderOK(d) ==
    /\ d \in Decoder
    /\ d.pos = d.len
    /\ d.pos + d.rem <= BufLen
    /\ d.state = "NoSync" => d.pos = 0

\* The line carries bytes.
LineOK == chunk \in Seq(Byte) /\ wire \in Seq(Byte)

\* One byte of the frame check sequence keeps it a 16-bit number.
LEMMA FcsType ==
    ASSUME NEW f \in Fcs16, NEW b \in Byte
    PROVE  UpdateFcs(f, b) \in Fcs16
<1>1. f \div 256 \in Byte /\ f % 256 \in Byte
  <2>0. Max16 = 65535
    BY DEF Max16
  <2>a. Max16 \in Nat
    BY <2>0
  <2>1. f \in Nat /\ f <= Max16
    BY <2>a DEF Fcs16
  <2>2. f \div 256 \in Nat /\ f \div 256 <= 255
    BY <2>0, <2>1
  <2>3. f % 256 \in 0 .. 255
    BY <2>1
  <2> QED BY <2>2, <2>3 DEF Byte
<1>2. BitXor(f % 256, b) \in Byte
  BY <1>1, HdlcAssumption
<1> QED BY <1>1, <1>2, HdlcAssumption DEF UpdateFcs

\* The start value of the frame check sequence is a 16-bit number.
LEMMA FcsConstants == 0 \in Fcs16 /\ kInitFcs \in Fcs16
<1>1. Max16 \in Nat
  BY DEF Max16
<1> QED BY <1>1 DEF Fcs16, kInitFcs

\* Undoing an escape yields a byte.
LEMMA FlipType == \A b \in Byte : FlipBit5(b) \in Byte
<1>1. 32 \in Byte
  BY DEF Byte
<1> QED BY <1>1, HdlcAssumption DEF FlipBit5

\* hdlc_decoder_reset() keeps the stored and the free bytes inside the buffer.
LEMMA ResetOK ==
    ASSUME NEW d, DecoderOK(d)
    PROVE  DecoderOK(hdlc_decoder_reset(d))
<1> DEFINE n == hdlc_decoder_reset(d)
<1>1. n \in Decoder
  BY FcsConstants, Zenon DEF DecoderOK, hdlc_decoder_reset, Decoder
<1>2. n.pos = 0 /\ n.len = 0 /\ n.rem = d.rem
  BY DEF DecoderOK, hdlc_decoder_reset, Decoder
<1>3. d.pos \in Nat /\ d.rem \in Nat /\ d.pos + d.rem <= BufLen
  BY DEF DecoderOK, Decoder
<1>4. 0 + d.rem <= BufLen
  BY <1>3, HdlcAssumption
<1> HIDE DEF n
<1> QED BY <1>1, <1>2, <1>4 DEF DecoderOK, n

\* Storing a byte takes it from the room that is left.
LEMMA StoreOK ==
    ASSUME NEW d, NEW b \in Byte, DecoderOK(d)
    PROVE  DecoderOK(Store(d, b))
<1>1. CASE d.rem >= 1
  <2> DEFINE n == [d EXCEPT !.state = "Sync", !.fcs = UpdateFcs(d.fcs, b), !.buf[d.pos + 1] = b,
                   !.pos = d.pos + 1, !.rem = d.rem - 1, !.len = d.len + 1]
  <2>1. d.fcs \in Fcs16 /\ d.rem - 1 \in Nat /\ d.pos + 1 \in Nat /\ d.len + 1 \in Nat
    BY <1>1 DEF DecoderOK, Decoder
  <2>2. UpdateFcs(d.fcs, b) \in Fcs16
    BY <2>1, FcsType
  <2>3. [d.buf EXCEPT ![d.pos + 1] = b] \in [1 .. BufLen -> Byte]
    BY Zenon DEF DecoderOK, Decoder
  <2>4. n \in Decoder
    BY <2>1, <2>2, <2>3, Zenon DEF DecoderOK, Decoder
  <2>5. n.pos = n.len /\ n.pos + n.rem = d.pos + d.rem
    BY <2>1 DEF DecoderOK, Decoder
  <2> QED BY <1>1, <2>4, <2>5 DEF DecoderOK, Store
<1>2. CASE ~(d.rem >= 1)
  BY <1>2, ResetOK DEF Store
<1> QED BY <1>1, <1>2

\* The end of a frame gives back at most the frame check bytes.
LEMMA EndOK ==
    ASSUME NEW d, DecoderOK(d)
    PROVE  DecoderOK(EndOfFrame(d).d)
<1>1. CASE d.len >= kFcsSize /\ d.fcs = kGoodFcs
  <2> DEFINE n == [d EXCEPT !.pos = d.pos - kFcsSize, !.rem = d.rem + kFcsSize,
                            !.len = d.len - kFcsSize]
  <2>1. d.pos - 2 \in Nat /\ d.len - 2 \in Nat /\ d.rem + 2 \in Nat
    BY <1>1 DEF DecoderOK, Decoder, kFcsSize
  <2>2. n \in Decoder
    BY <2>1, Zenon DEF DecoderOK, Decoder, kFcsSize
  <2>3. n.pos = n.len /\ n.pos + n.rem = d.pos + d.rem
    BY <2>1 DEF DecoderOK, Decoder, kFcsSize
  <2>4. EndOfFrame(d).d = n /\ n.state = d.state
    BY <1>1 DEF EndOfFrame, DecoderOK, Decoder
  <2>5. d.state # "NoSync"
    BY <1>1 DEF DecoderOK, kFcsSize
  <2> HIDE DEF n
  <2> QED BY <2>2, <2>3, <2>4, <2>5 DEF DecoderOK
<1>2. CASE ~(d.len >= kFcsSize /\ d.fcs = kGoodFcs)
  <2> DEFINE n == [d EXCEPT !.len = 0, !.pos = 0, !.fcs = kInitFcs]
  <2>1. n \in Decoder
    BY FcsConstants, Zenon DEF DecoderOK, Decoder
  <2>2. n.pos = 0 /\ n.len = 0 /\ n.rem = d.rem
    BY DEF DecoderOK, Decoder
  <2>3. d.pos \in Nat /\ d.rem \in Nat /\ d.pos + d.rem <= BufLen
    BY DEF DecoderOK, Decoder
  <2>4. 0 + d.rem <= BufLen
    BY <2>3, HdlcAssumption
  <2>5. EndOfFrame(d).d = n
    BY <1>2 DEF EndOfFrame
  <2> HIDE DEF n
  <2> QED BY <2>1, <2>2, <2>4, <2>5 DEF DecoderOK
<1> QED BY <1>1, <1>2

\* One byte through hdlc_decode() keeps the decoder inside its buffer.
LEMMA DecodeOK ==
    ASSUME NEW d, NEW b \in Byte, DecoderOK(d)
    PROVE  DecoderOK(Decode(d, b).d)
<1>1. CASE d.state = "NoSync"
  <2> DEFINE n == [d EXCEPT !.state = "Sync", !.len = 0, !.fcs = kInitFcs]
  <2>1. Decode(d, b).d \in {d, n}
    BY <1>1 DEF Decode
  <2>2. d.pos = 0
    BY <1>1 DEF DecoderOK
  <2>3. n \in Decoder
    BY FcsConstants, Zenon DEF DecoderOK, Decoder
  <2>4. n.pos = 0 /\ n.len = 0 /\ n.pos + n.rem = d.pos + d.rem
    BY <2>2 DEF DecoderOK, Decoder
  <2> HIDE DEF n
  <2> QED BY <2>1, <2>3, <2>4 DEF DecoderOK
<1>2. CASE d.state = "Sync" /\ b = kEscapeSequence
  <2>1. Decode(d, b).d = [d EXCEPT !.state = "Escaped"]
    BY <1>2 DEF Decode, kEscapeSequence, kFlagSequence
  <2> QED BY <2>1 DEF DecoderOK, Decoder
<1>3. CASE d.state = "Sync" /\ b = kFlagSequence
  BY <1>3, EndOK DEF Decode, kFlagSequence, kEscapeSequence
<1>4. CASE d.state = "Sync" /\ b \notin {kEscapeSequence, kFlagSequence}
  BY <1>4, StoreOK DEF Decode
<1>5. CASE d.state = "Escaped"
  BY <1>5, StoreOK, FlipType DEF Decode
<1>6. d.state \in {"NoSync", "Sync", "Escaped"}
  BY DEF DecoderOK, Decoder
<1> QED BY <1>1, <1>2, <1>3, <1>4, <1>5, <1>6

(***************************************************************************)
(* The decoder's fields keep their types, a byte is stored only inside     *)
(* decodeBuffer, and a frame starts at its first byte.                     *)
(***************************************************************************)
THEOREM BufferStaysSafe == HdlcSpec => []BufferSafe
<1>1. HdlcInit => DecoderOK(dec) /\ LineOK
  <2> SUFFICES ASSUME HdlcInit PROVE DecoderOK(dec) /\ LineOK
    OBVIOUS
  <2>1. [i \in 1 .. BufLen |-> 0] \in [1 .. BufLen -> Byte]
    BY DEF Byte
  <2>2. dec \in Decoder
    BY <2>1, FcsConstants, HdlcAssumption DEF HdlcInit, Decoder
  <2>3. dec.pos = 0 /\ dec.len = 0 /\ dec.rem = BufLen /\ BufLen \in Nat
    BY HdlcAssumption DEF HdlcInit
  <2> QED BY <2>2, <2>3 DEF DecoderOK, HdlcInit, LineOK
<1>2. DecoderOK(dec) /\ LineOK /\ [HdlcNext]_hdlcvars => DecoderOK(dec)' /\ LineOK'
  <2> SUFFICES ASSUME DecoderOK(dec), LineOK, [HdlcNext]_hdlcvars PROVE DecoderOK(dec') /\ LineOK'
    BY DEF DecoderOK
  <2>1. CASE Request
    BY <2>1, ResetOK DEF Request, LineOK
  <2>2. CASE DecodeByte
    <3>1. Head(chunk) \in Byte /\ Tail(chunk) \in Seq(Byte) /\ <<>> \in Seq(Byte)
      BY <2>2 DEF DecodeByte, LineOK
    <3>2. dec' = Decode(dec, Head(chunk)).d /\ chunk' \in {<<>>, Tail(chunk)} /\ wire' = wire
      BY <2>2 DEF DecodeByte
    <3> QED BY <3>1, <3>2, DecodeOK, Zenon DEF LineOK
  <2>3. CASE TtyRead
    <3>1. PICK n \in 1 .. Len(wire) : /\ chunk' = SubSeq(wire, 1, n)
                                    /\ wire' = SubSeq(wire, n + 1, Len(wire))
      BY <2>3 DEF TtyRead
    <3>2. n \in Nat /\ n <= Len(wire) /\ Len(wire) \in Nat
      BY DEF LineOK
    <3>3. LineOK'
      BY <3>1, <3>2 DEF LineOK
    <3> QED BY <2>3, <3>3 DEF TtyRead
  <2>4. CASE EndWait \/ UNCHANGED hdlcvars
    BY <2>4 DEF EndWait, hdlcvars, LineOK
  <2> QED BY <2>1, <2>2, <2>3, <2>4 DEF HdlcNext
<1>3. DecoderOK(dec) => BufferSafe
  <2> SUFFICES ASSUME DecoderOK(dec) PROVE BufferSafe
    OBVIOUS
  <2>1. dec.pos \in Nat /\ dec.rem \in Nat /\ dec.pos + dec.rem <= BufLen /\ dec.pos = dec.len
    BY DEF DecoderOK, Decoder
  <2>2. BufLen \in Nat
    BY HdlcAssumption
  <2>3. dec \in Decoder
    BY DEF DecoderOK
  <2> QED BY <2>1, <2>2, <2>3 DEF BufferSafe
<1> QED BY <1>1, <1>2, <1>3, PTL DEF HdlcSpec

=============================================================================
