--------------------------- MODULE RcpToolProofs ---------------------------
(***************************************************************************)
(* Proofs about the tool for the radio co-processor.  An update that       *)
(* reports success is complete, for any images and any number of faults.   *)
(* A configuration that reports success is in force, whatever was lost,    *)
(* refused or answered late, and no other than a loaded one is written.    *)
(***************************************************************************)
EXTENDS RcpTool, SequenceTheorems, Functions, TLAPS

-----------------------------------------------------------------------------
(* The firmware update.                                                    *)

RcpRecord == [mode : {"normal", "cfu", "complete", "off"}, need : SUBSET Cfu!Bins,
              offered : SUBSET Cfu!Bins, open : Cfu!Bins \cup {0}, got : [Cfu!Bins -> Nat]]

UpdateType ==
    /\ job \in Jobs /\ Len(files) \in Nat
    /\ index \in 1 .. Len(files) + 1 /\ count \in Nat /\ round \in Nat
    /\ contentPacketsSent \in Nat
    /\ is_download \subseteq Cfu!Bins
    /\ fw \in RcpRecord

\* The RCP does not want the image, or it was sent.
Settled(b) == b \in fw.need => b \in is_download

\* An image marked as sent was received whole; if the RCP still wants it, though
\* nothing is forced, there was nothing to send.
Received ==
    /\ \A b \in fw.need : files[b].src
    /\ \A b \in is_download : fw.got[b] = files[b].blocks
    /\ ~job.force => \A b \in is_download \cap fw.need : files[b].blocks = 0

\* The image being sent.
Sending ==
    upc = "content" =>
       /\ index \in Cfu!Bins /\ fw.got[index] = contentPacketsSent
       /\ index \in is_download => files[index].blocks = 0
       /\ ~job.force /\ index \in fw.need /\ contentPacketsSent = files[index].blocks =>
             files[index].blocks = 0

\* What an even round passed is settled, but for what an RCP with one bank left
\* for the next pair of rounds.
Passed ==
    /\ upc \in {"offer", "content"} /\ round % 2 = 0 =>
          \A b \in Cfu!Bins : b < index =>
             Settled(b) \/ (~job.dual /\ count > 0 /\ files[b].image = "other")
    /\ upc \in {"attach", "reattach", "poll"} \/ round > 2 =>
          \A b \in Cfu!Bins : Settled(b) \/ files[b].image = "other"

Outcomes ==
    /\ upc = "scan" => files = <<>> /\ round = 1 /\ index = 1 /\ is_download = {} /\ fw.need = {}
    /\ job.cmd = "version" => /\ upc \in {"scan", "enter", "version", "leave", "done", "exited"}
                              /\ fw.need = {} /\ is_download = {}
    /\ upc \in {"leave", "done"} /\ uret = "ok" => \A b \in Cfu!Bins : Settled(b)

UpdateInv == UpdateType /\ Received /\ Sending /\ Passed /\ Outcomes

\* The RCP changes its mode only.
LEMMA ModeFields ==
    ASSUME fw \in RcpRecord, files' = files, NEW m \in {"normal", "cfu", "complete", "off"},
           fw' = [fw EXCEPT !.mode = m]
    PROVE  fw' \in RcpRecord' /\ fw'.need = fw.need /\ fw'.got = fw.got
BY Zenon DEF RcpRecord, Cfu!Bins

\* A step that changes no image, mark or block keeps what was received.
LEMMA QuietStep ==
    ASSUME UpdateInv, UNCHANGED <<job, files, is_download>>,
           fw' \in RcpRecord', fw'.need = fw.need, fw'.got = fw.got,
           index' \in 1 .. Len(files) + 1, count' \in Nat, round' \in Nat,
           contentPacketsSent' \in Nat, Sending', Passed', Outcomes'
    PROVE  UpdateInv'
<1>1. UpdateType'
  BY DEF UpdateInv, UpdateType, Cfu!Bins
<1>2. Received'
  BY DEF UpdateInv, Received
<1> QED
  BY <1>1, <1>2 DEF UpdateInv

LEMMA UpdateStarts == Cfu!Init => UpdateInv
<1> SUFFICES ASSUME Cfu!Init PROVE UpdateInv
  OBVIOUS
<1>1. /\ job \in Jobs /\ upc = "scan" /\ files = <<>> /\ round = 1 /\ index = 1 /\ count = 0
      /\ is_download = {} /\ contentPacketsSent = 0 /\ uret = "ok" /\ fw = Cfu!Idle
  BY DEF Cfu!Init
<1>2. Len(files) = 0 /\ Cfu!Bins = {}
  BY <1>1 DEF Cfu!Bins
<1>3. fw \in RcpRecord /\ fw.need = {}
  <2>1. <<>> \in [{} -> Nat]
    OBVIOUS
  <2> QED
    BY <1>1, <1>2, <2>1 DEF RcpRecord, Cfu!Idle, Cfu!NoBin
<1>4. UpdateType
  BY <1>1, <1>2, <1>3 DEF UpdateType
<1> QED
  BY <1>1, <1>2, <1>3, <1>4 DEF UpdateInv, Received, Sending, Passed, Outcomes, Settled

LEMMA ScanStep == ASSUME UpdateInv, Cfu!Scan PROVE UpdateInv'
<1> DEFINE got == [b \in 1 .. Len(files') |-> 0]
<1>1. /\ upc = "scan" /\ files' = Cfu!LoadedOffers(job.bins) /\ upc' = "enter" /\ job.cmd = "update"
      /\ UNCHANGED <<job, round, index, count, is_download, contentPacketsSent, uret>>
  BY Zenon DEF Cfu!Scan
<1>2. PICK w \in SUBSET (1 .. Len(files')) :
         fw' = [fw EXCEPT !.need = {b \in w : files'[b].src}, !.got = got]
  BY Zenon DEF Cfu!Scan
<1> DEFINE need == {b \in w : files'[b].src}
<1>3. /\ UpdateType /\ files = <<>> /\ round = 1 /\ index = 1 /\ is_download = {}
  BY <1>1 DEF UpdateInv, Outcomes
<1>4. Len(files') \in Nat /\ Cfu!Bins' = 1 .. Len(files') /\ Cfu!Bins = {}
  BY <1>1, <1>3, ToolAssumption DEF UpdateType, Cfu!Bins
<1>5. need \in SUBSET Cfu!Bins' /\ got \in [Cfu!Bins' -> Nat] /\ \A b \in need : files'[b].src
  BY Zenon, <1>4
<1> HIDE DEF need, got
<1>6. fw' \in RcpRecord' /\ fw'.need = need
  <2>1. fw \in RcpRecord /\ fw' = [fw EXCEPT !.need = need, !.got = got]
    BY <1>2, <1>3 DEF UpdateType, need
  <2>2. fw.offered \in SUBSET Cfu!Bins' /\ fw.open \in Cfu!Bins' \cup {0}
    BY <1>4, <2>1 DEF RcpRecord
  <2> QED
    BY Zenon, <1>5, <2>1, <2>2 DEF RcpRecord
<1>7. UpdateType'
  BY <1>1, <1>3, <1>4, <1>6 DEF UpdateType
<1>8. Received'
  BY <1>1, <1>3, <1>5, <1>6 DEF Received
<1> QED
  BY <1>1, <1>3, <1>7, <1>8 DEF UpdateInv, Sending, Passed, Outcomes

\* Loading that fails, and the answers to the first requests.
LEMMA StartSteps ==
    ASSUME UpdateInv, Cfu!ScanFails \/ Cfu!NoScan \/ Cfu!Enter \/ Cfu!Version \/ Cfu!PrintVersion
    PROVE  UpdateInv'
<1>0. UpdateType /\ Passed /\ Outcomes /\ fw \in RcpRecord
  BY DEF UpdateInv, UpdateType
<1>1. CASE Cfu!ScanFails
  <2>1. /\ upc' = "done" /\ uret' = "scan" /\ upc = "scan"
        /\ UNCHANGED <<job, files, round, index, count, is_download, contentPacketsSent, fw>>
    BY <1>1 DEF Cfu!ScanFails
  <2>2. Sending' /\ Passed' /\ Outcomes'
    BY <1>0, <2>1 DEF Sending, Passed, Outcomes, Settled, Cfu!Bins
  <2> QED
    BY <1>0, <2>1, <2>2, QuietStep DEF UpdateType, RcpRecord, Cfu!Bins
<1>2. CASE Cfu!NoScan
  <2>1. /\ upc' = "enter" /\ upc = "scan"
        /\ UNCHANGED <<job, files, round, index, count, is_download, contentPacketsSent, fw>>
    BY <1>2 DEF Cfu!NoScan, Cfu!tool
  <2>2. Sending' /\ Passed' /\ Outcomes'
    BY <1>0, <2>1 DEF Sending, Passed, Outcomes, Settled, Cfu!Bins
  <2> QED
    BY <1>0, <2>1, <2>2, QuietStep DEF UpdateType, RcpRecord, Cfu!Bins
<1>3. CASE Cfu!Enter
  <2>1. /\ upc' = "version" /\ upc = "enter"
        /\ fw' = fw \/ fw' = [fw EXCEPT !.mode = "cfu"]
        /\ UNCHANGED <<job, files, round, index, count, is_download, contentPacketsSent>>
    BY <1>3 DEF Cfu!Enter, Cfu!tool
  <2>2. fw' \in RcpRecord' /\ fw'.need = fw.need /\ fw'.got = fw.got
    BY <1>0, <2>1, ModeFields DEF RcpRecord, Cfu!Bins
  <2>3. Sending' /\ Passed' /\ Outcomes'
    BY <1>0, <2>1, <2>2 DEF Sending, Passed, Outcomes, Settled, Cfu!Bins
  <2> QED
    BY <1>0, <2>1, <2>2, <2>3, QuietStep DEF UpdateType
<1>4. CASE Cfu!Version
  <2>1. /\ upc = "version" /\ job.cmd = "update" /\ index' = 1 /\ count' = 0
        /\ upc' \in {"offer", "leave", "exited"} /\ (upc' = "leave" => uret' # "ok")
        /\ UNCHANGED <<job, files, round, is_download, contentPacketsSent, fw>>
    BY <1>4 DEF Cfu!Version, Cfu!VersionAnswer, Cfu!Fail
  <2>2. Sending' /\ Passed' /\ Outcomes'
    BY <1>0, <2>1 DEF UpdateType, Sending, Passed, Outcomes, Settled, Cfu!Bins
  <2> QED
    BY <1>0, <2>1, <2>2, QuietStep DEF UpdateType, RcpRecord, Cfu!Bins
<1>5. CASE Cfu!PrintVersion
  <2>1. /\ upc = "version" /\ job.cmd = "version" /\ upc' \in {"leave", "exited"}
        /\ UNCHANGED <<job, files, round, index, count, is_download, contentPacketsSent, fw>>
    BY <1>5 DEF Cfu!PrintVersion, Cfu!VersionAnswer
  <2>2. Sending' /\ Passed' /\ Outcomes'
    BY <1>0, <2>1 DEF Sending, Passed, Outcomes, Settled, Cfu!Bins
  <2> QED
    BY <1>0, <2>1, <2>2, QuietStep DEF UpdateType, RcpRecord, Cfu!Bins
<1> QED
  BY <1>1, <1>2, <1>3, <1>4, <1>5

\* Offers of a round: an image is passed over, offered or rejected, the round of
\* offers ends, or an offer is lost.
LEMMA OfferSteps ==
    ASSUME UpdateInv, \/ Cfu!OffersMade \/ Cfu!PassOver \/ Cfu!OfferLost \/ Cfu!Offer
                      \/ Cfu!OfferRejected
    PROVE  UpdateInv'
<1>0. UpdateType /\ Received /\ Passed /\ Outcomes /\ fw \in RcpRecord
  BY DEF UpdateInv, UpdateType
<1>a. /\ Len(files) \in Nat /\ index \in 1 .. Len(files) + 1 /\ count \in Nat /\ round \in Nat
      /\ contentPacketsSent \in Nat /\ Cfu!Bins = 1 .. Len(files) /\ fw.need \subseteq Cfu!Bins
  BY <1>0 DEF UpdateType, RcpRecord, Cfu!Bins
<1>1. CASE Cfu!OffersMade
  <2>1. /\ upc = "offer" /\ upc' = "offer" /\ round % 2 = 1 /\ round' = round + 1
        /\ index' = 1 /\ count' = 0
        /\ UNCHANGED <<job, files, is_download, contentPacketsSent, fw>>
    BY <1>1 DEF Cfu!OffersMade
  <2>2. round # 2
    BY <2>1
  <2>3. Sending' /\ Passed' /\ Outcomes'
    BY <1>0, <1>a, <2>1, <2>2 DEF Sending, Passed, Outcomes, Settled, Cfu!Bins
  <2> QED
    BY <1>0, <1>a, <2>1, <2>3, QuietStep DEF RcpRecord, Cfu!Bins
<1>2. CASE Cfu!PassOver \/ Cfu!OfferRejected
  <2>1. /\ upc = "offer" /\ upc' = "offer" /\ index <= Len(files) /\ index' = index + 1
        /\ UNCHANGED <<job, files, round, count, is_download, contentPacketsSent, fw>>
    BY <1>2 DEF Cfu!PassOver, Cfu!OfferRejected
  <2>2. Settled(index) \/ (~job.dual /\ count > 0 /\ files[index].image = "other")
    <3>1. CASE Cfu!PassOver
      <4> SUFFICES ASSUME index \in fw.need PROVE index \in is_download
        BY DEF Settled
      <4>1. ~Cfu!Sendable(index) /\ files[index].src
        BY <1>0, <3>1 DEF Cfu!PassOver, Received
      <4>2. index \in is_download \/ (round > 2 /\ files[index].image \in {"boot", "data1"})
        BY <1>a, <4>1 DEF Cfu!Sendable
      <4> QED
        BY <1>0, <1>a, <2>1, <4>2 DEF Passed, Settled
    <3>2. CASE Cfu!OfferRejected
      BY <1>a, <3>2 DEF Cfu!OfferRejected, Cfu!Rejects, Cfu!Accepts, Settled
    <3> QED
      BY <1>2, <3>1, <3>2
  <2>3. Passed'
    <3>1. \A b \in Cfu!Bins : b < index + 1 => b < index \/ b = index
      BY <1>a
    <3> QED
      BY <1>0, <1>a, <2>1, <2>2, <3>1 DEF Passed, Settled, Cfu!Bins
  <2>4. Sending' /\ Outcomes' /\ index' \in 1 .. Len(files) + 1
    BY <1>0, <1>a, <2>1 DEF Sending, Outcomes
  <2> QED
    BY <1>0, <1>a, <2>1, <2>3, <2>4, QuietStep DEF RcpRecord, Cfu!Bins
<1>3. CASE Cfu!OfferLost
  <2>1. /\ upc = "offer" /\ upc' = "leave" /\ uret' # "ok"
        /\ UNCHANGED <<job, files, index, round, count, is_download, contentPacketsSent, fw>>
    BY <1>3 DEF Cfu!OfferLost, Cfu!Fail
  <2>2. Sending' /\ Passed' /\ Outcomes'
    BY <1>0, <2>1 DEF Sending, Passed, Outcomes, Settled, Cfu!Bins
  <2> QED
    BY <1>0, <1>a, <2>1, <2>2, QuietStep DEF RcpRecord, Cfu!Bins
<1>4. CASE Cfu!Offer
  <2>1. /\ upc = "offer" /\ upc' = "offer" /\ index <= Len(files) /\ index' = index + 1
        /\ round % 2 = 1 /\ fw' = [fw EXCEPT !.offered = fw.offered \cup {index}]
        /\ UNCHANGED <<job, files, round, count, is_download, contentPacketsSent>>
    BY <1>4 DEF Cfu!Offer
  <2>2. fw' \in RcpRecord' /\ fw'.need = fw.need /\ fw'.got = fw.got
    <3>1. fw.offered \cup {index} \in SUBSET Cfu!Bins
      BY <1>0, <1>a, <2>1 DEF RcpRecord
    <3>2. Cfu!Bins' = Cfu!Bins
      BY <2>1 DEF Cfu!Bins
    <3> QED
      BY <1>0, <2>1, <3>1, <3>2, Zenon DEF RcpRecord
  <2>3. Sending' /\ Passed' /\ Outcomes' /\ index' \in 1 .. Len(files) + 1
    BY <1>0, <1>a, <2>1, <2>2 DEF Sending, Passed, Outcomes, Settled, Cfu!Bins
  <2> QED
    BY <1>a, <2>1, <2>2, <2>3, QuietStep
<1> QED
  BY <1>1, <1>2, <1>3, <1>4

\* An image is accepted, sent block by block, and marked.
LEMMA ContentSteps ==
    ASSUME UpdateInv, \/ Cfu!OfferAccepted \/ Cfu!SendBlock \/ Cfu!BlockFails \/ Cfu!PayloadSent
    PROVE  UpdateInv'
<1>0. UpdateType /\ Received /\ Sending /\ Passed /\ Outcomes /\ fw \in RcpRecord
  BY DEF UpdateInv, UpdateType
<1>a. /\ Len(files) \in Nat /\ index \in 1 .. Len(files) + 1 /\ count \in Nat /\ round \in Nat
      /\ contentPacketsSent \in Nat /\ Cfu!Bins = 1 .. Len(files) /\ fw.need \subseteq Cfu!Bins
      /\ is_download \subseteq Cfu!Bins /\ fw.got \in [Cfu!Bins -> Nat]
  BY <1>0 DEF UpdateType, RcpRecord, Cfu!Bins
<1>1. CASE Cfu!OfferAccepted
  <2> DEFINE got == [fw.got EXCEPT ![index] = 0]
  <2>1. /\ upc = "offer" /\ upc' = "content" /\ index <= Len(files) /\ round % 2 = 0
        /\ Cfu!Sendable(index) /\ index \in fw.need
        /\ fw' = [fw EXCEPT !.open = index, !.got = got]
        /\ count' = count + 1 /\ contentPacketsSent' = 0
        /\ UNCHANGED <<job, files, round, index, is_download, uret>>
    BY <1>1 DEF Cfu!OfferAccepted, Cfu!Accepts
  <2>2. /\ index \in Cfu!Bins /\ Cfu!Bins' = Cfu!Bins /\ got \in [Cfu!Bins -> Nat] /\ got[index] = 0
        /\ \A b \in Cfu!Bins : b # index => got[b] = fw.got[b]
    BY <1>a, <2>1 DEF Cfu!Bins
  <2> HIDE DEF got
  <2>3. fw' \in RcpRecord' /\ fw'.need = fw.need /\ fw'.got = got
    BY Zenon, <1>0, <2>1, <2>2 DEF RcpRecord
  <2>4. index \in is_download => files[index].blocks = 0
    BY <1>0, <2>1 DEF Received, Cfu!Sendable
  <2>5. UpdateType'
    BY <1>0, <1>a, <2>1, <2>2, <2>3 DEF UpdateType
  <2>6. Received'
    BY <1>0, <1>a, <2>1, <2>2, <2>3, <2>4 DEF Received
  <2>7. Sending' /\ Outcomes'
    BY <1>0, <2>1, <2>2, <2>3, <2>4 DEF Sending, Outcomes
  <2>8. Passed'
    BY <1>0, <1>a, <2>1, <2>2, <2>3 DEF Passed, Settled
  <2> QED
    BY <2>5, <2>6, <2>7, <2>8 DEF UpdateInv
<1>2. CASE Cfu!SendBlock
  <2> DEFINE last == contentPacketsSent + 1 = files[index].blocks
             got == [fw.got EXCEPT ![index] = fw.got[index] + 1]
             need == IF last /\ ~job.force THEN fw.need \ {index} ELSE fw.need
             open == IF last THEN 0 ELSE fw.open
  <2>1. /\ upc = "content" /\ upc' = "content" /\ contentPacketsSent < files[index].blocks
        /\ fw' = [fw EXCEPT !.got = got, !.open = open, !.need = need]
        /\ contentPacketsSent' = contentPacketsSent + 1
        /\ UNCHANGED <<job, files, round, index, count, is_download, uret>>
    BY <1>2 DEF Cfu!SendBlock, Cfu!NoBin
  <2>2. /\ index \in Cfu!Bins /\ Cfu!Bins' = Cfu!Bins /\ got \in [Cfu!Bins -> Nat]
        /\ got[index] = contentPacketsSent + 1
        /\ \A b \in Cfu!Bins : b # index => got[b] = fw.got[b]
    BY <1>0, <1>a, <2>1 DEF Cfu!Bins, Sending
  <2>3. /\ need \subseteq fw.need /\ open \in Cfu!Bins \cup {0}
        /\ contentPacketsSent + 1 = files[index].blocks /\ ~job.force => index \notin need
    BY <1>0 DEF RcpRecord
  <2> HIDE DEF got, need, open
  <2>4. fw' \in RcpRecord' /\ fw'.need = need /\ fw'.got = got
    <3>1. need \in SUBSET Cfu!Bins
      BY <1>a, <2>3
    <3> QED
      BY <1>0, <2>1, <2>2, <2>3, <3>1, Zenon DEF RcpRecord
  <2>5. index \notin is_download
    BY <1>0, <1>a, <2>1 DEF Sending
  <2>6. UpdateType'
    BY <1>0, <1>a, <2>1, <2>2, <2>4 DEF UpdateType
  <2>7. Received'
    BY <1>0, <1>a, <2>1, <2>2, <2>3, <2>4, <2>5 DEF Received
  <2>8. Sending' /\ Outcomes'
    BY <1>0, <2>1, <2>2, <2>3, <2>4, <2>5 DEF Sending, Outcomes
  <2>9. Passed'
    BY Zenon, <1>0, <1>a, <2>1, <2>2, <2>3, <2>4 DEF Passed, Settled
  <2> QED
    BY <2>6, <2>7, <2>8, <2>9 DEF UpdateInv
<1>3. CASE Cfu!BlockFails
  <2>1. /\ upc = "content" /\ upc' = "leave" /\ uret' # "ok"
        /\ UNCHANGED <<job, files, index, round, count, is_download, contentPacketsSent, fw>>
    BY <1>3 DEF Cfu!BlockFails, Cfu!Fail
  <2>2. Sending' /\ Passed' /\ Outcomes'
    BY <1>0, <2>1 DEF Sending, Passed, Outcomes, Settled, Cfu!Bins
  <2> QED
    BY <1>0, <1>a, <2>1, <2>2, QuietStep DEF RcpRecord, Cfu!Bins
<1>4. CASE Cfu!PayloadSent
  <2>1. /\ upc = "content" /\ upc' = "offer" /\ contentPacketsSent = files[index].blocks
        /\ is_download' = is_download \cup {index} /\ index' = index + 1
        /\ UNCHANGED <<job, files, round, count, contentPacketsSent, uret, fw>>
    BY <1>4 DEF Cfu!PayloadSent
  <2>2. index \in Cfu!Bins /\ Cfu!Bins' = Cfu!Bins /\ fw.got[index] = files[index].blocks
    BY <1>0, <2>1 DEF Sending, Cfu!Bins
  <2>3. UpdateType'
    BY <1>0, <1>a, <2>1, <2>2 DEF UpdateType, RcpRecord
  <2>4. Received'
    BY <1>0, <1>a, <2>1, <2>2 DEF Received, Sending
  <2>5. Sending' /\ Outcomes'
    BY <1>0, <2>1 DEF Sending, Outcomes
  <2>6. Passed'
    <3>1. \A b \in Cfu!Bins : b < index + 1 => b < index \/ b = index
      BY <1>a
    <3> QED
      BY <1>0, <1>a, <2>1, <2>2, <3>1 DEF Passed, Settled
  <2> QED
    BY <2>3, <2>4, <2>5, <2>6 DEF UpdateInv
<1> QED
  BY <1>1, <1>2, <1>3, <1>4

\* The end of an even round, the reboots of the RCP, and the end of the update.
LEMMA RoundSteps ==
    ASSUME UpdateInv, Cfu!PayloadsSent \/ Cfu!Attach \/ Cfu!Reattach \/ Cfu!Poll \/ Cfu!Leave
    PROVE  UpdateInv'
<1>0. UpdateType /\ Passed /\ Outcomes /\ fw \in RcpRecord
  BY DEF UpdateInv, UpdateType
<1>a. /\ Len(files) \in Nat /\ index \in 1 .. Len(files) + 1 /\ count \in Nat /\ round \in Nat
      /\ contentPacketsSent \in Nat /\ Cfu!Bins = 1 .. Len(files)
  BY <1>0 DEF UpdateType, Cfu!Bins
<1>1. CASE Cfu!PayloadsSent
  <2>1. /\ upc = "offer" /\ round % 2 = 0 /\ index > Len(files)
        /\ UNCHANGED <<job, files, index, count, is_download, contentPacketsSent, uret>>
    BY <1>1 DEF Cfu!PayloadsSent
  <2>2. \A b \in Cfu!Bins : Settled(b) \/ (~job.dual /\ count > 0 /\ files[b].image = "other")
    BY <1>0, <1>a, <2>1 DEF Passed
  <2>3. CASE job.dual \/ count = 0
    <3>1. upc' = "leave" /\ round' = round + 1 /\ fw' = fw
      BY <1>1, <2>3 DEF Cfu!PayloadsSent
    <3>2. \A b \in Cfu!Bins : Settled(b)
      BY <2>2, <2>3
    <3>3. Sending' /\ Passed' /\ Outcomes'
      BY <1>0, <2>1, <3>1, <3>2 DEF Sending, Passed, Outcomes, Settled, Cfu!Bins
    <3> QED
      BY <1>0, <1>a, <2>1, <3>1, <3>3, QuietStep DEF RcpRecord, Cfu!Bins
  <2>4. CASE ~(job.dual \/ count = 0)
    <3>1. /\ upc' \in {"attach", "poll"} /\ round' = round
          /\ fw' = [fw EXCEPT !.mode = "complete"]
      BY <1>1, <2>4 DEF Cfu!PayloadsSent
    <3>2. fw' \in RcpRecord' /\ fw'.need = fw.need /\ fw'.got = fw.got
      BY <1>0, <2>1, <3>1, ModeFields
    <3>3. Sending' /\ Passed' /\ Outcomes'
      BY <1>0, <2>1, <2>2, <3>1, <3>2 DEF Sending, Passed, Outcomes, Settled, Cfu!Bins
    <3> QED
      BY <1>a, <2>1, <3>1, <3>2, <3>3, QuietStep
  <2> QED
    BY <2>3, <2>4
<1>2. CASE Cfu!Attach
  <2>1. /\ upc = "attach" /\ upc' = "reattach"
        /\ UNCHANGED <<job, files, index, round, count, is_download, contentPacketsSent, fw>>
    BY <1>2 DEF Cfu!Attach, Cfu!tool
  <2>2. Sending' /\ Passed' /\ Outcomes'
    BY <1>0, <2>1 DEF Sending, Passed, Outcomes, Settled, Cfu!Bins
  <2> QED
    BY <1>0, <1>a, <2>1, <2>2, QuietStep DEF RcpRecord, Cfu!Bins
<1>3. CASE Cfu!Reattach
  <2>1. /\ upc = "reattach"
        /\ \/ upc' = "version" /\ round' = round + 1 /\ uret' = uret
           \/ upc' = "leave" /\ round' = round /\ uret' # "ok"
        /\ UNCHANGED <<job, files, index, count, is_download, contentPacketsSent, fw>>
    BY <1>3 DEF Cfu!Reattach, Cfu!Fail
  <2>2. Sending' /\ Passed' /\ Outcomes'
    <3>1. job.cmd = "version" => fw.need = {} /\ is_download = {}
      BY <1>0, <2>1 DEF Outcomes
    <3> QED
      BY <1>0, <1>a, <2>1, <3>1 DEF Sending, Passed, Outcomes, Settled, Cfu!Bins
  <2> QED
    BY <1>0, <1>a, <2>1, <2>2, QuietStep DEF RcpRecord, Cfu!Bins
<1>4. CASE Cfu!Poll
  <2>1. /\ upc = "poll"
        /\ \/ upc' = "version" /\ round' = round + 1 /\ uret' = uret
           \/ upc' = "leave" /\ round' = round /\ uret' # "ok"
           \/ upc' \in {"poll", "exited"} /\ round' = round /\ uret' = uret
        /\ UNCHANGED <<job, files, index, count, is_download, contentPacketsSent, fw>>
    BY <1>4 DEF Cfu!Poll, Cfu!VersionAnswer, Cfu!Fail
  <2>2. Sending' /\ Passed' /\ Outcomes'
    <3>1. job.cmd = "version" => fw.need = {} /\ is_download = {}
      BY <1>0, <2>1 DEF Outcomes
    <3> QED
      BY <1>0, <1>a, <2>1, <3>1 DEF Sending, Passed, Outcomes, Settled, Cfu!Bins
  <2> QED
    BY <1>0, <1>a, <2>1, <2>2, QuietStep DEF RcpRecord, Cfu!Bins
<1>5. CASE Cfu!Leave
  <2>1. /\ upc = "leave" /\ upc' = "done" /\ fw' = [fw EXCEPT !.mode = "normal"]
        /\ UNCHANGED <<job, files, index, round, count, is_download, contentPacketsSent, uret>>
    BY <1>5 DEF Cfu!Leave, Cfu!tool
  <2>2. fw' \in RcpRecord' /\ fw'.need = fw.need /\ fw'.got = fw.got
    BY <1>0, <2>1, ModeFields
  <2>3. Sending' /\ Passed' /\ Outcomes'
    BY <1>0, <2>1, <2>2 DEF Sending, Passed, Outcomes, Settled, Cfu!Bins
  <2> QED
    BY <1>a, <2>1, <2>2, <2>3, QuietStep
<1> QED
  BY <1>1, <1>2, <1>3, <1>4, <1>5

\* The RCP reboots, and the update returns to main.
LEMMA RcpSteps ==
    ASSUME UpdateInv, Cfu!RcpDown \/ Cfu!RcpUp \/ Cfu!Return
    PROVE  UpdateInv'
<1>0. UpdateType /\ Passed /\ Outcomes /\ Sending /\ fw \in RcpRecord
  BY DEF UpdateInv, UpdateType
<1>1. CASE Cfu!RcpDown \/ Cfu!RcpUp
  <2>1. /\ \/ fw' = [fw EXCEPT !.mode = "off", !.offered = {}, !.open = 0]
           \/ fw' = [fw EXCEPT !.mode = "cfu"]
        /\ UNCHANGED <<job, files, upc, index, round, count, is_download, contentPacketsSent, uret>>
    BY <1>1 DEF Cfu!RcpDown, Cfu!RcpUp, Cfu!tool, Cfu!NoBin
  <2>2. fw' \in RcpRecord' /\ fw'.need = fw.need /\ fw'.got = fw.got
    BY Zenon, <1>0, <2>1 DEF RcpRecord, Cfu!Bins
  <2>3. Sending' /\ Passed' /\ Outcomes'
    BY <1>0, <2>1, <2>2 DEF Sending, Passed, Outcomes, Settled, Cfu!Bins
  <2> QED
    BY <1>0, <2>1, <2>2, <2>3, QuietStep DEF UpdateType
<1>2. CASE Cfu!Return
  <2>1. /\ upc' = "scan" /\ files' = <<>> /\ round' = 1 /\ index' = 1 /\ count' = 0 /\ job' = job
        /\ is_download' = {} /\ contentPacketsSent' = 0 /\ uret' = "ok" /\ fw' = Cfu!Idle
    BY <1>2 DEF Cfu!Return
  <2>2. Len(files') = 0 /\ Cfu!Bins' = {}
    BY <2>1 DEF Cfu!Bins
  <2>3. fw' \in RcpRecord' /\ fw'.need = {}
    <3>1. <<>> \in [{} -> Nat]
      OBVIOUS
    <3> QED
      BY <2>1, <2>2, <3>1 DEF RcpRecord, Cfu!Idle, Cfu!NoBin
  <2>4. UpdateType'
    BY <1>0, <2>1, <2>2, <2>3 DEF UpdateType
  <2> QED
    BY <2>1, <2>2, <2>3, <2>4 DEF UpdateInv, Received, Sending, Passed, Outcomes, Settled
<1> QED
  BY <1>1, <1>2

LEMMA UpdateSteps == UpdateInv /\ [Next]_toolVars => UpdateInv'
<1> SUFFICES ASSUME UpdateInv, [Next]_toolVars PROVE UpdateInv'
  OBVIOUS
<1>1. CASE UNCHANGED <<job, updateVars>>
  BY <1>1 DEF updateVars, UpdateInv, UpdateType, RcpRecord, Received, Sending, Passed, Outcomes,
              Settled, Cfu!Bins
<1>2. CASE Cfu!Tool
  BY <1>2, ScanStep, StartSteps, OfferSteps, ContentSteps, RoundSteps, Zenon DEF Cfu!Tool
<1>3. CASE Cfu!RcpDown \/ Cfu!RcpUp \/ Cfu!Return
  BY <1>3, RcpSteps
<1> QED
  BY <1>1, <1>2, <1>3, Zenon DEF Next, ToolStep, Configure, LateResponse, UpdateStep, RcpReboots,
                                 UpdateDone, UpdateExits, Finished, toolVars

\* An update that reports success leaves the RCP wanting no image that was not
\* sent, and every image marked in is_download was received to its last block,
\* whatever images there are, however many are rejected for later rounds and
\* whatever is lost (FwUpdateMainProcess).
THEOREM UpdateIsComplete == Spec => []SuccessIsComplete
<1>1. ToolInit => UpdateInv
  BY UpdateStarts DEF ToolInit
<1>2. UpdateInv => SuccessIsComplete
  BY DEF UpdateInv, UpdateType, RcpRecord, Received, Outcomes, Settled, SuccessIsComplete,
         Cfu!SuccessIsComplete
<1> QED
  BY <1>1, <1>2, UpdateSteps, PTL DEF Spec

-----------------------------------------------------------------------------
(* The configuration.                                                      *)

Cfg == [ic : Nat, flow : BOOLEAN, baud : Nat, rest : Nat]
Reply == [kind : {"config"}, cfg : Cfg] \cup [kind : {"status"}, ok : BOOLEAN]
Late == [resp : Reply, baud : Nat]

\* Responses that can be read, and those that may still come.
Inbox == Range(inbox)
Flight == Range(flight)
Pending == Inbox \cup {f.resp : f \in Flight}
IsConfig(r) == r.kind = "config"

ConfigType ==
    /\ pc \in Places /\ tries \in Nat /\ parse_file_ok \in BOOLEAN
    /\ ret \in BOOLEAN /\ fret \in BOOLEAN
    /\ flowctl_enable \in BOOLEAN /\ is_config_same \in BOOLEAN
    /\ param \in Cfg /\ orig \in Cfg
    /\ rcp \in [cfg : Cfg, baud : Nat, flow : BOOLEAN]
    /\ inbox \in Seq(Reply) /\ flight \in Seq(Late)

\* The RCP runs at the rate it stores, and answers at that rate: a response the
\* tool reads came at the rate of the configuration in it.
Reading == {"file_read", "probe_read", "file_check", "probe_check", "verify"}
RateInv ==
    /\ rcp.baud = rcp.cfg.baud /\ rcp.cfg.baud # NoBaud
    /\ \A f \in Flight : IsConfig(f.resp) => f.baud = f.resp.cfg.baud
    /\ \A r \in Pending : IsConfig(r) => r.cfg.baud # NoBaud
    /\ pc \in Reading => \A r \in Inbox : IsConfig(r) => r.cfg.baud = tty.baud

\* With a ConfigBin, the host's configuration is that one up to flow control.
FileInv ==
    parse_file_ok =>
       /\ NoFlow(orig) = NoFlow(param) /\ (param.flow => orig.flow)
       /\ pc \notin {"config", "file_open", "exit"} => param.baud # NoBaud

\* Without, all there is, the RCP's, the host's and what is under way, agrees up
\* to flow control.  Nothing is written before something was loaded.
Unloaded == {"config", "probe_open", "probe_read", "probe_check", "returned", "update", "updating",
             "flowctl", "flowctl_returned", "test", "done", "exit"}
ReadInv ==
    ~parse_file_ok =>
       /\ \A r \in Pending : IsConfig(r) => NoFlow(r.cfg) = NoFlow(rcp.cfg)
       /\ orig = ZeroConfig => /\ param = ZeroConfig /\ pc \in Unloaded /\ ~ret /\ ~flowctl_enable
                               /\ \A r \in Pending : IsConfig(r) /\ r.cfg = rcp.cfg
       /\ orig # ZeroConfig => /\ NoFlow(param) = NoFlow(rcp.cfg) /\ NoFlow(orig) = NoFlow(rcp.cfg)
                               /\ (param.flow => orig.flow) /\ (rcp.cfg.flow => orig.flow)
                               /\ \A r \in Pending : IsConfig(r) /\ r.cfg.flow => orig.flow

\* Flow control is turned on where the loaded configuration has it, and written
\* off before.
FlowInv ==
    /\ flowctl_enable => orig # ZeroConfig /\ orig.flow
    /\ pc = "flowctl_set" => flowctl_enable
    /\ pc \in {"write", "reopen", "verify"} => ~param.flow

\* A response without flow control that matches the host's configuration was
\* sent when the RCP held it, and the RCP then holds it until the update.
Rounds == {"config", "file_open", "file_read", "file_check", "probe_open", "probe_read",
           "probe_check", "decide", "write", "reopen", "verify"}
SameInv ==
    /\ pc \in Rounds \cup {"returned", "update"} =>
          \A r \in Pending : IsConfig(r) /\ ~r.cfg.flow /\ (parse_file_ok => r.cfg = NoFlow(param))
                                => rcp.cfg = r.cfg
    /\ pc \in Rounds => ~ret
    /\ pc = "decide" /\ is_config_same => rcp.cfg = param /\ ~param.flow /\ tty.baud = rcp.baud
    /\ pc \in {"returned", "update"} /\ ret => rcp.cfg = NoFlow(param) /\ tty.baud = rcp.baud

\* The first round, and what follows when it succeeded: a status that is under
\* way then says that flow control was turned on.
Probing == {"file_open", "file_read", "file_check", "probe_open", "probe_read", "probe_check"}
After == {"returned", "update", "updating", "flowctl", "flowctl_set", "flowctl_returned", "test", "done"}
FirstInv ==
    /\ tries = 0 => pc = "config" /\ Pending = {}
    /\ tries = 0 \/ (tries = 1 /\ pc \in Probing \cup {"decide"}) =>
          /\ orig = param /\ ~flowctl_enable /\ \A r \in Pending : IsConfig(r)
          /\ ~parse_file_ok /\ pc # "decide" => orig = ZeroConfig
    /\ tries = 1 /\ pc \in {"write", "reopen", "verify"} =>
          flowctl_enable = orig.flow /\ \A r \in Pending : r # Ok(TRUE)
    /\ pc \in Rounds \cup {"returned", "update", "updating"} => ~fret
    /\ tries = 1 /\ ret /\ pc \in After =>
          /\ NoFlow(rcp.cfg) = NoFlow(orig) /\ flowctl_enable = orig.flow
          /\ (rcp.cfg.flow => orig.flow)
          /\ Ok(TRUE) \in Pending => rcp.cfg.flow
          /\ fret /\ ~UsbInterface => rcp.cfg.flow = orig.flow

ConfigInv == ConfigType /\ RateInv /\ FileInv /\ ReadInv /\ FlowInv /\ SameInv /\ FirstInv

\* Turning flow control off changes nothing else.
LEMMA NoFlowFacts ==
    ASSUME NEW c \in Cfg
    PROVE  /\ NoFlow(c) \in Cfg /\ NoFlow(c).baud = c.baud /\ NoFlow(c).flow = FALSE
           /\ NoFlow(NoFlow(c)) = NoFlow(c)
           /\ ~c.flow => NoFlow(c) = c
           /\ \A b \in BOOLEAN : /\ [c EXCEPT !.flow = b] \in Cfg
                                 /\ NoFlow([c EXCEPT !.flow = b]) = NoFlow(c)
                                 /\ [c EXCEPT !.flow = b].flow = b /\ [c EXCEPT !.flow = b].baud = c.baud
           /\ \A d \in Cfg : NoFlow(d) = NoFlow(c) => d.baud = c.baud /\ (d.flow = c.flow => d = c)
<1>1. \A d \in Cfg, b \in BOOLEAN :
        [d EXCEPT !.flow = b] = [ic |-> d.ic, flow |-> b, baud |-> d.baud, rest |-> d.rest]
  BY DEF Cfg
<1>2. \A d \in Cfg : NoFlow(d) = [ic |-> d.ic, flow |-> FALSE, baud |-> d.baud, rest |-> d.rest]
  BY <1>1, Zenon DEF NoFlow
<1>3. \A d \in Cfg : /\ d = [ic |-> d.ic, flow |-> d.flow, baud |-> d.baud, rest |-> d.rest]
                     /\ d.ic \in Nat /\ d.flow \in BOOLEAN /\ d.baud \in Nat /\ d.rest \in Nat
  BY DEF Cfg
<1>5. /\ NoFlow(c) \in Cfg /\ NoFlow(c).baud = c.baud /\ NoFlow(c).flow = FALSE
      /\ NoFlow(NoFlow(c)) = NoFlow(c)
  <2>1. NoFlow(c) \in Cfg /\ NoFlow(c).baud = c.baud /\ NoFlow(c).flow = FALSE
        /\ NoFlow(c).ic = c.ic /\ NoFlow(c).rest = c.rest
    <3>1. c.ic \in Nat /\ c.baud \in Nat /\ c.rest \in Nat
      BY <1>3, Zenon
    <3> DEFINE e == [ic |-> c.ic, flow |-> FALSE, baud |-> c.baud, rest |-> c.rest]
    <3>2. e \in Cfg /\ e.ic = c.ic /\ e.flow = FALSE /\ e.baud = c.baud /\ e.rest = c.rest
      BY <3>1 DEF Cfg
    <3>3. NoFlow(c) = e
      BY <1>2, Zenon
    <3> QED
      BY <3>2, <3>3, Zenon
  <2> QED
    BY <2>1, <1>2, Zenon
<1>6. ~c.flow => NoFlow(c) = c
  <2>1. ~c.flow => c.flow = FALSE
    BY <1>3
  <2> QED
    BY <2>1, <1>2, <1>3, Zenon
<1>7. ASSUME NEW b \in BOOLEAN
      PROVE  /\ [c EXCEPT !.flow = b] \in Cfg /\ NoFlow([c EXCEPT !.flow = b]) = NoFlow(c)
             /\ [c EXCEPT !.flow = b].flow = b /\ [c EXCEPT !.flow = b].baud = c.baud
  <2> DEFINE e == [c EXCEPT !.flow = b]
  <2>1. e \in Cfg /\ e.flow = b /\ e.baud = c.baud /\ e.ic = c.ic /\ e.rest = c.rest
    <3>1. c.ic \in Nat /\ c.baud \in Nat /\ c.rest \in Nat
      BY <1>3, Zenon
    <3> DEFINE g == [ic |-> c.ic, flow |-> b, baud |-> c.baud, rest |-> c.rest]
    <3>2. g \in Cfg /\ g.ic = c.ic /\ g.flow = b /\ g.baud = c.baud /\ g.rest = c.rest
      BY <3>1 DEF Cfg
    <3>3. e = g
      BY <1>1, Zenon
    <3> QED
      BY <3>2, <3>3, Zenon
  <2> HIDE DEF e
  <2>2. NoFlow(e) = NoFlow(c)
    BY <2>1, <1>2, Zenon
  <2> QED
    BY <2>1, <2>2 DEF e
<1>8. ASSUME NEW d \in Cfg, NoFlow(d) = NoFlow(c)
      PROVE  d.baud = c.baud /\ (d.flow = c.flow => d = c)
  <2>1. [ic |-> d.ic, flow |-> FALSE, baud |-> d.baud, rest |-> d.rest]
          = [ic |-> c.ic, flow |-> FALSE, baud |-> c.baud, rest |-> c.rest]
    BY <1>8, <1>2, Zenon
  <2>2. d.baud = c.baud /\ d.ic = c.ic /\ d.rest = c.rest
    BY <2>1
  <2> QED
    BY <2>2, <1>3, Zenon
<1> QED
  BY <1>5, <1>6, <1>7, <1>8

LEMMA FlowAs ==
    ASSUME NEW c \in Cfg, NEW b \in BOOLEAN
    PROVE  /\ [c EXCEPT !.flow = b] \in Cfg /\ NoFlow([c EXCEPT !.flow = b]) = NoFlow(c)
           /\ [c EXCEPT !.flow = b].flow = b
<1>1. \A d \in BOOLEAN : /\ [c EXCEPT !.flow = d] \in Cfg
                         /\ NoFlow([c EXCEPT !.flow = d]) = NoFlow(c)
                         /\ [c EXCEPT !.flow = d].flow = d /\ [c EXCEPT !.flow = d].baud = c.baud
  BY NoFlowFacts, Zenon
<1> QED
  BY <1>1

LEMMA ZeroFacts == ZeroConfig \in Cfg /\ ZeroConfig.baud = NoBaud /\ NoBaud = 0
BY DEF ZeroConfig, Cfg, NoBaud

\* Frames of the line, in order.
LEMMA Frames ==
    ASSUME NEW S, NEW s \in Seq(S), NEW r \in S
    PROVE  /\ Append(s, r) \in Seq(S) /\ Range(Append(s, r)) = Range(s) \cup {r}
           /\ Append(s, r) # <<>> /\ Range(<<>>) = {} /\ <<>> \in Seq(S) /\ Range(s) \subseteq S
           /\ s # <<>> => Head(s) \in Range(s) /\ Range(Tail(s)) \subseteq Range(s) /\ Tail(s) \in Seq(S)
           /\ s = <<>> => Head(Append(s, r)) = r /\ Tail(Append(s, r)) = <<>>
           /\ s # <<>> => Head(Append(s, r)) = Head(s)
<1>1. /\ Append(s, r) \in Seq(S) /\ Append(s, r) # <<>> /\ <<>> \in Seq(S)
      /\ s # <<>> => Tail(s) \in Seq(S)
  <2>1. Append(s, r) \in Seq(S) /\ <<>> \in Seq(S)
    OBVIOUS
  <2>2. Append(s, r) # <<>>
    BY AppendProperties
  <2>3. s # <<>> => Tail(s) \in Seq(S)
    BY HeadTailProperties
  <2> QED
    BY <2>1, <2>2, <2>3
<1>2. Range(Append(s, r)) = Range(s) \cup {r}
  <2>1. DOMAIN Append(s, r) = DOMAIN s \cup {Len(s) + 1} /\ Append(s, r)[Len(s) + 1] = r
        /\ \A k \in DOMAIN s : Append(s, r)[k] = s[k]
    OBVIOUS
  <2> QED
    BY <2>1, Zenon DEF Range
<1>3. Range(<<>>) = {} /\ Range(s) \subseteq S
  BY DEF Range
<1>4. ASSUME s # <<>> PROVE Head(s) \in Range(s) /\ Range(Tail(s)) \subseteq Range(s)
  <2>1. 1 \in DOMAIN s /\ Head(s) = s[1]
    BY <1>4
  <2>2. \A k \in DOMAIN Tail(s) : k + 1 \in DOMAIN s /\ Tail(s)[k] = s[k + 1]
    BY <1>4
  <2> QED
    BY <2>1, <2>2 DEF Range
<1>5. s = <<>> => Head(Append(s, r)) = r /\ Tail(Append(s, r)) = <<>>
  OBVIOUS
<1>6. s # <<>> => Head(Append(s, r)) = Head(s)
  OBVIOUS
<1> QED
  BY <1>1, <1>2, <1>3, <1>4, <1>5, <1>6

\* What can be read after a request: what was there, or the answer r behind it.
Unanswered(o) ==
    o.left \in Seq(Reply) /\ Range(o.left) \subseteq Inbox /\ (o.r = Timeout \/ o.r \in Inbox)
Answered(o, r) ==
    /\ o.left \in Seq(Reply)
    /\ \/ o.r = r /\ Range(o.left) = {}
       \/ o.r \in Inbox /\ Range(o.left) \subseteq Inbox \cup {r}

Left(o, r0, f0) == o.rcp = r0 /\ o.flight = f0 /\ Unanswered(o)
Got(o, r0, f0, r) == o.rcp = r0 /\ o.flight = f0 /\ Answered(o, r)

LEMMA Unread ==
    ASSUME ConfigType, NEW r0, NEW f0, NEW k
    PROVE  Left(Outcome(r0, f0, k, inbox), r0, f0)
<1> DEFINE o == Outcome(r0, f0, k, inbox)
<1>1. inbox \in Seq(Reply)
  BY DEF ConfigType
<1>2. /\ o.rcp = r0 /\ o.flight = f0
      /\ o.r = (IF inbox = <<>> THEN Timeout ELSE Head(inbox))
      /\ o.left = (IF inbox = <<>> THEN <<>> ELSE Tail(inbox))
  BY Zenon DEF Outcome
<1>3. Ok(TRUE) \in Reply
  BY DEF Ok, Reply
<1>4. CASE inbox = <<>>
  <2>1. o.r = Timeout /\ o.left = <<>>
    BY <1>2, <1>4, Zenon
  <2>2. <<>> \in Seq(Reply) /\ Range(<<>>) = {}
    BY <1>1, <1>3, Frames
  <2> QED
    BY <1>2, <2>1, <2>2, Zenon DEF Unanswered, Left
<1>5. CASE inbox # <<>>
  <2>1. o.r = Head(inbox) /\ o.left = Tail(inbox)
    BY <1>2, <1>5, Zenon
  <2>2. Head(inbox) \in Inbox /\ Range(Tail(inbox)) \subseteq Inbox /\ Tail(inbox) \in Seq(Reply)
    BY <1>1, <1>3, <1>5, Frames DEF Inbox
  <2> QED
    BY <1>2, <2>1, <2>2, Zenon DEF Unanswered, Left
<1> QED
  BY <1>4, <1>5, Zenon

LEMMA Read ==
    ASSUME ConfigType, NEW r0, NEW f0, NEW k, NEW r \in Reply
    PROVE  Got(Outcome(r0, f0, k, Append(inbox, r)), r0, f0, r)
<1> DEFINE o == Outcome(r0, f0, k, Append(inbox, r))
<1>1. inbox \in Seq(Reply)
  BY DEF ConfigType
<1> DEFINE s == Append(inbox, r)
<1>2. s # <<>> /\ s \in Seq(Reply) /\ Range(s) = Inbox \cup {r}
  BY <1>1, Frames DEF Inbox
<1>3. Range(Tail(s)) \subseteq Range(s) /\ Tail(s) \in Seq(Reply)
  <2> HIDE DEF s
  <2> QED
    BY <1>2, Frames
<1>4. o.rcp = r0 /\ o.flight = f0 /\ o.r = Head(s) /\ o.left = Tail(s)
  BY <1>2, Zenon DEF Outcome
<1>5. CASE inbox = <<>>
  <2>1. Head(s) = r /\ Tail(s) = <<>> /\ Range(<<>>) = {}
    BY <1>1, <1>5, Frames, ZenonT(30)
  <2> HIDE DEF s
  <2> QED
    BY <1>3, <1>4, <2>1, Zenon DEF Answered, Got
<1>6. CASE inbox # <<>>
  <2>1. Head(s) = Head(inbox) /\ Head(inbox) \in Inbox
    BY <1>1, <1>6, Frames DEF Inbox
  <2> HIDE DEF s
  <2> QED
    BY <1>2, <1>3, <1>4, <2>1, Zenon DEF Answered, Got
<1> QED
  BY <1>5, <1>6, Zenon

\* The ways a request ends: lost, answered, answered late, or refused.
LEMMA RequestEnds ==
    ASSUME ConfigType, NEW q, Handle(q).resp \in Reply, NEW o \in ConfigRequest(q)
    PROVE  /\ o.flight \in Seq(Late)
           /\ \/ o.rcp = rcp /\ o.flight = flight /\ Unanswered(o)
              \/ Heard /\ o.rcp = Handle(q).rcp /\ o.flight = flight /\ Answered(o, Handle(q).resp)
              \/ /\ Heard /\ o.rcp = Handle(q).rcp /\ Unanswered(o)
                 /\ Range(o.flight) = Flight \cup {[resp |-> Handle(q).resp, baud |-> rcp.baud]}
              \/ q.op # "read" /\ o.rcp = rcp /\ o.flight = flight /\ Answered(o, Ok(FALSE))
<1> DEFINE h == Handle(q)
           late == [resp |-> h.resp, baud |-> rcp.baud]
<1>1. \/ o = Outcome(rcp, flight, 1, inbox) \/ o = Outcome(rcp, flight, 0, inbox)
      \/ Heard /\ o = Outcome(h.rcp, flight, 0, Append(inbox, h.resp))
      \/ Heard /\ o = Outcome(h.rcp, Append(flight, late), 1, inbox)
      \/ q.op # "read" /\ o = Outcome(rcp, flight, 1, Append(inbox, Ok(FALSE)))
  BY Zenon DEF ConfigRequest
<1>2. flight \in Seq(Late) /\ rcp.baud \in Nat /\ h.resp \in Reply
  BY DEF ConfigType
<1>3. late \in Late
  BY <1>2 DEF Late
<1>4. Ok(FALSE) \in Reply
  BY DEF Ok, Reply
<1>5. Append(flight, late) \in Seq(Late) /\ Range(Append(flight, late)) = Flight \cup {late}
  <2> HIDE DEF late
  <2> QED
    BY <1>2, <1>3, Frames DEF Flight
<1> HIDE DEF h, late
<1>6. /\ Left(Outcome(rcp, flight, 1, inbox), rcp, flight)
      /\ Left(Outcome(rcp, flight, 0, inbox), rcp, flight)
      /\ Got(Outcome(h.rcp, flight, 0, Append(inbox, h.resp)), h.rcp, flight, h.resp)
      /\ Left(Outcome(h.rcp, Append(flight, late), 1, inbox), h.rcp, Append(flight, late))
      /\ Got(Outcome(rcp, flight, 1, Append(inbox, Ok(FALSE))), rcp, flight, Ok(FALSE))
  BY <1>2, <1>4, Unread, Read, Zenon
<1>7. \/ Left(o, rcp, flight)
      \/ Heard /\ Got(o, h.rcp, flight, h.resp)
      \/ Heard /\ Left(o, h.rcp, Append(flight, late))
      \/ q.op # "read" /\ Got(o, rcp, flight, Ok(FALSE))
  BY <1>1, <1>6, Zenon
<1> QED
  BY <1>2, <1>5, <1>7, Zenon DEF Left, Got, h, late

\* The answer to a read.
Current == [kind |-> "config", cfg |-> rcp.cfg]

LEMMA ReplyFacts ==
    ASSUME NEW r \in Reply
    PROVE  /\ IsConfig(r) \in BOOLEAN /\ (IsConfig(r) => r.cfg \in Cfg) /\ r # Timeout
           /\ IsConfig(r) => r # Ok(TRUE) /\ r # Ok(FALSE)
BY DEF Reply, IsConfig, Timeout, Ok

LEMMA Answers ==
    /\ \A b \in BOOLEAN : Ok(b) \in Reply /\ ~IsConfig(Ok(b)) /\ Ok(b) # Timeout
    /\ Ok(TRUE) # Ok(FALSE)
    /\ rcp.cfg \in Cfg => Current \in Reply /\ IsConfig(Current) /\ Current.cfg = rcp.cfg
    /\ ~IsConfig(Timeout)
<1>1. \A b \in BOOLEAN : Ok(b) \in Reply /\ ~IsConfig(Ok(b)) /\ Ok(b) # Timeout
  BY DEF Reply, IsConfig, Timeout, Ok
<1>2. Ok(TRUE) # Ok(FALSE)
  BY DEF Ok
<1>3. rcp.cfg \in Cfg => Current \in Reply /\ IsConfig(Current) /\ Current.cfg = rcp.cfg
  BY DEF Reply, IsConfig, Current
<1>4. ~IsConfig(Timeout)
  BY DEF IsConfig, Timeout
<1> QED
  BY Zenon, <1>1, <1>2, <1>3, <1>4

LEMMA PendingTypes ==
    ASSUME ConfigType
    PROVE  /\ Inbox \subseteq Reply /\ Inbox \subseteq Pending /\ Pending \subseteq Reply
           /\ Flight \subseteq Late /\ \A f \in Flight : f.resp \in Pending /\ f.resp \in Reply
           /\ rcp.cfg \in Cfg /\ rcp.baud \in Nat
<1>1. inbox \in Seq(Reply) /\ flight \in Seq(Late) /\ rcp.cfg \in Cfg /\ rcp.baud \in Nat
  BY DEF ConfigType
<1>2. Inbox \subseteq Reply /\ Flight \subseteq Late
  BY <1>1 DEF Inbox, Flight, Range
<1>3. \A f \in Late : f.resp \in Reply
  BY DEF Late
<1> QED
  BY <1>1, <1>2, <1>3, Zenon DEF Pending

\* A read changes nothing but the line, and only adds the answer of the RCP.
LEMMA ReadLine ==
    ASSUME ConfigType, RateInv, NEW o \in ConfigRequest([op |-> "read"]), Exchanged(o),
           inbox' \in {<<>>, o.left}
    PROVE  /\ rcp' = rcp /\ inbox' \in Seq(Reply) /\ flight' \in Seq(Late)
           /\ Pending' \subseteq Pending \cup {Current}
           /\ \A f \in Flight' : IsConfig(f.resp) => f.baud = f.resp.cfg.baud
           /\ pc \in Reading => \A r \in Inbox' : IsConfig(r) => r.cfg.baud = tty.baud
           /\ o.r = Timeout \/ (o.r \in Reply /\ o.r \in Pending \cup {Current})
           /\ pc \in Reading /\ IsConfig(o.r) => o.r.cfg.baud = tty.baud
<1> DEFINE q == [op |-> "read"]
           late == [resp |-> Current, baud |-> rcp.baud]
<1>1. Handle(q).rcp = rcp /\ Handle(q).resp = Current /\ q.op = "read"
  BY DEF Handle, Current
<1>2. Current \in Reply /\ IsConfig(Current) /\ Current.cfg = rcp.cfg
  BY PendingTypes, Answers, Zenon
<1> HIDE DEF q
<1>3. /\ o.flight \in Seq(Late) /\ o.rcp = rcp
      /\ \/ o.flight = flight /\ Unanswered(o)
         \/ Heard /\ o.flight = flight /\ Answered(o, Current)
         \/ Range(o.flight) = Flight \cup {late} /\ Unanswered(o)
  BY <1>1, <1>2, RequestEnds, Zenon DEF q
<1>4. rcp' = rcp /\ flight' = o.flight
  BY <1>3, Zenon DEF Exchanged
<1>5. o.left \in Seq(Reply) /\ <<>> \in Seq(Reply) /\ Range(<<>>) = {}
  <2>1. <<>> \in Seq(Reply) /\ Range(<<>>) = {}
    BY DEF Range
  <2> QED
    BY <1>3, <2>1, Zenon DEF Answered, Unanswered
<1>6. inbox' \in Seq(Reply) /\ flight' \in Seq(Late)
  BY <1>3, <1>4, <1>5, Zenon
<1>7. Flight' \subseteq Flight \cup {late}
  BY <1>3, <1>4, Zenon DEF Flight
<1>8. \A r \in Range(o.left) : r \in Inbox \/ (Heard /\ r = Current)
  BY <1>3, Zenon DEF Answered, Unanswered
<1>9. \A r \in Inbox' : r \in Inbox \/ (Heard /\ r = Current)
  BY <1>5, <1>8, Zenon DEF Inbox
<1>10. o.r = Timeout \/ o.r \in Inbox \/ (Heard /\ o.r = Current)
  BY <1>3, Zenon DEF Answered, Unanswered
<1>11. late.resp = Current /\ late.baud = rcp.baud
  OBVIOUS
<1> HIDE DEF late
<1>12. Pending' \subseteq Pending \cup {Current}
  BY <1>7, <1>9, <1>11, Zenon DEF Pending
<1>13. \A f \in Flight' : IsConfig(f.resp) => f.baud = f.resp.cfg.baud
  BY <1>2, <1>7, <1>11, Zenon DEF RateInv
<1>14. ASSUME pc \in Reading, NEW r, r \in Inbox \/ (Heard /\ r = Current), IsConfig(r)
       PROVE  r.cfg.baud = tty.baud
  BY <1>2, <1>14, Zenon DEF RateInv, Heard
<1>15. o.r = Timeout \/ (o.r \in Reply /\ o.r \in Pending \cup {Current})
  BY <1>2, <1>10, PendingTypes, Zenon
<1>16. pc \in Reading /\ IsConfig(o.r) => o.r.cfg.baud = tty.baud
  BY <1>10, <1>14, Answers, Zenon
<1> QED
  BY <1>4, <1>6, <1>9, <1>12, <1>13, <1>14, <1>15, <1>16, Zenon

\* A write, or turning flow control on, only adds a status, and a success that
\* was not there before is the RCP's.
LEMMA StatusLine ==
    ASSUME ConfigType, RateInv, NEW q, q.op # "read", Handle(q).resp = Ok(TRUE),
           NEW o \in ConfigRequest(q), Exchanged(o), inbox' = o.left
    PROVE  /\ inbox' \in Seq(Reply) /\ flight' \in Seq(Late)
           /\ rcp' = rcp \/ rcp' = Handle(q).rcp
           /\ Pending' \subseteq Pending \cup {Ok(TRUE), Ok(FALSE)}
           /\ \A f \in Flight' : IsConfig(f.resp) => f.baud = f.resp.cfg.baud
           /\ Ok(TRUE) \in Pending' => Ok(TRUE) \in Pending \/ rcp' = Handle(q).rcp
           /\ o.r = Ok(TRUE) => Ok(TRUE) \in Pending
                                \/ (Pending' \subseteq Pending /\ rcp' = Handle(q).rcp)
<1> DEFINE late == [resp |-> Ok(TRUE), baud |-> rcp.baud]
<1>1. Ok(TRUE) \in Reply /\ ~IsConfig(Ok(TRUE)) /\ Ok(TRUE) # Timeout /\ Ok(TRUE) # Ok(FALSE)
  BY Answers, Zenon
<1>2. /\ o.flight \in Seq(Late)
      /\ \/ o.rcp = rcp /\ o.flight = flight /\ Unanswered(o)
         \/ o.rcp = Handle(q).rcp /\ o.flight = flight /\ Answered(o, Ok(TRUE))
         \/ o.rcp = Handle(q).rcp /\ Range(o.flight) = Flight \cup {late} /\ Unanswered(o)
         \/ o.rcp = rcp /\ o.flight = flight /\ Answered(o, Ok(FALSE))
  BY <1>1, RequestEnds, Zenon
<1>3. rcp' = o.rcp /\ flight' = o.flight
  BY Zenon DEF Exchanged
<1>4. late.resp = Ok(TRUE) /\ late.baud = rcp.baud
  OBVIOUS
<1> HIDE DEF late
<1>5. inbox' \in Seq(Reply) /\ flight' \in Seq(Late) /\ (rcp' = rcp \/ rcp' = Handle(q).rcp)
  BY <1>2, <1>3, Zenon DEF Answered, Unanswered
<1>6. Flight' = Range(o.flight) /\ Inbox' = Range(o.left) /\ Inbox \subseteq Pending
      /\ \A f \in Flight : f.resp \in Pending
  BY <1>3, PendingTypes, Zenon DEF Flight, Inbox
<1>7. Flight' \subseteq Flight \cup {late} /\ Inbox' \subseteq Inbox \cup {Ok(TRUE), Ok(FALSE)}
  BY <1>2, <1>3, <1>6, Zenon DEF Answered, Unanswered, Flight
<1>8. \A f \in Flight' : IsConfig(f.resp) => f.baud = f.resp.cfg.baud
  BY <1>1, <1>4, <1>7, Zenon DEF RateInv
<1>9. Pending' \subseteq Pending \cup {Ok(TRUE), Ok(FALSE)}
  BY <1>4, <1>6, <1>7, Zenon DEF Pending
<1>10. CASE o.rcp = rcp /\ o.flight = flight /\ (Unanswered(o) \/ Answered(o, Ok(FALSE)))
  <2>1. Flight' = Flight /\ Inbox' \subseteq Inbox \cup {Ok(FALSE)} /\ (o.r = Ok(TRUE) => o.r \in Inbox)
    BY <1>1, <1>3, <1>6, <1>10, Zenon DEF Answered, Unanswered, Flight
  <2>2. Ok(TRUE) \in Pending' => Ok(TRUE) \in Pending
    BY <1>1, <1>6, <2>1, Zenon DEF Pending
  <2> QED
    BY <1>5, <1>6, <1>8, <1>9, <2>1, <2>2, Zenon
<1>11. CASE o.rcp = Handle(q).rcp /\ o.flight = flight /\ Answered(o, Ok(TRUE))
  <2>1. Flight' = Flight /\ (o.r \in Inbox \/ Inbox' = {})
    BY <1>3, <1>6, <1>11, Zenon DEF Answered, Flight
  <2>2. o.r \in Pending \/ Pending' \subseteq Pending
    BY <1>6, <2>1, Zenon DEF Pending
  <2> QED
    BY <1>3, <1>5, <1>8, <1>9, <1>11, <2>2, Zenon
<1>12. CASE o.rcp = Handle(q).rcp /\ Range(o.flight) = Flight \cup {late} /\ Unanswered(o)
  <2>1. o.r = Ok(TRUE) => o.r \in Pending
    BY <1>1, <1>6, <1>12, Zenon DEF Unanswered
  <2> QED
    BY <1>3, <1>5, <1>8, <1>9, <1>12, <2>1, Zenon
<1> QED
  BY <1>2, <1>10, <1>11, <1>12, Zenon

\* What a write and turning flow control on leave in the RCP.
LEMMA Handled ==
    ASSUME ConfigType
    PROVE  /\ Handle([op |-> "write", cfg |-> param]).resp = Ok(TRUE)
           /\ Handle([op |-> "write", cfg |-> param]).rcp \in [cfg : Cfg, baud : Nat, flow : BOOLEAN]
           /\ Handle([op |-> "write", cfg |-> param]).rcp.cfg = param
           /\ Handle([op |-> "write", cfg |-> param]).rcp.baud = param.baud
           /\ Handle([op |-> "flow"]).resp = Ok(TRUE)
           /\ Handle([op |-> "flow"]).rcp \in [cfg : Cfg, baud : Nat, flow : BOOLEAN]
           /\ Handle([op |-> "flow"]).rcp.cfg = [rcp.cfg EXCEPT !.flow = TRUE]
           /\ Handle([op |-> "flow"]).rcp.baud = rcp.baud
<1>0. param \in Cfg /\ rcp \in [cfg : Cfg, baud : Nat, flow : BOOLEAN]
  BY Zenon DEF ConfigType
<1>1. param \in Cfg /\ param.baud \in Nat /\ param.flow \in BOOLEAN
      /\ [rcp.cfg EXCEPT !.flow = TRUE] \in Cfg /\ rcp.baud \in Nat
  <2>1. rcp.cfg \in Cfg /\ rcp.baud \in Nat
    BY <1>0, Zenon
  <2>2. [rcp.cfg EXCEPT !.flow = TRUE] \in Cfg
    BY Zenon, <2>1, NoFlowFacts
  <2> QED
    BY <1>0, <2>1, <2>2, Zenon DEF Cfg
<1> DEFINE on == [rcp.cfg EXCEPT !.flow = TRUE]
           written == [cfg |-> param, baud |-> param.baud, flow |-> param.flow]
           turned == [cfg |-> on, baud |-> rcp.baud, flow |-> TRUE]
           hw == Handle([op |-> "write", cfg |-> param])
           hf == Handle([op |-> "flow"])
<1>3. /\ written \in [cfg : Cfg, baud : Nat, flow : BOOLEAN]
      /\ written.cfg = param /\ written.baud = param.baud
  BY <1>1
<1>4. on \in Cfg
  BY <1>1
<1>5. turned \in [cfg : Cfg, baud : Nat, flow : BOOLEAN] /\ turned.cfg = on /\ turned.baud = rcp.baud
  <2> HIDE DEF on
  <2> QED
    BY <1>1, <1>4
<1>6. hw = [rcp |-> written, resp |-> Ok(TRUE)]
  BY Zenon DEF Handle
<1>7. hf = [rcp |-> turned, resp |-> Ok(TRUE)]
  BY DEF Handle
<1> HIDE DEF on, written, turned, hw, hf
<1>8. hw.rcp = written /\ hw.resp = Ok(TRUE) /\ hf.rcp = turned /\ hf.resp = Ok(TRUE)
  BY <1>6, <1>7
<1>9. /\ hw.resp = Ok(TRUE) /\ hw.rcp \in [cfg : Cfg, baud : Nat, flow : BOOLEAN]
      /\ hw.rcp.cfg = param /\ hw.rcp.baud = param.baud
  BY <1>3, <1>8, Zenon
<1>10. /\ hf.resp = Ok(TRUE) /\ hf.rcp \in [cfg : Cfg, baud : Nat, flow : BOOLEAN]
       /\ hf.rcp.cfg = on /\ hf.rcp.baud = rcp.baud
  BY <1>5, <1>8, Zenon
<1> QED
  BY <1>9, <1>10, Zenon DEF hw, hf, on

\* The places a step may lead to that loads and decides nothing.
Written == {"write", "reopen", "verify"}
Follows ==
    /\ parse_file_ok /\ pc \in {"config", "file_open", "exit"} /\ pc' \notin {"config", "file_open", "exit"} =>
          param.baud # NoBaud
    /\ pc' \in Written => pc \in Written
    /\ parse_file_ok \/ flowctl_enable \/ pc \notin Unloaded \/ pc' \in Unloaded
    /\ pc' = "flowctl_set" => pc = "flowctl_set" \/ flowctl_enable
    /\ pc' \in Rounds => pc \in Rounds \/ ~ret
    /\ pc' \in Rounds \cup {"returned", "update"} => pc \in Rounds \cup {"returned", "update"}
    /\ pc' \in {"returned", "update"} /\ ret => tty'.baud = tty.baud
    /\ pc' = "decide" => pc = "decide" /\ is_config_same' = is_config_same /\ tty' = tty
    /\ pc' \in Probing => pc \in Probing
    /\ pc' \in Rounds \cup {"returned", "update", "updating"} => ~fret'
    /\ pc' \in After => pc # "exit"
    /\ fret' => fret \/ UsbInterface \/ ~flowctl_enable

\* A step that leaves the RCP's configuration, and adds no other answer.
LineKept ==
    /\ rcp' \in [cfg : Cfg, baud : Nat, flow : BOOLEAN] /\ rcp'.cfg = rcp.cfg /\ rcp'.baud = rcp.baud
    /\ inbox' \in Seq(Reply) /\ flight' \in Seq(Late) /\ Pending' \subseteq Pending \cup {Current}
    /\ \A f \in Flight' : IsConfig(f.resp) => f.baud = f.resp.cfg.baud

LEMMA Moves ==
    ASSUME ConfigInv, tries # 0, Follows,
           UNCHANGED <<parse_file_ok, param, orig, flowctl_enable, tries, ret>>,
           pc' \in Places, is_config_same' \in BOOLEAN, fret' \in BOOLEAN,
           LineKept, pc' \in Reading => \A r \in Inbox' : IsConfig(r) => r.cfg.baud = tty'.baud
    PROVE  ConfigInv'
<1> USE DEF LineKept
<1>0. ConfigType /\ RateInv /\ FileInv /\ ReadInv /\ FlowInv /\ SameInv /\ FirstInv
  BY Zenon DEF ConfigInv
<1>1. /\ IsConfig(Current) /\ Current.cfg = rcp.cfg /\ Current # Ok(TRUE)
      /\ \A r \in Pending' : r \in Pending \/ r = Current
  <2>1. rcp.cfg \in Cfg
    BY <1>0, PendingTypes, Zenon
  <2> QED
    BY <2>1, Answers, Zenon
<1>2. ConfigType'
  BY <1>0, Zenon DEF ConfigType
<1>3. RateInv'
  BY <1>0, <1>1, Zenon DEF RateInv
<1>4. FileInv'
  BY <1>0, Zenon DEF FileInv, Follows
<1>5. ReadInv'
  <2>1. ASSUME ~parse_file_ok, NEW r \in Pending', IsConfig(r)
        PROVE  NoFlow(r.cfg) = NoFlow(rcp.cfg)
    BY <1>0, <1>1, <2>1, Zenon DEF ReadInv
  <2>2. ASSUME ~parse_file_ok, orig = ZeroConfig
        PROVE  /\ param = ZeroConfig /\ pc' \in Unloaded /\ ~ret /\ ~flowctl_enable
               /\ \A r \in Pending' : IsConfig(r) /\ r.cfg = rcp.cfg
    BY <1>0, <1>1, <2>2, Zenon DEF ReadInv, Follows
  <2>3. ASSUME ~parse_file_ok, orig # ZeroConfig
        PROVE  /\ NoFlow(param) = NoFlow(rcp.cfg) /\ NoFlow(orig) = NoFlow(rcp.cfg)
               /\ (param.flow => orig.flow) /\ (rcp.cfg.flow => orig.flow)
               /\ \A r \in Pending' : IsConfig(r) /\ r.cfg.flow => orig.flow
    BY <1>0, <1>1, <2>3, Zenon DEF ReadInv
  <2> QED
    BY <2>1, <2>2, <2>3, Zenon DEF ReadInv
<1>6. FlowInv'
  BY <1>0, Zenon DEF FlowInv, Follows, Written
<1>7. SameInv'
  <2>1. ASSUME pc' \in Rounds \cup {"returned", "update"}, NEW r \in Pending',
               IsConfig(r), ~r.cfg.flow, parse_file_ok => r.cfg = NoFlow(param)
        PROVE  rcp.cfg = r.cfg
    BY <1>0, <1>1, <2>1, Zenon DEF SameInv, Follows
  <2>2. pc' \in Rounds => ~ret
    BY <1>0, Zenon DEF SameInv, Follows
  <2>3. pc' = "decide" /\ is_config_same' => rcp.cfg = param /\ ~param.flow /\ tty'.baud = rcp.baud
    BY <1>0, Zenon DEF SameInv, Follows
  <2>4. pc' \in {"returned", "update"} /\ ret => rcp.cfg = NoFlow(param) /\ tty'.baud = rcp.baud
    BY <1>0 DEF SameInv, Follows
  <2> QED
    BY <2>1, <2>2, <2>3, <2>4, Zenon DEF SameInv
<1>8. FirstInv'
  <2>1. tries = 1 /\ pc' \in Probing \cup {"decide"} =>
          /\ orig = param /\ ~flowctl_enable /\ \A r \in Pending' : IsConfig(r)
          /\ ~parse_file_ok /\ pc' # "decide" => orig = ZeroConfig
    BY <1>0, <1>1 DEF FirstInv, Follows, Probing
  <2>2. tries = 1 /\ pc' \in Written => flowctl_enable = orig.flow /\ \A r \in Pending' : r # Ok(TRUE)
    BY <1>0, <1>1, ZenonT(30) DEF FirstInv, Follows, Written
  <2>3. ASSUME tries = 1, ret, pc' \in After
        PROVE  /\ NoFlow(rcp.cfg) = NoFlow(orig) /\ flowctl_enable = orig.flow
               /\ (rcp.cfg.flow => orig.flow)
               /\ Ok(TRUE) \in Pending' => rcp.cfg.flow
               /\ fret' /\ ~UsbInterface => rcp.cfg.flow = orig.flow
    <3>1. pc \in After
      BY <1>0, <2>3 DEF SameInv, Follows, ConfigType, Places, Rounds, After
    <3>2. /\ NoFlow(rcp.cfg) = NoFlow(orig) /\ flowctl_enable = orig.flow
          /\ (rcp.cfg.flow => orig.flow)
          /\ Ok(TRUE) \in Pending => rcp.cfg.flow
          /\ fret /\ ~UsbInterface => rcp.cfg.flow = orig.flow
      BY <1>0, <2>3, <3>1, Zenon DEF FirstInv
    <3>3. Ok(TRUE) \in Pending' => Ok(TRUE) \in Pending
      BY <1>1, Zenon
    <3>4. fret' /\ ~UsbInterface => fret \/ ~flowctl_enable
      BY ZenonT(60) DEF Follows
    <3>5. rcp.cfg.flow \in BOOLEAN /\ orig.flow \in BOOLEAN
      BY <1>0 DEF ConfigType, Cfg
    <3> QED
      BY Zenon, <3>2, <3>3, <3>4, <3>5
  <2>4. pc' \in Rounds \cup {"returned", "update", "updating"} => ~fret'
    BY Zenon DEF Follows
  <2> QED
    BY <2>1, <2>2, <2>3, <2>4, Zenon DEF FirstInv, Written
<1> QED
  BY <1>2, <1>3, <1>4, <1>5, <1>6, <1>7, <1>8, Zenon DEF ConfigInv

LEMMA QuietLine ==
    ASSUME ConfigType, RateInv, rcp' = rcp \/ rcp' = Rebooted, flight' = flight,
           inbox' = inbox \/ inbox' = <<>>
    PROVE  LineKept /\ Inbox' \subseteq Inbox /\ (inbox' = <<>> => Inbox' = {})
<1>1. rcp \in [cfg : Cfg, baud : Nat, flow : BOOLEAN] /\ inbox \in Seq(Reply) /\ flight \in Seq(Late)
  BY Zenon DEF ConfigType
<1>2. <<>> \in Seq(Reply) /\ Range(<<>>) = {}
  BY DEF Range
<1>3. Flight' = Flight /\ Inbox' \subseteq Inbox /\ (inbox' = <<>> => Inbox' = {})
  BY <1>2, Zenon DEF Flight, Inbox
<1>4. Pending' \subseteq Pending
  BY <1>3, Zenon DEF Pending
<1>5. inbox' \in Seq(Reply)
  BY <1>1, <1>2, Zenon
<1>6. rcp.cfg.flow \in BOOLEAN
  BY <1>1 DEF Cfg
<1>7. rcp' \in [cfg : Cfg, baud : Nat, flow : BOOLEAN] /\ rcp'.cfg = rcp.cfg /\ rcp'.baud = rcp.baud
  <2>1. ASSUME NEW x \in BOOLEAN
        PROVE  /\ [rcp EXCEPT !.flow = x] \in [cfg : Cfg, baud : Nat, flow : BOOLEAN]
               /\ [rcp EXCEPT !.flow = x].cfg = rcp.cfg /\ [rcp EXCEPT !.flow = x].baud = rcp.baud
    BY <1>1
  <2> QED
    BY <1>1, <1>6, <2>1, Zenon DEF Rebooted
<1> QED
  BY <1>1, <1>3, <1>4, <1>5, <1>7, Zenon DEF LineKept, RateInv

\* device_open: where it leads, and that what was readable is gone when it succeeds.
LEMMA Opens ==
    ASSUME ConfigType, RateInv, NEW b, NEW f, NEW y, NEW n, device_open(b, f, y, n)
    PROVE  /\ LineKept /\ tty'.baud = b
           /\ \/ pc' = "exit" \/ (pc' = n /\ b # NoBaud)
              \/ pc' = y /\ b # NoBaud /\ \A r \in Inbox' : IsConfig(r) => r.cfg.baud = tty'.baud
<1>1. /\ rcp' = rcp /\ flight' = flight /\ tty' = [baud |-> b, flow |-> f]
      /\ \/ pc' = "exit" /\ inbox' = inbox
         \/ pc' = y /\ b # NoBaud /\ inbox' = <<>>
         \/ pc' = n /\ b # NoBaud /\ inbox' = inbox
  BY DEF device_open
<1>2. LineKept /\ (inbox' = <<>> => Inbox' = {})
  BY <1>1, QuietLine, Zenon
<1>3. tty'.baud = b
  BY <1>1
<1> QED
  BY <1>1, <1>2, <1>3, Zenon

\* A request to read the configuration keeps the line.
LEMMA ReadKeeps ==
    ASSUME ConfigType, RateInv, NEW o \in ConfigRequest([op |-> "read"]), Exchanged(o),
           inbox' \in {<<>>, o.left}
    PROVE  LineKept
<1>1. rcp \in [cfg : Cfg, baud : Nat, flow : BOOLEAN]
  BY Zenon DEF ConfigType
<1> QED
  BY <1>1, ReadLine, Zenon DEF LineKept

\* A place that is not the first one belongs to a round.
LEMMA RoundBegun == ConfigInv /\ pc # "config" => tries # 0
BY DEF ConfigInv, FirstInv

LEMMA RoundFacts ==
    ASSUME ConfigInv
    PROVE  /\ ConfigType /\ RateInv
           /\ pc \in Rounds => ~ret
           /\ pc \in Rounds \cup {"returned", "update", "updating"} => ~fret
           /\ pc \in Places /\ is_config_same \in BOOLEAN /\ fret \in BOOLEAN
<1>1. ConfigType /\ RateInv /\ SameInv /\ FirstInv
  BY Zenon DEF ConfigInv
<1>2. pc \in Places /\ is_config_same \in BOOLEAN /\ fret \in BOOLEAN
  BY <1>1, Zenon DEF ConfigType
<1>3. pc \in Rounds => ~ret
  BY <1>1, Zenon DEF SameInv
<1>4. pc \in Rounds \cup {"returned", "update", "updating"} => ~fret
  BY <1>1, Zenon DEF FirstInv
<1> QED
  BY <1>1, <1>2, <1>3, <1>4, Zenon

LEMMA OpenSteps ==
    ASSUME ConfigInv, FileOpen \/ ProbeOpen \/ Reopen \/ OpenForUpdate
    PROVE  ConfigInv'
<1>0. UNCHANGED <<parse_file_ok, param, orig, flowctl_enable, is_config_same, tries, ret, fret>>
  BY Zenon DEF FileOpen, ProbeOpen, Reopen, OpenForUpdate, mainVars, confVars
<1>1. /\ ConfigType /\ RateInv /\ (pc \in Rounds => ~ret)
      /\ pc \in Rounds \cup {"returned", "update", "updating"} => ~fret
      /\ is_config_same' \in BOOLEAN /\ fret' \in BOOLEAN
  BY <1>0, RoundFacts, Zenon
<1>2. CASE FileOpen
  <2>1. pc = "file_open" /\ device_open(param.baud, probe.flow, "file_read", NextOpen)
        /\ NextOpen \in {"file_open", "probe_open"}
    BY <1>2 DEF FileOpen, NextOpen
  <2>2. /\ LineKept
        /\ \/ pc' = "exit" \/ (pc' = NextOpen /\ param.baud # NoBaud)
           \/ pc' = "file_read" /\ param.baud # NoBaud /\ \A r \in Inbox' : IsConfig(r) => r.cfg.baud = tty'.baud
    BY <1>1, <2>1, Opens, Zenon
  <2>3. Follows /\ pc' \in Places /\ pc # "config"
    BY <1>0, <1>1, <2>1, <2>2 DEF Follows, Written, Unloaded, Rounds, Probing, After, Places
  <2>4. pc' \in Reading => \A r \in Inbox' : IsConfig(r) => r.cfg.baud = tty'.baud
    BY <2>1, <2>2 DEF Reading
  <2> QED
    BY <1>0, <1>1, <2>2, <2>3, <2>4, Moves, RoundBegun, Zenon
<1>3. CASE ProbeOpen
  <2>1. pc = "probe_open" /\ device_open(baudrate_table[probe.i], probe.flow, "probe_read", "returned")
    BY <1>3 DEF ProbeOpen
  <2>2. /\ LineKept
        /\ \/ pc' = "exit" \/ (pc' = "returned" /\ baudrate_table[probe.i] # NoBaud)
           \/ pc' = "probe_read" /\ baudrate_table[probe.i] # NoBaud /\ \A r \in Inbox' : IsConfig(r) => r.cfg.baud = tty'.baud
    BY <1>1, <2>1, Opens, Zenon
  <2>3. Follows /\ pc' \in Places /\ pc # "config"
    BY Zenon, <1>0, <1>1, <2>1, <2>2 DEF Follows, Written, Unloaded, Rounds, Probing, After, Places
  <2>4. pc' \in Reading => \A r \in Inbox' : IsConfig(r) => r.cfg.baud = tty'.baud
    BY <2>2 DEF Reading
  <2> QED
    BY <1>0, <1>1, <2>2, <2>3, <2>4, Moves, RoundBegun, Zenon
<1>4. CASE Reopen
  <2>1. pc = "reopen" /\ device_open(param.baud, FALSE, "verify", "returned")
    BY <1>4, Zenon DEF Reopen
  <2>2. /\ LineKept
        /\ \/ pc' = "exit" \/ (pc' = "returned" /\ param.baud # NoBaud)
           \/ pc' = "verify" /\ param.baud # NoBaud /\ \A r \in Inbox' : IsConfig(r) => r.cfg.baud = tty'.baud
    BY <1>1, <2>1, Opens, Zenon
  <2>3. Follows /\ pc' \in Places /\ pc # "config"
    BY <1>0, <1>1, <2>1, <2>2 DEF Follows, Written, Unloaded, Rounds, Probing, After, Places
  <2>4. pc' \in Reading => \A r \in Inbox' : IsConfig(r) => r.cfg.baud = tty'.baud
    BY <2>2 DEF Reading
  <2> QED
    BY <1>0, <1>1, <2>2, <2>3, <2>4, Moves, RoundBegun, Zenon
<1>5. CASE OpenForUpdate
  <2>1. pc = "update" /\ device_open(tty.baud, tty.flow, "updating", "flowctl")
    BY <1>5 DEF OpenForUpdate
  <2>2. /\ LineKept
        /\ \/ pc' = "exit" \/ (pc' = "flowctl" /\ tty.baud # NoBaud)
           \/ pc' = "updating" /\ tty.baud # NoBaud /\ \A r \in Inbox' : IsConfig(r) => r.cfg.baud = tty'.baud
    BY <1>1, <2>1, Opens, Zenon
  <2>3. Follows /\ pc' \in Places /\ pc # "config"
    BY Zenon, <1>0, <1>1, <2>1, <2>2 DEF Follows, Written, Unloaded, Rounds, Probing, After, Places
  <2>4. pc' \in Reading => \A r \in Inbox' : IsConfig(r) => r.cfg.baud = tty'.baud
    BY <2>2 DEF Reading
  <2> QED
    BY <1>0, <1>1, <2>2, <2>3, <2>4, Moves, RoundBegun, Zenon
<1> QED
  BY <1>2, <1>3, <1>4, <1>5, Zenon

LEMMA MainSteps ==
    ASSUME ConfigInv, ProbeExit \/ Returned \/ FlowctlReturned
    PROVE  ConfigInv'
<1>0. /\ UNCHANGED <<parse_file_ok, param, orig, flowctl_enable, is_config_same, tries, ret, fret, tty>>
      /\ rcp' = rcp /\ flight' = flight /\ inbox' = inbox
      /\ \/ pc = "probe_open" /\ pc' = "exit"
         \/ pc = "returned" /\ pc' = IF ret \/ tries = MaxTries THEN "update" ELSE "config"
         \/ pc = "flowctl_returned" /\ pc' = IF fret \/ ftries = MaxTries THEN "test" ELSE "flowctl"
  BY DEF ProbeExit, Returned, FlowctlReturned, mainVars, confVars, lineVars
<1>1. /\ ConfigType /\ RateInv /\ (pc \in Rounds => ~ret)
      /\ pc \in Rounds \cup {"returned", "update", "updating"} => ~fret
      /\ is_config_same' \in BOOLEAN /\ fret' \in BOOLEAN
  BY <1>0, RoundFacts, Zenon
<1>2. LineKept
  BY <1>0, <1>1, QuietLine, Zenon
<1>3. Follows /\ pc' \in Places /\ pc # "config"
  BY <1>0, <1>1 DEF Follows, Written, Unloaded, Rounds, Probing, After, Places
<1>4. pc' \notin Reading
  BY <1>0 DEF Reading
<1> QED
  BY <1>0, <1>1, <1>2, <1>3, <1>4, Moves, RoundBegun, Zenon

LEMMA FlowctlStep ==
    ASSUME ConfigInv, Flowctl
    PROVE  ConfigInv'
<1>0. UNCHANGED <<parse_file_ok, param, orig, flowctl_enable, is_config_same, tries, ret>> /\ pc = "flowctl"
  BY DEF Flowctl, confVars
<1>1. ConfigType /\ RateInv /\ is_config_same' \in BOOLEAN /\ fret \in BOOLEAN
  BY <1>0, RoundFacts, Zenon
<1>2. CASE UsbInterface \/ ~flowctl_enable
  <2>1. pc' = "flowctl_returned" /\ fret' = TRUE /\ rcp' = rcp /\ inbox' = inbox /\ flight' = flight
    BY <1>2 DEF Flowctl, lineVars
  <2>2. LineKept
    BY <1>1, <2>1, QuietLine, Zenon
  <2>3. Follows /\ pc' \in Places /\ pc # "config" /\ pc' \notin Reading /\ fret' \in BOOLEAN
    BY <1>0, <1>2, <2>1 DEF Follows, Written, Unloaded, Rounds, Probing, After, Places, Reading
  <2> QED
    BY <1>0, <1>1, <2>2, <2>3, Moves, RoundBegun, Zenon
<1>3. CASE ~(UsbInterface \/ ~flowctl_enable)
  <2>1. device_open(tty.baud, tty.flow, "flowctl_set", "flowctl_returned") /\ fret' = fret
    BY <1>3, Zenon DEF Flowctl
  <2>2. LineKept /\ (pc' = "exit" \/ pc' = "flowctl_returned" \/ pc' = "flowctl_set")
    BY <1>1, <2>1, Opens, Zenon
  <2>3. Follows /\ pc' \in Places /\ pc # "config" /\ pc' \notin Reading
    <3>1. flowctl_enable /\ (fret' => fret \/ UsbInterface \/ ~flowctl_enable)
      BY <1>3, <2>1, Zenon
    <3>2. pc' = "exit" \/ pc' = "flowctl_returned" \/ pc' = "flowctl_set"
      BY <2>2, Zenon
    <3>3. /\ pc' \in Places /\ pc # "config" /\ pc' \notin Reading /\ pc # "exit"
          /\ pc \notin {"config", "file_open", "exit"} /\ pc' \in Unloaded \cup {"flowctl_set"}
          /\ pc' \notin Written \cup Probing \cup Rounds \cup {"decide", "returned", "update", "updating"}
      BY <1>0, <3>2 DEF Written, Unloaded, Rounds, Probing, Places, Reading
    <3> QED
      BY <3>1, <3>3, Zenon DEF Follows
  <2> QED
    BY <1>0, <1>1, <2>1, <2>2, <2>3, Moves, RoundBegun, Zenon
<1> QED
  BY <1>2, <1>3, Zenon

\* What the configuration keeps while the update runs, and when it returns.
LEMMA UpdateKeeps ==
    ASSUME ConfigInv, UpdateStep \/ RcpReboots \/ UpdateDone \/ UpdateExits
    PROVE  ConfigInv'
<1>0. /\ UNCHANGED <<parse_file_ok, param, orig, flowctl_enable, is_config_same, tries, ret, fret, tty>>
      /\ (rcp' = rcp \/ rcp' = Rebooted) /\ flight' = flight /\ (inbox' = inbox \/ inbox' = <<>>)
      /\ pc = "updating" /\ (pc' = "updating" \/ pc' = "flowctl" \/ pc' = "exit")
  BY DEF UpdateStep, RcpReboots, UpdateDone, UpdateReturns, UpdateExits, mainVars, confVars, lineVars
<1>1. /\ ConfigType /\ RateInv /\ is_config_same' \in BOOLEAN /\ fret' \in BOOLEAN
      /\ pc \in Rounds \cup {"returned", "update", "updating"} => ~fret
  BY <1>0, RoundFacts, Zenon
<1>2. LineKept
  BY <1>0, <1>1, QuietLine, Zenon
<1>3. Follows /\ pc' \in Places /\ pc # "config" /\ pc' \notin Reading
  BY <1>0, <1>1 DEF Follows, Written, Unloaded, Rounds, Probing, After, Places, Reading
<1> QED
  BY <1>0, <1>1, <1>2, <1>3, Moves, RoundBegun, Zenon

\* rtkrcp_config_read before a check, the read of the last test, and a check
\* that gets no answer.
LEMMA ReadSteps ==
    ASSUME ConfigInv, NEW o \in ConfigRequest([op |-> "read"]), Exchanged(o), inbox' \in {<<>>, o.left},
           UNCHANGED <<parse_file_ok, param, orig, flowctl_enable, is_config_same, tries, ret, fret, tty>>,
           \/ pc = "file_read" /\ pc' = "file_check"
           \/ pc = "probe_read" /\ pc' = "probe_check"
           \/ pc = "file_check" /\ pc' \in {"file_open", "probe_open"}
           \/ pc = "probe_check" /\ pc' = "probe_open"
           \/ pc = "test" /\ pc' = "done"
    PROVE  ConfigInv'
<1>1. /\ ConfigType /\ RateInv /\ (pc \in Rounds => ~ret)
      /\ pc \in Rounds \cup {"returned", "update", "updating"} => ~fret
      /\ is_config_same' \in BOOLEAN /\ fret' \in BOOLEAN
  BY RoundFacts, Zenon
<1>2. LineKept
  BY <1>1, ReadKeeps, Zenon
<1>3. pc \in Reading => \A r \in Inbox' : IsConfig(r) => r.cfg.baud = tty.baud
  BY <1>1, ReadLine, Zenon
<1>4. Follows /\ pc' \in Places /\ pc # "config" /\ (pc' \in Reading => pc \in Reading)
  BY <1>1 DEF Follows, Written, Unloaded, Rounds, Probing, After, Places, Reading
<1> QED
  BY <1>1, <1>2, <1>3, <1>4, Moves, RoundBegun, Zenon

LEMMA ArriveLine ==
    ASSUME ConfigType, RateInv, Arrive
    PROVE  /\ LineKept /\ Pending # {}
           /\ \A r \in Inbox' : r \in Inbox \/ (IsConfig(r) => r.cfg.baud = tty.baud)
<1>0. rcp' = rcp /\ rcp \in [cfg : Cfg, baud : Nat, flow : BOOLEAN]
  BY Zenon DEF Arrive, ConfigType
<1> DEFINE f == Head(flight)
<1>1. inbox \in Seq(Reply) /\ flight \in Seq(Late) /\ flight # <<>>
  BY Zenon DEF Arrive, ConfigType
<1>2. PICK l \in Late : TRUE
  <2>1. [resp |-> Ok(TRUE), baud |-> 0] \in Late
    BY Zenon, Answers DEF Late
  <2> QED
    BY <2>1, ZenonT(30)
<1>3. f \in Flight /\ Range(Tail(flight)) \subseteq Flight /\ Tail(flight) \in Seq(Late)
  BY <1>1, <1>2, Frames DEF Flight
<1>4. f.resp \in Reply /\ f.resp \in Pending
  BY <1>3, PendingTypes, Zenon
<1> HIDE DEF f
<1>5. Append(inbox, f.resp) \in Seq(Reply) /\ Range(Append(inbox, f.resp)) = Inbox \cup {f.resp}
  BY <1>1, <1>4, Frames DEF Inbox
<1>6. flight' = Tail(flight) /\ inbox' = IF f.baud = tty.baud THEN Append(inbox, f.resp) ELSE inbox
  BY Zenon DEF Arrive, f
<1>7. inbox' \in Seq(Reply) /\ flight' \in Seq(Late) /\ Flight' \subseteq Flight
      /\ \A r \in Inbox' : r \in Inbox \/ (r = f.resp /\ f.baud = tty.baud)
  BY <1>1, <1>3, <1>5, <1>6, Zenon DEF Flight, Inbox
<1>8. Pending' \subseteq Pending
  BY <1>4, <1>7, Zenon DEF Pending
<1>9. \A r \in Inbox' : r \in Inbox \/ (IsConfig(r) => r.cfg.baud = tty.baud)
  BY <1>3, <1>7, Zenon DEF RateInv
<1>10. \A g \in Flight' : IsConfig(g.resp) => g.baud = g.resp.cfg.baud
  BY <1>7, Zenon DEF RateInv
<1>11. Pending # {}
  BY <1>4, Zenon
<1> QED
  BY <1>0, <1>7, <1>8, <1>9, <1>10, <1>11, Zenon DEF LineKept

LEMMA LateStep ==
    ASSUME ConfigInv, LateResponse
    PROVE  ConfigInv'
<1>0. /\ UNCHANGED <<pc, parse_file_ok, param, orig, flowctl_enable, is_config_same, tries, ret, fret, tty>>
      /\ Arrive
  BY Zenon DEF LateResponse, Arrive, mainVars, confVars
<1>1. /\ ConfigType /\ RateInv /\ (pc \in Rounds => ~ret)
      /\ pc \in Rounds \cup {"returned", "update", "updating"} => ~fret
      /\ pc \in Places /\ is_config_same \in BOOLEAN /\ fret \in BOOLEAN
  BY RoundFacts, Zenon
<1>2. LineKept /\ Pending # {} /\ \A r \in Inbox' : r \in Inbox \/ (IsConfig(r) => r.cfg.baud = tty.baud)
  BY <1>0, <1>1, ArriveLine, Zenon
<1>3. tries # 0
  BY <1>2, Zenon DEF ConfigInv, FirstInv
<1>4. pc' \in Reading => \A r \in Inbox' : IsConfig(r) => r.cfg.baud = tty'.baud
  BY <1>0, <1>1, <1>2, Zenon DEF RateInv
<1>5. Follows
  <2>1. pc \in After => pc # "exit"
    BY DEF After
  <2> QED
    BY <1>0, <1>1, <2>1, Zenon DEF Follows
<1> QED
  BY <1>0, <1>1, <1>2, <1>3, <1>4, <1>5, Moves, Zenon

LEMMA ConfigStutters ==
    ASSUME ConfigInv, UNCHANGED vars
    PROVE  ConfigInv'
<1>0. UNCHANGED <<pc, parse_file_ok, param, orig, flowctl_enable, is_config_same, tries, ret, fret, tty>>
      /\ UNCHANGED <<rcp, inbox, flight>>
  BY Zenon DEF vars, mainVars, confVars, lineVars
<1>1. Inbox' = Inbox /\ Flight' = Flight
  BY <1>0, Zenon DEF Inbox, Flight
<1>2. Pending' = Pending
  BY <1>1, Zenon DEF Pending
<1>3. ConfigType' /\ RateInv' /\ FileInv'
  BY <1>0, <1>1, <1>2, Zenon DEF ConfigInv, ConfigType, RateInv, FileInv
<1>4. ReadInv' /\ FlowInv'
  BY <1>0, <1>2, Zenon DEF ConfigInv, ReadInv, FlowInv
<1>5. SameInv'
  BY <1>0, <1>2, Zenon DEF ConfigInv, SameInv
<1>6. FirstInv'
  BY <1>0, <1>2, Zenon DEF ConfigInv, FirstInv
<1> QED
  BY <1>3, <1>4, <1>5, <1>6, Zenon DEF ConfigInv

LEMMA EnterStep ==
    ASSUME ConfigInv, EnterConfig
    PROVE  ConfigInv'
<1>0. /\ UNCHANGED <<parse_file_ok, param, orig, flowctl_enable, ret, fret, tty, rcp, inbox, flight>>
      /\ pc = "config" /\ tries' = tries + 1 /\ is_config_same' = FALSE
      /\ pc' = IF parse_file_ok THEN "file_open" ELSE "probe_open"
  BY DEF EnterConfig, lineVars
<1>1. ConfigType /\ RateInv /\ FileInv /\ ReadInv /\ FlowInv /\ SameInv /\ FirstInv
  BY Zenon DEF ConfigInv
<1>2. Inbox' = Inbox /\ Flight' = Flight
  BY <1>0, Zenon DEF Inbox, Flight
<1>3. Pending' = Pending
  BY <1>2, ZenonT(30) DEF Pending
<1>4. /\ pc' \in Places /\ pc' \notin Reading \cup Written \cup After \cup {"decide", "flowctl_set", "returned", "update"}
      /\ pc \in Rounds /\ pc' \in Probing /\ pc' # "config" /\ (parse_file_ok => pc' = "file_open")
      /\ ~parse_file_ok => pc' \in Unloaded
  BY <1>0 DEF Places, Reading, Written, After, Rounds, Probing, Unloaded
<1>5. tries \in Nat /\ tries' \in Nat /\ tries' # 0 /\ (tries' = 1 => tries = 0)
  BY <1>0, <1>1 DEF ConfigType
<1>6. ConfigType'
  BY <1>0, <1>1, <1>4, <1>5, Zenon DEF ConfigType
<1>7. RateInv'
  BY <1>0, <1>1, <1>2, <1>3, <1>4, Zenon DEF RateInv
<1>8. FileInv'
  BY <1>0, <1>1, <1>4, Zenon DEF FileInv
<1>9. ReadInv'
  BY <1>0, <1>1, <1>3, <1>4, Zenon DEF ReadInv
<1>10. FlowInv'
  BY <1>0, <1>1, <1>4, Zenon DEF FlowInv, Written
<1>11. SameInv'
  BY <1>0, <1>1, <1>3, <1>4, Zenon DEF SameInv
<1>12. FirstInv'
  BY <1>0, <1>1, <1>3, <1>4, <1>5, Zenon DEF FirstInv, Written
<1> QED
  BY <1>6, <1>7, <1>8, <1>9, <1>10, <1>11, <1>12, Zenon DEF ConfigInv

LEMMA NothingStep ==
    ASSUME ConfigInv, NothingToDo
    PROVE  ConfigInv'
<1>0. /\ UNCHANGED <<parse_file_ok, param, orig, flowctl_enable, is_config_same, tries, fret, tty, rcp, inbox, flight>>
      /\ pc = "decide" /\ is_config_same /\ pc' = "returned" /\ ret' = TRUE
  BY DEF NothingToDo, confVars, lineVars
<1>1. ConfigType /\ RateInv /\ FileInv /\ ReadInv /\ FlowInv /\ SameInv /\ FirstInv
  BY Zenon DEF ConfigInv
<1>2. Inbox' = Inbox /\ Flight' = Flight
  BY <1>0, Zenon DEF Inbox, Flight
<1>3. Pending' = Pending
  BY <1>2, Zenon DEF Pending
<1>4. /\ pc' \in Places /\ pc' \in After /\ pc \in Rounds
      /\ pc' \notin Reading \cup Written \cup Rounds \cup Probing \cup {"decide", "flowctl_set", "config"}
      /\ pc \notin Unloaded /\ pc \notin {"config", "file_open", "exit"}
  BY <1>0 DEF Places, Reading, Written, After, Rounds, Probing, Unloaded
<1>5. param \in Cfg /\ orig \in Cfg /\ flowctl_enable \in BOOLEAN /\ tries \in Nat
  BY <1>1, Zenon DEF ConfigType
<1>6. rcp.cfg = param /\ ~param.flow /\ tty.baud = rcp.baud
  BY <1>0, <1>1, Zenon DEF SameInv
<1>7. NoFlow(param) = param
  BY <1>5, <1>6, NoFlowFacts, Zenon
<1>8. tries # 0
  BY <1>0, RoundBegun
<1>9. ConfigType'
  BY <1>0, <1>1, <1>4, Zenon DEF ConfigType
<1>10. RateInv'
  BY <1>0, <1>1, <1>2, <1>3, <1>4, Zenon DEF RateInv
<1>11. FileInv'
  BY <1>0, <1>1, <1>4, Zenon DEF FileInv
<1>12. ReadInv'
  BY <1>0, <1>1, <1>3, <1>4, Zenon DEF ReadInv
<1>13. FlowInv'
  BY <1>0, <1>1, <1>4, Zenon DEF FlowInv, Written
<1>14. SameInv'
  BY <1>0, <1>1, <1>3, <1>4, <1>6, <1>7, Zenon DEF SameInv
<1>15. FirstInv'
  <2>1. tries = 1 => /\ NoFlow(rcp.cfg) = NoFlow(orig) /\ ~flowctl_enable /\ ~orig.flow
                     /\ ~rcp.cfg.flow /\ Ok(TRUE) \notin Pending
    <3>1. tries = 1 => orig = param /\ ~flowctl_enable /\ \A r \in Pending : IsConfig(r)
      BY <1>0, <1>1, Zenon DEF FirstInv
    <3> QED
      BY <1>6, <3>1, Answers, Zenon
  <2>2. tries = 1 => flowctl_enable = orig.flow
    BY <1>5, <2>1 DEF Cfg
  <2>3. ~fret
    BY <1>0, <1>1, <1>4, Zenon DEF FirstInv
  <2> QED
    BY <1>0, <1>3, <1>4, <1>8, <2>1, <2>2, <2>3, Zenon DEF FirstInv, Written
<1> QED
  BY <1>9, <1>10, <1>11, <1>12, <1>13, <1>14, <1>15, Zenon DEF ConfigInv

LEMMA ForceStep ==
    ASSUME ConfigInv, ForceNoFlow
    PROVE  ConfigInv'
<1>0. /\ UNCHANGED <<parse_file_ok, orig, is_config_same, tries, ret, fret, tty, rcp, flight>>
      /\ pc = "decide" /\ flowctl_enable' = param.flow /\ param' = NoFlow(param)
      /\ inbox' = <<>> /\ pc' = "write"
  BY DEF ForceNoFlow, mainVars
<1>1. ConfigType /\ RateInv /\ FileInv /\ ReadInv /\ FlowInv /\ SameInv /\ FirstInv
  BY Zenon DEF ConfigInv
<1>2. inbox' \in Seq(Reply) /\ Inbox' = {} /\ Flight' = Flight
  <2>1. <<>> \in Seq(Reply) /\ Range(<<>>) = {}
    BY DEF Range
  <2> QED
    BY <1>0, <2>1, Zenon DEF Inbox, Flight
<1>3. Pending' \subseteq Pending
  BY <1>2, Zenon DEF Pending
<1>4. /\ pc' \in Places /\ pc \in Rounds /\ pc' \in Written /\ pc' \in Rounds
      /\ pc' \notin Reading \cup After \cup Probing \cup {"decide", "flowctl_set", "config", "returned", "update"}
      /\ pc \notin Unloaded /\ pc \notin {"config", "file_open", "exit"}
  BY <1>0 DEF Places, Reading, Written, After, Rounds, Probing, Unloaded
<1>5. param \in Cfg /\ orig \in Cfg /\ param.flow \in BOOLEAN
  BY <1>1 DEF ConfigType, Cfg
<1>6. /\ NoFlow(param) \in Cfg /\ NoFlow(NoFlow(param)) = NoFlow(param) /\ ~NoFlow(param).flow
      /\ NoFlow(param).baud = param.baud
  BY <1>5, NoFlowFacts, Zenon
<1>7. tries # 0
  BY <1>0, RoundBegun
<1>8. ConfigType'
  BY <1>0, <1>1, <1>2, <1>4, <1>5, <1>6, Zenon DEF ConfigType
<1>9. RateInv'
  BY <1>0, <1>1, <1>2, <1>3, <1>4, Zenon DEF RateInv
<1>10. FileInv'
  BY <1>0, <1>1, <1>4, <1>6, Zenon DEF FileInv
<1>11. ReadInv'
  BY <1>0, <1>1, <1>3, <1>4, <1>6, Zenon DEF ReadInv
<1>12. FlowInv'
  <2>1. param.flow => orig # ZeroConfig /\ orig.flow
    <3>1. CASE parse_file_ok
      <4>1. NoFlow(orig) = NoFlow(param) /\ (param.flow => orig.flow) /\ param.baud # NoBaud
        BY <1>1, <1>4, <3>1, Zenon DEF FileInv
      <4>2. orig.baud = param.baud
        BY Zenon, <1>5, <4>1, NoFlowFacts
      <4> QED
        BY <4>1, <4>2, ZeroFacts, Zenon
    <3>2. CASE ~parse_file_ok
      BY <1>1, <1>4, <3>2, Zenon DEF ReadInv
    <3> QED
      BY <3>1, <3>2, Zenon
  <2> QED
    BY <1>0, <1>4, <1>6, <2>1, Zenon DEF FlowInv, Written
<1>13. SameInv'
  BY <1>0, <1>1, <1>3, <1>4, <1>6, Zenon DEF SameInv
<1>14. FirstInv'
  <2>1. tries = 1 => orig = param /\ \A r \in Pending : IsConfig(r)
    BY <1>0, <1>1, Zenon DEF FirstInv
  <2>2. ~fret
    BY <1>0, <1>1, <1>4, Zenon DEF FirstInv
  <2> QED
    BY <1>0, <1>3, <1>4, <1>7, <2>1, <2>2, Answers, Zenon DEF FirstInv, Written
<1> QED
  BY <1>8, <1>9, <1>10, <1>11, <1>12, <1>13, <1>14, Zenon DEF ConfigInv

\* rtkrcp_config_write writes what was loaded, without flow control.
LEMMA WriteStep ==
    ASSUME ConfigInv, WriteConfig
    PROVE  ConfigInv' /\ (NoFlow(rcp'.cfg) # NoFlow(rcp.cfg) => NoFlow(rcp'.cfg) = NoFlow(orig))
                      /\ (rcp'.cfg.flow => rcp.cfg.flow)
<1> DEFINE q == [op |-> "write", cfg |-> param]
<1>0. /\ UNCHANGED <<parse_file_ok, param, orig, flowctl_enable, is_config_same, tries, ret, fret, tty>>
      /\ pc = "write"
  BY DEF WriteConfig, mainVars, confVars
<1>00. PICK o \in ConfigRequest(q) :
         Exchanged(o) /\ inbox' = o.left /\ pc' = IF o.r = Ok(TRUE) THEN "reopen" ELSE "returned"
  BY Zenon DEF WriteConfig
<1>1. ConfigType /\ RateInv /\ FileInv /\ ReadInv /\ FlowInv /\ SameInv /\ FirstInv
  BY Zenon DEF ConfigInv
<1>2. /\ q.op # "read" /\ Handle(q).resp = Ok(TRUE) /\ Handle(q).rcp.cfg = param
      /\ Handle(q).rcp.baud = param.baud /\ Handle(q).rcp \in [cfg : Cfg, baud : Nat, flow : BOOLEAN]
  <2>1. q.op # "read"
    OBVIOUS
  <2> QED
    BY <1>1, <2>1, Handled, Zenon
<1> HIDE DEF q
<1>3. /\ inbox' \in Seq(Reply) /\ flight' \in Seq(Late)
      /\ rcp' = rcp \/ rcp' = Handle(q).rcp
      /\ Pending' \subseteq Pending \cup {Ok(TRUE), Ok(FALSE)}
      /\ \A f \in Flight' : IsConfig(f.resp) => f.baud = f.resp.cfg.baud
      /\ o.r = Ok(TRUE) => Ok(TRUE) \in Pending \/ Pending' \subseteq Pending
  BY <1>00, <1>1, <1>2, StatusLine, Zenon
<1>4. \A r \in Pending' : IsConfig(r) => r \in Pending
  BY <1>3, Answers, Zenon
<1>5. param \in Cfg /\ orig \in Cfg /\ rcp.cfg \in Cfg /\ rcp \in [cfg : Cfg, baud : Nat, flow : BOOLEAN]
  BY <1>1, PendingTypes, Zenon DEF ConfigType
<1>6. /\ pc' \in {"reopen", "returned"} /\ pc' \in Places /\ pc \in Rounds /\ pc \in Written
      /\ pc' \notin Reading \cup Probing \cup {"decide", "flowctl_set", "config"}
      /\ pc \notin Unloaded /\ pc \notin {"config", "file_open", "exit"}
      /\ pc' \in Rounds \cup {"returned", "update"} /\ (pc' \in Written => o.r = Ok(TRUE))
  BY Zenon, <1>0, <1>00 DEF Places, Reading, Written, Rounds, Probing, Unloaded
<1>7. ~param.flow /\ NoFlow(param) = param
  <2>1. ~param.flow
    BY <1>0, <1>1, Zenon DEF FlowInv
  <2> QED
    BY <1>5, <2>1, NoFlowFacts, Zenon
<1>8. ~parse_file_ok => /\ orig # ZeroConfig /\ NoFlow(param) = NoFlow(rcp.cfg) /\ NoFlow(orig) = NoFlow(rcp.cfg)
                        /\ param.baud = rcp.cfg.baud
  <2>1. ~parse_file_ok => orig # ZeroConfig /\ NoFlow(param) = NoFlow(rcp.cfg) /\ NoFlow(orig) = NoFlow(rcp.cfg)
    BY <1>1, <1>6, Zenon DEF ReadInv
  <2> QED
    BY <1>5, <2>1, NoFlowFacts, Zenon
<1>9. param.baud # NoBaud
  BY <1>1, <1>6, <1>8, Zenon DEF FileInv, RateInv
<1>10. rcp'.cfg = rcp.cfg \/ rcp'.cfg = param
  BY <1>2, <1>3, Zenon
<1>11. ConfigType'
  BY <1>0, <1>1, <1>2, <1>3, <1>5, <1>6, Zenon DEF ConfigType
<1>12. RateInv'
  <2>1. rcp'.baud = rcp'.cfg.baud /\ rcp'.cfg.baud # NoBaud
    BY <1>1, <1>2, <1>3, <1>9, Zenon DEF RateInv
  <2> QED
    BY <1>1, <1>3, <1>4, <1>6, <2>1, Zenon DEF RateInv
<1>13. FileInv'
  BY <1>0, <1>1, <1>6, Zenon DEF FileInv
<1>14. ReadInv'
  <2>1. ~parse_file_ok => NoFlow(rcp'.cfg) = NoFlow(rcp.cfg)
    BY <1>8, <1>10, Zenon
  <2>2. rcp'.cfg.flow => rcp.cfg.flow
    BY <1>7, <1>10, Zenon
  <2> QED
    BY <1>0, <1>1, <1>4, <1>6, <1>8, <2>1, <2>2, Zenon DEF ReadInv
<1>15. FlowInv'
  BY <1>0, <1>1, <1>6, <1>7, Zenon DEF FlowInv
<1>16. SameInv'
  <2>1. ASSUME NEW r \in Pending', IsConfig(r), ~r.cfg.flow, parse_file_ok => r.cfg = NoFlow(param)
        PROVE  rcp'.cfg = r.cfg
    <3>1. r \in Pending /\ r.cfg \in Cfg
      BY <1>1, <1>4, <2>1, PendingTypes, ReplyFacts, Zenon
    <3>2. rcp.cfg = r.cfg
      BY <1>0, <1>1, <1>6, <2>1, <3>1, Zenon DEF SameInv
    <3>3. CASE parse_file_ok
      BY <1>7, <1>10, <2>1, <3>2, <3>3, Zenon
    <3>4. CASE ~parse_file_ok
      <4>1. NoFlow(rcp.cfg) = rcp.cfg
        BY <1>5, <2>1, <3>2, NoFlowFacts, Zenon
      <4> QED
        BY <1>7, <1>8, <1>10, <3>2, <3>4, <4>1, Zenon
    <3> QED
      BY <3>3, <3>4, Zenon
  <2>2. ~ret
    BY <1>0, <1>1, <1>6, Zenon DEF SameInv
  <2> QED
    BY <1>0, <1>6, <2>1, <2>2, Zenon DEF SameInv
<1>17. FirstInv'
  <2>1. ~ret /\ ~fret
    BY <1>0, <1>1, <1>6, Zenon DEF SameInv, FirstInv
  <2>2. tries = 1 => flowctl_enable = orig.flow /\ \A r \in Pending : r # Ok(TRUE)
    BY <1>0, <1>1, Zenon DEF FirstInv
  <2>3. tries = 1 /\ pc' \in Written => \A r \in Pending' : r # Ok(TRUE)
    BY <1>3, <1>6, <2>2, Zenon
  <2>4. tries # 0
    BY <1>0, RoundBegun
  <2> QED
    BY <1>0, <1>6, <2>1, <2>2, <2>3, <2>4, Zenon DEF FirstInv, Written
<1>18. NoFlow(rcp'.cfg) # NoFlow(rcp.cfg) => NoFlow(rcp'.cfg) = NoFlow(orig)
  BY <1>1, <1>8, <1>10, Zenon DEF FileInv
<1>19. rcp'.cfg.flow => rcp.cfg.flow
  BY <1>7, <1>10, Zenon
<1> QED
  BY <1>11, <1>12, <1>13, <1>14, <1>15, <1>16, <1>17, <1>18, <1>19, Zenon DEF ConfigInv

\* What a response to a read says of the RCP, whenever it was sent.
LEMMA AnswerFacts ==
    ASSUME ConfigInv, pc \in Reading, pc \in Rounds, NEW r \in Reply, r \in Pending \cup {Current},
           IsConfig(r) => r.cfg.baud = tty.baud
    PROVE  /\ IsConfig(r) => r.cfg \in Cfg /\ r.cfg.baud # NoBaud
           /\ ~parse_file_ok /\ IsConfig(r) => NoFlow(r.cfg) = NoFlow(rcp.cfg)
           /\ ~parse_file_ok /\ orig = ZeroConfig => IsConfig(r) /\ r.cfg = rcp.cfg
           /\ ~parse_file_ok /\ orig # ZeroConfig /\ IsConfig(r) /\ r.cfg.flow => orig.flow
           /\ IsConfig(r) /\ ~r.cfg.flow /\ (parse_file_ok => r.cfg = NoFlow(param)) => rcp.cfg = r.cfg
           /\ Loaded(r) = (IF IsConfig(r) /\ ~parse_file_ok THEN r.cfg ELSE param) /\ Loaded(r) \in Cfg
           /\ SameConfig(r) <=> IsConfig(r) /\ Loaded(r) = r.cfg /\ ~Loaded(r).flow
<1>1. ConfigType /\ RateInv /\ FileInv /\ ReadInv /\ FlowInv /\ SameInv /\ FirstInv
  BY Zenon DEF ConfigInv
<1>2. rcp.cfg \in Cfg /\ param \in Cfg
  BY <1>1, PendingTypes, Zenon DEF ConfigType
<1>3. IsConfig(Current) /\ Current.cfg = rcp.cfg
  BY <1>2, Answers, Zenon
<1>4. IsConfig(r) => r.cfg \in Cfg /\ r.cfg.baud # NoBaud
  BY <1>1, <1>3, ReplyFacts, Zenon DEF RateInv
<1>5. /\ ~parse_file_ok /\ IsConfig(r) => NoFlow(r.cfg) = NoFlow(rcp.cfg)
      /\ ~parse_file_ok /\ orig = ZeroConfig => IsConfig(r) /\ r.cfg = rcp.cfg
      /\ ~parse_file_ok /\ orig # ZeroConfig /\ IsConfig(r) /\ r.cfg.flow => orig.flow
  BY <1>1, <1>3, Zenon DEF ReadInv
<1>6. IsConfig(r) /\ ~r.cfg.flow /\ (parse_file_ok => r.cfg = NoFlow(param)) => rcp.cfg = r.cfg
  BY <1>1, <1>3, Zenon DEF SameInv
<1>7. Loaded(r) = (IF IsConfig(r) /\ ~parse_file_ok THEN r.cfg ELSE param)
  BY Zenon DEF Loaded, IsConfig
<1>8. Loaded(r) \in Cfg
  BY <1>2, <1>4, <1>7, Zenon
<1>9. SameConfig(r) <=> IsConfig(r) /\ Loaded(r) = r.cfg /\ ~Loaded(r).flow
  BY Zenon DEF SameConfig, IsConfig
<1> QED
  BY <1>4, <1>5, <1>6, <1>7, <1>8, <1>9, Zenon

\* rtkrcp_config_check of an answer in the hunt for the rate.
LEMMA CheckAnswer ==
    ASSUME ConfigInv, pc \in {"file_check", "probe_check"}, NEW o \in ConfigRequest([op |-> "read"]),
           Exchanged(o), inbox' = o.left, o.r # Timeout,
           pc' = IF WrongIc(o.r) THEN "exit" ELSE "decide",
           param' = Loaded(o.r), orig' = LoadedFirst(o.r), is_config_same' = SameConfig(o.r),
           UNCHANGED <<parse_file_ok, flowctl_enable, tries, ret, fret, tty>>
    PROVE  ConfigInv'
<1> DEFINE r == o.r
<1>1. ConfigType /\ RateInv /\ FileInv /\ ReadInv /\ FlowInv /\ SameInv /\ FirstInv
  BY ZenonT(60) DEF ConfigInv
<1>2. /\ pc \in Reading /\ pc \in Rounds /\ pc \in Probing /\ pc # "decide" /\ pc # "config"
      /\ pc \notin {"config", "file_open", "exit"} /\ pc' \in {"exit", "decide"}
      /\ pc' \in Places /\ pc' \notin Reading \cup Probing \cup Written \cup After \cup {"flowctl_set", "config", "returned", "update"}
      /\ pc' \in Rounds => pc' = "decide"
  BY DEF Places, Reading, Rounds, Probing, Written, After
<1>3. /\ rcp' = rcp /\ inbox' \in Seq(Reply) /\ flight' \in Seq(Late)
      /\ Pending' \subseteq Pending \cup {Current}
      /\ \A f \in Flight' : IsConfig(f.resp) => f.baud = f.resp.cfg.baud
      /\ r \in Reply /\ r \in Pending \cup {Current} /\ (IsConfig(r) => r.cfg.baud = tty.baud)
  BY <1>1, <1>2, ReadLine, Zenon
<1>4. /\ IsConfig(r) => r.cfg \in Cfg /\ r.cfg.baud # NoBaud
      /\ ~parse_file_ok /\ IsConfig(r) => NoFlow(r.cfg) = NoFlow(rcp.cfg)
      /\ ~parse_file_ok /\ orig = ZeroConfig => IsConfig(r) /\ r.cfg = rcp.cfg
      /\ ~parse_file_ok /\ orig # ZeroConfig /\ IsConfig(r) /\ r.cfg.flow => orig.flow
      /\ IsConfig(r) /\ ~r.cfg.flow /\ (parse_file_ok => r.cfg = NoFlow(param)) => rcp.cfg = r.cfg
      /\ Loaded(r) = (IF IsConfig(r) /\ ~parse_file_ok THEN r.cfg ELSE param) /\ Loaded(r) \in Cfg
      /\ SameConfig(r) <=> IsConfig(r) /\ Loaded(r) = r.cfg /\ ~Loaded(r).flow
  BY <1>2, <1>3, AnswerFacts, Zenon
<1>5. SameConfig(r) \in BOOLEAN
  BY Zenon DEF SameConfig
<1>6. param' = Loaded(r) /\ orig' = (IF orig = ZeroConfig THEN Loaded(r) ELSE orig)
      /\ is_config_same' = SameConfig(r)
  BY Zenon DEF LoadedFirst
<1> HIDE DEF r
<1>7. /\ IsConfig(Current) /\ Current.cfg = rcp.cfg /\ rcp.cfg \in Cfg
      /\ \A x \in Pending' : x \in Pending \/ x = Current
  BY <1>1, <1>3, PendingTypes, Answers, Zenon
<1>8. param \in Cfg /\ orig \in Cfg
  BY <1>1, Zenon DEF ConfigType
<1>9. tries # 0
  BY <1>2, RoundBegun, Zenon
<1>10. ConfigType'
  BY <1>1, <1>2, <1>3, <1>4, <1>5, <1>6, <1>8, Zenon DEF ConfigType
<1>11. RateInv'
  BY <1>1, <1>2, <1>3, <1>7, Zenon DEF RateInv
<1>12. FileInv'
  BY <1>1, <1>2, <1>4, <1>6, Zenon DEF FileInv
<1>13. ~parse_file_ok =>
         /\ orig' # ZeroConfig /\ NoFlow(param') = NoFlow(rcp.cfg) /\ NoFlow(orig') = NoFlow(rcp.cfg)
         /\ (param'.flow => orig'.flow) /\ (rcp.cfg.flow => orig'.flow)
         /\ \A x \in Pending' : /\ IsConfig(x) => NoFlow(x.cfg) = NoFlow(rcp.cfg)
                                /\ IsConfig(x) /\ x.cfg.flow => orig'.flow
  <2> SUFFICES ASSUME ~parse_file_ok
               PROVE  /\ orig' # ZeroConfig /\ NoFlow(param') = NoFlow(rcp.cfg) /\ NoFlow(orig') = NoFlow(rcp.cfg)
                      /\ (param'.flow => orig'.flow) /\ (rcp.cfg.flow => orig'.flow)
                      /\ \A x \in Pending' : /\ IsConfig(x) => NoFlow(x.cfg) = NoFlow(rcp.cfg)
                                             /\ IsConfig(x) /\ x.cfg.flow => orig'.flow
    BY Zenon
  <2>1. \A x \in Pending' : IsConfig(x) => NoFlow(x.cfg) = NoFlow(rcp.cfg)
    BY <1>1, <1>7, Zenon DEF ReadInv
  <2>2. CASE orig = ZeroConfig
    <3>1. param' = rcp.cfg /\ orig' = rcp.cfg
      BY <1>4, <1>6, <2>2, Zenon
    <3>2. orig' # ZeroConfig
      BY <1>1, <3>1, ZeroFacts, Zenon DEF RateInv
    <3>3. \A x \in Pending' : IsConfig(x) => x.cfg = rcp.cfg
      BY <1>1, <1>7, <2>2, Zenon DEF ReadInv
    <3> QED
      BY <2>1, <3>1, <3>2, <3>3, Zenon
  <2>3. CASE orig # ZeroConfig
    <3>1. /\ NoFlow(param) = NoFlow(rcp.cfg) /\ NoFlow(orig) = NoFlow(rcp.cfg)
          /\ (param.flow => orig.flow) /\ (rcp.cfg.flow => orig.flow)
          /\ \A x \in Pending' : IsConfig(x) /\ x.cfg.flow => orig.flow
      BY <1>1, <1>7, <2>3, Zenon DEF ReadInv
    <3>2. orig' = orig /\ NoFlow(param') = NoFlow(rcp.cfg) /\ (param'.flow => orig.flow)
      BY <1>4, <1>6, <2>3, <3>1, Zenon
    <3> QED
      BY <2>1, <2>3, <3>1, <3>2, Zenon
  <2> QED
    BY <2>2, <2>3, Zenon
<1>14. ReadInv'
  BY <1>3, <1>13, Zenon DEF ReadInv
<1>15. FlowInv'
  BY <1>1, <1>2, <1>6, Zenon DEF FlowInv, Written
<1>16. SameInv'
  <2>1. ASSUME NEW x \in Pending', IsConfig(x), ~x.cfg.flow, parse_file_ok => x.cfg = NoFlow(param')
        PROVE  rcp.cfg = x.cfg
    <3>1. parse_file_ok => param' = param
      BY <1>4, <1>6, Zenon
    <3> QED
      BY <1>1, <1>2, <1>7, <2>1, <3>1, Zenon DEF SameInv
  <2>2. ~ret
    BY <1>1, <1>2, Zenon DEF SameInv
  <2>3. SameConfig(r) => rcp.cfg = param' /\ ~param'.flow /\ tty.baud = rcp.baud
    <3> SUFFICES ASSUME SameConfig(r) PROVE rcp.cfg = param' /\ ~param'.flow /\ tty.baud = rcp.baud
      BY Zenon
    <3>1. IsConfig(r) /\ param' = r.cfg /\ ~param'.flow
      BY <1>4, <1>6, Zenon
    <3>2. parse_file_ok => r.cfg = NoFlow(param)
      <4>1. ~param.flow => NoFlow(param) = param
        BY <1>8, NoFlowFacts, Zenon
      <4> QED
        BY <1>4, <1>6, <3>1, <4>1, Zenon
    <3>3. rcp.cfg = r.cfg
      BY <1>4, <3>1, <3>2, Zenon
    <3> QED
      BY <1>1, <1>3, <3>1, <3>3, Zenon DEF RateInv
  <2> QED
    BY <1>2, <1>3, <1>6, <2>1, <2>2, <2>3, Zenon DEF SameInv
<1>17. FirstInv'
  <2>1. tries = 1 => /\ orig = param /\ ~flowctl_enable /\ \A x \in Pending' : IsConfig(x)
                     /\ ~parse_file_ok => orig = ZeroConfig
    BY <1>1, <1>2, <1>7, Zenon DEF FirstInv
  <2>2. ~fret
    BY <1>1, <1>2, Zenon DEF FirstInv
  <2>3. tries = 1 => orig' = param'
    BY <1>4, <1>6, <2>1, Zenon
  <2> QED
    BY <1>2, <1>9, <2>1, <2>2, <2>3, Zenon DEF FirstInv, Written
<1> QED
  BY <1>10, <1>11, <1>12, <1>14, <1>15, <1>16, <1>17, Zenon DEF ConfigInv

LEMMA CheckStep ==
    ASSUME ConfigInv, Check
    PROVE  ConfigInv' /\ rcp' = rcp
<1>1. ConfigType /\ RateInv
  BY ZenonT(60) DEF ConfigInv
<1>2. UNCHANGED <<parse_file_ok, flowctl_enable, tries, ret, fret, tty>> /\ pc \in {"file_check", "probe_check"}
  BY DEF Check, mainVars
<1>3. PICK o \in ConfigRequest([op |-> "read"]) :
         /\ Exchanged(o) /\ inbox' = o.left
         /\ \/ o.r = Timeout /\ pc' = NextOpen /\ UNCHANGED <<param, is_config_same, orig>>
            \/ /\ o.r # Timeout /\ pc' = (IF WrongIc(o.r) THEN "exit" ELSE "decide")
               /\ param' = Loaded(o.r) /\ orig' = LoadedFirst(o.r) /\ is_config_same' = SameConfig(o.r)
  BY Zenon DEF Check
<1>4. rcp' = rcp
  BY <1>1, <1>3, ReadLine, Zenon
<1>5. CASE o.r = Timeout
  <2>1. /\ pc = "file_check" => pc' \in {"file_open", "probe_open"}
        /\ pc = "probe_check" => pc' = "probe_open"
    BY <1>3, <1>5 DEF NextOpen
  <2>2. UNCHANGED <<param, is_config_same, orig>>
    BY <1>3, <1>5, Zenon
  <2> QED
    BY <1>2, <1>3, <1>4, <2>1, <2>2, ReadSteps, Zenon
<1>6. CASE o.r # Timeout
  BY <1>2, <1>3, <1>4, <1>6, CheckAnswer, Zenon
<1> QED
  BY <1>5, <1>6, Zenon

LEMMA VerifyStep ==
    ASSUME ConfigInv, Verify
    PROVE  ConfigInv' /\ rcp' = rcp
<1>1. ConfigType /\ RateInv /\ FileInv /\ ReadInv /\ FlowInv /\ SameInv /\ FirstInv
  BY Zenon DEF ConfigInv
<1>2. UNCHANGED <<parse_file_ok, flowctl_enable, orig, tries, fret, tty>> /\ pc = "verify"
  BY DEF Verify
<1>3. PICK o \in ConfigRequest([op |-> "read"]) :
         /\ Exchanged(o) /\ inbox' = o.left
         /\ is_config_same' = (o.r # Timeout /\ SameConfig(o.r))
         /\ pc' = (IF WrongIc(o.r) THEN "exit" ELSE "returned")
         /\ ret' = is_config_same'
         /\ param' = IF is_config_same' THEN [Loaded(o.r) EXCEPT !.flow = flowctl_enable] ELSE Loaded(o.r)
  BY Zenon DEF Verify
<1>4. /\ pc \in Reading /\ pc \in Rounds /\ pc \in Written /\ pc # "config" /\ pc \notin Unloaded
      /\ pc \notin {"config", "file_open", "exit"} /\ pc' \in {"exit", "returned"} /\ pc' \in Places
      /\ pc' \notin Reading \cup Probing \cup Rounds \cup Written \cup {"flowctl_set", "config", "decide"}
  BY <1>2, <1>3 DEF Places, Reading, Rounds, Probing, Written, Unloaded
<1> DEFINE r == o.r
<1>5. /\ rcp' = rcp /\ inbox' \in Seq(Reply) /\ flight' \in Seq(Late)
      /\ Pending' \subseteq Pending \cup {Current}
      /\ \A f \in Flight' : IsConfig(f.resp) => f.baud = f.resp.cfg.baud
      /\ r = Timeout \/ (r \in Reply /\ r \in Pending \cup {Current} /\ (IsConfig(r) => r.cfg.baud = tty.baud))
  BY <1>1, <1>3, <1>4, ReadLine, Zenon
<1>6. /\ param \in Cfg /\ orig \in Cfg /\ rcp.cfg \in Cfg /\ flowctl_enable \in BOOLEAN
      /\ \A x \in Pending' : x \in Pending \/ x = Current
      /\ IsConfig(Current) /\ Current.cfg = rcp.cfg
  BY <1>1, <1>5, PendingTypes, Answers, Zenon DEF ConfigType
<1>7. ~param.flow /\ (flowctl_enable => orig.flow)
  BY <1>1, <1>2, Zenon DEF FlowInv
<1>8. ~parse_file_ok => orig # ZeroConfig /\ NoFlow(param) = NoFlow(rcp.cfg)
  BY <1>1, <1>4, Zenon DEF ReadInv
<1> HIDE DEF r
<1>9. /\ param' \in Cfg /\ ret' \in BOOLEAN /\ is_config_same' \in BOOLEAN
      /\ parse_file_ok => NoFlow(param') = NoFlow(param)
      /\ ~parse_file_ok => NoFlow(param') = NoFlow(rcp.cfg)
      /\ param'.flow => orig.flow
      /\ ret' => rcp.cfg = NoFlow(param') /\ tty.baud = rcp.baud
  <2>1. CASE r = Timeout
    <3>1. Loaded(r) = param
      BY <2>1 DEF Loaded, Timeout
    <3>2. is_config_same' = FALSE /\ ret' = FALSE /\ param' = param
      BY <1>3, <2>1, <3>1, Zenon DEF r
    <3> QED
      BY Zenon, <1>6, <1>7, <1>8, <3>2
  <2>2. CASE r # Timeout
    <3>1. /\ ~parse_file_ok /\ IsConfig(r) => NoFlow(r.cfg) = NoFlow(rcp.cfg)
          /\ ~parse_file_ok /\ orig # ZeroConfig /\ IsConfig(r) /\ r.cfg.flow => orig.flow
          /\ IsConfig(r) /\ ~r.cfg.flow /\ (parse_file_ok => r.cfg = NoFlow(param)) => rcp.cfg = r.cfg
          /\ Loaded(r) = (IF IsConfig(r) /\ ~parse_file_ok THEN r.cfg ELSE param) /\ Loaded(r) \in Cfg
          /\ SameConfig(r) <=> IsConfig(r) /\ Loaded(r) = r.cfg /\ ~Loaded(r).flow
      BY <1>4, <1>5, <2>2, AnswerFacts, Zenon
    <3>2. SameConfig(r) \in BOOLEAN
      BY DEF SameConfig
    <3>3. is_config_same' = SameConfig(r) /\ ret' = SameConfig(r)
      BY <1>3, <2>2, <3>2 DEF r
    <3>4. /\ parse_file_ok => NoFlow(Loaded(r)) = NoFlow(param)
          /\ ~parse_file_ok => NoFlow(Loaded(r)) = NoFlow(rcp.cfg)
          /\ Loaded(r).flow => orig.flow
      BY <1>7, <1>8, <3>1, Zenon
    <3>5. CASE ~SameConfig(r)
      <4>1. param' = Loaded(r)
        BY <1>3, <3>3, <3>5, Zenon DEF r
      <4> QED
        BY <3>1, <3>2, <3>3, <3>4, <3>5, <4>1, Zenon
    <3>6. CASE SameConfig(r)
      <4>1. param' = [Loaded(r) EXCEPT !.flow = flowctl_enable]
        BY <1>3, <3>3, <3>6, Zenon DEF r
      <4>2. param' \in Cfg /\ NoFlow(param') = NoFlow(Loaded(r)) /\ param'.flow = flowctl_enable
        <5>1. /\ [Loaded(r) EXCEPT !.flow = flowctl_enable] \in Cfg
              /\ NoFlow([Loaded(r) EXCEPT !.flow = flowctl_enable]) = NoFlow(Loaded(r))
              /\ [Loaded(r) EXCEPT !.flow = flowctl_enable].flow = flowctl_enable
          BY <1>6, <3>1, FlowAs, Zenon
        <5> QED
          BY <4>1, <5>1, Zenon
      <4>3. IsConfig(r) /\ ~r.cfg.flow /\ Loaded(r) = r.cfg /\ NoFlow(Loaded(r)) = Loaded(r)
        <5>1. ~Loaded(r).flow => NoFlow(Loaded(r)) = Loaded(r)
          BY <3>1, NoFlowFacts, Zenon
        <5> QED
          BY <3>1, <3>6, <5>1, Zenon
      <4>4. rcp.cfg = r.cfg
        BY <3>1, <3>4, <4>3, Zenon
      <4>5. rcp.cfg = NoFlow(param') /\ tty.baud = rcp.baud
        BY <1>1, <1>5, <2>2, <4>2, <4>3, <4>4, Zenon DEF RateInv
      <4> QED
        BY <1>7, <3>2, <3>3, <3>4, <4>2, <4>5, Zenon
    <3> QED
      BY <3>5, <3>6, Zenon
  <2> QED
    BY <2>1, <2>2, Zenon
<1>10. ConfigType'
  BY <1>1, <1>2, <1>4, <1>5, <1>9, Zenon DEF ConfigType
<1>11. RateInv'
  BY <1>1, <1>4, <1>5, <1>6, Zenon DEF RateInv
<1>12. FileInv'
  <2>1. param'.baud = param.baud \/ ~parse_file_ok
    BY <1>6, <1>9, NoFlowFacts, Zenon
  <2> QED
    BY <1>1, <1>2, <1>4, <1>9, <2>1, Zenon DEF FileInv
<1>13. ReadInv'
  BY <1>1, <1>2, <1>5, <1>6, <1>8, <1>9, Zenon DEF ReadInv
<1>14. FlowInv'
  BY <1>1, <1>2, <1>4, Zenon DEF FlowInv, Written
<1>15. SameInv'
  <2>1. ASSUME NEW x \in Pending', IsConfig(x), ~x.cfg.flow, parse_file_ok => x.cfg = NoFlow(param')
        PROVE  rcp.cfg = x.cfg
    BY <1>1, <1>4, <1>6, <1>9, <2>1, Zenon DEF SameInv
  <2> QED
    BY <1>2, <1>4, <1>5, <1>9, <2>1, Zenon DEF SameInv
<1>16. FirstInv'
  <2>1. tries = 1 => flowctl_enable = orig.flow /\ \A x \in Pending : x # Ok(TRUE)
    BY <1>1, <1>2, Zenon DEF FirstInv
  <2>2. ~fret /\ tries # 0
    BY <1>1, <1>4, RoundBegun, Zenon DEF FirstInv
  <2>3. ret' => NoFlow(rcp.cfg) = NoFlow(orig) /\ ~rcp.cfg.flow
    <3>1. NoFlow(NoFlow(param')) = NoFlow(param') /\ ~NoFlow(param').flow
      BY <1>9, NoFlowFacts, Zenon
    <3>2. parse_file_ok => NoFlow(orig) = NoFlow(param)
      BY <1>1, Zenon DEF FileInv
    <3>3. ~parse_file_ok => NoFlow(orig) = NoFlow(rcp.cfg)
      BY <1>1, <1>8, Zenon DEF ReadInv
    <3> QED
      BY <1>9, <3>1, <3>2, <3>3, Zenon
  <2>4. tries = 1 => Ok(TRUE) \notin Pending'
    BY <1>6, <2>1, Answers, Zenon
  <2> QED
    BY <1>2, <1>4, <1>5, <2>1, <2>2, <2>3, <2>4, Zenon DEF FirstInv, Written
<1> QED
  BY <1>5, <1>10, <1>11, <1>12, <1>13, <1>14, <1>15, <1>16, Zenon DEF ConfigInv

\* rtkrcp_config_flowctl only turns on what the loaded configuration has on.
LEMMA FlowSetStep ==
    ASSUME ConfigInv, FlowctlSet
    PROVE  ConfigInv' /\ NoFlow(rcp'.cfg) = NoFlow(rcp.cfg) /\ orig # ZeroConfig /\ orig.flow
<1> DEFINE q == [op |-> "flow"]
<1>0. /\ UNCHANGED <<parse_file_ok, param, orig, flowctl_enable, is_config_same, tries, ret>>
      /\ pc = "flowctl_set" /\ pc' = "flowctl_returned"
  BY DEF FlowctlSet, confVars
<1>00. PICK o \in ConfigRequest(q) : Exchanged(o) /\ inbox' = o.left /\ fret' = (o.r = Ok(TRUE))
  BY Zenon DEF FlowctlSet
<1>1. ConfigType /\ RateInv /\ FileInv /\ ReadInv /\ FlowInv /\ SameInv /\ FirstInv
  BY Zenon DEF ConfigInv
<1>2. /\ q.op # "read" /\ Handle(q).resp = Ok(TRUE) /\ Handle(q).rcp.cfg = [rcp.cfg EXCEPT !.flow = TRUE]
      /\ Handle(q).rcp.baud = rcp.baud /\ Handle(q).rcp \in [cfg : Cfg, baud : Nat, flow : BOOLEAN]
  <2>1. q.op # "read"
    OBVIOUS
  <2> QED
    BY <1>1, <2>1, Handled, Zenon
<1> HIDE DEF q
<1>3. /\ inbox' \in Seq(Reply) /\ flight' \in Seq(Late)
      /\ rcp' = rcp \/ rcp' = Handle(q).rcp
      /\ Pending' \subseteq Pending \cup {Ok(TRUE), Ok(FALSE)}
      /\ \A f \in Flight' : IsConfig(f.resp) => f.baud = f.resp.cfg.baud
      /\ Ok(TRUE) \in Pending' => Ok(TRUE) \in Pending \/ rcp' = Handle(q).rcp
      /\ o.r = Ok(TRUE) => Ok(TRUE) \in Pending \/ rcp' = Handle(q).rcp
  BY <1>00, <1>1, <1>2, StatusLine, Zenon
<1>4. \A r \in Pending' : IsConfig(r) => r \in Pending
  BY <1>3, Answers, Zenon
<1>5. param \in Cfg /\ orig \in Cfg /\ rcp.cfg \in Cfg /\ rcp \in [cfg : Cfg, baud : Nat, flow : BOOLEAN]
  BY <1>1, PendingTypes, Zenon DEF ConfigType
<1>6. /\ pc' \in Places /\ pc \in After /\ pc' \in Unloaded
      /\ pc' \notin Reading \cup Probing \cup Rounds \cup Written
                    \cup {"decide", "flowctl_set", "config", "returned", "update", "updating"}
      /\ pc \notin {"config", "file_open", "exit"}
  BY <1>0 DEF Places, Reading, Written, Rounds, Probing, Unloaded, After
<1>7. orig # ZeroConfig /\ orig.flow /\ flowctl_enable /\ tries # 0
  BY <1>0, <1>1, <1>6, RoundBegun, Zenon DEF FlowInv
<1>8. LET e == [rcp.cfg EXCEPT !.flow = TRUE]
      IN  NoFlow(e) = NoFlow(rcp.cfg) /\ e.flow = TRUE /\ e.baud = rcp.cfg.baud
  BY <1>5, NoFlowFacts, Zenon
<1>9. /\ NoFlow(rcp'.cfg) = NoFlow(rcp.cfg) /\ rcp'.cfg.baud = rcp.cfg.baud /\ rcp'.baud = rcp.baud
      /\ rcp' \in [cfg : Cfg, baud : Nat, flow : BOOLEAN]
      /\ rcp' = Handle(q).rcp \/ rcp.cfg.flow => rcp'.cfg.flow
  BY <1>2, <1>3, <1>5, <1>8, Zenon
<1>10. ConfigType'
  <2>1. fret' \in BOOLEAN
    BY <1>00
  <2> QED
    BY <1>0, <1>1, <1>3, <1>6, <1>9, <2>1, Zenon DEF ConfigType
<1>11. RateInv'
  BY <1>1, <1>3, <1>4, <1>6, <1>9, Zenon DEF RateInv
<1>12. FileInv'
  BY <1>0, <1>1, <1>6, Zenon DEF FileInv
<1>13. ReadInv'
  BY <1>0, <1>1, <1>4, <1>7, <1>9, Zenon DEF ReadInv
<1>14. FlowInv'
  BY <1>0, <1>1, <1>6, <1>7, Zenon DEF FlowInv, Written
<1>15. SameInv'
  BY <1>6, Zenon DEF SameInv
<1>16. FirstInv'
  <2>1. tries = 1 /\ ret => /\ NoFlow(rcp.cfg) = NoFlow(orig) /\ flowctl_enable = orig.flow
                            /\ Ok(TRUE) \in Pending => rcp.cfg.flow
    BY <1>1, <1>6, Zenon DEF FirstInv
  <2>2. tries = 1 /\ ret => (fret' => rcp'.cfg.flow) /\ (Ok(TRUE) \in Pending' => rcp'.cfg.flow)
    <3>1. fret' => o.r = Ok(TRUE)
      BY <1>00, ZenonT(30)
    <3> QED
      BY <1>3, <1>9, <2>1, <3>1, Zenon
  <2>3. rcp'.cfg.flow \in BOOLEAN /\ orig.flow \in BOOLEAN
    BY <1>5, <1>9 DEF Cfg
  <2>4. tries = 1 /\ ret /\ fret' => rcp'.cfg.flow = orig.flow
    BY Zenon, <1>7, <2>2, <2>3
  <2> QED
    BY <1>0, <1>6, <1>7, <1>9, <2>1, <2>2, <2>4, Zenon DEF FirstInv, Written
<1> QED
  BY <1>7, <1>9, <1>10, <1>11, <1>12, <1>13, <1>14, <1>15, <1>16, Zenon DEF ConfigInv

LEMMA ConfigStarts == ToolInit => ConfigInv
<1> SUFFICES ASSUME ToolInit PROVE ConfigInv
  BY Zenon
<1>1. Init
  BY ZenonT(60) DEF ToolInit
<1>2. /\ pc = "config" /\ tries = 0 /\ ret = FALSE /\ fret = FALSE /\ flowctl_enable = FALSE
      /\ is_config_same = FALSE /\ parse_file_ok \in BOOLEAN /\ inbox = <<>> /\ flight = <<>> /\ orig = param
      /\ param \in {ZeroConfig} \cup ConfigBins /\ (~parse_file_ok => param = ZeroConfig)
  BY <1>1 DEF Init
<1>3. PICK c \in Configs : rcp = [cfg |-> c, baud |-> c.baud, flow |-> c.flow]
  BY <1>1, Zenon DEF Init
<1>4. c \in Cfg /\ c.baud # NoBaud /\ \A d \in ConfigBins : d \in Cfg
  BY RcpAssumption, ZenonT(30) DEF Cfg
<1>5. rcp \in [cfg : Cfg, baud : Nat, flow : BOOLEAN] /\ rcp.cfg = c /\ rcp.baud = c.baud
  <2>1. c.baud \in Nat /\ c.flow \in BOOLEAN
    BY <1>4 DEF Cfg
  <2> QED
    BY <1>3, <1>4, <2>1
<1>6. param \in Cfg
  BY <1>2, <1>4, ZeroFacts, Zenon
<1>7. inbox \in Seq(Reply) /\ flight \in Seq(Late) /\ Inbox = {} /\ Flight = {}
  BY <1>2 DEF Inbox, Flight, Range
<1>8. Pending = {}
  BY <1>7 DEF Pending
<1>9. pc \in Places /\ pc \in Unloaded /\ pc \in Rounds /\ pc \notin Written \cup Reading \cup After \cup Probing
  BY <1>2 DEF Places, Unloaded, Rounds, Written, Reading, After, Probing
<1>10. ConfigType
  BY Zenon, <1>2, <1>5, <1>6, <1>7, <1>9 DEF ConfigType
<1>11. RateInv
  BY <1>4, <1>5, <1>7, <1>8, <1>9, Zenon DEF RateInv
<1>12. FileInv /\ ReadInv /\ FlowInv
  BY <1>2, <1>8, <1>9, Zenon DEF FileInv, ReadInv, FlowInv, Written
<1>13. SameInv /\ FirstInv
  BY ZenonT(60), <1>2, <1>8, <1>9 DEF SameInv, FirstInv, Written
<1> QED
  BY <1>10, <1>11, <1>12, <1>13, Zenon DEF ConfigInv

\* ReadAndDrain and Test only read.
LEMMA ReadingStep ==
    ASSUME ConfigInv, ReadAndDrain \/ Test
    PROVE  ConfigInv' /\ rcp' = rcp
<1>1. ConfigType /\ RateInv
  BY Zenon DEF ConfigInv
<1>2. /\ UNCHANGED <<parse_file_ok, param, orig, flowctl_enable, is_config_same, tries, ret, fret, tty>>
      /\ \/ pc = "file_read" /\ pc' = "file_check"
         \/ pc = "probe_read" /\ pc' = "probe_check"
         \/ pc = "test" /\ pc' = "done"
  BY Zenon DEF ReadAndDrain, Test, mainVars, confVars
<1>3. PICK o \in ConfigRequest([op |-> "read"]) : Exchanged(o) /\ inbox' \in {<<>>, o.left}
  BY Zenon DEF ReadAndDrain, Test
<1>4. rcp' = rcp
  BY <1>1, <1>3, ReadLine, Zenon
<1> QED
  BY <1>2, <1>3, <1>4, ReadSteps, Zenon

\* Of the steps only two change the configuration that the RCP stores.
LEMMA CfgKept ==
    ASSUME ConfigInv,
           \/ FileOpen \/ ProbeOpen \/ Reopen \/ OpenForUpdate \/ ProbeExit \/ Returned \/ FlowctlReturned
           \/ Flowctl \/ UpdateStep \/ RcpReboots \/ UpdateDone \/ UpdateExits \/ LateResponse
           \/ EnterConfig \/ NothingToDo \/ ForceNoFlow \/ UNCHANGED vars
    PROVE  rcp'.cfg = rcp.cfg
<1>1. rcp' = rcp \/ rcp' = Rebooted
  BY ZenonT(60) DEF FileOpen, ProbeOpen, Reopen, OpenForUpdate, ProbeExit, Returned, FlowctlReturned, Flowctl,
         UpdateStep, RcpReboots, UpdateDone, UpdateReturns, UpdateExits, LateResponse, Arrive,
         EnterConfig, NothingToDo, ForceNoFlow, device_open, lineVars, vars
<1>2. rcp \in [cfg : Cfg, baud : Nat, flow : BOOLEAN]
  BY ZenonT(60) DEF ConfigInv, ConfigType
<1>3. Rebooted.cfg = rcp.cfg
  BY <1>2 DEF Rebooted
<1> QED
  BY <1>1, <1>3, Zenon

LEMMA ConfigSteps ==
    ASSUME ConfigInv, [Next]_toolVars
    PROVE  /\ ConfigInv'
           /\ NoFlow(rcp'.cfg) # NoFlow(rcp.cfg) => NoFlow(rcp'.cfg) = NoFlow(orig)
           /\ rcp'.cfg.flow /\ ~rcp.cfg.flow => orig # ZeroConfig /\ orig.flow
<1>1. \/ FileOpen \/ ProbeOpen \/ Reopen \/ OpenForUpdate \/ ProbeExit \/ Returned \/ FlowctlReturned
      \/ Flowctl \/ UpdateStep \/ RcpReboots \/ UpdateDone \/ UpdateExits \/ LateResponse
      \/ EnterConfig \/ NothingToDo \/ ForceNoFlow \/ UNCHANGED vars
      \/ WriteConfig \/ FlowctlSet \/ Check \/ Verify \/ ReadAndDrain \/ Test
  BY Zenon DEF Next, ToolStep, Configure, Step, Finished, toolVars
<1>2. CASE \/ FileOpen \/ ProbeOpen \/ Reopen \/ OpenForUpdate \/ ProbeExit \/ Returned \/ FlowctlReturned
           \/ Flowctl \/ UpdateStep \/ RcpReboots \/ UpdateDone \/ UpdateExits \/ LateResponse
           \/ EnterConfig \/ NothingToDo \/ ForceNoFlow \/ UNCHANGED vars
  <2>1. rcp'.cfg = rcp.cfg
    BY <1>2, CfgKept, Zenon
  <2>2. ConfigInv'
    BY <1>2, OpenSteps, MainSteps, FlowctlStep, UpdateKeeps, LateStep, EnterStep, NothingStep,
       ForceStep, ConfigStutters, Zenon
  <2> QED
    BY <2>1, <2>2, Zenon
<1>3. CASE WriteConfig
  BY <1>3, WriteStep, Zenon
<1>4. CASE FlowctlSet
  BY <1>4, FlowSetStep, Zenon
<1>5. CASE Check \/ Verify \/ ReadAndDrain \/ Test
  <2>1. ConfigInv' /\ rcp' = rcp
    BY <1>5, CheckStep, VerifyStep, ReadingStep, Zenon
  <2> QED
    BY <2>1, Zenon
<1> QED
  BY <1>1, <1>2, <1>3, <1>4, <1>5, Zenon

(***************************************************************************)
(* A round of rtkrcp_config that reports success leaves the RCP with the   *)
(* host's configuration without flow control and both ends at its rate,    *)
(* and when the first round did, and rtkrcp_config_flowctl in any, the RCP *)
(* ends with the configuration that was loaded, flow control included: for *)
(* any number of lost, refused and late requests (RcpConfig.c:593-870).    *)
(***************************************************************************)
THEOREM SuccessIsConfigured == Spec => []RcpConfigured
<1>1. ConfigInv => RcpConfigured
  <2> SUFFICES ASSUME ConfigInv PROVE RcpConfigured
    BY ZenonT(60)
  <2>1. ConfigType /\ RateInv /\ SameInv /\ FirstInv
    BY Zenon DEF ConfigInv
  <2>2. param \in Cfg /\ orig \in Cfg /\ rcp.cfg \in Cfg
    BY <2>1, PendingTypes, Zenon DEF ConfigType
  <2>3. ConfiguredIfSuccess
    <3>1. NoFlow(param).baud = param.baud
      BY <2>2, NoFlowFacts, Zenon
    <3> QED
      BY <2>1, <3>1, Zenon DEF ConfiguredIfSuccess, SameInv, RateInv
  <2>4. RestoredOnFirstTry
    <3>1. "done" \in After
      BY DEF After
    <3>2. NoFlow(rcp.cfg) = NoFlow(orig) /\ rcp.cfg.flow = orig.flow => rcp.cfg = orig
      BY <2>2, NoFlowFacts, Zenon
    <3> QED
      BY <2>1, <3>1, <3>2, Zenon DEF RestoredOnFirstTry, FirstInv
  <2> QED
    BY <2>3, <2>4, Zenon DEF RcpConfigured
<1>2. ConfigInv /\ [Next]_toolVars => ConfigInv'
  BY ConfigSteps, Zenon
<1> QED
  BY <1>1, <1>2, ConfigStarts, PTL DEF Spec

(***************************************************************************)
(* The tool never writes to the RCP a configuration that was loaded        *)
(* neither from ConfigBin nor from the RCP, and turns flow control on only *)
(* where the loaded one has it (RcpConfig.c:552-592, 414-505).             *)
(***************************************************************************)
THEOREM OnlyLoadedReachesRcp == Spec => OnlyLoadedIsWritten
<1>1. ConfigInv /\ [Next]_toolVars =>
         [/\ NoFlow(rcp'.cfg) # NoFlow(rcp.cfg) => NoFlow(rcp'.cfg) = NoFlow(orig)
          /\ rcp'.cfg.flow /\ ~rcp.cfg.flow => orig # ZeroConfig /\ orig.flow]_vars
  BY ConfigSteps, Zenon
<1>2. ConfigInv /\ [Next]_toolVars => ConfigInv'
  BY ConfigSteps, Zenon
<1> QED
  BY <1>1, <1>2, ConfigStarts, PTL DEF Spec, OnlyLoadedIsWritten
=============================================================================
