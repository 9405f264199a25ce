------------------------ MODULE PerfProofs ----------------------------------
(***************************************************************************)
(* Proofs about the network performance test.  The ring between a transfer *)
(* agent and the reporter is a queue and is not freed while it is used, for*)
(* any length of the ring and any number of agents and packets, without a  *)
(* lock.  The totals of a server are right, for any number of packets and  *)
(* sessions.                                                               *)
(***************************************************************************)
EXTENDS PerfReporter, PerfSession, FiniteSetTheorems, TLAPS

-----------------------------------------------------------------------------
(* The ring of an agent and the reporter.                                  *)

Over == {"closed", "end", "exit", "next", "gone"}
Slots == 0 .. Ring - 1

\* What waits in the ring when the agent writes slot A next and the reporter
\* has handled slot R.  A may be Ring, R goes back to 0 at once.
Count(A, R) == IF A > R THEN A - R - 1 ELSE A - R - 1 + Ring

\* Slot x waits for the reporter, before and after the end of the array.
Ahead(x, A, R) == x > R /\ (x < A \/ A < R)
Behind(x, A, R) == A < R /\ x < A

(***************************************************************************)
(* The inductive invariant of one ring, over the agent's place p, closing, *)
(* index, agentindex, reporterindex, data, sent, handled, and whether the  *)
(* reporter handles slot R (busy) or has seen a packet and is about to go  *)
(* on to it (moves).  m is the number of the packet in slot R.  Neither    *)
(* side reads the other's index and acts on it in one step, so the places  *)
(* between remember what the test established: A # R + 1 for the reporter, *)
(* A # R - 1 for the agent.                                                *)
(***************************************************************************)
RingView(p, c, i, A, R, d, s, h, busy, moves) ==
    LET m == IF busy THEN h + 1 ELSE h IN
    /\ c \in BOOLEAN /\ i \in Int /\ A \in Int /\ R \in Int /\ s \in Int /\ h \in Int
    /\ d \in [Slots -> [n : Int, fin : BOOLEAN]]
    /\ A = -1 => R = -1 /\ p \in {"exit", "next", "gone"}
    /\ p \in {"exit", "next", "gone"} => R = -1
    /\ R = -1 => p \in Over /\ ~busy /\ ~moves
    /\ R # -1 =>
          /\ R \in Slots /\ A \in 0 .. Ring /\ A # R
          /\ s = m + Count(A, R)
          /\ \A x \in Slots : Ahead(x, A, R) => d[x].n = m + x - R
          /\ \A x \in Slots : Behind(x, A, R) => d[x].n = m + x - R + Ring
          /\ \A x \in Slots : (Ahead(x, A, R) \/ Behind(x, A, R)) /\ d[x].fin =>
                                 d[x].n = s /\ p \in {"closed", "end"}
          /\ busy => d[R].n = m /\ (d[R].fin => s = m /\ p \in {"closed", "end"})
          /\ moves => A # R + 1
          /\ p \in {"write", "bump"} => A # Ring /\ A # R - 1
          /\ p = "bump" => d[A] = [n |-> s + 1, fin |-> c]
          /\ p = "wrap" => A = Ring /\ i >= 1 /\ i =< R

RingLen == Ring \in Nat /\ Ring > 2
LEMMA RingHasLength == RingLen
  BY PerfAssumption DEF RingLen

-----------------------------------------------------------------------------
(* The steps of the agent and of the reporter on one ring.                 *)

\* Outside ReportPacket() and before the end, the agent's place and closing
\* do not matter to the ring.
LEMMA Elsewhere ==
    ASSUME NEW p, NEW c, NEW i, NEW A, NEW R, NEW d, NEW s, NEW h, NEW busy, NEW moves,
           RingView(p, c, i, A, R, d, s, h, busy, moves), p \notin Over,
           NEW q, q \notin {"write", "bump", "wrap", "exit", "next", "gone"}, NEW e \in BOOLEAN, NEW j \in Int
    PROVE  RingView(q, e, j, A, R, d, s, h, busy, moves)
  BY DEF RingView, Over

LEMMA ElsewhereAt ==
    ASSUME NEW b, NEW busy, NEW moves, NEW q,
           RingView(pc[b], closing[b], index[b], agentindex[b], reporterindex[b], data[b],
                    sent[b], handled[b], busy, moves),
           pc[b] \notin Over, q \notin {"write", "bump", "wrap", "exit", "next", "gone"},
           closing[b] \in BOOLEAN, index[b] \in Int
    PROVE  RingView(q, closing[b], index[b], agentindex[b], reporterindex[b], data[b],
                    sent[b], handled[b], busy, moves)
  BY Elsewhere

\* The end of the agent's work.
LEMMA Afterwards ==
    ASSUME NEW p, NEW c, NEW i, NEW A, NEW R, NEW d, NEW s, NEW h, NEW busy, NEW moves,
           RingView(p, c, i, A, R, d, s, h, busy, moves), p \in {"exit", "next"},
           NEW q \in {"next", "gone"}
    PROVE  RingView(q, c, i, A, R, d, s, h, busy, moves)
  BY DEF RingView, Over

\* ReportPacket() reads reporterindex: the slot is free, or the agent has to
\* go back to slot 0, or it waits.
LEMMA Reads ==
    ASSUME NEW p, NEW c, NEW i, NEW A, NEW R, NEW d, NEW s, NEW h, NEW busy, NEW moves,
           RingView(p, c, i, A, R, d, s, h, busy, moves), p \notin Over, NEW e \in BOOLEAN,
           NEW q,
           q = IF A = Ring THEN IF R = 0 THEN "full" ELSE "wrap"
               ELSE IF R - 1 = A THEN "full" ELSE "write"
    PROVE  RingView(q, e, R, A, R, d, s, h, busy, moves)
  BY RingHasLength DEF RingView, Over, RingLen, Slots

LEMMA ReadsAt ==
    ASSUME NEW b, NEW busy, NEW moves, NEW q, NEW e \in BOOLEAN,
           RingView(pc[b], closing[b], index[b], agentindex[b], reporterindex[b], data[b],
                    sent[b], handled[b], busy, moves),
           pc[b] \notin Over,
           q = IF agentindex[b] = Ring THEN IF reporterindex[b] = 0 THEN "full" ELSE "wrap"
               ELSE IF reporterindex[b] - 1 = agentindex[b] THEN "full" ELSE "write"
    PROVE  RingView(q, e, reporterindex[b], agentindex[b], reporterindex[b], data[b],
                    sent[b], handled[b], busy, moves)
  BY Reads

LEMMA Wraps ==
    ASSUME NEW c, NEW i, NEW A, NEW R, NEW d, NEW s, NEW h, NEW busy, NEW moves,
           RingView("wrap", c, i, A, R, d, s, h, busy, moves),
           NEW q, q = IF i - 1 = 0 THEN "full" ELSE "write"
    PROVE  RingView(q, c, i, 0, R, d, s, h, busy, moves)
  BY RingHasLength DEF RingView, Over, RingLen, Slots, Count, Ahead, Behind

LEMMA Fills ==
    ASSUME NEW c, NEW i, NEW A, NEW R, NEW d, NEW s, NEW h, NEW busy, NEW moves,
           RingView("write", c, i, A, R, d, s, h, busy, moves),
           NEW b, b = [d EXCEPT ![A] = [n |-> s + 1, fin |-> c]]
    PROVE  RingView("bump", c, i, A, R, b, s, h, busy, moves)
<1>1. A \in Slots /\ A # R /\ ~Ahead(A, A, R) /\ ~Behind(A, A, R) /\ R # -1
  BY RingHasLength DEF RingView, Over, RingLen, Slots, Ahead, Behind
<1>2. b[A] = [n |-> s + 1, fin |-> c] /\ \A x \in Slots : x # A => b[x] = d[x]
  BY <1>1 DEF RingView
<1>3. b \in [Slots -> [n : Int, fin : BOOLEAN]]
  BY <1>1 DEF RingView
<1> QED
  BY <1>1, <1>2, <1>3 DEF RingView, Slots

LEMMA Bumps ==
    ASSUME NEW c, NEW i, NEW A, NEW R, NEW d, NEW s, NEW h, NEW busy, NEW moves,
           RingView("bump", c, i, A, R, d, s, h, busy, moves),
           NEW q, q = IF c THEN "closed" ELSE "traffic"
    PROVE  RingView(q, c, i, A + 1, R, d, s + 1, h, busy, moves)
<1> DEFINE m == IF busy THEN h + 1 ELSE h
<1>1. /\ c \in BOOLEAN /\ R \in Slots /\ A \in Slots /\ A # R /\ A # R - 1
      /\ s \in Int /\ h \in Int /\ s = m + Count(A, R) /\ R # -1
      /\ d[A] = [n |-> s + 1, fin |-> c]
  BY RingHasLength DEF RingView, Over, RingLen, Slots
<1>2. Count(A + 1, R) = Count(A, R) + 1
  BY <1>1, RingHasLength DEF Count, Slots, RingLen
<1>3. \A x \in Slots : Ahead(x, A + 1, R) => Ahead(x, A, R) \/ (x = A /\ A > R)
  BY <1>1 DEF Ahead, Slots
<1>4. \A x \in Slots : Behind(x, A + 1, R) => Behind(x, A, R) \/ (x = A /\ A < R)
  BY <1>1 DEF Behind, Slots
<1>5. d[A].n = s + 1 /\ (A > R => s + 1 = m + A - R) /\ (A < R => s + 1 = m + A - R + Ring)
  BY <1>1, RingHasLength DEF Count, Slots, RingLen
<1>6. \A x \in Slots : (Ahead(x, A, R) \/ Behind(x, A, R)) => ~d[x].fin
  BY <1>1 DEF RingView
<1>7. busy => ~d[R].fin
  BY <1>1 DEF RingView
<1>8. \A x \in Slots : Ahead(x, A + 1, R) => d[x].n = m + x - R
  BY <1>1, <1>3, <1>5 DEF RingView
<1>9. \A x \in Slots : Behind(x, A + 1, R) => d[x].n = m + x - R + Ring
  BY <1>1, <1>4, <1>5 DEF RingView
<1>10. \A x \in Slots : (Ahead(x, A + 1, R) \/ Behind(x, A + 1, R)) /\ d[x].fin =>
                            d[x].n = s + 1 /\ q \in {"closed", "end"}
  BY <1>1, <1>3, <1>4, <1>6
<1>11. busy => d[R].n = m
  BY <1>1 DEF RingView
<1>12. A + 1 \in 0 .. Ring /\ A + 1 # R /\ A + 1 # -1 /\ (moves => A + 1 # R + 1)
  BY <1>1, RingHasLength DEF Slots, RingLen
<1>13. s + 1 = m + Count(A + 1, R)
  BY <1>1, <1>2, RingHasLength DEF Count, Slots, RingLen
<1>14. i \in Int /\ d \in [Slots -> [n : Int, fin : BOOLEAN]] /\ A + 1 \in Int /\ R \in Int
  BY <1>1 DEF RingView, Slots
<1>15. q \notin {"write", "bump", "wrap"}
  OBVIOUS
<1> QED
  BY <1>1, <1>7, <1>8, <1>9, <1>10, <1>11, <1>12, <1>13, <1>14, <1>15 DEF RingView

\* The reporter goes on to the next slot, which holds the next packet.
LEMMA Advances ==
    ASSUME NEW p, NEW c, NEW i, NEW A, NEW R, NEW d, NEW s, NEW h,
           RingView(p, c, i, A, R, d, s, h, FALSE, TRUE),
           ~(R = Ring - 1 /\ A = 0),
           NEW Q, Q = IF R = Ring - 1 THEN 0 ELSE R + 1
    PROVE  RingView(p, c, i, A, Q, d, s, h, TRUE, FALSE)
<1>1. /\ R \in Slots /\ A \in 0 .. Ring /\ A # R /\ A # R + 1 /\ R # -1
      /\ s \in Int /\ h \in Int /\ s = h + Count(A, R)
  BY DEF RingView
<1>2. Q \in Slots /\ Q # A /\ Q # -1
  BY <1>1, RingHasLength DEF Slots, RingLen
<1>3. s = h + 1 + Count(A, Q)
  BY <1>1, <1>2, RingHasLength DEF Count, Slots, RingLen
<1>4. Ahead(Q, A, R) \/ Behind(Q, A, R)
  BY <1>1, <1>2, RingHasLength DEF Ahead, Behind, Slots, RingLen
<1>5. d[Q].n = h + 1
  <2>1. CASE R = Ring - 1
    BY <1>1, <1>2, <1>4, <2>1, RingHasLength DEF RingView, Ahead, Behind, Slots, RingLen
  <2>2. CASE R # Ring - 1
    BY <1>1, <1>2, <1>4, <2>2, RingHasLength DEF RingView, Ahead, Behind, Slots, RingLen
  <2> QED
    BY <2>1, <2>2
<1>6. d[Q].fin => s = h + 1 /\ p \in {"closed", "end"}
  BY <1>1, <1>2, <1>4, <1>5 DEF RingView
<1>7. ASSUME NEW x \in Slots, Ahead(x, A, Q)
      PROVE  d[x].n = h + 1 + x - Q /\ (Ahead(x, A, R) \/ Behind(x, A, R))
  <2>1. CASE R = Ring - 1
    <3>1. Behind(x, A, R) /\ Q = 0
      BY <1>1, <1>7, <2>1, RingHasLength DEF Ahead, Behind, Slots, RingLen
    <3>2. d[x].n = h + x - R + Ring
      BY <1>1, <3>1 DEF RingView
    <3> QED
      BY <1>1, <2>1, <3>1, <3>2, RingHasLength DEF Slots, RingLen
  <2>2. CASE R # Ring - 1
    <3>1. Ahead(x, A, R) /\ Q = R + 1
      BY <1>1, <1>7, <2>2, RingHasLength DEF Ahead, Slots, RingLen
    <3>2. d[x].n = h + x - R
      BY <1>1, <3>1 DEF RingView
    <3> QED
      BY <1>1, <3>1, <3>2 DEF Slots
  <2> QED
    BY <2>1, <2>2
<1>8. ASSUME NEW x \in Slots, Behind(x, A, Q)
      PROVE  d[x].n = h + 1 + x - Q + Ring /\ Behind(x, A, R)
  <2>1. Behind(x, A, R) /\ Q = R + 1
    BY <1>1, <1>8, RingHasLength DEF Behind, Slots, RingLen
  <2>2. d[x].n = h + x - R + Ring
    BY <1>1, <2>1 DEF RingView
  <2> QED
    BY <1>1, <2>1, <2>2, RingHasLength DEF Slots, RingLen
<1>9. \A x \in Slots : (Ahead(x, A, Q) \/ Behind(x, A, Q)) /\ d[x].fin =>
                           d[x].n = s /\ p \in {"closed", "end"}
  BY <1>1, <1>7, <1>8 DEF RingView
<1>10. p \in {"write", "bump"} => A # Ring /\ A # Q - 1
  BY <1>1, RingHasLength DEF RingView, Slots, RingLen
<1>11. p = "wrap" => A = Ring /\ i >= 1 /\ i =< Q
  BY <1>1, RingHasLength DEF RingView, Slots, RingLen
<1>12. /\ c \in BOOLEAN /\ i \in Int /\ A \in Int /\ Q \in Int
       /\ d \in [Slots -> [n : Int, fin : BOOLEAN]]
       /\ p = "bump" => d[A] = [n |-> s + 1, fin |-> c]
       /\ A # -1
  BY <1>1, <1>2 DEF RingView, Slots
<1> QED
  BY <1>1, <1>2, <1>3, <1>5, <1>6, <1>7, <1>8, <1>9, <1>10, <1>11, <1>12 DEF RingView

\* A packet is handled; with the last one the reporter is done.
LEMMA Handles ==
    ASSUME NEW p, NEW c, NEW i, NEW A, NEW R, NEW d, NEW s, NEW h,
           RingView(p, c, i, A, R, d, s, h, TRUE, FALSE),
           NEW Q, Q = IF d[R].fin THEN -1 ELSE R
    PROVE  RingView(p, c, i, A, Q, d, s, h + 1, FALSE, FALSE)
<1>1. R # -1 /\ R \in Slots /\ d[R].fin \in BOOLEAN
  BY DEF RingView, Slots
<1>2. CASE d[R].fin
  <2>1. p \in {"closed", "end"} /\ A # -1
    BY <1>1, <1>2 DEF RingView
  <2> QED
    BY <1>1, <1>2, <2>1 DEF RingView, Over
<1>3. CASE ~d[R].fin
  BY <1>1, <1>3 DEF RingView
<1> QED
  BY Zenon, <1>2, <1>3

\* The test of the reporter's loop.
LEMMA Tested ==
    ASSUME NEW p, NEW c, NEW i, NEW A, NEW R, NEW d, NEW s, NEW h,
           RingView(p, c, i, A, R, d, s, h, FALSE, FALSE), R >= 0, R # A - 1
    PROVE  RingView(p, c, i, A, R, d, s, h, FALSE, TRUE)
<1>1. R # -1 /\ A # R + 1
  BY DEF RingView
<1> QED
  BY <1>1 DEF RingView

LEMMA Untested ==
    ASSUME NEW p, NEW c, NEW i, NEW A, NEW R, NEW d, NEW s, NEW h,
           RingView(p, c, i, A, R, d, s, h, FALSE, TRUE)
    PROVE  RingView(p, c, i, A, R, d, s, h, FALSE, FALSE)
  BY DEF RingView

\* GetReport() and EndReport() return when the reporter is done.
LEMMA Leaves ==
    ASSUME NEW p, NEW c, NEW i, NEW A, NEW d, NEW s, NEW h, NEW busy, NEW moves,
           RingView(p, c, i, A, -1, d, s, h, busy, moves)
    PROVE  /\ A # -1 => RingView("end", c, i, A, -1, d, s, h, busy, moves)
           /\ RingView("exit", c, i, -1, -1, d, s, h, busy, moves)
  BY DEF RingView, Over

-----------------------------------------------------------------------------
(* The whole state.                                                        *)

Busy(a) == rpc = "handle" /\ Current.of = a
Moves(a) == rpc = "advance" /\ Current.of = a

View(a) == RingView(pc[a], closing[a], index[a], agentindex[a], reporterindex[a], data[a],
                    sent[a], handled[a], Busy(a), Moves(a))

Places == {"none", "connect", "failed", "settings", "barrier", "inbarrier", "leaving", "first",
           "traffic", "full", "wrap", "wait", "asleep", "awake", "write", "bump"} \cup Over

Functions ==
    /\ pc \in [Agent -> Places]
    /\ closing \in [Agent -> BOOLEAN]
    /\ index \in [Agent -> Int] /\ agentindex \in [Agent -> Int] /\ reporterindex \in [Agent -> Int]
    /\ sent \in [Agent -> Int] /\ handled \in [Agent -> Int]
    /\ data \in [Agent -> [Slots -> [n : Int, fin : BOOLEAN]]]

\* The places of the reporter in which it works on a ring.
OnRing == rpc \in {"advance", "handle", "ended"} => OfTransfer

\* A freed ring is one its agent has left.
FreedIsLeft == \A a \in Agent : DataReport(a) \in freed => agentindex[a] = -1

RingsInv == Functions /\ OnRing /\ FreedIsLeft /\ \A a \in Agent : View(a)

\* The reporter is not on a ring, or stays where it is.
ReporterElsewhere ==
    \/ rpc' = rpc /\ todo' = todo
    \/ rpc \notin {"advance", "handle"} /\ rpc' \notin {"advance", "handle", "ended"}

\* A step of the agent's outside ReportPacket().
Moved(b) ==
    \/ pc'[b] = pc[b]
    \/ pc[b] \notin Over /\ pc'[b] \notin {"write", "bump", "wrap", "exit", "next", "gone"}
    \/ pc[b] \in {"exit", "next"} /\ pc'[b] \in {"next", "gone"}

LEMMA Updated ==
    ASSUME NEW S, NEW T, NEW f \in [S -> T], NEW x \in S, NEW v \in T, NEW g, g = [f EXCEPT ![x] = v]
    PROVE  g \in [S -> T] /\ g[x] = v /\ \A y \in S \ {x} : g[y] = f[y]
  BY Zenon

LEMMA OfIsAgent == OfTransfer => Current.of \in Agent /\ Current = DataReport(Current.of)
  BY DEF OfTransfer, DataReport, Report

LEMMA ElsewhereKeeps ==
    ASSUME ReporterElsewhere
    PROVE  /\ \A b \in Agent : Busy(b)' = Busy(b) /\ Moves(b)' = Moves(b)
           /\ OnRing => OnRing'
<1>1. CASE rpc' = rpc /\ todo' = todo
  <2>1. Current' = Current
    BY <1>1 DEF Current
  <2> QED
    BY <1>1, <2>1 DEF Busy, Moves, OnRing, OfTransfer
<1>2. CASE rpc \notin {"advance", "handle"} /\ rpc' \notin {"advance", "handle", "ended"}
  BY <1>2 DEF Busy, Moves, OnRing
<1> QED
  BY <1>1, <1>2 DEF ReporterElsewhere

\* Another ring is left alone.
LEMMA OtherRing ==
    ASSUME NEW b \in Agent, View(b),
           pc'[b] = pc[b], closing'[b] = closing[b], index'[b] = index[b],
           agentindex'[b] = agentindex[b], reporterindex'[b] = reporterindex[b],
           data'[b] = data[b], sent'[b] = sent[b], handled'[b] = handled[b],
           Busy(b)' = Busy(b), Moves(b)' = Moves(b)
    PROVE  View(b)'
  BY DEF View

\* A step that leaves the rings alone.
LEMMA RestKeeps ==
    ASSUME RingsInv, UNCHANGED ring, pc' \in [Agent -> Places], \A b \in Agent : Moved(b),
           ReporterElsewhere, FreedIsLeft'
    PROVE  RingsInv'
<1>1. Functions'
  BY DEF RingsInv, Functions, ring
<1>2. OnRing'
  BY ElsewhereKeeps DEF RingsInv
<1>3. ASSUME NEW b \in Agent
      PROVE  View(b)'
  <2>1. Busy(b)' = Busy(b) /\ Moves(b)' = Moves(b)
    BY ElsewhereKeeps, Zenon
  <2>2. RingView(pc[b], closing[b], index[b], agentindex[b], reporterindex[b], data[b],
                 sent[b], handled[b], Busy(b), Moves(b))
    BY DEF RingsInv, View
  <2>3. closing[b] \in BOOLEAN /\ index[b] \in Int
    BY ZenonT(30) DEF RingsInv, Functions
  <2>4. RingView(pc'[b], closing[b], index[b], agentindex[b], reporterindex[b], data[b],
                 sent[b], handled[b], Busy(b), Moves(b))
    <3>1. CASE pc'[b] = pc[b]
      BY <2>2, <3>1, Zenon
    <3>2. CASE pc[b] \notin Over /\ pc'[b] \notin {"write", "bump", "wrap", "exit", "next", "gone"}
      BY <2>2, <2>3, <3>2, ElsewhereAt, Zenon
    <3>3. CASE pc[b] \in {"exit", "next"} /\ pc'[b] \in {"next", "gone"}
      BY <2>2, <3>3, Afterwards, Zenon
    <3> QED
      BY <3>1, <3>2, <3>3, Zenon DEF Moved
  <2> QED
    BY <2>1, <2>4 DEF View, ring
<1> QED
  BY <1>1, <1>2, <1>3 DEF RingsInv

LEMMA SignalIsElsewhere ==
    ASSUME rpc' = Signalled, todo' = todo
    PROVE  ReporterElsewhere
  BY DEF Signalled, ReporterElsewhere

LEMMA RingsInit == Init => RingsInv
<1> SUFFICES ASSUME Init
             PROVE  RingsInv
  OBVIOUS
<1>1. Functions
  BY RingHasLength DEF Init, Functions, Packet, Slots, RingLen, Places
<1>2. OnRing /\ FreedIsLeft
  BY ZenonT(30) DEF Init, OnRing, FreedIsLeft
<1>3. ASSUME NEW a \in Agent
      PROVE  View(a)
  <2>1. ~Busy(a) /\ ~Moves(a)
    BY DEF Init, Busy, Moves
  <2>2. /\ pc[a] = "none" /\ closing[a] = FALSE /\ index[a] = 0 /\ agentindex[a] = 0
        /\ reporterindex[a] = Ring - 1 /\ sent[a] = 0 /\ handled[a] = 0
    BY DEF Init
  <2>3. data[a] \in [Slots -> [n : Int, fin : BOOLEAN]]
    BY <1>1 DEF Functions
  <2>4. \A x \in Slots : ~Ahead(x, 0, Ring - 1) /\ ~Behind(x, 0, Ring - 1)
    BY RingHasLength DEF Ahead, Behind, Slots, RingLen
  <2>5. Count(0, Ring - 1) = 0 /\ Ring - 1 \in Slots /\ Ring - 1 # -1 /\ Ring - 1 # 0 /\ Ring \in Nat
    BY RingHasLength DEF Count, Slots, RingLen
  <2>6. RingView("none", FALSE, 0, 0, Ring - 1, data[a], 0, 0, FALSE, FALSE)
    BY <2>3, <2>4, <2>5 DEF RingView
  <2>7. Busy(a) = FALSE /\ Moves(a) = FALSE
    BY <2>1 DEF Busy, Moves
  <2> QED
    BY ZenonT(60), <2>2, <2>6, <2>7 DEF View
<1> QED
  BY <1>1, <1>2, <1>3 DEF RingsInv

\* An agent's step that leaves the rings and the reports alone.
LEMMA PlaceKeeps ==
    ASSUME RingsInv, NEW a \in Agent, NEW q \in Places, pc' = [pc EXCEPT ![a] = q],
           \/ pc[a] \notin Over /\ q \notin {"write", "bump", "wrap", "exit", "next", "gone"}
           \/ pc[a] \in {"exit", "next"} /\ q \in {"next", "gone"},
           UNCHANGED ring, rpc' = rpc \/ rpc' = Signalled, todo' = todo, freed' = freed
    PROVE  RingsInv'
<1>1. pc' \in [Agent -> Places] /\ \A b \in Agent : Moved(b)
  BY DEF RingsInv, Functions, Moved
<1>2. ReporterElsewhere
  BY SignalIsElsewhere DEF ReporterElsewhere
<1>3. FreedIsLeft'
  BY DEF RingsInv, FreedIsLeft, ring
<1> QED
  BY <1>1, <1>2, <1>3, RestKeeps

LEMMA PlacesStep ==
    ASSUME RingsInv, NEW a \in Agent,
           \/ Connect(a) \/ ConnectFails(a) \/ ReportSettings(a) \/ LeaveBarrier(a)
           \/ PostFirstReport(a) \/ WakeReporter(a) \/ WaitDone(a) \/ ThreadExit(a)
    PROVE  RingsInv'
<1>1. CASE Connect(a)
  <2> DEFINE q == CASE a \in Servers -> "first" [] ReportsSettings(a) -> "settings" [] OTHER -> "barrier"
  <2>1. q \in {"first", "settings", "barrier"}
    OBVIOUS
  <2> HIDE DEF q
  <2>2. pc[a] = "connect" /\ pc' = [pc EXCEPT ![a] = q] /\ UNCHANGED <<ring, list>>
    BY ZenonT(30), <1>1 DEF Connect, Goto, q
  <2> QED
    BY Zenon, <2>1, <2>2, PlaceKeeps DEF Over, Places, list
<1>2. CASE ConnectFails(a)
  BY ZenonT(60), <1>2, PlaceKeeps DEF ConnectFails, Goto, Over, Places, list
<1>3. CASE ReportSettings(a)
  BY ZenonT(60), <1>3, PlaceKeeps DEF ReportSettings, Post, Goto, Over, Places
<1>4. CASE LeaveBarrier(a)
  BY ZenonT(60), <1>4, PlaceKeeps DEF LeaveBarrier, Goto, Over, Places, list
<1>5. CASE PostFirstReport(a)
  BY ZenonT(60), <1>5, PlaceKeeps DEF PostFirstReport, Post, Goto, Over, Places
<1>6. CASE WakeReporter(a)
  BY ZenonT(60), <1>6, PlaceKeeps DEF WakeReporter, Goto, Over, Places
<1>7. CASE WaitDone(a)
  BY ZenonT(60), <1>7, PlaceKeeps DEF WaitDone, Goto, Over, Places, list
<1>8. CASE ThreadExit(a)
  <2> DEFINE q == IF a \in Servers /\ RunNext(a) THEN "next" ELSE "gone"
  <2>1. q \in {"next", "gone"}
    OBVIOUS
  <2> HIDE DEF q
  <2>2. pc[a] = "exit" /\ pc' = [pc EXCEPT ![a] = q] /\ UNCHANGED <<ring, list>>
    BY <1>8 DEF ThreadExit, Goto, q
  <2> QED
    BY Zenon, <2>1, <2>2, PlaceKeeps DEF list, Places, Over
<1> QED
  BY <1>1, <1>2, <1>3, <1>4, <1>5, <1>6, <1>7, <1>8

\* Steps that move several threads, or none.
LEMMA ThreadsStep ==
    ASSUME RingsInv,
           \/ MainStarts \/ MainJoins \/ Sig_Interupt
           \/ \E a \in Agent : BarrierClient(a) \/ StartRunNext(a)
           \/ ListenerStep \/ ListenFails \/ Accept \/ AcceptTimesOut
    PROVE  RingsInv'
<1>1. ASSUME UNCHANGED ring, pc' \in [Agent -> Places], \A b \in Agent : Moved(b),
             rpc' = rpc \/ rpc' = Signalled \/ (rpc = "none" /\ rpc' = "top"), todo' = todo, freed' = freed
      PROVE  RingsInv'
  <2>1. ReporterElsewhere
    BY <1>1, SignalIsElsewhere DEF ReporterElsewhere
  <2>2. FreedIsLeft'
    BY <1>1 DEF RingsInv, FreedIsLeft, ring
  <2> QED
    BY <1>1, <2>1, <2>2, RestKeeps
<1>2. ASSUME pc' = pc
      PROVE  pc' \in [Agent -> Places] /\ \A b \in Agent : Moved(b)
  BY <1>2 DEF RingsInv, Functions, Moved
<1>3. ASSUME NEW S, pc' = Begin(S)
      PROVE  pc' \in [Agent -> Places] /\ \A b \in Agent : Moved(b)
  BY <1>3 DEF RingsInv, Functions, Moved, Begin, Over, Places
<1>4. CASE MainStarts
  BY ZenonT(60), <1>1, <1>3, <1>4 DEF MainStarts, Created
<1>5. CASE MainJoins \/ Sig_Interupt \/ ListenFails \/ Accept \/ AcceptTimesOut
  BY <1>1, <1>2, <1>5 DEF MainJoins, Sig_Interupt, ListenFails, Accept, AcceptTimesOut, list, threads
<1>6. CASE ListenerRegisters \/ Listen \/ ListenerUnregisters \/ ListenerExits
  BY <1>1, <1>2, <1>6 DEF ListenerRegisters, Listen, ListenerUnregisters, ListenerExits, Post, list, threads
<1>7. CASE Launch
  BY ZenonT(30), <1>1, <1>3, <1>7 DEF Launch, list
<1>8. ASSUME NEW a \in Agent, BarrierClient(a)
      PROVE  RingsInv'
  <2>1. UNCHANGED <<ring, list>> /\ pc[a] = "barrier"
    BY ZenonT(60), <1>8 DEF BarrierClient
  <2>2. \/ pc' = [pc EXCEPT ![a] = "first"] \/ pc' = [pc EXCEPT ![a] = "inbarrier"]
        \/ pc' = [b \in Agent |-> IF b = a THEN "first"
                                 ELSE IF pc[b] = "inbarrier" THEN "leaving" ELSE pc[b]]
    BY Zenon, <1>8 DEF BarrierClient, Goto
  <2>3. pc' \in [Agent -> Places] /\ \A b \in Agent : Moved(b)
    BY ZenonT(60), <2>1, <2>2 DEF RingsInv, Functions, Moved, Over, Places
  <2> QED
    BY ZenonT(30), <1>1, <2>1, <2>3 DEF list
<1>9. ASSUME NEW a \in Agent, StartRunNext(a)
      PROVE  RingsInv'
  <2>1. UNCHANGED <<ring, list>> /\ pc[a] = "next" /\ pc' = [Begin({a + 1}) EXCEPT ![a] = "gone"]
    BY <1>9 DEF StartRunNext
  <2>2. pc' \in [Agent -> Places] /\ \A b \in Agent : Moved(b)
    BY ZenonT(30), <2>1 DEF RingsInv, Functions, Moved, Begin, Over, Places
  <2> QED
    BY <1>1, <2>1, <2>2 DEF list
<1> QED
  BY <1>4, <1>5, <1>6, <1>7, <1>8, <1>9 DEF ListenerStep

\* A step on one ring: the others are left alone.
LEMMA OneRing ==
    ASSUME RingsInv, Functions', OnRing', FreedIsLeft', NEW a \in Agent, View(a)',
           \A b \in Agent \ {a} :
              /\ pc'[b] = pc[b] /\ closing'[b] = closing[b] /\ index'[b] = index[b]
              /\ agentindex'[b] = agentindex[b] /\ reporterindex'[b] = reporterindex[b]
              /\ data'[b] = data[b] /\ sent'[b] = sent[b] /\ handled'[b] = handled[b]
              /\ Busy(b)' = Busy(b) /\ Moves(b)' = Moves(b)
    PROVE  RingsInv'
<1>1. \A b \in Agent : View(b)'
  BY ZenonT(30), OtherRing DEF RingsInv
<1> QED
  BY ZenonT(30), <1>1 DEF RingsInv

LEMMA ReadIndexStep ==
    ASSUME RingsInv, NEW a \in Agent, pc[a] \notin Over, ReadIndex(a), NEW e \in BOOLEAN,
           closing' = [closing EXCEPT ![a] = e], ReporterElsewhere, freed' = freed
    PROVE  RingsInv'
<1> DEFINE q == IF agentindex[a] = Ring THEN IF reporterindex[a] = 0 THEN "full" ELSE "wrap"
                ELSE IF reporterindex[a] - 1 = agentindex[a] THEN "full" ELSE "write"
<1>1. /\ index' = [index EXCEPT ![a] = reporterindex[a]] /\ pc' = [pc EXCEPT ![a] = q]
      /\ UNCHANGED <<agentindex, reporterindex, data, sent, handled>>
  BY Zenon DEF ReadIndex, Goto
<1>2. q \in Places
  BY ZenonT(30) DEF Places
<1>3. RingView(pc[a], closing[a], index[a], agentindex[a], reporterindex[a], data[a],
               sent[a], handled[a], Busy(a), Moves(a))
  BY ZenonT(30) DEF RingsInv, View
<1>4. RingView(q, e, reporterindex[a], agentindex[a], reporterindex[a], data[a],
               sent[a], handled[a], Busy(a), Moves(a))
  <2>1. q = IF agentindex[a] = Ring THEN IF reporterindex[a] = 0 THEN "full" ELSE "wrap"
            ELSE IF reporterindex[a] - 1 = agentindex[a] THEN "full" ELSE "write"
    BY Zenon
  <2> HIDE DEF q
  <2> QED
    BY <1>3, <2>1, ReadsAt, Zenon
<1> HIDE DEF q
<1>5. Busy(a)' = Busy(a) /\ Moves(a)' = Moves(a)
  BY ElsewhereKeeps
<1>6. /\ pc'[a] = q /\ closing'[a] = e /\ index'[a] = reporterindex[a]
      /\ \A b \in Agent \ {a} : pc'[b] = pc[b] /\ closing'[b] = closing[b] /\ index'[b] = index[b]
      /\ Functions'
  BY ZenonT(30), <1>1, <1>2 DEF RingsInv, Functions
<1>7. View(a)'
  BY Zenon, <1>1, <1>4, <1>5, <1>6 DEF View
<1>8. OnRing' /\ \A b \in Agent : Busy(b)' = Busy(b) /\ Moves(b)' = Moves(b)
  BY ElsewhereKeeps DEF RingsInv
<1>9. FreedIsLeft'
  BY <1>1 DEF RingsInv, FreedIsLeft
<1> QED
  BY ZenonT(60), <1>1, <1>6, <1>7, <1>8, <1>9, OneRing

LEMMA ReadsStep ==
    ASSUME RingsInv, NEW a \in Agent, ReportPacket(a) \/ CloseReport(a) \/ Reread(a)
    PROVE  RingsInv'
<1>1. closing \in [Agent -> BOOLEAN] /\ closing = [closing EXCEPT ![a] = closing[a]]
  BY DEF RingsInv, Functions
<1>2. CASE ReportPacket(a) \/ Reread(a)
  <2>1. /\ pc[a] \notin Over /\ ReadIndex(a) /\ closing' = [closing EXCEPT ![a] = closing[a]]
        /\ ReporterElsewhere /\ freed' = freed
    BY Zenon, <1>1, <1>2 DEF ReportPacket, Reread, Over, list, ReporterElsewhere
  <2> QED
    BY ZenonT(60), <1>1, <2>1, ReadIndexStep
<1>3. CASE CloseReport(a)
  <2>1. ReporterElsewhere /\ freed' = freed
    BY <1>3, SignalIsElsewhere DEF CloseReport, Post, list, ReporterElsewhere
  <2>2. pc[a] \notin Over /\ ReadIndex(a) /\ closing' = [closing EXCEPT ![a] = TRUE]
    BY <1>3 DEF CloseReport, Over
  <2> QED
    BY Zenon, <2>1, <2>2, ReadIndexStep
<1> QED
  BY <1>2, <1>3

LEMMA WritesStep ==
    ASSUME RingsInv, NEW a \in Agent, Wrap(a) \/ WritePacket(a) \/ Bump(a)
    PROVE  RingsInv'
<1>1. RingView(pc[a], closing[a], index[a], agentindex[a], reporterindex[a], data[a],
               sent[a], handled[a], Busy(a), Moves(a))
  BY Zenon DEF RingsInv, View
<1>2. /\ UNCHANGED <<closing, index, reporterindex, handled, rpc, todo, freed>>
      /\ pc[a] \in {"wrap", "write", "bump"}
  BY DEF Wrap, WritePacket, Bump, list
<1>3. OnRing' /\ \A b \in Agent : Busy(b)' = Busy(b) /\ Moves(b)' = Moves(b)
  BY ZenonT(30), <1>2, ElsewhereKeeps DEF RingsInv, ReporterElsewhere
<1>4. agentindex[a] # -1 /\ DataReport(a) \notin freed
  BY ZenonT(60), <1>1, <1>2 DEF RingView, RingsInv, FreedIsLeft
<1>5. CASE Wrap(a)
  <2> DEFINE q == IF index[a] - 1 = 0 THEN "full" ELSE "write"
  <2>1. /\ pc[a] = "wrap" /\ agentindex' = [agentindex EXCEPT ![a] = 0] /\ pc' = [pc EXCEPT ![a] = q]
        /\ UNCHANGED <<data, sent>>
    BY ZenonT(30), <1>5 DEF Wrap, Goto
  <2>2. RingView(q, closing[a], index[a], 0, reporterindex[a], data[a],
                 sent[a], handled[a], Busy(a), Moves(a))
    BY Zenon, <1>1, <2>1, Wraps
  <2>3. q \in Places
    BY DEF Places
  <2> HIDE DEF q
  <2>4. Functions' /\ pc'[a] = q /\ agentindex'[a] = 0
        /\ \A b \in Agent \ {a} : pc'[b] = pc[b] /\ agentindex'[b] = agentindex[b]
    <3>1. pc' \in [Agent -> Places] /\ pc'[a] = q /\ \A b \in Agent \ {a} : pc'[b] = pc[b]
      BY Zenon, <2>1, <2>3, Updated DEF RingsInv, Functions
    <3>2. agentindex' \in [Agent -> Int] /\ agentindex'[a] = 0 /\ \A b \in Agent \ {a} : agentindex'[b] = agentindex[b]
      <4>1. agentindex \in [Agent -> Int]
        BY Zenon DEF RingsInv, Functions
      <4>2. 0 \in Int
        BY SMT
      <4> QED
        BY Zenon, <2>1, <4>1, <4>2, Updated
    <3> QED
      BY Zenon, <1>2, <2>1, <3>1, <3>2 DEF RingsInv, Functions
  <2>5. View(a)'
    BY ZenonT(30), <1>2, <1>3, <2>1, <2>2, <2>4 DEF View
  <2>6. FreedIsLeft'
    BY ZenonT(30), <1>2, <1>4, <2>4 DEF RingsInv, FreedIsLeft
  <2> QED
    BY Zenon, <1>2, <1>3, <2>1, <2>4, <2>5, <2>6, OneRing
<1>6. CASE WritePacket(a)
  <2> DEFINE b0 == [data[a] EXCEPT ![agentindex[a]] = [n |-> sent[a] + 1, fin |-> closing[a]]]
  <2>1. /\ pc[a] = "write" /\ pc' = [pc EXCEPT ![a] = "bump"]
        /\ data' = [data EXCEPT ![a] = b0]
        /\ UNCHANGED <<agentindex, sent>>
    BY ZenonT(30), <1>6 DEF WritePacket, Goto, Packet
  <2>2. RingView("bump", closing[a], index[a], agentindex[a], reporterindex[a], b0,
                 sent[a], handled[a], Busy(a), Moves(a))
    BY ZenonT(30), <1>1, <2>1, Fills
  <2> HIDE DEF b0
  <2>3. b0 \in [Slots -> [n : Int, fin : BOOLEAN]] /\ "bump" \in Places
    BY Zenon, <2>2 DEF RingView, Places
  <2>4. Functions' /\ pc'[a] = "bump" /\ data'[a] = b0
        /\ \A b \in Agent \ {a} : pc'[b] = pc[b] /\ data'[b] = data[b]
    BY ZenonT(30), <1>2, <2>1, <2>3 DEF RingsInv, Functions
  <2>5. View(a)'
    BY ZenonT(30), <1>2, <1>3, <2>1, <2>2, <2>4 DEF View
  <2>6. FreedIsLeft'
    BY ZenonT(30), <1>2, <2>1 DEF RingsInv, FreedIsLeft
  <2> QED
    BY Zenon, <1>2, <1>3, <2>1, <2>4, <2>5, <2>6, OneRing
<1>7. CASE Bump(a)
  <2> DEFINE q == IF closing[a] THEN "closed" ELSE "traffic"
  <2>1. /\ pc[a] = "bump" /\ pc' = [pc EXCEPT ![a] = q]
        /\ agentindex' = [agentindex EXCEPT ![a] = @ + 1] /\ sent' = [sent EXCEPT ![a] = @ + 1]
        /\ UNCHANGED data
    BY ZenonT(30), <1>7 DEF Bump, Goto
  <2>2. RingView(q, closing[a], index[a], agentindex[a] + 1, reporterindex[a], data[a],
                 sent[a] + 1, handled[a], Busy(a), Moves(a))
    BY Zenon, <1>1, <2>1, Bumps
  <2>3. q \in Places
    BY DEF Places, Over
  <2> HIDE DEF q
  <2>4. Functions' /\ pc'[a] = q /\ agentindex'[a] = agentindex[a] + 1 /\ sent'[a] = sent[a] + 1
        /\ \A b \in Agent \ {a} : pc'[b] = pc[b] /\ agentindex'[b] = agentindex[b] /\ sent'[b] = sent[b]
    <3>1. pc' \in [Agent -> Places] /\ pc'[a] = q /\ \A b \in Agent \ {a} : pc'[b] = pc[b]
      BY Zenon, <2>1, <2>3, Updated DEF RingsInv, Functions
    <3>2. agentindex' \in [Agent -> Int] /\ agentindex'[a] = agentindex[a] + 1 /\ \A b \in Agent \ {a} : agentindex'[b] = agentindex[b]
      <4>1. agentindex \in [Agent -> Int]
        BY Zenon DEF RingsInv, Functions
      <4>2. agentindex[a] + 1 \in Int
        BY <4>1
      <4> QED
        BY Zenon, <2>1, <4>1, <4>2, Updated
    <3>3. sent' \in [Agent -> Int] /\ sent'[a] = sent[a] + 1 /\ \A b \in Agent \ {a} : sent'[b] = sent[b]
      <4>1. sent \in [Agent -> Int]
        BY Zenon DEF RingsInv, Functions
      <4>2. sent[a] + 1 \in Int
        BY <4>1
      <4> QED
        BY Zenon, <2>1, <4>1, <4>2, Updated
    <3> QED
      BY Zenon, <1>2, <2>1, <3>1, <3>2, <3>3 DEF RingsInv, Functions
  <2>5. View(a)'
    BY ZenonT(30), <1>2, <1>3, <2>1, <2>2, <2>4 DEF View
  <2>6. FreedIsLeft'
    BY <1>2, <1>4, <2>4, Zenon DEF RingsInv, FreedIsLeft
  <2> QED
    BY <1>2, <1>3, <2>1, <2>4, <2>5, <2>6, OneRing
<1> QED
  BY ZenonT(30), <1>5, <1>6, <1>7

LEMMA LeavesStep ==
    ASSUME RingsInv, NEW a \in Agent, GetReport(a) \/ EndReport(a)
    PROVE  RingsInv'
<1>1. RingView(pc[a], closing[a], index[a], agentindex[a], reporterindex[a], data[a],
               sent[a], handled[a], Busy(a), Moves(a)) /\ reporterindex[a] = -1
  BY ZenonT(60) DEF RingsInv, View, GetReport, EndReport
<1>2. UNCHANGED <<closing, index, reporterindex, data, sent, handled, rpc, todo, freed>>
  BY Zenon DEF GetReport, EndReport, list, ring
<1>3. OnRing' /\ \A b \in Agent : Busy(b)' = Busy(b) /\ Moves(b)' = Moves(b)
  BY ZenonT(30), <1>2, ElsewhereKeeps DEF RingsInv, ReporterElsewhere
<1>4. CASE GetReport(a)
  <2>1. pc[a] = "closed" /\ pc' = [pc EXCEPT ![a] = "end"] /\ agentindex' = agentindex
    BY ZenonT(30), <1>4 DEF GetReport, Goto, ring
  <2>2. agentindex[a] # -1
    BY ZenonT(60), <1>1, <2>1 DEF RingView
  <2>3. RingView("end", closing[a], index[a], agentindex[a], reporterindex[a], data[a],
                 sent[a], handled[a], Busy(a), Moves(a))
    BY Zenon, <1>1, <2>2, Leaves
  <2>4. Functions' /\ pc'[a] = "end" /\ \A b \in Agent \ {a} : pc'[b] = pc[b]
    BY ZenonT(30), <1>2, <2>1 DEF RingsInv, Functions, Places, Over
  <2>5. View(a)' /\ FreedIsLeft'
    BY ZenonT(60), <1>2, <1>3, <2>1, <2>3, <2>4 DEF View, RingsInv, FreedIsLeft
  <2> QED
    BY ZenonT(30), <1>2, <1>3, <2>1, <2>4, <2>5, OneRing
<1>5. CASE EndReport(a)
  <2>1. pc' = [pc EXCEPT ![a] = "exit"] /\ agentindex' = [agentindex EXCEPT ![a] = -1]
    BY ZenonT(30), <1>5 DEF EndReport, Goto
  <2>2. RingView("exit", closing[a], index[a], -1, reporterindex[a], data[a],
                 sent[a], handled[a], Busy(a), Moves(a))
    BY Zenon, <1>1, Leaves
  <2>3. Functions' /\ pc'[a] = "exit" /\ agentindex'[a] = -1
        /\ \A b \in Agent \ {a} : pc'[b] = pc[b] /\ agentindex'[b] = agentindex[b]
    <3>1. pc' \in [Agent -> Places] /\ pc'[a] = "exit" /\ \A b \in Agent \ {a} : pc'[b] = pc[b]
      <4>1. pc \in [Agent -> Places]
        BY Zenon DEF RingsInv, Functions
      <4>2. "exit" \in Places
        BY SMT DEF Places, Over
      <4> QED
        BY Zenon, <2>1, <4>1, <4>2, Updated
    <3>2. agentindex' \in [Agent -> Int] /\ agentindex'[a] = -1 /\ \A b \in Agent \ {a} : agentindex'[b] = agentindex[b]
      <4>1. agentindex \in [Agent -> Int]
        BY Zenon DEF RingsInv, Functions
      <4>2. -1 \in Int
        BY SMT
      <4> QED
        BY Zenon, <2>1, <4>1, <4>2, Updated
    <3> QED
      BY Zenon, <1>2, <2>1, <3>1, <3>2 DEF RingsInv, Functions
  <2>4. View(a)' /\ FreedIsLeft'
    BY Zenon, <1>2, <1>3, <2>2, <2>3 DEF View, RingsInv, FreedIsLeft
  <2> QED
    BY Zenon, <1>2, <1>3, <2>3, <2>4, OneRing
<1> QED
  BY ZenonT(30), <1>4, <1>5

\* The reporter between rings: it takes the list, prints, frees and signals.
LEMMA ReporterRest ==
    ASSUME RingsInv,
           \/ ReporterIdles \/ ReporterWakes \/ ReporterPicks \/ ReporterPrints
           \/ ReporterEnds \/ ReporterSignals
    PROVE  RingsInv'
<1>1. UNCHANGED ring
  BY ZenonT(60) DEF ReporterIdles, ReporterWakes, ReporterPicks, ReporterPrints, ReporterEnds, ReporterSignals
<1>2. ReporterElsewhere
  BY DEF ReporterElsewhere, ReporterIdles, ReporterWakes, ReporterPicks, ReporterPrints,
         ReporterEnds, ReporterSignals, ReportDone
<1>3. pc' \in [Agent -> Places] /\ \A b \in Agent : Moved(b)
  <2>1. CASE pc' = pc
    BY <2>1 DEF RingsInv, Functions, Moved
  <2>2. ASSUME NEW a \in Agent, pc[a] = "asleep", pc' = [pc EXCEPT ![a] = "awake"]
        PROVE  pc' \in [Agent -> Places] /\ \A b \in Agent : Moved(b)
    BY <2>2 DEF RingsInv, Functions, Moved, Places, Over
  <2> QED
    BY ZenonT(60), <2>1, <2>2 DEF ReporterIdles, ReporterWakes, ReporterPicks, ReporterPrints, ReporterEnds,
                      ReporterSignals, Goto
<1>4. FreedIsLeft'
  <2>1. CASE freed' = freed
    BY <1>1, <2>1 DEF RingsInv, FreedIsLeft, ring
  <2>2. CASE ReporterPrints
    <3>1. freed' = freed \cup {Current} /\ ~OfTransfer
      BY <2>2 DEF ReporterPrints, ReportDone
    <3>2. \A a \in Agent : DataReport(a) # Current
      BY <3>1, Zenon DEF OfTransfer
    <3> QED
      BY <1>1, <3>1, <3>2 DEF RingsInv, FreedIsLeft, ring
  <2>3. CASE ReporterEnds
    <3>1. OfTransfer /\ freed' = IF agentindex[Current.of] = -1 THEN freed \cup {Current} ELSE freed
      BY Zenon, <2>3 DEF ReporterEnds, ReportDone, RingsInv, OnRing
    <3>2. ASSUME NEW a \in Agent, DataReport(a) = Current
          PROVE  Current.of = a
      BY ZenonT(30), <3>2 DEF DataReport, Report
    <3> QED
      BY <1>1, <3>1, <3>2 DEF RingsInv, FreedIsLeft, ring
  <2> QED
    BY <2>1, <2>2, <2>3 DEF ReporterIdles, ReporterWakes, ReporterPicks, ReporterSignals
<1> QED
  BY ZenonT(30), <1>1, <1>2, <1>3, <1>4, RestKeeps

LEMMA ReporterOnRing ==
    ASSUME RingsInv, ReporterTests \/ ReporterAdvances \/ ReporterHandles
    PROVE  RingsInv'
<1> DEFINE a == Current.of
           V(busy, moves) == RingView(pc[a], closing[a], index[a], agentindex[a], reporterindex[a],
                                      data[a], sent[a], handled[a], busy, moves)
<1>1. OfTransfer /\ a \in Agent
  BY ZenonT(30), OfIsAgent DEF ReporterTests, ReporterAdvances, ReporterHandles, RingsInv, OnRing
<1>2. UNCHANGED <<pc, closing, index, agentindex, data, sent, todo, freed>>
  BY Zenon DEF ReporterTests, ReporterAdvances, ReporterHandles, ring
<1>3. Current' = Current /\ OfTransfer' /\ OnRing' /\ FreedIsLeft'
  BY Zenon, <1>1, <1>2 DEF Current, OfTransfer, OnRing, RingsInv, FreedIsLeft
<1>4. \A b \in Agent \ {a} : Busy(b)' = Busy(b) /\ Moves(b)' = Moves(b)
  BY ZenonT(30), <1>3 DEF Busy, Moves
<1>5. V(Busy(a), Moves(a))
  BY Zenon, <1>1 DEF RingsInv, View
<1> DEFINE Done == /\ View(a)'
                   /\ reporterindex' \in [Agent -> Int] /\ handled' \in [Agent -> Int]
                   /\ \A b \in Agent \ {a} : reporterindex'[b] = reporterindex[b] /\ handled'[b] = handled[b]
<1>6. ASSUME ReporterTests
      PROVE  Done
  <2>1. /\ rpc = "report" /\ UNCHANGED <<reporterindex, handled>>
        /\ rpc' = IF reporterindex[a] >= 0 /\ reporterindex[a] # agentindex[a] - 1
                  THEN "advance" ELSE "ended"
    BY Zenon, <1>6 DEF ReporterTests, ring
  <2>2. Busy(a) = FALSE /\ Moves(a) = FALSE /\ Busy(a)' = FALSE
    BY ZenonT(30), <2>1 DEF Busy, Moves
  <2>3. V(FALSE, FALSE)
    BY Zenon, <1>5, <2>2
  <2>4. CASE rpc' = "advance"
    <3>1. Moves(a)' = TRUE
      BY <1>3, <2>4 DEF Moves
    <3>2. reporterindex[a] >= 0 /\ reporterindex[a] # agentindex[a] - 1
      BY <2>1, <2>4
    <3>3. V(FALSE, TRUE)
      BY Zenon, <2>3, <3>2, Tested
    <3>4. View(a)'
      BY ZenonT(60), <1>2, <1>3, <2>1, <2>2, <3>1, <3>3 DEF View
    <3> QED
      BY <2>1, <3>4 DEF RingsInv, Functions
  <2>5. CASE rpc' = "ended"
    <3>1. Moves(a)' = FALSE
      BY <2>5 DEF Moves
    <3>2. View(a)'
      BY ZenonT(60), <1>2, <1>3, <2>1, <2>2, <2>3, <3>1 DEF View
    <3> QED
      BY <2>1, <3>2 DEF RingsInv, Functions
  <2> QED
    BY ZenonT(30), <2>1, <2>4, <2>5
<1>7. ASSUME ReporterAdvances
      PROVE  Done
  <2> DEFINE Q == IF reporterindex[a] = Ring - 1 THEN 0 ELSE reporterindex[a] + 1
  <2>1. rpc = "advance" /\ handled' = handled
    BY <1>7 DEF ReporterAdvances
  <2>2. Busy(a) = FALSE /\ Moves(a) = TRUE
    BY <2>1 DEF Busy, Moves
  <2>3. V(FALSE, TRUE)
    BY ZenonT(60), <1>5, <2>2
  <2>4. CASE reporterindex[a] = Ring - 1 /\ agentindex[a] = 0
    <3>1. rpc' = "ended" /\ reporterindex' = reporterindex
      BY Zenon, <1>7, <2>4 DEF ReporterAdvances
    <3>2. Busy(a)' = FALSE /\ Moves(a)' = FALSE
      BY <3>1 DEF Busy, Moves
    <3>3. V(FALSE, FALSE)
      BY Zenon, <2>3, Untested
    <3>4. View(a)'
      BY ZenonT(60), <1>2, <1>3, <2>1, <3>1, <3>2, <3>3 DEF View
    <3> QED
      BY <2>1, <3>1, <3>4 DEF RingsInv, Functions
  <2>5. CASE ~(reporterindex[a] = Ring - 1 /\ agentindex[a] = 0)
    <3>1. rpc' = "handle" /\ reporterindex' = [reporterindex EXCEPT ![a] = Q]
      BY Zenon, <1>7, <2>5 DEF ReporterAdvances
    <3>2. Busy(a)' = TRUE /\ Moves(a)' = FALSE
      BY ZenonT(30), <1>3, <3>1 DEF Busy, Moves
    <3>3. RingView(pc[a], closing[a], index[a], agentindex[a], Q, data[a], sent[a], handled[a], TRUE, FALSE)
      BY ZenonT(60), <2>3, <2>5, Advances
    <3>4. Q \in Int
      BY <1>1 DEF RingsInv, Functions
    <3> HIDE DEF Q
    <3>5. reporterindex'[a] = Q /\ reporterindex' \in [Agent -> Int]
          /\ \A b \in Agent \ {a} : reporterindex'[b] = reporterindex[b]
      BY <1>1, <3>1, <3>4 DEF RingsInv, Functions
    <3>6. View(a)'
      BY Zenon, <1>2, <1>3, <2>1, <3>2, <3>3, <3>5 DEF View
    <3> QED
      BY <2>1, <3>5, <3>6 DEF RingsInv, Functions
  <2> QED
    BY <2>4, <2>5
<1>8. ASSUME ReporterHandles
      PROVE  Done
  <2> DEFINE Q == IF data[a][reporterindex[a]].fin THEN -1 ELSE reporterindex[a]
  <2>1. /\ rpc = "handle" /\ rpc' \in {"ended", "report"}
        /\ handled' = [handled EXCEPT ![a] = @ + 1]
        /\ reporterindex' = [reporterindex EXCEPT ![a] = Q]
    BY ZenonT(30), <1>8 DEF ReporterHandles
  <2>2. Busy(a) = TRUE /\ Moves(a) = FALSE /\ Busy(a)' = FALSE /\ Moves(a)' = FALSE
    BY ZenonT(30), <2>1 DEF Busy, Moves
  <2>3. V(TRUE, FALSE)
    BY Zenon, <1>5, <2>2
  <2>4. RingView(pc[a], closing[a], index[a], agentindex[a], Q, data[a], sent[a], handled[a] + 1, FALSE, FALSE)
    BY ZenonT(60), <2>3, Handles
  <2>5. Q \in Int
    BY <1>1 DEF RingsInv, Functions
  <2> HIDE DEF Q
  <2>6. /\ reporterindex'[a] = Q /\ reporterindex' \in [Agent -> Int]
        /\ handled'[a] = handled[a] + 1 /\ handled' \in [Agent -> Int]
        /\ \A b \in Agent \ {a} : reporterindex'[b] = reporterindex[b] /\ handled'[b] = handled[b]
    BY <1>1, <2>1, <2>5 DEF RingsInv, Functions
  <2>7. View(a)'
    BY Zenon, <1>2, <1>3, <2>2, <2>4, <2>6 DEF View
  <2> QED
    BY ZenonT(30), <2>6, <2>7
<1>9. Done
  BY ZenonT(30), <1>6, <1>7, <1>8
<1>10. Functions'
  BY <1>2, <1>9 DEF RingsInv, Functions
<1> QED
  BY Zenon, <1>1, <1>2, <1>3, <1>4, <1>9, <1>10, OneRing

LEMMA RingsStep == RingsInv /\ [Next]_vars => RingsInv'
<1> SUFFICES ASSUME RingsInv, [Next]_vars
             PROVE  RingsInv'
  OBVIOUS
<1>1. CASE UNCHANGED vars
  <2>1. ring' = ring /\ pc' = pc /\ rpc' = rpc /\ todo' = todo /\ freed' = freed
    BY ZenonT(30), <1>1 DEF vars, ring
  <2>2. pc' \in [Agent -> Places] /\ (\A b \in Agent : Moved(b)) /\ ReporterElsewhere /\ FreedIsLeft'
    BY ZenonT(30), <2>1 DEF RingsInv, Functions, Moved, ReporterElsewhere, FreedIsLeft, ring
  <2> QED
    BY ZenonT(30), <2>1, <2>2, RestKeeps
<1>2. ASSUME NEW a \in Agent, AgentStep(a)
      PROVE  RingsInv'
  BY <1>2, PlacesStep, ThreadsStep, ReadsStep, WritesStep, LeavesStep DEF AgentStep
<1>3. CASE ReporterStep
  BY <1>3, ReporterRest, ReporterOnRing DEF ReporterStep
<1> QED
  BY <1>1, <1>2, <1>3, PlacesStep, ThreadsStep DEF Next

\* ReportPacket() and the reporter share a ring without a lock (Reporter.c:389-480,
\* 519-546): for any length of the ring above 2 and any number of agents and
\* packets, the reporter is given the packets of an agent in order, none twice,
\* none lost, none half written, and frees a ring only when its agent has left.
THEOREM RingNeedsNoLock == Spec => []RingSafe
<1>1. RingsInv => RingSafe
  <2> SUFFICES ASSUME RingsInv
               PROVE  RingSafe
    BY Zenon
  <2>1. ReadsNext
    <3> SUFFICES ASSUME rpc = "handle"
                 PROVE  data[Current.of][reporterindex[Current.of]].n = handled[Current.of] + 1
      BY DEF ReadsNext
    <3> DEFINE a == Current.of
    <3>1. a \in Agent
      BY OfIsAgent DEF RingsInv, OnRing
    <3>2. Busy(a) = TRUE
      BY ZenonT(30) DEF Busy
    <3>3. RingView(pc[a], closing[a], index[a], agentindex[a], reporterindex[a], data[a],
                   sent[a], handled[a], TRUE, Moves(a))
      BY Zenon, <3>1, <3>2 DEF RingsInv, View
    <3> QED
      BY ZenonT(60), <3>3 DEF RingView
  <2>2. NoUseAfterFree
    <3> SUFFICES ASSUME NEW a \in Agent, InTransfer(a), DataReport(a) \in freed
                 PROVE  FALSE
      BY DEF NoUseAfterFree
    <3>1. agentindex[a] = -1
      BY DEF RingsInv, FreedIsLeft
    <3>2. View(a)
      BY DEF RingsInv
    <3> QED
      BY Zenon, <3>1, <3>2 DEF View, RingView, InTransfer
  <2> QED
    BY <2>1, <2>2 DEF RingSafe
<1> QED
  BY RingsInit, RingsStep, <1>1, PTL DEF Spec

-----------------------------------------------------------------------------
(* The totals of a session.                                                *)

(***************************************************************************)
(* AccountingAddsUp is not inductive.  What is: each number is on its way  *)
(* or read once (Fresh), and what was read, late or early, is what was     *)
(* counted (Balance): a packet beyond the highest number raises PacketID   *)
(* by one more than cntError, any other raises cntOutofOrder.              *)
(***************************************************************************)
Datagrams == [id : Nat, fin : BOOLEAN]

UdpInv ==
    /\ packetID \in Nat /\ PacketID \in Nat /\ cntError \in Nat /\ cntOutofOrder \in Nat
    /\ toServer \subseteq Datagrams
    /\ got \subseteq 0 .. PacketID

Fresh ==
    /\ cpc = "header" => packetID > 0 /\ \A d \in toServer : d.id # 0
    /\ cpc = "header" => 0 \notin got
    /\ \A d \in toServer : d.id < packetID /\ d.id \notin got
    /\ \A n \in got : n < packetID
    /\ \A d, e \in toServer : d.id = e.id => d = e

Balance == Cardinality(got) = PacketID - cntError + cntOutofOrder

AccountInv == UdpInv /\ Fresh /\ Balance

\* What the two ends of a TCP connection have counted: the header and the
\* blocks are read, or still in the stream; the end comes after all of them.
HeaderLen == IF test.extend /\ cpc # "header" THEN 1 ELSE 0

TcpInv ==
    test.proto = "tcp" =>
       /\ toServer = {} /\ ~test.single /\ cpc \notin {"fin", "finack"}
       /\ wrote \in Nat /\ stream \in Nat /\ TotalLen \in Nat
       /\ spc \in {"none", "run", "close", "gone"}
       /\ spc # "gone" => TotalLen + stream = wrote + HeaderLen
       /\ eof => cpc = "done"
       /\ spc = "close" /\ ~stopped => emptyreport /\ stream = 0 /\ eof
       /\ spc = "gone" /\ ~stopped => eof /\ TotalLen = wrote + HeaderLen

Flags ==
    /\ test \in SessTests
    /\ cpc \in {"header", "headerack", "send", "fin", "finack", "done"}
    /\ stopped \in BOOLEAN /\ emptyreport \in BOOLEAN /\ eof \in BOOLEAN
    /\ test.single => test.proto = "udp"
    /\ cpc = "header" => test.extend

SessInv == Flags /\ AccountInv /\ TcpInv

LEMMA GotIsFinite ==
    ASSUME UdpInv
    PROVE  IsFiniteSet(got) /\ Cardinality(got) \in Nat
<1>1. 0 \in Int /\ PacketID \in Int /\ got \in SUBSET (0 .. PacketID)
  BY DEF UdpInv
<1>2. IsFiniteSet(0 .. PacketID)
  BY Zenon, <1>1, FS_Interval
<1>3. IsFiniteSet(got)
  BY Zenon, <1>1, <1>2, FS_Subset
<1> QED
  BY Zenon, <1>3, FS_CardinalityType

\* reporter_handle_packet(): a number that was not read before.
LEMMA AccountKeeps ==
    ASSUME UdpInv, Balance, NEW n \in Nat, n \notin got, Account(n), got' = got \cup {n}
    PROVE  /\ PacketID' \in Nat /\ cntError' \in Nat /\ cntOutofOrder' \in Nat
           /\ got' \subseteq 0 .. PacketID'
           /\ Balance'
<1>1. IsFiniteSet(got) /\ Cardinality(got) \in Nat
  BY GotIsFinite
<1>2. Cardinality(got') = Cardinality(got) + 1
  BY Zenon, <1>1, FS_AddElement
<1>3. /\ PacketID' \in Nat /\ cntError' \in Nat /\ cntOutofOrder' \in Nat
      /\ PacketID' >= PacketID /\ n <= PacketID'
  BY DEF UdpInv, Account
<1>4. got' \subseteq 0 .. PacketID'
  BY <1>3 DEF UdpInv
<1>5. PacketID' - cntError' + cntOutofOrder' = PacketID - cntError + cntOutofOrder + 1
  BY DEF UdpInv, Account
<1> QED
  BY Zenon, <1>1, <1>2, <1>3, <1>4, <1>5 DEF Balance, UdpInv

LEMMA SessInitInv == SessInit => SessInv
<1> SUFFICES ASSUME NEW t \in SessTests, SessStart(t),
                    t.single => t.proto = "udp" /\ ~t.multicast
             PROVE  SessInv
  BY DEF SessInit
<1>1. Flags
  BY Zenon DEF SessStart, Flags
<1>2. Cardinality({}) = 0
  BY FS_EmptySet
<1>3. AccountInv
  BY <1>2 DEF SessStart, AccountInv, UdpInv, Fresh, Balance
<1>4. TcpInv
  BY DEF SessStart, TcpInv, HeaderLen, SessTests
<1> QED
  BY <1>1, <1>3, <1>4 DEF SessInv

-----------------------------------------------------------------------------
(* The accounts, step by step.                                             *)

\* Steps that read no datagram and send none.
LEMMA AccountRest ==
    ASSUME AccountInv, UNCHANGED <<packetID, PacketID, cntError, cntOutofOrder, got>>,
           toServer' \subseteq toServer, cpc' = "header" => cpc = "header"
    PROVE  AccountInv'
<1>1. UdpInv'
  BY DEF AccountInv, UdpInv
<1>2. Fresh'
  BY Zenon DEF AccountInv, Fresh
<1>3. Balance'
  BY DEF AccountInv, Balance
<1> QED
  BY <1>1, <1>2, <1>3 DEF AccountInv

\* A datagram is sent with a number of its own.
LEMMA AccountSends ==
    ASSUME AccountInv, UNCHANGED <<PacketID, cntError, cntOutofOrder, got>>,
           cpc' # "header", packetID' \in Nat, packetID' >= packetID,
           NEW n \in Nat, NEW b \in BOOLEAN, toServer' = toServer \cup {Datagram(n, b)},
           n < packetID', n \notin got, \A d \in toServer : d.id # n
    PROVE  AccountInv'
<1>1. Datagram(n, b) \in Datagrams /\ Datagram(n, b).id = n
  BY DEF Datagram, Datagrams
<1>2. UdpInv'
  BY <1>1 DEF AccountInv, UdpInv
<1>3. \A d \in toServer : d.id \in Nat /\ d.id < packetID
  BY Zenon DEF AccountInv, UdpInv, Fresh, Datagrams
<1>4. \A m \in got : m \in Nat /\ m < packetID
  BY DEF AccountInv, UdpInv, Fresh
<1>5. packetID \in Nat
  BY DEF AccountInv, UdpInv
<1>6. \A d \in toServer' : d \in toServer \/ d = Datagram(n, b)
  OBVIOUS
<1>7. \A d \in toServer' : d.id < packetID' /\ d.id \notin got
  <2>1. \A d \in toServer : d.id < packetID'
    BY <1>3, <1>5
  <2>2. \A d \in toServer : d.id \notin got
    BY DEF AccountInv, Fresh
  <2> QED
    BY Zenon, <1>1, <1>6, <2>1, <2>2
<1>8. \A m \in got : m < packetID'
  BY <1>4, <1>5
<1>9. \A d, e \in toServer' : d.id = e.id => d = e
  BY Zenon, <1>1, <1>6 DEF AccountInv, Fresh
<1>10. Fresh'
  BY Zenon, <1>7, <1>8, <1>9 DEF Fresh
<1>11. Balance'
  BY DEF AccountInv, Balance
<1> QED
  BY <1>2, <1>10, <1>11 DEF AccountInv

\* The listener starts a server, with accounts of its own.
LEMMA AccountStarts ==
    ASSUME AccountInv, PacketID' = 0, cntError' = 0, cntOutofOrder' = 0, got' = {},
           toServer' \subseteq toServer, UNCHANGED <<packetID, cpc>>
    PROVE  AccountInv'
<1>1. UdpInv'
  BY DEF AccountInv, UdpInv
<1>2. Fresh'
  BY Zenon DEF AccountInv, Fresh
<1>3. Balance'
  BY FS_EmptySet DEF Balance
<1> QED
  BY <1>1, <1>2, <1>3 DEF AccountInv

\* The server reads a datagram.
LEMMA AccountReads ==
    ASSUME AccountInv, NEW d \in toServer, toServer' = toServer \ {d}, Account(d.id),
           got' = got \cup {d.id}, UNCHANGED <<packetID, cpc>>
    PROVE  AccountInv'
<1>1. d.id \in Nat /\ d.id \notin got /\ d.id < packetID
  BY DEF AccountInv, UdpInv, Fresh, Datagrams
<1>2. UdpInv /\ Balance /\ toServer' \subseteq toServer
  BY DEF AccountInv
<1>3. /\ PacketID' \in Nat /\ cntError' \in Nat /\ cntOutofOrder' \in Nat
      /\ got' \subseteq 0 .. PacketID' /\ Balance'
  BY Zenon, <1>1, <1>2, AccountKeeps
<1>4. UdpInv'
  BY <1>2, <1>3 DEF UdpInv
<1>5. \A e \in toServer' : e \in toServer /\ e.id # d.id
  BY DEF AccountInv, Fresh
<1>6. Fresh'
  <2>1. \A e \in toServer' : e.id < packetID' /\ e.id \notin got'
    BY Zenon, <1>5 DEF AccountInv, Fresh
  <2>2. \A m \in got' : m < packetID'
    BY Zenon, <1>1 DEF AccountInv, Fresh
  <2>3. cpc' = "header" => d.id # 0
    BY Zenon DEF AccountInv, Fresh
  <2> QED
    BY Zenon, <1>5, <2>1, <2>2, <2>3 DEF AccountInv, Fresh
<1> QED
  BY <1>3, <1>4, <1>6 DEF AccountInv

LEMMA AccountStep == SessInv /\ SessNext => AccountInv'
<1> SUFFICES ASSUME SessInv, SessNext
             PROVE  AccountInv'
  OBVIOUS
<1>a. AccountInv /\ packetID \in Nat
  BY DEF SessInv, AccountInv, UdpInv
<1>b. (\A d \in toServer : d.id < packetID /\ d.id \in Nat) /\ (\A m \in got : m < packetID /\ m \in Nat)
  BY DEF SessInv, AccountInv, UdpInv, Fresh, Datagrams
<1>c. packetID \notin got /\ \A d \in toServer : d.id # packetID
  BY <1>a, <1>b
<1>1. CASE SendHeader
  <2>1. CASE UDP
    <3>1. /\ cpc = "header" /\ cpc' = "headerack" /\ toServer' = toServer \cup {Datagram(0, FALSE)}
          /\ UNCHANGED <<packetID, PacketID, cntError, cntOutofOrder, got>>
      BY Zenon, <1>1, <2>1 DEF SendHeader, server
    <3>2. 0 < packetID' /\ 0 \notin got /\ \A d \in toServer : d.id # 0
      BY <1>a, <3>1 DEF AccountInv, Fresh
    <3>3. packetID' \in Nat /\ packetID' >= packetID /\ cpc' # "header" /\ 0 \in Nat /\ FALSE \in BOOLEAN
      BY <1>a, <3>1
    <3> QED
      BY Zenon, <1>a, <3>1, <3>2, <3>3, AccountSends
  <2>2. CASE ~UDP
    <3>1. /\ cpc' = "headerack" /\ toServer' = toServer
          /\ UNCHANGED <<packetID, PacketID, cntError, cntOutofOrder, got>>
      BY <1>1, <2>2 DEF SendHeader, server
    <3> QED
      BY <1>a, <3>1, AccountRest
  <2> QED
    BY <2>1, <2>2
<1>2. CASE WriteDatagram
  <2>1. /\ cpc' = "send" /\ packetID' = packetID + 1 /\ toServer' = toServer \cup {Datagram(packetID, FALSE)}
        /\ UNCHANGED <<PacketID, cntError, cntOutofOrder, got>>
    BY <1>2 DEF WriteDatagram, server
  <2>2. packetID' \in Nat /\ packetID' >= packetID /\ packetID < packetID' /\ cpc' # "header" /\ FALSE \in BOOLEAN
    BY <1>a, <2>1
  <2> QED
    BY ZenonT(60), <1>a, <1>c, <2>1, <2>2, AccountSends
<1>3. CASE SendFin
  <2>1. /\ cpc' # "header" /\ packetID' = packetID + 1
        /\ toServer' = toServer \cup {Datagram(packetID, packetID > 0)}
        /\ UNCHANGED <<PacketID, cntError, cntOutofOrder, got>>
    BY <1>3 DEF SendFin, server
  <2>2. packetID' \in Nat /\ packetID' >= packetID /\ packetID < packetID' /\ (packetID > 0) \in BOOLEAN
    BY <1>a, <2>1
  <2> QED
    BY ZenonT(60), <1>a, <1>c, <2>1, <2>2, AccountSends
<1>4. CASE AcceptDatagram \/ AcceptConnection \/ SingleAccepts
  <2>1. /\ PacketID' = 0 /\ cntError' = 0 /\ cntOutofOrder' = 0 /\ got' = {}
        /\ toServer' \subseteq toServer /\ UNCHANGED <<packetID, cpc>>
    BY <1>4 DEF AcceptDatagram, AcceptConnection, SingleAccepts, StartServer, client
  <2> QED
    BY ZenonT(60), <1>a, <2>1, AccountStarts
<1>5. CASE ReadDatagram \/ SingleReads
  <2>1. PICK d \in toServer : toServer' = toServer \ {d} /\ Account(d.id) /\ got' = got \cup {d.id}
    BY ZenonT(60), <1>5 DEF ReadDatagram, SingleReads
  <2>2. UNCHANGED <<packetID, cpc>>
    BY <1>5 DEF ReadDatagram, SingleReads, client
  <2> QED
    BY Zenon, <1>a, <2>1, <2>2, AccountReads
<1>6. CASE HeaderTimesOut \/ FinTimesOut \/ HeaderAcked \/ WriteBlock \/ Finish \/ FinAcked
  <2>1. /\ UNCHANGED <<packetID, PacketID, cntError, cntOutofOrder, got, toServer>>
        /\ cpc' = "header" => cpc = "header"
    BY Zenon, <1>6 DEF HeaderTimesOut, FinTimesOut, HeaderAcked, WriteBlock, Finish, FinAcked, server, client, net
  <2> QED
    BY <1>a, <2>1, AccountRest
<1>7. CASE AckTimesOut \/ SendAck \/ AckAgain \/ LoopStops \/ SingleAnswers \/ ReadBlock \/ ReadEnd
           \/ ReadStops \/ CloseTcp \/ Stop \/ Lose
  <2>1. /\ UNCHANGED <<packetID, PacketID, cntError, cntOutofOrder, got, cpc>>
        /\ toServer' \subseteq toServer
    BY Zenon, <1>7 DEF AckTimesOut, SendAck, AckAgain, LoopStops, SingleAnswers, ReadBlock, ReadEnd,
                ReadStops, CloseTcp, Stop, Lose, server, client, net
  <2> QED
    BY ZenonT(60), <1>a, <2>1, AccountRest
<1> QED
  BY ZenonT(60), <1>1, <1>2, <1>3, <1>4, <1>5, <1>6, <1>7
  DEF SessNext, ClientTimer, ClientStep, ListenerAccepts, ServerTimer, ServerStep

LEMMA FlagsStep == SessInv /\ SessNext => Flags'
<1> SUFFICES ASSUME Flags, SessNext
             PROVE  Flags'
  BY DEF SessInv
<1>1. test' = test
  BY Zenon DEF SessNext, ClientTimer, ClientStep, ListenerAccepts, ServerTimer, ServerStep, Stop, Lose,
     HeaderTimesOut, FinTimesOut, SendHeader, HeaderAcked, WriteDatagram, WriteBlock, Finish, SendFin,
     FinAcked, AcceptDatagram, AcceptConnection, AckTimesOut, ReadDatagram, SendAck, AckAgain, LoopStops,
     SingleAccepts, SingleReads, SingleAnswers, ReadBlock, ReadEnd, ReadStops, CloseTcp
<1>2. /\ cpc' \in {"header", "headerack", "send", "fin", "finack", "done"} /\ eof' \in BOOLEAN
      /\ cpc' = "header" => cpc = "header"
  <2>1. CASE ClientTimer \/ ClientStep
    BY ZenonT(60), <2>1 DEF Flags, ClientTimer, ClientStep, HeaderTimesOut, FinTimesOut, SendHeader, HeaderAcked,
       WriteDatagram, WriteBlock, Finish, SendFin, FinAcked, tcp, client
  <2>2. CASE ListenerAccepts \/ ServerTimer \/ ServerStep \/ Stop \/ Lose
    BY Zenon, <2>2 DEF Flags, ListenerAccepts, ServerTimer, ServerStep, Stop, Lose, AcceptDatagram,
       AcceptConnection, AckTimesOut, ReadDatagram, SendAck, AckAgain, LoopStops, SingleAccepts,
       SingleReads, SingleAnswers, ReadBlock, ReadEnd, ReadStops, CloseTcp, tcp, client
  <2> QED
    BY <2>1, <2>2 DEF SessNext
<1>3. stopped' \in BOOLEAN /\ emptyreport' \in BOOLEAN
  <2>1. CASE ClientTimer \/ ClientStep
    BY Zenon, <2>1 DEF Flags, ClientTimer, ClientStep, HeaderTimesOut, FinTimesOut, SendHeader, HeaderAcked,
       WriteDatagram, WriteBlock, Finish, SendFin, FinAcked, tcp, client
  <2>2. CASE ListenerAccepts \/ ServerTimer \/ ServerStep \/ Stop \/ Lose
    BY Zenon, <2>2 DEF Flags, ListenerAccepts, ServerTimer, ServerStep, Stop, Lose, AcceptDatagram,
       AcceptConnection, AckTimesOut, ReadDatagram, SendAck, AckAgain, LoopStops, SingleAccepts,
       SingleReads, SingleAnswers, ReadBlock, ReadEnd, ReadStops, CloseTcp, tcp, client
  <2> QED
    BY <2>1, <2>2 DEF SessNext
<1> QED
  BY <1>1, <1>2, <1>3 DEF Flags

LEMMA TcpStep == SessInv /\ SessNext => TcpInv'
<1> SUFFICES ASSUME SessInv, SessNext
             PROVE  TcpInv'
  OBVIOUS
<1>b. test' = test
  BY Zenon DEF SessNext, ClientTimer, ClientStep, ListenerAccepts, ServerTimer, ServerStep, Stop, Lose,
     HeaderTimesOut, FinTimesOut, SendHeader, HeaderAcked, WriteDatagram, WriteBlock, Finish, SendFin,
     FinAcked, AcceptDatagram, AcceptConnection, AckTimesOut, ReadDatagram, SendAck, AckAgain, LoopStops,
     SingleAccepts, SingleReads, SingleAnswers, ReadBlock, ReadEnd, ReadStops, CloseTcp
<1> SUFFICES ASSUME test.proto = "tcp"
             PROVE  TcpInv'
  BY <1>b DEF TcpInv
<1>c. Flags /\ TcpInv
  BY DEF SessInv
<1>a. ~UDP /\ "tcp" # "udp"
  BY Zenon DEF UDP
<1>1. CASE SendHeader
  <2>1. /\ cpc = "header" /\ cpc' = "headerack" /\ stream' = stream + 1 /\ test.extend
        /\ UNCHANGED <<toServer, spc, wrote, eof, TotalLen, emptyreport, stopped>>
    BY <1>1, <1>a, <1>c, Zenon DEF Flags, SendHeader, server
  <2> QED
    BY <1>b, <1>c, <2>1 DEF TcpInv, HeaderLen
<1>2. CASE HeaderAcked \/ HeaderTimesOut
  <2>1. cpc = "headerack" /\ cpc' = "send" /\ UNCHANGED <<toServer, spc, tcp, stopped>>
    BY ZenonT(60), <1>2 DEF HeaderAcked, HeaderTimesOut, server, net
  <2> QED
    BY <1>b, <1>c, <2>1 DEF TcpInv, HeaderLen, tcp
<1>3. CASE WriteBlock
  <2>1. /\ cpc = "send" /\ wrote' = wrote + 1 /\ stream' = stream + 1
        /\ UNCHANGED <<cpc, toServer, spc, eof, TotalLen, emptyreport, stopped>>
    BY <1>3, Zenon DEF WriteBlock, server, client, net
  <2> QED
    BY <1>b, <1>c, <2>1 DEF TcpInv, HeaderLen
<1>4. CASE Finish
  BY <1>4, <1>a, <1>b, <1>c, Zenon DEF Finish, TcpInv, HeaderLen, server, net
<1>5. CASE AcceptConnection
  BY <1>5, <1>b, <1>c, Zenon DEF AcceptConnection, StartServer, TcpInv, HeaderLen, client, tcp
<1>6. CASE ReadBlock
  <2>1. /\ spc = "run" /\ stream > 0 /\ stream' = stream - 1 /\ TotalLen' = TotalLen + 1
        /\ UNCHANGED <<cpc, toServer, spc, wrote, eof, stopped>>
    BY <1>6, Zenon DEF ReadBlock, client, server, net
  <2> QED
    BY <1>b, <1>c, <2>1 DEF TcpInv, HeaderLen
<1>7. CASE ReadEnd
  <2>1. /\ spc = "run" /\ stream = 0 /\ eof /\ emptyreport' /\ spc' = "close"
        /\ UNCHANGED <<cpc, toServer, wrote, stream, eof, TotalLen, stopped>>
    BY <1>7, Zenon DEF ReadEnd, client, net
  <2> QED
    BY <1>b, <1>c, <2>1 DEF TcpInv, HeaderLen
<1>8. CASE ReadStops
  BY <1>8, <1>b, <1>c, Zenon DEF ReadStops, TcpInv, HeaderLen, client, net, tcp
<1>9. CASE CloseTcp
  <2>1. /\ spc = "close" /\ TotalLen' = (IF emptyreport THEN TotalLen ELSE TotalLen + TotalLen)
        /\ spc' = "gone" /\ UNCHANGED <<cpc, toServer, wrote, stream, eof, emptyreport, stopped>>
    BY <1>9, Zenon DEF CloseTcp, client, net
  <2> QED
    BY <1>b, <1>c, <2>1 DEF TcpInv, HeaderLen, Flags
<1>10. CASE Stop
  <2>1. stopped' /\ UNCHANGED <<cpc, toServer, spc, wrote, stream, eof, TotalLen, emptyreport>>
    BY <1>10, Zenon DEF Stop, client, net, server, tcp
  <2> QED
    BY <1>b, <1>c, <2>1 DEF TcpInv, HeaderLen
<1>11. ~(FinTimesOut \/ WriteDatagram \/ SendFin \/ FinAcked \/ AcceptDatagram \/ AckTimesOut
         \/ ReadDatagram \/ SendAck \/ AckAgain \/ LoopStops \/ SingleAccepts \/ SingleReads
         \/ SingleAnswers \/ Lose)
  BY Zenon, <1>a, <1>c DEF FinTimesOut, WriteDatagram, SendFin, FinAcked, AcceptDatagram, AckTimesOut, ReadDatagram,
     SendAck, AckAgain, LoopStops, SingleAccepts, SingleReads, SingleAnswers, Lose, TcpInv
<1> QED
  BY ZenonT(60), <1>1, <1>2, <1>3, <1>4, <1>5, <1>6, <1>7, <1>8, <1>9, <1>10, <1>11
  DEF SessNext, ClientTimer, ClientStep, ListenerAccepts, ServerTimer, ServerStep

LEMMA SessStutter == SessInv /\ UNCHANGED sessvars => SessInv'
<1> SUFFICES ASSUME SessInv, UNCHANGED sessvars
             PROVE  SessInv'
  OBVIOUS
<1>1. Flags'
  BY DEF SessInv, Flags, sessvars
<1>2. AccountInv'
  BY AccountRest DEF SessInv, sessvars
<1>3. TcpInv'
  BY DEF SessInv, TcpInv, HeaderLen, sessvars
<1> QED
  BY <1>1, <1>2, <1>3 DEF SessInv

\* What was read and what is called lost make up the highest number: there
\* are at most PacketID + 1 numbers up to it, and without number 0 one less.
LEMMA BalanceAddsUp == UdpInv /\ Balance => AccountingAddsUp
<1> SUFFICES ASSUME UdpInv, Balance
             PROVE  LET sum == Cardinality(got) + FinalError IN
                    PacketID = sum \/ (0 \in got /\ PacketID = sum - 1)
  BY DEF AccountingAddsUp, Totals
<1>1. IsFiniteSet(got) /\ Cardinality(got) \in Nat
  BY GotIsFinite
<1>2. Cardinality(got) <= PacketID + 1
  <2>1. 0 \in Int /\ PacketID \in Int /\ got \in SUBSET (0 .. PacketID) /\ ~(0 > PacketID)
    BY DEF UdpInv
  <2>2. IsFiniteSet(0 .. PacketID) /\ Cardinality(0 .. PacketID) = PacketID - 0 + 1
    BY Zenon, <2>1, FS_Interval
  <2>3. Cardinality(got) <= Cardinality(0 .. PacketID)
    BY Zenon, <2>1, <2>2, FS_Subset
  <2> QED
    BY <2>1, <2>2, <2>3
<1>3. 0 \notin got => Cardinality(got) <= PacketID
  <2> SUFFICES ASSUME 0 \notin got
               PROVE  Cardinality(got) <= PacketID
    OBVIOUS
  <2>1. 1 \in Int /\ PacketID \in Int /\ PacketID >= 0 /\ got \in SUBSET (1 .. PacketID)
    BY DEF UdpInv
  <2>2. IsFiniteSet(1 .. PacketID) /\ Cardinality(1 .. PacketID) = IF 1 > PacketID THEN 0 ELSE PacketID - 1 + 1
    BY Zenon, <2>1, FS_Interval
  <2>3. Cardinality(got) <= Cardinality(1 .. PacketID)
    BY ZenonT(60), <2>1, <2>2, FS_Subset
  <2> QED
    BY <2>1, <2>2, <2>3
<1>4. CASE cntError > cntOutofOrder
  BY <1>1, <1>4 DEF FinalError, Balance, UdpInv
<1>5. CASE ~(cntError > cntOutofOrder)
  BY <1>1, <1>2, <1>3, <1>5 DEF FinalError, Balance, UdpInv
<1> QED
  BY <1>4, <1>5

\* The totals a server reports are right (Reporter.c:860-930, Server.cpp:120-260),
\* for any number of packets, tries and sessions: what it read and what it calls
\* lost make up the datagrams it counts, and a TCP transfer that is reported
\* twice is counted once.
THEOREM TotalsAreRight == SessSpec => []CountsAreRight
<1>1. SessInv => CountsAreRight
  <2> SUFFICES ASSUME SessInv
               PROVE  CountsAreRight
    OBVIOUS
  <2>1. AccountingAddsUp
    BY BalanceAddsUp DEF SessInv, AccountInv
  <2>2. TcpCountsOnce
    <3> SUFFICES ASSUME ~UDP, spc = "gone", ~stopped
                 PROVE  TotalLen = wrote + (IF test.extend THEN 1 ELSE 0)
      BY DEF TcpCountsOnce
    <3>1. test.proto = "tcp"
      BY DEF UDP, SessInv, Flags, SessTests
    <3> QED
      BY <3>1 DEF SessInv, TcpInv, HeaderLen
  <2> QED
    BY <2>1, <2>2 DEF CountsAreRight
<1>2. SessInv /\ [SessNext]_sessvars => SessInv'
  BY Zenon, AccountStep, FlagsStep, TcpStep, SessStutter DEF SessInv
<1> QED
  BY SessInitInv, <1>1, <1>2, PTL DEF SessSpec
=============================================================================
