---------------------------- MODULE FdEventProofs ----------------------------
(***************************************************************************)
(* The tables of the event loop agree, for any number of events and        *)
(* descriptors and any sequence of callbacks.                              *)
(***************************************************************************)
EXTENDS FdEvent, SequenceTheorems, FiniteSetTheorems,
        WellFoundedInduction, TLAPS

\* The types the argument rests on.
Record == [active : BOOLEAN, fd : Fds \cup {0}, wanted : SUBSET Events,
           events : SUBSET Events, pending : BOOLEAN, force_eof : BOOLEAN]

Structures ==
    /\ fde \in [Fdes -> Record]
    /\ fd_table \in [Fds -> Fdes \cup {NoFde}]
    /\ fdset \in [Events -> SUBSET Fds]
    /\ select_n \in Nat

(***************************************************************************)
(* TableInSync is not inductive: an event that is installed and asks for   *)
(* nothing yet may ask later, so its descriptor has to be below the bound  *)
(* already.                                                                *)
(***************************************************************************)
Below == \A f \in Installed : fde[f].fd \in Fds /\ fde[f].fd < select_n

LoopInv == Structures /\ TableInSync /\ Below

\* What the tables say does not depend on events, pending and force_eof.
SameTables ==
    /\ fde' \in [Fdes -> Record]
    /\ \A f \in Fdes : /\ fde'[f].active = fde[f].active
                       /\ fde'[f].fd = fde[f].fd
                       /\ fde'[f].wanted = fde[f].wanted
    /\ UNCHANGED <<fd_table, fdset, select_n>>

LEMMA Limits == HugeFd \in Nat /\ Fds \subseteq Nat /\ Fds \subseteq 0 .. HugeFd /\ NoFde \notin Fdes
<1>1. HugeFd \in Nat
  BY SMT DEF HugeFd
<1> QED
  BY <1>1, FdAssumption

\* A nonempty set of numbers has a least one.
LEMMA LeastNumber ==
    ASSUME NEW S \in SUBSET Nat, S # {}
    PROVE  \E x \in S : \A y \in S : x =< y
<1>1. PICK x \in S : \A y \in S : ~(<<y, x>> \in OpToRel(<, Nat))
  BY NatLessThanWellFounded, WFMin, Zenon
<1>2. \A y \in S : ~(y < x)
  BY Zenon, <1>1 DEF OpToRel
<1> QED
  BY <1>2

\* A nonempty set of numbers that has an upper bound has a greatest one.
LEMMA GreatestNumber ==
    ASSUME NEW b \in Nat, NEW S \in SUBSET (0 .. b), S # {}
    PROVE  \E x \in S : \A y \in S : x >= y
<1> DEFINE D == {n \in Nat : \E x \in S : n = b - x}
<1>1. PICK x0 : x0 \in S
  OBVIOUS
<1>2. b - x0 \in D
  BY <1>1
<1>3. D \in SUBSET Nat /\ D # {}
  BY <1>2
<1> HIDE DEF D
<1>4. PICK d \in D : \A y \in D : d =< y
  BY <1>3, LeastNumber
<1>5. PICK x \in S : d = b - x
  BY <1>4 DEF D
<1>6. \A y \in S : b - y \in D
  BY DEF D
<1>7. \A y \in S : x >= y
  BY <1>4, <1>5, <1>6
<1> QED
  BY <1>7

\* open() returns a descriptor with no event on it (FreeFd).
LEMMA FreeIsFree ==
    ASSUME Structures, \E n \in Fds : fd_table[n] = NoFde
    PROVE  FreeFd \in Fds /\ fd_table[FreeFd] = NoFde
<1> DEFINE S == {n \in Fds : fd_table[n] = NoFde}
<1>1. S \in SUBSET Nat /\ S # {}
  BY Zenon, Limits
<1>2. \E x \in S : \A y \in S : x =< y
  BY Zenon, <1>1, LeastNumber
<1>3. Min(S) \in S
  BY <1>2 DEF Min
<1> QED
  BY <1>3 DEF FreeFd

\* The bound that fdevent_disconnect() computes is above every descriptor that
\* has an event and was below the old bound.
LEMMA BoundIsAbove ==
    ASSUME Structures
    PROVE  /\ DisconnectBound \in Nat
           /\ \A n \in Fds : n < select_n /\ fd_table[n] # NoFde => n < DisconnectBound
<1> DEFINE S == {0} \cup {n \in Fds : n < select_n /\ fd_table[n] # NoFde}
<1>a. 0 \in 0 .. HugeFd /\ \A n \in Fds : n \in 0 .. HugeFd
  BY Limits
<1>1. S \in SUBSET (0 .. HugeFd) /\ S # {}
  BY <1>a, Zenon
<1>2. \E x \in S : \A y \in S : x >= y
  BY Zenon, <1>1, GreatestNumber, Limits
<1>3. Max(S) \in S /\ \A y \in S : Max(S) >= y
  BY Zenon, <1>2 DEF Max
<1>4. DisconnectBound = 1 + Max(S)
  BY DEF DisconnectBound
<1> QED
  BY <1>1, <1>3, <1>4, Limits

LEMMA LoopInit == FdInit => LoopInv
  BY Limits DEF FdInit, LoopInv, Structures, Record, TableInSync, Below, Installed, Cleared

LEMMA SameTablesKeep == LoopInv /\ SameTables => LoopInv'
<1> SUFFICES ASSUME LoopInv, SameTables
             PROVE  LoopInv'
  OBVIOUS
<1>1. Structures'
  BY DEF LoopInv, SameTables, Structures
<1>2. Installed' = Installed
  BY DEF SameTables, Installed
<1>3. Below'
  BY <1>2 DEF LoopInv, SameTables, Below, Installed
<1>4. TableInSync'
  <2>1. \A f \in Installed' : fd_table'[fde'[f].fd] = f
    BY <1>2 DEF LoopInv, SameTables, TableInSync, Installed
  <2>2. \A n \in Fds : fd_table'[n] # NoFde => fde'[fd_table'[n]].active /\ fde'[fd_table'[n]].fd = n
    BY DEF LoopInv, SameTables, TableInSync, Structures
  <2>3. \A e \in Events : \A n \in fdset'[e] :
           fd_table'[n] # NoFde /\ e \in fde'[fd_table'[n]].wanted
    BY DEF LoopInv, SameTables, TableInSync, Structures
  <2>4. \A f \in Installed' : \A e \in fde'[f].wanted : fde'[f].fd \in fdset'[e] /\ fde'[f].fd < select_n'
    BY <1>2 DEF LoopInv, SameTables, TableInSync, Installed
  <2> QED
    BY <2>1, <2>2, <2>3, <2>4 DEF TableInSync
<1> QED
  BY <1>1, <1>3, <1>4 DEF LoopInv

LEMMA InstallKeeps ==
    ASSUME LoopInv, NEW f \in Fdes, fdevent_install(f)
    PROVE  LoopInv'
<1> DEFINE n == FreeFd
<1>1. n \in Fds /\ fd_table[n] = NoFde
  BY FreeIsFree DEF fdevent_install, LoopInv
<1>2. /\ fde' = [fde EXCEPT ![f] = [Cleared EXCEPT !.active = TRUE, !.fd = n]]
      /\ fd_table' = [fd_table EXCEPT ![n] = f]
      /\ select_n' = IF select_n > n + 1 THEN select_n ELSE n + 1
      /\ fdset' = fdset /\ ~fde[f].active
  BY DEF fdevent_install, ConnectBound, Max2
<1> HIDE DEF n
<1>3. Fds \subseteq Nat /\ NoFde \notin Fdes /\ n \in Nat
  BY <1>1, Limits
<1>4. fde'[f] = [active |-> TRUE, fd |-> n, wanted |-> {}, events |-> {}, pending |-> FALSE, force_eof |-> FALSE]
      /\ \A g \in Fdes \ {f} : fde'[g] = fde[g]
  BY Zenon, <1>2 DEF LoopInv, Structures, Cleared
<1>5. select_n' \in Nat /\ select_n' > n /\ select_n' >= select_n
  BY <1>2, <1>3 DEF LoopInv, Structures
<1>6. Structures'
  <2>1. [Cleared EXCEPT !.active = TRUE, !.fd = n] \in Record
    BY Zenon, <1>1 DEF Record, Cleared
  <2>2. fde' \in [Fdes -> Record]
    BY <1>2, <2>1 DEF LoopInv, Structures
  <2>3. fd_table' \in [Fds -> Fdes \cup {NoFde}] /\ fdset' \in [Events -> SUBSET Fds]
    BY <1>1, <1>2 DEF LoopInv, Structures
  <2> QED
    BY <1>5, <2>2, <2>3 DEF Structures
<1>7. Installed' = Installed \cup {f} /\ f \notin Installed
  BY <1>2, <1>4 DEF Installed
<1>8. Below'
  <2>1. fde'[f].fd \in Fds /\ fde'[f].fd < select_n'
    BY <1>1, <1>4, <1>5, <1>3
  <2>2. ASSUME NEW g \in Installed
        PROVE  fde'[g].fd \in Fds /\ fde'[g].fd < select_n'
    <3>1. fde'[g].fd = fde[g].fd /\ fde[g].fd \in Fds /\ fde[g].fd < select_n
      BY <1>4, <1>7 DEF Installed, LoopInv, Below
    <3>2. fde[g].fd \in Nat /\ select_n \in Nat
      BY Zenon, <3>1, Limits DEF LoopInv, Structures
    <3> QED
      BY <1>5, <3>1, <3>2
  <2> QED
    BY <1>7, <2>1, <2>2 DEF Below
<1>9. TableInSync'
  <2>1. \A g \in Installed' : fd_table'[fde'[g].fd] = g
    BY <1>1, <1>2, <1>3, <1>4, <1>7 DEF LoopInv, TableInSync, Below, Structures, Installed
  <2>2. \A k \in Fds : fd_table'[k] # NoFde => fde'[fd_table'[k]].active /\ fde'[fd_table'[k]].fd = k
    BY <1>1, <1>2, <1>4 DEF LoopInv, TableInSync, Structures
  <2>3. \A e \in Events : \A k \in fdset'[e] :
           fd_table'[k] # NoFde /\ e \in fde'[fd_table'[k]].wanted
    BY <1>1, <1>2, <1>4 DEF LoopInv, TableInSync, Structures
  <2>4. \A g \in Installed' : \A e \in fde'[g].wanted : fde'[g].fd \in fdset'[e] /\ fde'[g].fd < select_n'
    <3>1. fde'[f].wanted = {}
      BY <1>4
    <3>2. \A g \in Installed : fde'[g] = fde[g]
      BY <1>4, <1>7 DEF Installed
    <3>3. \A g \in Installed : \A e \in fde[g].wanted : fde[g].fd \in fdset'[e]
      BY <1>2 DEF LoopInv, TableInSync
    <3> QED
      BY <1>7, <1>8, <3>1, <3>2, <3>3 DEF Below
  <2> QED
    BY <2>1, <2>2, <2>3, <2>4 DEF TableInSync
<1> QED
  BY <1>6, <1>8, <1>9 DEF LoopInv

LEMMA RemovedRecord ==
    ASSUME NEW r \in Record
    PROVE  LET c == [r EXCEPT !.active = FALSE, !.wanted = {}, !.events = {}, !.pending = FALSE]
           IN  c \in Record /\ ~c.active
  BY Zenon DEF Record

LEMMA RemoveKeeps ==
    ASSUME LoopInv, NEW f \in Fdes, fdevent_remove(f)
    PROVE  LoopInv'
<1> DEFINE n == fde[f].fd
<1>1. /\ fde[f].active
      /\ fdset' = [e \in Events |-> fdset[e] \ {n}]
      /\ select_n' = DisconnectBound
      /\ fd_table' = [fd_table EXCEPT ![n] = NoFde]
      /\ fde' = [fde EXCEPT ![f] = [@ EXCEPT !.active = FALSE, !.wanted = {},
                                              !.events = {}, !.pending = FALSE]]
  BY DEF fdevent_remove, ClearBits
<1>2. f \in Installed /\ n \in Fds /\ fd_table[n] = f
  BY <1>1 DEF Installed, LoopInv, Below, TableInSync
<1> HIDE DEF n
<1>3. fde' \in [Fdes -> Record] /\ ~fde'[f].active /\ \A g \in Fdes \ {f} : fde'[g] = fde[g]
  <2> DEFINE r == [fde[f] EXCEPT !.active = FALSE, !.wanted = {}, !.events = {}, !.pending = FALSE]
  <2>1. fde \in [Fdes -> Record]
    BY DEF LoopInv, Structures
  <2>2. r \in Record /\ ~r.active
    BY Zenon, <2>1, RemovedRecord
  <2> HIDE DEF r
  <2>3. fde' = [fde EXCEPT ![f] = r]
    BY <1>1 DEF r
  <2> QED
    BY <2>1, <2>2, <2>3
<1>4. Structures'
  BY <1>1, <1>2, <1>3, BoundIsAbove DEF LoopInv, Structures
<1>5. Installed' = Installed \ {f}
  BY <1>3 DEF Installed
<1>6. \A g \in Installed' : fde'[g] = fde[g] /\ fde[g].fd \in Fds /\ fde[g].fd # n
                             /\ fd_table[fde[g].fd] = g
  BY <1>2, <1>3, <1>5 DEF LoopInv, Below, TableInSync, Installed
<1>7. Below'
  <2>1. ASSUME NEW g \in Installed'
        PROVE  fde'[g].fd \in Fds /\ fde'[g].fd < select_n'
    <3>1. fde[g].fd < select_n /\ fd_table[fde[g].fd] # NoFde /\ fde[g].fd \in Fds
      BY <1>5, <1>6, Limits DEF LoopInv, Below, Installed
    <3>2. fde[g].fd < DisconnectBound
      BY <3>1, BoundIsAbove DEF LoopInv
    <3> QED
      BY <1>1, <1>6, <3>1, <3>2
  <2> QED
    BY <2>1 DEF Below
<1>8. TableInSync'
  <2>1. \A g \in Installed' : fd_table'[fde'[g].fd] = g
    BY <1>1, <1>6 DEF LoopInv, Structures
  <2>2. \A k \in Fds : fd_table'[k] # NoFde => fde'[fd_table'[k]].active /\ fde'[fd_table'[k]].fd = k
    BY <1>1, <1>2, <1>3 DEF LoopInv, TableInSync, Structures, n
  <2>3. \A e \in Events : \A k \in fdset'[e] :
           fd_table'[k] # NoFde /\ e \in fde'[fd_table'[k]].wanted
    <3> SUFFICES ASSUME NEW e \in Events, NEW k \in fdset'[e]
                 PROVE  fd_table'[k] # NoFde /\ e \in fde'[fd_table'[k]].wanted
      OBVIOUS
    <3>1. k \in fdset[e] /\ k # n /\ k \in Fds
      BY <1>1 DEF LoopInv, Structures
    <3>2. fd_table[k] # NoFde /\ e \in fde[fd_table[k]].wanted /\ fde[fd_table[k]].fd = k
      BY <3>1 DEF LoopInv, TableInSync
    <3>3. fd_table'[k] = fd_table[k] /\ fd_table[k] \in Fdes /\ fd_table[k] # f
      BY <1>1, <3>1, <3>2 DEF LoopInv, Structures, n
    <3> QED
      BY <1>3, <3>2, <3>3
  <2>4. \A g \in Installed' : \A e \in fde'[g].wanted : fde'[g].fd \in fdset'[e] /\ fde'[g].fd < select_n'
    <3> SUFFICES ASSUME NEW g \in Installed', NEW e \in fde'[g].wanted
                 PROVE  fde'[g].fd \in fdset'[e]
      BY <1>7 DEF Below
    <3>1. fde'[g] = fde[g] /\ fde[g].fd # n /\ g \in Installed /\ g \in Fdes
      BY <1>5, <1>6 DEF Installed
    <3>2. e \in Events /\ fde[g].fd \in fdset[e]
      BY <3>1 DEF LoopInv, TableInSync, Structures, Record
    <3> QED
      BY <1>1, <3>1, <3>2
  <2> QED
    BY <2>1, <2>2, <2>3, <2>4 DEF TableInSync
<1> QED
  BY <1>4, <1>7, <1>8 DEF LoopInv

LEMMA SetKeeps ==
    ASSUME LoopInv, NEW f \in Fdes, NEW es \in SUBSET Events, fdevent_set(f, es)
    PROVE  LoopInv'
<1> DEFINE n == fde[f].fd
           left == fde[f].events \ es
           drop == fde[f].pending /\ left = {}
           r == [fde[f] EXCEPT !.wanted = es, !.events = IF fde[f].pending THEN left ELSE @,
                               !.pending = @ /\ ~drop]
<1>1. /\ fde[f].active
      /\ fdset' = [e \in Events |-> IF e \in es THEN fdset[e] \cup {n} ELSE fdset[e] \ {n}]
      /\ UNCHANGED <<fd_table, select_n>>
  BY DEF fdevent_set
<1>2. fde' = [fde EXCEPT ![f].wanted = es,
                         ![f].events = IF fde[f].pending THEN left ELSE @,
                         ![f].pending = @ /\ ~drop]
  BY DEF fdevent_set
<1>3. fde[f] \in Record
  BY DEF LoopInv, Structures
<1>4. r \in Record /\ r.active = fde[f].active /\ r.fd = fde[f].fd /\ r.wanted = es
  BY Zenon, <1>3 DEF Record
<1>5. fde' = [fde EXCEPT ![f] = r]
  BY Zenon, <1>2, <1>3 DEF LoopInv, Structures, Record
<1> HIDE DEF r, left, drop
<1>6. /\ fde' \in [Fdes -> Record]
      /\ fde'[f].active = fde[f].active /\ fde'[f].fd = fde[f].fd /\ fde'[f].wanted = es
      /\ \A g \in Fdes \ {f} : fde'[g] = fde[g]
  BY <1>4, <1>5 DEF LoopInv, Structures
<1>7. f \in Installed /\ n \in Fds /\ fd_table[n] = f
  BY <1>1 DEF Installed, LoopInv, Below, TableInSync
<1>8. Structures'
  BY <1>1, <1>6, <1>7 DEF LoopInv, Structures
<1>9. Installed' = Installed /\ \A g \in Installed : fde'[g].fd = fde[g].fd
  BY Zenon, <1>1, <1>6 DEF Installed
<1>10. Below'
  BY <1>1, <1>9 DEF LoopInv, Below
<1> HIDE DEF n
<1>11. TableInSync'
  <2>1. \A g \in Installed' : fd_table'[fde'[g].fd] = g
    BY <1>1, <1>9 DEF LoopInv, TableInSync
  <2>2. \A k \in Fds : fd_table'[k] # NoFde => fde'[fd_table'[k]].active /\ fde'[fd_table'[k]].fd = k
    BY ZenonT(60), <1>1, <1>6 DEF LoopInv, TableInSync, Structures
  <2>3. ASSUME NEW e \in Events, NEW k \in fdset'[e]
        PROVE  fd_table'[k] # NoFde /\ e \in fde'[fd_table'[k]].wanted
    <3>1. CASE k = n
      <4>1. e \in es
        BY <1>1, <3>1
      <4> QED
        BY <1>1, <1>6, <1>7, <3>1, <4>1, Limits
    <3>2. CASE k # n
      <4>1. k \in fdset[e] /\ k \in Fds
        BY <1>1, <3>2 DEF LoopInv, Structures
      <4>2. fd_table[k] # NoFde /\ e \in fde[fd_table[k]].wanted /\ fde[fd_table[k]].fd = k
        BY <4>1 DEF LoopInv, TableInSync
      <4>3. fd_table[k] # f /\ fd_table[k] \in Fdes
        BY <3>2, <4>1, <4>2 DEF LoopInv, Structures, n
      <4> QED
        BY <1>1, <1>6, <4>2, <4>3
    <3> QED
      BY <3>1, <3>2
  <2>4. ASSUME NEW g \in Installed', NEW e \in fde'[g].wanted
        PROVE  fde'[g].fd \in fdset'[e] /\ fde'[g].fd < select_n'
    <3>1. g \in Installed /\ g \in Fdes /\ e \in Events
      BY <1>6, <1>9 DEF Installed, Record
    <3>2. CASE g = f
      BY <1>1, <1>6, <1>10, <3>1, <3>2 DEF Below, n
    <3>3. CASE g # f
      <4>1. fde[g].fd # n /\ fde'[g] = fde[g]
        BY <1>6, <1>7, <3>1, <3>3 DEF LoopInv, TableInSync
      <4>2. fde[g].fd \in fdset[e]
        BY <3>1, <4>1 DEF LoopInv, TableInSync
      <4> QED
        BY <1>1, <1>10, <3>1, <4>1, <4>2 DEF Below
    <3> QED
      BY <3>2, <3>3
  <2> QED
    BY <2>1, <2>2, <2>3, <2>4 DEF TableInSync
<1> QED
  BY <1>8, <1>10, <1>11 DEF LoopInv

LEMMA LoopStep == LoopInv /\ [FdNext]_fdvars => LoopInv'
<1> SUFFICES ASSUME LoopInv, [FdNext]_fdvars
             PROVE  LoopInv'
  OBVIOUS
<1>1. ASSUME NEW rep \in [Events -> SUBSET Fds], fdevent_process(rep)
      PROVE  LoopInv'
  <2> DEFINE ev(f) == {e \in Events : fde[f].active /\ fde[f].fd \in rep[e]}
             r(f) == [fde[f] EXCEPT !.events = @ \cup ev(f), !.pending = @ \/ ev(f) # {}]
  <2>1. fde' = [f \in Fdes |-> r(f)] /\ UNCHANGED <<fd_table, fdset, select_n>>
    BY ZenonT(60), <1>1 DEF fdevent_process
  <2>2. ASSUME NEW f \in Fdes
        PROVE  r(f) \in Record /\ r(f).active = fde[f].active /\ r(f).fd = fde[f].fd
               /\ r(f).wanted = fde[f].wanted
    <3>1. fde[f] \in Record /\ ev(f) \in SUBSET Events
      BY DEF LoopInv, Structures
    <3> HIDE DEF ev
    <3> QED
      BY Zenon, <3>1 DEF Record
  <2> HIDE DEF r
  <2>3. SameTables
    BY <2>1, <2>2 DEF SameTables
  <2> QED
    BY <2>3, SameTablesKeep
<1>2. CASE fdevent_plist_dequeue \/ Drained \/ Return \/ UNCHANGED fdvars
  <2>1. SameTables
    BY <1>2 DEF SameTables, LoopInv, Structures, fdevent_plist_dequeue, Drained, Return, fdvars
  <2> QED
    BY <2>1, SameTablesKeep
<1>3. CASE fdevent_call_fdfunc
  <2> DEFINE r == [fde[cur] EXCEPT !.events = {}, !.pending = FALSE]
  <2>1. fde' = [fde EXCEPT ![cur].events = {}, ![cur].pending = FALSE]
        /\ UNCHANGED <<fd_table, fdset, select_n>>
    BY <1>3 DEF fdevent_call_fdfunc
  <2>2. ASSUME cur \in Fdes
        PROVE  SameTables
    <3>1. fde[cur] \in Record
      BY <2>2 DEF LoopInv, Structures
    <3>2. r \in Record /\ r.active = fde[cur].active /\ r.fd = fde[cur].fd /\ r.wanted = fde[cur].wanted
      BY Zenon, <3>1 DEF Record
    <3>3. fde' = [fde EXCEPT ![cur] = r]
      BY Zenon, <2>1, <2>2, <3>1 DEF LoopInv, Structures, Record
    <3> HIDE DEF r
    <3> QED
      BY Zenon, <2>1, <3>2, <3>3 DEF SameTables, LoopInv, Structures
  <2>3. ASSUME cur \notin Fdes
        PROVE  SameTables
    BY Zenon, <2>1, <2>3 DEF SameTables, LoopInv, Structures
  <2> QED
    BY <2>2, <2>3, SameTablesKeep
<1>4. ASSUME NEW f \in Fdes, NEW data \in BOOLEAN, fdevent_subproc_event_func(f, data)
      PROVE  LoopInv'
  <2> DEFINE es == IF fde[f].pending /\ ~data THEN fde[f].events \cup {READ} ELSE fde[f].events
             r == [fde[f] EXCEPT !.force_eof = TRUE, !.events = es]
  <2>1. fde' = [fde EXCEPT ![f].force_eof = TRUE,
                           ![f].events = IF fde[f].pending /\ ~data THEN @ \cup {READ} ELSE @]
        /\ UNCHANGED <<fd_table, fdset, select_n>>
    BY <1>4 DEF fdevent_subproc_event_func
  <2>2. fde[f] \in Record /\ es \in SUBSET Events
    BY FdAssumption DEF LoopInv, Structures, Record
  <2>3. fde' = [fde EXCEPT ![f] = r]
    BY Zenon, <2>1, <2>2 DEF LoopInv, Structures, Record
  <2> HIDE DEF es
  <2>4. r \in Record /\ r.active = fde[f].active /\ r.fd = fde[f].fd /\ r.wanted = fde[f].wanted
    BY Zenon, <2>2 DEF Record
  <2> HIDE DEF r
  <2>5. SameTables
    BY Zenon, <2>1, <2>3, <2>4 DEF SameTables, LoopInv, Structures
  <2> QED
    BY <2>5, SameTablesKeep
<1>5. ASSUME NEW f \in Fdes, NEW e \in Events, fdevent_add(f, e) \/ fdevent_del(f, e)
      PROVE  LoopInv'
  <2>1. fde[f].wanted \cup {e} \in SUBSET Events /\ fde[f].wanted \ {e} \in SUBSET Events
    BY DEF LoopInv, Structures, Record
  <2> QED
    BY <1>5, <2>1, SetKeeps DEF fdevent_add, fdevent_del
<1> QED
  BY <1>1, <1>2, <1>3, <1>4, <1>5, InstallKeeps, RemoveKeeps
  DEF FdNext, fdevent_loop, Callback

-----------------------------------------------------------------------------
(* The list of pending events.                                             *)

(***************************************************************************)
(* Between fdevent_plist_dequeue() and the call the event just taken is    *)
(* pending and off the list; PendingIsInstalled needs to know that it is   *)
(* not on the list a second time.                                          *)
(***************************************************************************)
Pending == {f \in Fdes : fde[f].pending}

Taken == IF pc = "call" THEN {cur} ELSE {}

ListInv ==
    /\ list_pending \in Seq(Fdes)
    /\ IsInjective(list_pending)
    /\ ToSet(list_pending) \cup Taken = Pending
    /\ Pending \subseteq Installed
    /\ pc = "call" => cur \in Fdes /\ cur \notin ToSet(list_pending)

\* A sequence without its i-th member.
LEMMA WithoutOne ==
    ASSUME NEW T, NEW s \in Seq(T), IsInjective(s), NEW i \in DOMAIN s
    PROVE  /\ RemoveAt(s, i) \in Seq(T)
           /\ IsInjective(RemoveAt(s, i))
           /\ ToSet(RemoveAt(s, i)) = ToSet(s) \ {s[i]}
<1> DEFINE r == RemoveAt(s, i)
           q == [k \in 1 .. Len(s) - 1 |-> IF k < i THEN s[k] ELSE s[k + 1]]
<1>1. i \in 1 .. Len(s) /\ Len(s) \in Nat /\ DOMAIN s = 1 .. Len(s)
  OBVIOUS
<1>2. r = q
  <2> DEFINE a == SubSeq(s, 1, i - 1)
             b == SubSeq(s, i + 1, Len(s))
  <2>1. a \in Seq(T) /\ Len(a) = i - 1
    BY <1>1
  <2>2. \A k \in 1 .. i - 1 : a[k] = s[k]
    BY <1>1
  <2>3. b \in Seq(T) /\ Len(b) = Len(s) - i
    BY <1>1
  <2>4. \A k \in 1 .. Len(s) - i : b[k] = s[k + i]
    BY <1>1
  <2> HIDE DEF a, b
  <2>5. /\ a \o b \in Seq(T) /\ Len(a \o b) = Len(a) + Len(b)
        /\ \A k \in 1 .. Len(a) + Len(b) : (a \o b)[k] = IF k <= Len(a) THEN a[k] ELSE b[k - Len(a)]
    BY Zenon, <2>1, <2>3, ConcatProperties
  <2>6. Len(a) + Len(b) = Len(s) - 1
    BY <1>1, <2>1, <2>3
  <2>7. q \in Seq(T) /\ Len(q) = Len(s) - 1
    BY <1>1
  <2>8. ASSUME NEW k \in 1 .. Len(s) - 1
        PROVE  (a \o b)[k] = q[k]
    <3>1. (a \o b)[k] = IF k <= i - 1 THEN a[k] ELSE b[k - (i - 1)]
      BY Zenon, <2>1, <2>5, <2>6
    <3>2. q[k] = IF k < i THEN s[k] ELSE s[k + 1]
      OBVIOUS
    <3> HIDE DEF q
    <3>3. CASE k < i
      <4>1. k \in 1 .. i - 1 /\ k <= i - 1
        BY <1>1, <3>3
      <4> QED
        BY Zenon, <2>2, <3>1, <3>2, <3>3, <4>1
    <3>4. CASE ~(k < i)
      <4>1. ~(k <= i - 1) /\ k - (i - 1) \in 1 .. Len(s) - i /\ k - (i - 1) + i = k + 1
        BY <1>1, <3>4
      <4> QED
        BY Zenon, <2>4, <3>1, <3>2, <3>4, <4>1
    <3> QED
      BY Zenon, <3>3, <3>4
  <2> HIDE DEF q
  <2>9. a \o b = q
    BY Zenon, <2>5, <2>6, <2>7, <2>8, SeqEqual
  <2> QED
    BY Zenon, <2>9 DEF RemoveAt, a, b
<1>3. q \in Seq(T) /\ DOMAIN q = 1 .. Len(s) - 1
  BY <1>1
<1>4. \A k \in DOMAIN q : q[k] = s[IF k < i THEN k ELSE k + 1]
  BY <1>1
<1>5. \A k \in 1 .. Len(s) : k # i => \E j \in DOMAIN q : q[j] = s[k]
  <2> SUFFICES ASSUME NEW k \in 1 .. Len(s), k # i
               PROVE  \E j \in DOMAIN q : q[j] = s[k]
    OBVIOUS
  <2>1. CASE k < i
    <3>1. k \in DOMAIN q /\ q[k] = s[k]
      BY <1>1, <1>3, <1>4, <2>1
    <3> QED
      BY <3>1
  <2>2. CASE k > i
    <3>1. k - 1 \in DOMAIN q /\ q[k - 1] = s[k]
      BY <1>1, <1>3, <1>4, <2>2
    <3> QED
      BY <3>1
  <2> QED
    BY <1>1, <2>1, <2>2
<1> HIDE DEF q
<1>6. \A k \in DOMAIN q : (IF k < i THEN k ELSE k + 1) \in 1 .. Len(s)
                           /\ (IF k < i THEN k ELSE k + 1) # i
  BY <1>1, <1>3
<1>7. IsInjective(q)
  BY <1>1, <1>3, <1>4, <1>6 DEF IsInjective
<1>8. ToSet(q) = ToSet(s) \ {s[i]}
  <2>1. \A x \in ToSet(q) : x \in ToSet(s) /\ x # s[i]
    BY <1>1, <1>4, <1>6 DEF ToSet, IsInjective
  <2>2. \A x \in ToSet(s) : x # s[i] => x \in ToSet(q)
    BY <1>1, <1>5 DEF ToSet
  <2> QED
    BY <2>1, <2>2
<1> QED
  BY <1>2, <1>3, <1>7, <1>8

\* Two sequences without a common member, one after the other.
LEMMA OneAfterOther ==
    ASSUME NEW T, NEW s \in Seq(T), NEW t \in Seq(T), IsInjective(s), IsInjective(t),
           ToSet(s) \cap ToSet(t) = {}
    PROVE  /\ s \o t \in Seq(T)
           /\ IsInjective(s \o t)
           /\ ToSet(s \o t) = ToSet(s) \cup ToSet(t)
<1>1. /\ Len(s) \in Nat /\ Len(t) \in Nat
      /\ DOMAIN s = 1 .. Len(s) /\ DOMAIN t = 1 .. Len(t)
      /\ s \o t \in Seq(T) /\ DOMAIN (s \o t) = 1 .. Len(s) + Len(t)
  OBVIOUS
<1>2. \A k \in 1 .. Len(s) + Len(t) : (s \o t)[k] = IF k <= Len(s) THEN s[k] ELSE t[k - Len(s)]
  OBVIOUS
<1>3. \A k \in 1 .. Len(s) : s[k] \in ToSet(s)
  BY <1>1 DEF ToSet
<1>4. \A k \in 1 .. Len(t) : t[k] \in ToSet(t) /\ (s \o t)[Len(s) + k] = t[k]
  <2>1. \A k \in 1 .. Len(t) : t[k] \in ToSet(t)
    BY <1>1 DEF ToSet
  <2>2. \A k \in 1 .. Len(t) : (s \o t)[Len(s) + k] = t[k]
    <3> SUFFICES ASSUME NEW k \in 1 .. Len(t)
                 PROVE  (s \o t)[Len(s) + k] = t[k]
      OBVIOUS
    <3>1. Len(s) + k \in 1 .. Len(s) + Len(t) /\ ~(Len(s) + k <= Len(s)) /\ Len(s) + k - Len(s) = k
      BY <1>1
    <3> QED
      BY <1>2, <3>1
  <2> QED
    BY <2>1, <2>2
<1>5. \A k \in 1 .. Len(s) + Len(t) : k <= Len(s) => k \in 1 .. Len(s)
  BY <1>1
<1>6. \A k \in 1 .. Len(s) + Len(t) : ~(k <= Len(s)) => k - Len(s) \in 1 .. Len(t)
  BY <1>1
<1>7. IsInjective(s \o t)
  <2> SUFFICES ASSUME NEW a \in 1 .. Len(s) + Len(t), NEW b \in 1 .. Len(s) + Len(t),
                      (s \o t)[a] = (s \o t)[b]
               PROVE  a = b
    BY <1>1 DEF IsInjective
  <2>1. CASE a <= Len(s) /\ b <= Len(s)
    BY <1>1, <1>2, <1>5, <2>1, Zenon DEF IsInjective
  <2>2. CASE ~(a <= Len(s)) /\ ~(b <= Len(s))
    <3>1. a - Len(s) = b - Len(s)
      BY <1>1, <1>2, <1>6, <2>2 DEF IsInjective
    <3> QED
      BY <1>1, <3>1
  <2>3. CASE a <= Len(s) /\ ~(b <= Len(s))
    BY <1>2, <1>3, <1>4, <1>5, <1>6, <2>3, Zenon
  <2>4. CASE ~(a <= Len(s)) /\ b <= Len(s)
    BY <1>2, <1>3, <1>4, <1>5, <1>6, <2>4
  <2> QED
    BY <2>1, <2>2, <2>3, <2>4
<1>8. ToSet(s \o t) = ToSet(s) \cup ToSet(t)
  <2>1. \A x \in ToSet(s \o t) : x \in ToSet(s) \cup ToSet(t)
    BY <1>1, <1>2, <1>3, <1>4, <1>5, <1>6 DEF ToSet
  <2>2. \A x \in ToSet(s) : x \in ToSet(s \o t)
    <3>1. \A k \in 1 .. Len(s) : k \in 1 .. Len(s) + Len(t) /\ (s \o t)[k] = s[k]
      BY <1>1, <1>2
    <3> QED
      BY <1>1, <3>1 DEF ToSet
  <2>3. \A x \in ToSet(t) : x \in ToSet(s \o t)
    <3>1. \A k \in 1 .. Len(t) : Len(s) + k \in 1 .. Len(s) + Len(t)
      BY <1>1
    <3> QED
      BY Zenon, <1>1, <1>4, <3>1 DEF ToSet
  <2> QED
    BY <2>1, <2>2, <2>3
<1> QED
  BY <1>1, <1>7, <1>8

\* fdevent_plist_remove() of an event that is on the list.
LEMMA UnlinkedIsOff ==
    ASSUME ListInv, NEW f \in ToSet(list_pending)
    PROVE  /\ Unlinked(f) \in Seq(Fdes)
           /\ IsInjective(Unlinked(f))
           /\ ToSet(Unlinked(f)) = ToSet(list_pending) \ {f}
<1> DEFINE i == CHOOSE k \in DOMAIN list_pending : list_pending[k] = f
<1>1. \E k \in DOMAIN list_pending : list_pending[k] = f
  BY DEF ToSet
<1>2. i \in DOMAIN list_pending /\ list_pending[i] = f
  BY <1>1
<1> HIDE DEF i
<1>3. list_pending \in Seq(Fdes) /\ IsInjective(list_pending)
  BY DEF ListInv
<1>4. /\ RemoveAt(list_pending, i) \in Seq(Fdes)
      /\ IsInjective(RemoveAt(list_pending, i))
      /\ ToSet(RemoveAt(list_pending, i)) = ToSet(list_pending) \ {list_pending[i]}
  BY Zenon, <1>2, <1>3, WithoutOne
<1> QED
  BY Zenon, <1>2, <1>4 DEF Unlinked, i

\* What the list says depends only on active and pending of the structures.
LEMMA SameListKeeps ==
    ASSUME ListInv, UNCHANGED <<list_pending, pc, cur>>,
           \A g \in Fdes : fde'[g].pending = fde[g].pending /\ (fde[g].active => fde'[g].active)
    PROVE  ListInv'
<1>1. Pending' = Pending /\ Taken' = Taken
  BY DEF Pending, Taken
<1>2. Installed \subseteq Installed'
  BY DEF Installed
<1> QED
  BY Zenon, <1>1, <1>2 DEF ListInv

\* What it means for an event to be taken off the list by a callback.
LEMMA OffTheListKeeps ==
    ASSUME ListInv, NEW f \in Fdes, pc = "func", pc' = "func",
           list_pending' = Unlisted(f), ~fde'[f].pending,
           \A g \in Fdes \ {f} : fde'[g] = fde[g]
    PROVE  ListInv'
<1>1. Taken = {} /\ Taken' = {}
  BY DEF Taken
<1>2. Pending' = Pending \ {f}
  BY DEF Pending
<1>3. ToSet(list_pending) = Pending
  BY <1>1 DEF ListInv
<1>4. /\ list_pending' \in Seq(Fdes) /\ IsInjective(list_pending')
      /\ ToSet(list_pending') = ToSet(list_pending) \ {f}
  <2>1. CASE fde[f].pending
    <3>1. f \in ToSet(list_pending)
      BY <1>3, <2>1 DEF Pending
    <3> QED
      BY Zenon, <2>1, <3>1, UnlinkedIsOff DEF Unlisted
  <2>2. CASE ~fde[f].pending
    <3>1. f \notin ToSet(list_pending)
      BY <1>3, <2>2 DEF Pending
    <3>2. list_pending' = list_pending
      BY <2>2 DEF Unlisted
    <3> QED
      BY Zenon, <3>1, <3>2 DEF ListInv
  <2> QED
    BY <2>1, <2>2
<1>5. Pending \ {f} \subseteq Installed'
  BY DEF ListInv, Installed, Pending
<1> QED
  BY Zenon, <1>1, <1>2, <1>3, <1>4, <1>5 DEF ListInv

LEMMA ListInit == FdInit => ListInv
<1> SUFFICES ASSUME FdInit
             PROVE  ListInv
  OBVIOUS
<1>1. list_pending = <<>> /\ pc = "func" /\ \A f \in Fdes : fde[f].pending = FALSE
  BY DEF FdInit, Cleared
<1>2. Pending = {} /\ Taken = {} /\ ToSet(list_pending) = {}
  BY <1>1 DEF Pending, Taken, ToSet
<1>3. IsInjective(list_pending) /\ list_pending \in Seq(Fdes)
  BY <1>1 DEF IsInjective
<1> QED
  BY <1>1, <1>2, <1>3 DEF ListInv

LEMMA CallsKeepList ==
    ASSUME LoopInv, ListInv, NEW f \in Fdes,
           \/ fdevent_install(f)
           \/ fdevent_remove(f)
           \/ \E es \in SUBSET Events : fdevent_set(f, es)
           \/ \E data \in BOOLEAN : fdevent_subproc_event_func(f, data)
    PROVE  ListInv'
<1>a. fde \in [Fdes -> Record] /\ fde[f] \in Record
  BY DEF LoopInv, Structures
<1>1. CASE fdevent_install(f)
  <2> DEFINE r == [Cleared EXCEPT !.active = TRUE, !.fd = FreeFd]
  <2>1. r.pending = FALSE /\ r.active = TRUE
    BY DEF Cleared
  <2> HIDE DEF r
  <2>2. fde' = [fde EXCEPT ![f] = r] /\ ~fde[f].active /\ UNCHANGED <<list_pending, pc, cur>>
    BY <1>1 DEF fdevent_install, r
  <2>3. fde[f].pending = FALSE
    BY <1>a, <2>2 DEF ListInv, Pending, Installed, Record
  <2>4. \A g \in Fdes : fde'[g].pending = fde[g].pending /\ (fde[g].active => fde'[g].active)
    BY Zenon, <1>a, <2>1, <2>2, <2>3
  <2> QED
    BY Zenon, <2>2, <2>4, SameListKeeps
<1>2. CASE fdevent_remove(f)
  <2> DEFINE r == [fde[f] EXCEPT !.active = FALSE, !.wanted = {}, !.events = {}, !.pending = FALSE]
  <2>1. r.pending = FALSE
    BY Zenon, <1>a DEF Record
  <2> HIDE DEF r
  <2>2. fde' = [fde EXCEPT ![f] = r] /\ list_pending' = Unlisted(f) /\ pc = "func" /\ pc' = pc
    BY <1>2 DEF fdevent_remove, r
  <2>3. ~fde'[f].pending /\ \A g \in Fdes \ {f} : fde'[g] = fde[g]
    BY <1>a, <2>1, <2>2
  <2> QED
    BY Zenon, <2>2, <2>3, OffTheListKeeps
<1>3. ASSUME NEW es \in SUBSET Events, fdevent_set(f, es)
      PROVE  ListInv'
  <2> DEFINE left == fde[f].events \ es
             drop == fde[f].pending /\ left = {}
             r == [fde[f] EXCEPT !.wanted = es, !.events = IF fde[f].pending THEN left ELSE @,
                                 !.pending = @ /\ ~drop]
  <2>1. fde' = [fde EXCEPT ![f].wanted = es,
                           ![f].events = IF fde[f].pending THEN left ELSE @,
                           ![f].pending = @ /\ ~drop]
    BY ZenonT(60), <1>3 DEF fdevent_set
  <2>2. /\ list_pending' = IF drop THEN Unlinked(f) ELSE list_pending
        /\ UNCHANGED <<pc, cur>> /\ pc = "func"
    BY Zenon, <1>3 DEF fdevent_set
  <2>3. r.active = fde[f].active /\ r.pending = (fde[f].pending /\ ~drop)
    BY Zenon, <1>a DEF Record
  <2>4. fde' = [fde EXCEPT ![f] = r]
    BY Zenon, <1>a, <2>1 DEF Record
  <2>5. drop => fde[f].pending
    OBVIOUS
  <2> HIDE DEF r, left, drop
  <2>6. /\ fde'[f].active = fde[f].active /\ fde'[f].pending = (fde[f].pending /\ ~drop)
        /\ \A g \in Fdes \ {f} : fde'[g] = fde[g]
    BY <1>a, <2>3, <2>4
  <2>7. CASE drop
    <3>1. list_pending' = Unlisted(f) /\ ~fde'[f].pending
      BY Zenon, <2>2, <2>5, <2>6, <2>7 DEF Unlisted
    <3> QED
      BY Zenon, <2>2, <2>6, <3>1, OffTheListKeeps
  <2>8. CASE ~drop
    <3>1. fde'[f].pending = fde[f].pending
      BY Zenon, <1>a, <2>6, <2>8 DEF Record
    <3>2. \A g \in Fdes : fde'[g].pending = fde[g].pending /\ (fde[g].active => fde'[g].active)
      BY Zenon, <2>6, <3>1
    <3> QED
      BY Zenon, <2>2, <2>8, <3>2, SameListKeeps
  <2> QED
    BY Zenon, <2>7, <2>8
<1>4. ASSUME NEW data \in BOOLEAN, fdevent_subproc_event_func(f, data)
      PROVE  ListInv'
  <2> DEFINE es == IF fde[f].pending /\ ~data THEN fde[f].events \cup {READ} ELSE fde[f].events
             r == [fde[f] EXCEPT !.force_eof = TRUE, !.events = es]
  <2>1. fde' = [fde EXCEPT ![f].force_eof = TRUE,
                           ![f].events = IF fde[f].pending /\ ~data THEN @ \cup {READ} ELSE @]
        /\ UNCHANGED <<list_pending, pc, cur>>
    BY <1>4 DEF fdevent_subproc_event_func
  <2>2. fde' = [fde EXCEPT ![f] = r]
    BY Zenon, <1>a, <2>1 DEF Record
  <2> HIDE DEF es
  <2>3. r.active = fde[f].active /\ r.pending = fde[f].pending
    BY Zenon, <1>a DEF Record
  <2> HIDE DEF r
  <2>4. \A g \in Fdes : fde'[g].pending = fde[g].pending /\ (fde[g].active => fde'[g].active)
    BY <1>a, <2>2, <2>3
  <2> QED
    BY Zenon, <2>1, <2>4, SameListKeeps
<1> QED
  BY Zenon, <1>1, <1>2, <1>3, <1>4

\* select() reports descriptors of installed events only, each once.
LEMMA ProcessKeepsList ==
    ASSUME LoopInv, ListInv, NEW rep \in [Events -> SUBSET Fds], fdevent_process(rep)
    PROVE  ListInv'
<1> DEFINE hit == {n \in Fds : \E e \in Events : n \in rep[e]}
           new == ToList(hit)
           ev(f) == {e \in Events : fde[f].active /\ fde[f].fd \in rep[e]}
           r(f) == [fde[f] EXCEPT !.events = @ \cup ev(f), !.pending = @ \/ ev(f) # {}]
<1>1. /\ pc = "select" /\ pc' = "drain"
      /\ \A e \in Events : \A n \in rep[e] : n \in fdset[e]
      /\ fde' = [f \in Fdes |-> r(f)]
  BY ZenonT(60) DEF fdevent_process
<1>2. PICK s \in [1 .. Cardinality(new) -> new] :
          Ascends(s, new) /\ list_pending' = list_pending \o [i \in DOMAIN s |-> fd_table[s[i]]]
  BY ZenonT(60) DEF fdevent_process
<1>3. ASSUME NEW f \in Fdes
      PROVE  /\ fde'[f].active = fde[f].active
             /\ fde'[f].pending = (fde[f].pending \/ ev(f) # {})
  <2>1. fde[f] \in Record
    BY DEF LoopInv, Structures
  <2>2. fde'[f] = r(f)
    BY Zenon, <1>1
  <2> HIDE DEF ev
  <2> QED
    BY Zenon, <2>1, <2>2 DEF Record
<1>4. ASSUME NEW n \in hit
      PROVE  /\ n \in Fds /\ fd_table[n] \in Fdes
             /\ fde[fd_table[n]].active /\ fde[fd_table[n]].fd = n
  <2>1. PICK e \in Events : n \in rep[e]
    OBVIOUS
  <2>2. n \in fdset[e] /\ n \in Fds
    BY Zenon, <1>1, <2>1
  <2>3. fd_table[n] # NoFde
    BY Zenon, <2>2 DEF LoopInv, TableInSync
  <2>4. fd_table[n] \in Fdes
    BY <2>2, <2>3 DEF LoopInv, Structures
  <2> QED
    BY Zenon, <2>2, <2>3, <2>4 DEF LoopInv, TableInSync
<1>5. ASSUME NEW f \in Fdes
      PROVE  ev(f) # {} <=> \E n \in hit : fd_table[n] = f
  <2>1. ASSUME NEW e \in ev(f)
        PROVE  fde[f].fd \in hit /\ fd_table[fde[f].fd] = f
    BY DEF LoopInv, Below, TableInSync, Installed
  <2>2. ASSUME NEW n \in hit, fd_table[n] = f
        PROVE  ev(f) # {}
    BY <1>4, <2>2
  <2> QED
    BY <2>1, <2>2
<1> DEFINE t == [i \in DOMAIN s |-> fd_table[s[i]]]
<1>6. new \subseteq hit /\ \A n \in hit : n \in new <=> ~fde[fd_table[n]].pending
  BY DEF ToList
<1> HIDE DEF hit, new, ev, r
<1>7. /\ \A i \in DOMAIN s : s[i] \in new
      /\ \A n \in new : \E i \in DOMAIN s : s[i] = n
      /\ \A i, j \in DOMAIN s : s[i] = s[j] => i = j
  <2>0. DOMAIN s = 1 .. Cardinality(new) /\ \A i \in DOMAIN s : s[i] \in new
    OBVIOUS
  <2>1. \A n \in new : \E i \in DOMAIN s : s[i] = n
    BY <1>2 DEF Ascends, ToSet
  <2>2. \A i \in DOMAIN s : s[i] \in Nat /\ i \in Int
    <3>1. \A i \in DOMAIN s : s[i] \in Fds
      BY Zenon, <1>4, <1>6, <2>0
    <3>2. \A i \in 1 .. Cardinality(new) : i \in Int
      OBVIOUS
    <3> QED
      BY Zenon, <2>0, <3>1, <3>2, Limits
  <2>3. ASSUME NEW i \in DOMAIN s, NEW j \in DOMAIN s, s[i] = s[j]
        PROVE  i = j
    <3>1. ~(i < j) /\ ~(j < i)
      BY <1>2, <2>2, <2>3 DEF Ascends
    <3> QED
      BY <2>2, <3>1
  <2> QED
    BY Zenon, <2>0, <2>1, <2>3
<1>8. t \in Seq(Fdes) /\ DOMAIN t = DOMAIN s
  <2>1. \A i \in DOMAIN s : fd_table[s[i]] \in Fdes
    BY Zenon, <1>4, <1>6, <1>7
  <2>2. Cardinality(new) \in Nat
    <3>1. new \subseteq 0 .. HugeFd
      BY Zenon, <1>4, <1>6, Limits
    <3>2. 0 \in Int /\ HugeFd \in Int
      BY Limits
    <3>3. IsFiniteSet(0 .. HugeFd)
      BY Zenon, <3>2, FS_Interval
    <3>4. IsFiniteSet(new)
      BY Zenon, <3>1, <3>3, FS_Subset
    <3> QED
      BY Zenon, <3>4, FS_CardinalityType
  <2> QED
    BY <2>1, <2>2
<1>a. \A i \in DOMAIN s : t[i] = fd_table[s[i]] /\ s[i] \in hit
  BY Zenon, <1>6, <1>7
<1>9. IsInjective(t)
  <2> SUFFICES ASSUME NEW i \in DOMAIN s, NEW j \in DOMAIN s, t[i] = t[j]
               PROVE  i = j
    BY Zenon, <1>8 DEF IsInjective
  <2>1. fde[t[i]].fd = s[i] /\ fde[t[j]].fd = s[j]
    BY Zenon, <1>4, <1>a
  <2> QED
    BY ZenonT(60), <1>7, <2>1
<1>10. ToSet(t) = {f \in Fdes : ~fde[f].pending /\ \E n \in hit : fd_table[n] = f}
  <2>1. ASSUME NEW i \in DOMAIN s
        PROVE  t[i] \in Fdes /\ ~fde[t[i]].pending /\ \E n \in hit : fd_table[n] = t[i]
    BY Zenon, <1>4, <1>6, <1>7, <1>a
  <2>2. ASSUME NEW f \in Fdes, ~fde[f].pending, NEW n \in hit, fd_table[n] = f
        PROVE  \E i \in DOMAIN s : t[i] = f
    <3>1. n \in new
      BY Zenon, <1>6, <2>2
    <3> QED
      BY Zenon, <1>7, <1>a, <2>2, <3>1
  <2>3. ToSet(t) = {t[i] : i \in DOMAIN s}
    BY Zenon, <1>8 DEF ToSet
  <2> HIDE DEF t
  <2> QED
    BY <2>1, <2>2, <2>3
<1> HIDE DEF t
<1>11. ToSet(list_pending) = Pending /\ list_pending \in Seq(Fdes) /\ IsInjective(list_pending)
  BY <1>1 DEF ListInv, Taken
<1>12. ToSet(list_pending) \cap ToSet(t) = {}
  BY <1>10, <1>11 DEF Pending
<1>13. /\ list_pending' \in Seq(Fdes) /\ IsInjective(list_pending')
       /\ ToSet(list_pending') = ToSet(list_pending) \cup ToSet(t)
  <2>1. list_pending' = list_pending \o t
    BY <1>2 DEF t
  <2> QED
    BY ZenonT(60), <1>8, <1>9, <1>11, <1>12, <2>1, OneAfterOther
<1>14. Pending' = Pending \cup ToSet(t)
  BY ZenonT(60), <1>3, <1>5, <1>10 DEF Pending
<1>15. Installed' = Installed
  BY Zenon, <1>3 DEF Installed
<1>16. ToSet(t) \subseteq Installed
  BY Zenon, <1>4, <1>10 DEF Installed
<1>17. Taken' = {}
  BY <1>1 DEF Taken
<1> QED
  BY ZenonT(60), <1>1, <1>11, <1>13, <1>14, <1>15, <1>16, <1>17 DEF ListInv

LEMMA ListStep == LoopInv /\ ListInv /\ [FdNext]_fdvars => ListInv'
<1> SUFFICES ASSUME LoopInv, ListInv, [FdNext]_fdvars
             PROVE  ListInv'
  OBVIOUS
<1>a. fde \in [Fdes -> Record]
  BY DEF LoopInv, Structures
<1>1. CASE fdevent_plist_dequeue
  <2>1. /\ pc = "drain" /\ list_pending # <<>> /\ pc' = "call" /\ fde' = fde
        /\ cur' = Head(list_pending) /\ list_pending' = Tail(list_pending)
    BY <1>1 DEF fdevent_plist_dequeue
  <2>2. list_pending \in Seq(Fdes) /\ IsInjective(list_pending)
    BY DEF ListInv
  <2>3. Len(list_pending) \in Nat \ {0} /\ DOMAIN list_pending = 1 .. Len(list_pending)
    BY <2>1, <2>2
  <2>4. /\ cur' = list_pending[1] /\ cur' \in Fdes
        /\ list_pending' \in Seq(Fdes) /\ DOMAIN list_pending' = 1 .. Len(list_pending) - 1
        /\ \A i \in 1 .. Len(list_pending) - 1 : list_pending'[i] = list_pending[i + 1]
    BY <2>1, <2>2, <2>3
  <2>5. \A i \in 1 .. Len(list_pending) - 1 : i + 1 \in 1 .. Len(list_pending) /\ i + 1 # 1
    BY <2>3
  <2>6. 1 \in 1 .. Len(list_pending)
        /\ \A i \in 1 .. Len(list_pending) : i # 1 => i - 1 \in 1 .. Len(list_pending) - 1 /\ (i - 1) + 1 = i
    BY <2>3
  <2>7. IsInjective(list_pending')
    <3> SUFFICES ASSUME NEW i \in 1 .. Len(list_pending) - 1, NEW j \in 1 .. Len(list_pending) - 1,
                        list_pending'[i] = list_pending'[j]
                 PROVE  i = j
      BY Zenon, <2>4 DEF IsInjective
    <3>1. i + 1 = j + 1
      BY Zenon, <2>2, <2>3, <2>4, <2>5 DEF IsInjective
    <3> QED
      BY <3>1
  <2>a. ASSUME NEW x \in ToSet(list_pending')
        PROVE  \E i \in 1 .. Len(list_pending) : i # 1 /\ x = list_pending[i]
    <3>1. PICK i \in 1 .. Len(list_pending) - 1 : x = list_pending'[i]
      BY Zenon, <2>4 DEF ToSet
    <3> QED
      BY Zenon, <2>4, <2>5, <3>1
  <2>8. cur' \notin ToSet(list_pending')
    BY Zenon, <2>2, <2>3, <2>4, <2>6, <2>a DEF IsInjective
  <2>9. ToSet(list_pending') \cup {cur'} = ToSet(list_pending)
    <3>1. ASSUME NEW x \in ToSet(list_pending), x # cur'
          PROVE  x \in ToSet(list_pending')
      <4>1. PICK i \in 1 .. Len(list_pending) : x = list_pending[i]
        BY Zenon, <2>3 DEF ToSet
      <4>2. i # 1
        BY Zenon, <2>4, <3>1, <4>1
      <4>3. list_pending'[i - 1] = x /\ i - 1 \in DOMAIN list_pending'
        BY Zenon, <2>4, <2>6, <4>1, <4>2
      <4> QED
        BY Zenon, <4>3 DEF ToSet
    <3>2. ASSUME NEW x \in ToSet(list_pending')
          PROVE  x \in ToSet(list_pending)
      BY Zenon, <2>3, <2>a DEF ToSet
    <3>3. cur' \in ToSet(list_pending)
      BY <2>3, <2>4, <2>6 DEF ToSet
    <3> QED
      BY <3>1, <3>2, <3>3
  <2>10. Pending' = Pending /\ Installed' = Installed /\ Taken = {} /\ Taken' = {cur'}
    BY <2>1 DEF Pending, Installed, Taken
  <2> QED
    BY Zenon, <2>1, <2>4, <2>7, <2>8, <2>9, <2>10 DEF ListInv
<1>2. CASE fdevent_call_fdfunc
  <2> DEFINE r == [fde[cur] EXCEPT !.events = {}, !.pending = FALSE]
  <2>1. /\ pc = "call" /\ pc' \in {"func", "drain"} /\ UNCHANGED <<list_pending, cur>>
        /\ fde' = [fde EXCEPT ![cur].events = {}, ![cur].pending = FALSE]
    BY <1>2 DEF fdevent_call_fdfunc
  <2>2. cur \in Fdes /\ cur \notin ToSet(list_pending)
    BY <2>1 DEF ListInv
  <2>3. fde' = [fde EXCEPT ![cur] = r]
    BY Zenon, <1>a, <2>1, <2>2 DEF Record
  <2>4. r.pending = FALSE /\ r.active = fde[cur].active
    BY Zenon, <1>a, <2>2 DEF Record
  <2> HIDE DEF r
  <2>5. ~fde'[cur].pending /\ fde'[cur].active = fde[cur].active
        /\ \A g \in Fdes \ {cur} : fde'[g] = fde[g]
    BY <1>a, <2>2, <2>3, <2>4
  <2>6. Pending' = Pending \ {cur} /\ Installed' = Installed
    BY Zenon, <2>2, <2>5 DEF Pending, Installed
  <2>7. Taken = {cur} /\ Taken' = {} /\ pc' # "call"
    BY <2>1 DEF Taken
  <2>8. ToSet(list_pending) \cup {cur} = Pending
    BY <2>7 DEF ListInv
  <2>9. ToSet(list_pending) = Pending'
    BY <2>2, <2>6, <2>8
  <2> QED
    BY Zenon, <2>1, <2>6, <2>7, <2>9 DEF ListInv
<1>3. CASE Drained \/ Return
  <2>1. pc # "call" /\ pc' # "call" /\ UNCHANGED <<fde, list_pending>>
    BY <1>3 DEF Drained, Return
  <2>2. Pending' = Pending /\ Installed' = Installed /\ Taken' = Taken
    BY <2>1 DEF Pending, Installed, Taken
  <2> QED
    BY Zenon, <2>1, <2>2 DEF ListInv
<1>4. CASE UNCHANGED fdvars
  BY <1>4, SameListKeeps DEF fdvars
<1>5. ASSUME NEW f \in Fdes, NEW e \in Events, fdevent_add(f, e) \/ fdevent_del(f, e)
      PROVE  ListInv'
  <2>1. fde[f].wanted \cup {e} \in SUBSET Events /\ fde[f].wanted \ {e} \in SUBSET Events
    BY <1>a DEF Record
  <2>2. \E es \in SUBSET Events : fdevent_set(f, es)
    BY Zenon, <1>5, <2>1 DEF fdevent_add, fdevent_del
  <2> QED
    BY Zenon, <2>2, CallsKeepList
<1>6. CASE Callback
  BY Zenon, <1>5, <1>6, CallsKeepList DEF Callback
<1>7. ASSUME NEW rep \in [Events -> SUBSET Fds], fdevent_process(rep)
      PROVE  ListInv'
  BY Zenon, <1>7, ProcessKeepsList
<1> QED
  BY Zenon, <1>1, <1>2, <1>3, <1>4, <1>6, <1>7 DEF FdNext, fdevent_loop

\* fd_table, the structures, the arguments of select() and the list of pending
\* events agree whatever the callbacks install, change and remove
\* (fdevent.c:240-515), for any number of events and descriptors: neither FATAL()
\* of fdevent_process() and fdevent_unregister() is reached, select() is asked
\* for every event that somebody waits for, and the list holds each pending
\* event once and no event that was removed.
THEOREM EventsStayInSync == FdSpec => []EventsInSync
<1>1. LoopInv /\ ListInv => EventsInSync
  <2>1. ListInv => PendingIsInstalled
    BY Zenon DEF ListInv, PendingIsInstalled, Taken, Pending
  <2> QED
    BY Zenon, <2>1 DEF LoopInv, EventsInSync
<1>2. FdInit => LoopInv /\ ListInv
  BY LoopInit, ListInit
<1>3. LoopInv /\ ListInv /\ [FdNext]_fdvars => (LoopInv /\ ListInv)'
  BY Zenon, LoopStep, ListStep
<1> QED
  BY <1>1, <1>2, <1>3, PTL DEF FdSpec
=============================================================================
