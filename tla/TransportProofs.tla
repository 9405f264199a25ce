------------------------ MODULE TransportProofs -----------------------------
(***************************************************************************)
(* Proofs about the transports of adbd: AdbTransport for any number of     *)
(* connections and packets, over USB and over TCP, and UsbGadget, whose open*)
(* thread leaks no descriptor and closes none of another owner, for any    *)
(* number of descriptors.                                                  *)
(***************************************************************************)
EXTENDS AdbTransport, UsbGadget, Integers, WellFoundedInduction, TLAPS

-----------------------------------------------------------------------------
(* The threads and the registration of a transport.                        *)

\* The types the argument rests on.
Types ==
    /\ kind \in [Transports -> {"usb", "tcp"}]
    /\ opened \in Nat
    /\ sfd \in [Transports -> 0 .. MaxTransports]
    /\ reg \in Seq(Transports \X {0, 1})
    /\ state \in [Transports -> {"none", "known", "live", "freed"}]
    /\ ref_count \in [Transports -> Int]
    /\ kicked \in [Transports -> BOOLEAN]
    /\ opc \in [Transports -> Pcs] /\ ipc \in [Transports -> Pcs]

\* Which threads there are in each phase of a transport's life.
Phases ==
    \A t \in Transports :
        /\ t > opened => state[t] = "none"
        /\ state[t] \in {"none", "known"} => opc[t] = "none" /\ ipc[t] = "none"
        /\ Installed(t) => opc[t] # "none" /\ ipc[t] # "none"
        /\ state[t] = "freed" => opc[t] = "done" /\ ipc[t] = "done"

\* What the messages on the registration socket say.
Messages ==
    /\ \A i \in DOMAIN reg :
        LET t == reg[i][1] IN
        IF reg[i][2] = 1 THEN state[t] = "known" ELSE opc[t] = "done" /\ ipc[t] = "done"
    /\ \A i, j \in DOMAIN reg : reg[i][2] = 1 /\ reg[j] = reg[i] => i = j

\* A transport nobody has kicked still has its connection, and so has the one
\* thread that is about to kick it.
Kicking ==
    \A t \in Transports :
        /\ state[t] # "none" /\ ~kicked[t] => Descriptor(t) = t
        /\ opc[t] = "kick" \/ ipc[t] = "kick" => Descriptor(t) = t /\ kicked[t]
        /\ ~(opc[t] = "kick" /\ ipc[t] = "kick")

IInv == Types /\ RefsAreThreads /\ Phases /\ Messages /\ Kicking

\* The variables the invariant speaks of.
watched == <<kind, opened, usbfd, sfd, reg, state, ref_count, kicked, opc, ipc>>

USE TransportAssumption

\* What Append does to the registration socket.
LEMMA AppendFacts ==
    ASSUME NEW S, NEW q \in Seq(S), NEW e \in S
    PROVE  /\ Append(q, e) \in Seq(S)
           /\ DOMAIN Append(q, e) = DOMAIN q \cup {Len(q) + 1}
           /\ Len(q) + 1 \notin DOMAIN q
           /\ Append(q, e)[Len(q) + 1] = e
           /\ \A i \in DOMAIN q : Append(q, e)[i] = q[i]
OBVIOUS

\* What Tail does to the registration socket.
LEMMA TailFacts ==
    ASSUME NEW S, NEW q \in Seq(S), q # <<>>
    PROVE  /\ Tail(q) \in Seq(S)
           /\ Head(q) = q[1] /\ 1 \in DOMAIN q
           /\ \A i \in DOMAIN Tail(q) : i + 1 \in DOMAIN q /\ i + 1 # 1 /\ Tail(q)[i] = q[i + 1]
           /\ \A i, j \in DOMAIN Tail(q) : i + 1 = j + 1 => i = j
OBVIOUS

\* The initial state satisfies the invariant (transport.c:662-680).
LEMMA InitIInv == Init => IInv
<1> SUFFICES ASSUME Init PROVE IInv
  OBVIOUS
<1>1. Types
  BY DEF Init, Types, Transports, Pcs
<1>2. RefsAreThreads
  BY DEF Init, RefsAreThreads, Holds
<1>3. Phases /\ Messages
  BY DEF Init, Phases, Installed, Messages
<1>4. Kicking
  BY DEF Init, Kicking
<1> QED BY <1>1, <1>2, <1>3, <1>4 DEF IInv

\* Steps that only move packets (transport.c:198-240, 276-287).
LEMMA WatchedKeeps == IInv /\ UNCHANGED watched => IInv'
BY DEF watched, IInv, Types, RefsAreThreads, Phases, Installed, Messages, Kicking, Descriptor

\* OpenDevice: a new transport gets a free descriptor (usb_linux_client.c:172-207).
LEMMA OpenKeeps == IInv /\ OpenDevice => IInv'
<1> SUFFICES ASSUME IInv, OpenDevice PROVE IInv'
  OBVIOUS
<1> DEFINE n == opened + 1
<1>0. /\ n \in Transports /\ state[n] = "none" /\ opened' = n
      /\ state' = [state EXCEPT ![n] = "known"] /\ reg' = Append(reg, <<n, 1>>)
      /\ sfd' = IF kind[n] = "tcp" THEN [sfd EXCEPT ![n] = n] ELSE sfd
      /\ usbfd' = IF kind[n] = "usb" THEN n ELSE usbfd
      /\ kind[n] = "usb" => usbfd = 0
      /\ UNCHANGED <<kind, ref_count, kicked, opc, ipc>>
  BY DEF OpenDevice, IInv, Types, Phases, Transports, threads
<1>1. Types'
  BY <1>0 DEF IInv, Types, Transports
<1>2. RefsAreThreads'
  BY <1>0 DEF IInv, RefsAreThreads
<1>3. Phases'
  BY <1>0 DEF IInv, Types, Phases, Installed, Transports
<1>4. Messages'
  <2> DEFINE k == Len(reg) + 1
  <2>1. <<n, 1>> \in Transports \X {0, 1} /\ <<n, 1>>[1] = n /\ <<n, 1>>[2] = 1
    BY <1>0
  <2>2. /\ DOMAIN reg' = DOMAIN reg \cup {k} /\ k \notin DOMAIN reg
        /\ reg'[k] = <<n, 1>> /\ \A i \in DOMAIN reg : reg'[i] = reg[i]
    BY <1>0, <2>1, AppendFacts DEF IInv, Types
  <2>3. \A i \in DOMAIN reg : reg[i] \in Transports \X {0, 1}
    BY DEF IInv, Types
  <2>4. \A i \in DOMAIN reg : reg[i][1] # n
    BY <1>0, <2>3 DEF IInv, Phases, Messages
  <2> HIDE DEF k, n
  <2>5. ASSUME NEW i \in DOMAIN reg'
        PROVE  LET t == reg'[i][1] IN
               IF reg'[i][2] = 1 THEN state'[t] = "known" ELSE opc'[t] = "done" /\ ipc'[t] = "done"
    <3>1. CASE i = k
      BY <1>0, <2>1, <2>2, <3>1 DEF IInv, Types
    <3>2. CASE i \in DOMAIN reg
      BY <1>0, <2>2, <2>3, <2>4, <3>2 DEF IInv, Types, Messages
    <3> QED BY <2>2, <3>1, <3>2
  <2>6. ASSUME NEW i \in DOMAIN reg', NEW j \in DOMAIN reg', reg'[i][2] = 1, reg'[j] = reg'[i]
        PROVE  i = j
    BY <2>1, <2>2, <2>4, <2>6 DEF IInv, Messages
  <2> QED BY <2>5, <2>6 DEF Messages
<1>5. Kicking'
  <2>0. opc'[n] = "none" /\ ipc'[n] = "none"
    BY <1>0 DEF IInv, Phases
  <2>1. ASSUME NEW t \in Transports, t = n PROVE Descriptor(t)' = t
    <3>1. kind[t] = "usb" \/ kind[t] = "tcp"
      BY DEF IInv, Types
    <3>2. kind' = kind /\ sfd \in [Transports -> 0 .. MaxTransports]
      BY <1>0 DEF IInv, Types
    <3> QED BY <1>0, <2>1, <3>1, <3>2 DEF Descriptor
  <2>2. ASSUME NEW t \in Transports \ {n}, Descriptor(t) = t PROVE Descriptor(t)' = t
    <3>1. CASE kind[t] = "usb"
      <4>1. usbfd = t /\ usbfd # 0
        BY <2>2, <3>1 DEF Descriptor, Transports
      <4>2. usbfd' = usbfd
        BY <1>0, <4>1
      <4> QED BY <1>0, <3>1, <4>1, <4>2 DEF Descriptor
    <3>2. CASE kind[t] # "usb"
      BY <1>0, <2>2, <3>2 DEF IInv, Types, Descriptor
    <3> QED BY <3>1, <3>2
  <2>3. \A t \in Transports \ {n} : state'[t] = state[t]
    BY <1>0 DEF IInv, Types
  <2> HIDE DEF n
  <2>4. ASSUME NEW t \in Transports
        PROVE  /\ state'[t] # "none" /\ ~kicked'[t] => Descriptor(t)' = t
               /\ opc'[t] = "kick" \/ ipc'[t] = "kick" => Descriptor(t)' = t /\ kicked'[t]
               /\ ~(opc'[t] = "kick" /\ ipc'[t] = "kick")
    <3>1. CASE t = n
      BY <2>0, <2>1, <3>1
    <3>2. CASE t # n
      BY <1>0, <2>2, <2>3, <3>2 DEF IInv, Kicking
    <3> QED BY <3>1, <3>2
  <2> QED BY <2>4 DEF Kicking
<1> QED BY <1>1, <1>2, <1>3, <1>4, <1>5 DEF IInv

\* MainRegister: the transport gets its threads and their references
\* (transport.c:567-660).
LEMMA RegisterKeeps == IInv /\ MainRegister => IInv'
<1> SUFFICES ASSUME IInv, MainRegister PROVE IInv'
  OBVIOUS
<1> DEFINE n == Head(reg)[1]
<1>0. /\ reg # <<>> /\ reg' = Tail(reg) /\ Head(reg)[2] = 1
      /\ state' = [state EXCEPT ![n] = "live"] /\ ref_count' = [ref_count EXCEPT ![n] = 2]
      /\ opc' = [opc EXCEPT ![n] = "sync"] /\ ipc' = [ipc EXCEPT ![n] = "run"]
      /\ UNCHANGED <<kind, opened, usbfd, sfd, kicked>>
  BY DEF MainRegister, References, device
<1>00. /\ Tail(reg) \in Seq(Transports \X {0, 1})
       /\ Head(reg) = reg[1] /\ 1 \in DOMAIN reg
       /\ \A i \in DOMAIN reg' : i + 1 \in DOMAIN reg /\ i + 1 # 1 /\ reg'[i] = reg[i + 1]
       /\ \A i, j \in DOMAIN reg' : i + 1 = j + 1 => i = j
  BY <1>0, TailFacts DEF IInv, Types
<1>01. \A i \in DOMAIN reg : reg[i] \in Transports \X {0, 1}
  BY DEF IInv, Types
<1>02. n \in Transports /\ state[n] = "known" /\ opc[n] = "none" /\ ipc[n] = "none"
  BY <1>0, <1>00, <1>01 DEF IInv, Messages, Phases
<1>03. \A i \in DOMAIN reg' : reg'[i][1] = n => FALSE
  <2> SUFFICES ASSUME NEW i \in DOMAIN reg', reg'[i][1] = n PROVE FALSE
    OBVIOUS
  <2>1. reg[i + 1] \in Transports \X {0, 1} /\ reg[1] \in Transports \X {0, 1}
        /\ reg[i + 1][1] = n /\ reg[1][1] = n /\ reg[1][2] = 1
    BY <1>0, <1>00, <1>01
  <2>2. reg[i + 1][2] = 1
    BY <2>1, <1>00, <1>02 DEF IInv, Messages
  <2>3. reg[i + 1] = reg[1]
    BY <2>1, <2>2
  <2> QED BY <2>1, <2>2, <2>3, <1>00 DEF IInv, Messages
<1> HIDE DEF n
<1>1. Types'
  BY <1>0, <1>00, <1>02 DEF IInv, Types, Pcs
<1>2. RefsAreThreads'
  BY <1>0, <1>02 DEF IInv, Types, RefsAreThreads, Holds
<1>3. Phases'
  BY <1>0, <1>02 DEF IInv, Types, Phases, Installed
<1>4. Messages'
  <2>1. ASSUME NEW i \in DOMAIN reg'
        PROVE  LET t == reg'[i][1] IN
               IF reg'[i][2] = 1 THEN state'[t] = "known" ELSE opc'[t] = "done" /\ ipc'[t] = "done"
    <3>1. reg'[i] = reg[i + 1] /\ i + 1 \in DOMAIN reg /\ reg[i + 1][1] \in Transports \ {n}
      BY <1>00, <1>01, <1>03
    <3>2. LET t == reg[i + 1][1] IN
          IF reg[i + 1][2] = 1 THEN state[t] = "known" ELSE opc[t] = "done" /\ ipc[t] = "done"
      BY <3>1 DEF IInv, Messages
    <3>3. \A t \in Transports \ {n} : state'[t] = state[t] /\ opc'[t] = opc[t] /\ ipc'[t] = ipc[t]
      BY <1>0 DEF IInv, Types
    <3> QED BY <3>1, <3>2, <3>3, Zenon
  <2>2. ASSUME NEW i \in DOMAIN reg', NEW j \in DOMAIN reg', reg'[i][2] = 1, reg'[j] = reg'[i]
        PROVE  i = j
    BY <1>00, <2>2 DEF IInv, Messages
  <2> QED BY <2>1, <2>2 DEF Messages
<1>5. Kicking'
  BY <1>0, <1>02 DEF IInv, Types, Kicking, Descriptor
<1> QED BY <1>1, <1>2, <1>3, <1>4, <1>5 DEF IInv

\* MainRemove: the transport is freed, its threads are done (transport.c:585-616).
LEMMA RemoveKeeps == IInv /\ MainRemove => IInv'
<1> SUFFICES ASSUME IInv, MainRemove PROVE IInv'
  OBVIOUS
<1> DEFINE n == Head(reg)[1]
<1>0. /\ reg # <<>> /\ reg' = Tail(reg) /\ Head(reg)[2] = 0
      /\ state' = [state EXCEPT ![n] = "freed"]
      /\ UNCHANGED <<kind, opened, usbfd, sfd, ref_count, kicked, opc, ipc>>
  BY DEF MainRemove, device, threads
<1>00. /\ Tail(reg) \in Seq(Transports \X {0, 1})
       /\ Head(reg) = reg[1] /\ 1 \in DOMAIN reg
       /\ \A i \in DOMAIN reg' : i + 1 \in DOMAIN reg /\ i + 1 # 1 /\ reg'[i] = reg[i + 1]
       /\ \A i, j \in DOMAIN reg' : i + 1 = j + 1 => i = j
  BY <1>0, TailFacts DEF IInv, Types
<1>01. \A i \in DOMAIN reg : reg[i] \in Transports \X {0, 1}
  BY DEF IInv, Types
<1>02. n \in Transports /\ opc[n] = "done" /\ ipc[n] = "done" /\ state[n] \notin {"none", "known"}
  BY <1>0, <1>00, <1>01 DEF IInv, Messages, Phases
<1> HIDE DEF n
<1>1. Types'
  BY <1>0, <1>00, <1>02, Zenon DEF IInv, Types
<1>2. RefsAreThreads'
  BY <1>0 DEF IInv, RefsAreThreads
<1>3. Phases'
  BY <1>0, <1>02 DEF IInv, Types, Phases, Installed
<1>4. Messages'
  <2>1. ASSUME NEW i \in DOMAIN reg'
        PROVE  LET t == reg'[i][1] IN
               IF reg'[i][2] = 1 THEN state'[t] = "known" ELSE opc'[t] = "done" /\ ipc'[t] = "done"
    <3>1. reg'[i] = reg[i + 1] /\ i + 1 \in DOMAIN reg /\ reg[i + 1][1] \in Transports
      BY <1>00, <1>01
    <3>2. LET t == reg[i + 1][1] IN
          IF reg[i + 1][2] = 1 THEN state[t] = "known" ELSE opc[t] = "done" /\ ipc[t] = "done"
      BY <3>1 DEF IInv, Messages
    <3>3. opc' = opc /\ ipc' = ipc /\ \A t \in Transports \ {n} : state'[t] = state[t]
      BY <1>0 DEF IInv, Types
    <3>4. reg[i + 1][2] = 1 => reg[i + 1][1] # n
      BY <1>02, <3>2
    <3> QED BY <3>1, <3>2, <3>3, <3>4
  <2>2. ASSUME NEW i \in DOMAIN reg', NEW j \in DOMAIN reg', reg'[i][2] = 1, reg'[j] = reg'[i]
        PROVE  i = j
    BY <1>00, <2>2 DEF IInv, Messages
  <2> QED BY <2>1, <2>2 DEF Messages
<1>5. Kicking'
  BY <1>0, <1>02 DEF IInv, Types, Kicking, Descriptor
<1> QED BY <1>1, <1>2, <1>3, <1>4, <1>5 DEF IInv

\* A step within the output thread's loop, or on to the next part of its end,
\* that neither begins a kick nor ends the thread (transport.c:255-304).
LEMMA OutputMovesKeeps ==
    ASSUME IInv, NEW t \in Transports, NEW pc \in Pcs \ {"none", "done", "kick"},
           opc[t] \notin {"none", "done"}, opc' = [opc EXCEPT ![t] = pc],
           UNCHANGED <<kind, opened, usbfd, sfd, reg, state, ref_count, kicked, ipc>>
    PROVE  IInv'
<1>1. Types'
  BY DEF IInv, Types
<1>2. RefsAreThreads'
  BY DEF IInv, Types, RefsAreThreads, Holds
<1>3. Phases'
  BY DEF IInv, Types, Phases, Installed
<1>4. Messages'
  <2>1. \A i \in DOMAIN reg : reg[i] \in Transports \X {0, 1}
    BY DEF IInv, Types
  <2> QED BY <2>1 DEF IInv, Types, Messages
<1>5. Kicking'
  BY DEF IInv, Types, Kicking, Descriptor
<1> QED BY <1>1, <1>2, <1>3, <1>4, <1>5 DEF IInv

\* The output thread's test-and-set of kicked (transport.c:69-76).
LEMMA OutputMarkKeeps ==
    ASSUME IInv, NEW t \in Transports, opc[t] \in {"mark", "close"},
           opc' = [opc EXCEPT ![t] = AfterMark(t)], kicked' = [kicked EXCEPT ![t] = TRUE],
           UNCHANGED <<kind, opened, usbfd, sfd, reg, state, ref_count, ipc>>
    PROVE  IInv'
<1>0. AfterMark(t) \in {"kick", "unref"} /\ (AfterMark(t) = "kick" => ~kicked[t])
  BY DEF AfterMark, Kicks
<1>1. Types'
  BY <1>0 DEF IInv, Types, Pcs
<1>2. RefsAreThreads'
  BY <1>0 DEF IInv, Types, RefsAreThreads, Holds
<1>3. Phases'
  BY <1>0 DEF IInv, Types, Phases, Installed
<1>4. Messages'
  <2>1. \A i \in DOMAIN reg : reg[i] \in Transports \X {0, 1}
    BY DEF IInv, Types
  <2> QED BY <1>0, <2>1 DEF IInv, Types, Messages
<1>5. Kicking'
  <2>1. state[t] # "none"
    BY DEF IInv, Types, Phases, Installed
  <2>2. opc'[t] = AfterMark(t) /\ kicked'[t] /\ \A u \in Transports \ {t} : opc'[u] = opc[u] /\ kicked'[u] = kicked[u]
    BY DEF IInv, Types
  <2> QED BY <1>0, <2>1, <2>2 DEF IInv, Kicking, Descriptor
<1> QED BY <1>1, <1>2, <1>3, <1>4, <1>5 DEF IInv

\* The output thread's call of t->kick(): the descriptor is its own, so no
\* other transport loses one (transport.c:78-79).
LEMMA OutputKickKeeps ==
    ASSUME IInv, NEW t \in Transports, opc[t] = "kick", Kick(t),
           opc' = [opc EXCEPT ![t] = "unref"],
           UNCHANGED <<kind, opened, reg, state, ref_count, kicked, ipc>>
    PROVE  IInv'
<1>0. Descriptor(t) = t /\ kicked[t] /\ ipc[t] # "kick"
  BY DEF IInv, Kicking
<1>1. Types'
  BY DEF IInv, Types, Pcs, Kick
<1>2. RefsAreThreads'
  BY DEF IInv, Types, RefsAreThreads, Holds
<1>3. Phases'
  BY DEF IInv, Types, Phases, Installed
<1>4. Messages'
  <2>1. \A i \in DOMAIN reg : reg[i] \in Transports \X {0, 1}
    BY DEF IInv, Types
  <2> QED BY <2>1 DEF IInv, Types, Messages
<1>5. Kicking'
  <2>1. opc'[t] = "unref" /\ \A u \in Transports \ {t} : opc'[u] = opc[u] /\ (Descriptor(u) = u => Descriptor(u)' = u)
    BY <1>0 DEF IInv, Types, Kick, Descriptor
  <2> QED BY <1>0, <2>1 DEF IInv, Kicking
<1> QED BY <1>1, <1>2, <1>3, <1>4, <1>5 DEF IInv

\* The output thread gives up its reference; the last one reports the transport
\* (transport.c:705-728).
LEMMA OutputUnrefKeeps ==
    ASSUME IInv, NEW t \in Transports, opc[t] = "unref", Unref(t),
           opc' = [opc EXCEPT ![t] = "done"],
           UNCHANGED <<kind, opened, state, ipc>>
    PROVE  IInv'
<1>0. ref_count[t] = 1 + Holds(ipc[t]) /\ ref_count' = [ref_count EXCEPT ![t] = @ - 1]
  BY DEF IInv, RefsAreThreads, Holds, Unref
<1>00. state[t] \notin {"none", "known", "freed"} /\ ipc[t] # "none"
  BY DEF IInv, Types, Phases, Installed
<1>2. RefsAreThreads'
  BY <1>0 DEF IInv, Types, RefsAreThreads, Holds
<1>3. Phases'
  BY <1>00 DEF IInv, Types, Phases, Installed
<1>01. \A i \in DOMAIN reg : reg[i] \in Transports \X {0, 1}
  BY DEF IInv, Types
<1>02. \A i \in DOMAIN reg : reg[i][1] # t
  BY <1>00, <1>01 DEF IInv, Messages
<1>4. CASE ref_count[t] = 1
  <2>0. ipc[t] = "done"
    BY <1>0, <1>00, <1>4 DEF Holds
  <2>00. KickOnce(t) /\ reg' = Append(reg, <<t, 0>>)
    BY <1>4 DEF Unref, Last, CloseTransport
  <2> DEFINE k == Len(reg) + 1
  <2>1. <<t, 0>> \in Transports \X {0, 1} /\ <<t, 0>>[1] = t /\ <<t, 0>>[2] = 0
    OBVIOUS
  <2>2. /\ DOMAIN reg' = DOMAIN reg \cup {k} /\ k \notin DOMAIN reg /\ reg' \in Seq(Transports \X {0, 1})
        /\ reg'[k] = <<t, 0>> /\ \A i \in DOMAIN reg : reg'[i] = reg[i]
    BY <2>00, <2>1, AppendFacts DEF IInv, Types
  <2> HIDE DEF k
  <2>3. Types'
    <3>1. kicked' \in [Transports -> BOOLEAN]
      BY <2>00 DEF IInv, Types, KickOnce
    <3>0. sfd' \in [Transports -> 0 .. MaxTransports]
      <4>1. sfd' = sfd \/ sfd' = [sfd EXCEPT ![t] = 0]
        BY <2>00 DEF KickOnce, Kick
      <4>2. 0 \in 0 .. MaxTransports /\ sfd \in [Transports -> 0 .. MaxTransports]
        BY DEF IInv, Types
      <4> QED BY <4>1, <4>2, Zenon
    <3>2. ref_count' \in [Transports -> Int]
      BY <1>0 DEF IInv, Types
    <3>3. opc' \in [Transports -> Pcs] /\ ipc' \in [Transports -> Pcs]
      BY DEF IInv, Types, Pcs
    <3> QED BY <2>2, <3>0, <3>1, <3>2, <3>3 DEF IInv, Types
  <2>4. Messages'
    <3>1. ASSUME NEW i \in DOMAIN reg'
          PROVE  LET u == reg'[i][1] IN
                 IF reg'[i][2] = 1 THEN state'[u] = "known" ELSE opc'[u] = "done" /\ ipc'[u] = "done"
      <4>1. CASE i = k
        BY <2>0, <2>1, <2>2, <4>1 DEF IInv, Types
      <4>2. CASE i \in DOMAIN reg
        BY <1>01, <1>02, <2>2, <4>2 DEF IInv, Types, Messages
      <4> QED BY <2>2, <4>1, <4>2
    <3>2. ASSUME NEW i \in DOMAIN reg', NEW j \in DOMAIN reg', reg'[i][2] = 1, reg'[j] = reg'[i]
          PROVE  i = j
      BY <1>01, <1>02, <2>1, <2>2, <3>2 DEF IInv, Messages
    <3> QED BY <3>1, <3>2 DEF Messages
  <2>5. Kicking'
    <3>1. /\ opc'[t] = "done" /\ kicked'[t]
          /\ \A u \in Transports \ {t} : opc'[u] = opc[u] /\ kicked'[u] = kicked[u]
      BY <2>00 DEF IInv, Types, KickOnce
    <3>2. \A u \in Transports \ {t} : Descriptor(u) = u => Descriptor(u)' = u
      BY <1>00, <2>00 DEF IInv, Types, Kicking, KickOnce, Kick, Descriptor
    <3> QED BY <2>0, <3>1, <3>2 DEF IInv, Kicking
  <2> QED BY <1>2, <1>3, <2>3, <2>4, <2>5 DEF IInv
<1>5. CASE ref_count[t] # 1
  <2>0. UNCHANGED <<usbfd, sfd, kicked, reg>>
    BY <1>5 DEF Unref, Last
  <2>1. Types'
    BY <1>0, <2>0 DEF IInv, Types, Pcs
  <2>2. Messages'
    BY <1>01, <1>02, <2>0 DEF IInv, Types, Messages
  <2>3. Kicking'
    BY <2>0 DEF IInv, Types, Kicking, Descriptor
  <2> QED BY <1>2, <1>3, <2>1, <2>2, <2>3 DEF IInv
<1> QED BY <1>4, <1>5

\* A step within the input thread's loop, or on to the next part of its end,
\* that neither begins a kick nor ends the thread (transport.c:310-353).
LEMMA InputMovesKeeps ==
    ASSUME IInv, NEW t \in Transports, NEW pc \in Pcs \ {"none", "done", "kick"},
           ipc[t] \notin {"none", "done"}, ipc' = [ipc EXCEPT ![t] = pc],
           UNCHANGED <<kind, opened, usbfd, sfd, reg, state, ref_count, kicked, opc>>
    PROVE  IInv'
<1>1. Types'
  BY DEF IInv, Types
<1>2. RefsAreThreads'
  BY DEF IInv, Types, RefsAreThreads, Holds
<1>3. Phases'
  BY DEF IInv, Types, Phases, Installed
<1>4. Messages'
  <2>1. \A i \in DOMAIN reg : reg[i] \in Transports \X {0, 1}
    BY DEF IInv, Types
  <2> QED BY <2>1, Zenon DEF IInv, Types, Messages
<1>5. Kicking'
  BY DEF IInv, Types, Kicking, Descriptor
<1> QED BY <1>1, <1>2, <1>3, <1>4, <1>5 DEF IInv

\* The input thread's test-and-set of kicked (transport.c:69-76).
LEMMA InputMarkKeeps ==
    ASSUME IInv, NEW t \in Transports, ipc[t] \in {"mark", "close"},
           ipc' = [ipc EXCEPT ![t] = AfterMark(t)], kicked' = [kicked EXCEPT ![t] = TRUE],
           UNCHANGED <<kind, opened, usbfd, sfd, reg, state, ref_count, opc>>
    PROVE  IInv'
<1>0. AfterMark(t) \in {"kick", "unref"} /\ (AfterMark(t) = "kick" => ~kicked[t])
  BY DEF AfterMark, Kicks
<1>1. Types'
  BY <1>0 DEF IInv, Types, Pcs
<1>2. RefsAreThreads'
  BY <1>0, Zenon DEF IInv, Types, RefsAreThreads, Holds
<1>3. Phases'
  BY <1>0 DEF IInv, Types, Phases, Installed
<1>4. Messages'
  <2>1. \A i \in DOMAIN reg : reg[i] \in Transports \X {0, 1}
    BY DEF IInv, Types
  <2> QED BY <1>0, <2>1 DEF IInv, Types, Messages
<1>5. Kicking'
  <2>1. state[t] # "none"
    BY DEF IInv, Types, Phases, Installed
  <2>2. ipc'[t] = AfterMark(t) /\ kicked'[t] /\ \A u \in Transports \ {t} : ipc'[u] = ipc[u] /\ kicked'[u] = kicked[u]
    BY DEF IInv, Types
  <2> QED BY <1>0, <2>1, <2>2 DEF IInv, Kicking, Descriptor
<1> QED BY <1>1, <1>2, <1>3, <1>4, <1>5 DEF IInv

\* The input thread's call of t->kick(): the descriptor is its own, so no
\* other transport loses one (transport.c:78-79).
LEMMA InputKickKeeps ==
    ASSUME IInv, NEW t \in Transports, ipc[t] = "kick", Kick(t),
           ipc' = [ipc EXCEPT ![t] = "unref"],
           UNCHANGED <<kind, opened, reg, state, ref_count, kicked, opc>>
    PROVE  IInv'
<1>0. Descriptor(t) = t /\ kicked[t] /\ opc[t] # "kick"
  BY DEF IInv, Kicking
<1>1. Types'
  BY DEF IInv, Types, Pcs, Kick
<1>2. RefsAreThreads'
  BY DEF IInv, Types, RefsAreThreads, Holds
<1>3. Phases'
  BY DEF IInv, Types, Phases, Installed
<1>4. Messages'
  <2>1. \A i \in DOMAIN reg : reg[i] \in Transports \X {0, 1}
    BY DEF IInv, Types
  <2> QED BY <2>1 DEF IInv, Types, Messages
<1>5. Kicking'
  <2>1. ipc'[t] = "unref" /\ \A u \in Transports \ {t} : ipc'[u] = ipc[u] /\ (Descriptor(u) = u => Descriptor(u)' = u)
    BY <1>0 DEF IInv, Types, Kick, Descriptor
  <2> QED BY <1>0, <2>1 DEF IInv, Kicking
<1> QED BY <1>1, <1>2, <1>3, <1>4, <1>5 DEF IInv

\* The input thread gives up its reference; the last one reports the transport
\* (transport.c:705-728).
LEMMA InputUnrefKeeps ==
    ASSUME IInv, NEW t \in Transports, ipc[t] = "unref", Unref(t),
           ipc' = [ipc EXCEPT ![t] = "done"],
           UNCHANGED <<kind, opened, state, opc>>
    PROVE  IInv'
<1>0. ref_count[t] = 1 + Holds(opc[t]) /\ ref_count' = [ref_count EXCEPT ![t] = @ - 1]
  BY DEF IInv, RefsAreThreads, Holds, Unref
<1>00. state[t] \notin {"none", "known", "freed"} /\ opc[t] # "none"
  BY DEF IInv, Types, Phases, Installed
<1>2. RefsAreThreads'
  BY <1>0 DEF IInv, Types, RefsAreThreads, Holds
<1>3. Phases'
  BY <1>00 DEF IInv, Types, Phases, Installed
<1>01. \A i \in DOMAIN reg : reg[i] \in Transports \X {0, 1}
  BY DEF IInv, Types
<1>02. \A i \in DOMAIN reg : reg[i][1] # t
  BY <1>00, <1>01 DEF IInv, Messages
<1>4. CASE ref_count[t] = 1
  <2>0. opc[t] = "done"
    BY <1>0, <1>00, <1>4 DEF Holds
  <2>00. KickOnce(t) /\ reg' = Append(reg, <<t, 0>>)
    BY <1>4 DEF Unref, Last, CloseTransport
  <2> DEFINE k == Len(reg) + 1
  <2>1. <<t, 0>> \in Transports \X {0, 1} /\ <<t, 0>>[1] = t /\ <<t, 0>>[2] = 0
    OBVIOUS
  <2>2. /\ DOMAIN reg' = DOMAIN reg \cup {k} /\ k \notin DOMAIN reg /\ reg' \in Seq(Transports \X {0, 1})
        /\ reg'[k] = <<t, 0>> /\ \A i \in DOMAIN reg : reg'[i] = reg[i]
    BY <2>00, <2>1, AppendFacts DEF IInv, Types
  <2> HIDE DEF k
  <2>3. Types'
    <3>1. kicked' \in [Transports -> BOOLEAN]
      BY <2>00 DEF IInv, Types, KickOnce
    <3>0. sfd' \in [Transports -> 0 .. MaxTransports]
      <4>1. sfd' = sfd \/ sfd' = [sfd EXCEPT ![t] = 0]
        BY <2>00 DEF KickOnce, Kick
      <4>2. 0 \in 0 .. MaxTransports /\ sfd \in [Transports -> 0 .. MaxTransports]
        BY DEF IInv, Types
      <4> QED BY <4>1, <4>2, Zenon
    <3>2. ref_count' \in [Transports -> Int]
      BY <1>0 DEF IInv, Types
    <3>3. ipc' \in [Transports -> Pcs] /\ opc' \in [Transports -> Pcs]
      BY DEF IInv, Types, Pcs
    <3> QED BY <2>2, <3>0, <3>1, <3>2, <3>3 DEF IInv, Types
  <2>4. Messages'
    <3>1. ASSUME NEW i \in DOMAIN reg'
          PROVE  LET u == reg'[i][1] IN
                 IF reg'[i][2] = 1 THEN state'[u] = "known" ELSE opc'[u] = "done" /\ ipc'[u] = "done"
      <4>1. CASE i = k
        BY <2>0, <2>1, <2>2, <4>1 DEF IInv, Types
      <4>2. CASE i \in DOMAIN reg
        BY <1>01, <1>02, <2>2, <4>2 DEF IInv, Types, Messages
      <4> QED BY <2>2, <4>1, <4>2
    <3>2. ASSUME NEW i \in DOMAIN reg', NEW j \in DOMAIN reg', reg'[i][2] = 1, reg'[j] = reg'[i]
          PROVE  i = j
      BY <1>01, <1>02, <2>1, <2>2, <3>2 DEF IInv, Messages
    <3> QED BY <3>1, <3>2 DEF Messages
  <2>5. Kicking'
    <3>1. /\ ipc'[t] = "done" /\ kicked'[t]
          /\ \A u \in Transports \ {t} : ipc'[u] = ipc[u] /\ kicked'[u] = kicked[u]
      BY <2>00 DEF IInv, Types, KickOnce
    <3>2. \A u \in Transports \ {t} : Descriptor(u) = u => Descriptor(u)' = u
      BY <1>00, <2>00 DEF IInv, Types, Kicking, KickOnce, Kick, Descriptor
    <3> QED BY <2>0, <3>1, <3>2 DEF IInv, Kicking
  <2> QED BY <1>2, <1>3, <2>3, <2>4, <2>5 DEF IInv
<1>5. CASE ref_count[t] # 1
  <2>0. UNCHANGED <<usbfd, sfd, kicked, reg>>
    BY <1>5 DEF Unref, Last
  <2>1. Types'
    BY <1>0, <2>0 DEF IInv, Types, Pcs
  <2>2. Messages'
    BY <1>01, <1>02, <2>0 DEF IInv, Types, Messages
  <2>3. Kicking'
    BY <2>0 DEF IInv, Types, Kicking, Descriptor
  <2> QED BY <1>2, <1>3, <2>1, <2>2, <2>3 DEF IInv
<1> QED BY <1>4, <1>5

-----------------------------------------------------------------------------
\* Every step of the transports keeps the invariant (transport.c:198-360, 567-728).
LEMMA NextKeeps == IInv /\ [Next]_vars => IInv'
<1> SUFFICES ASSUME IInv, [Next]_vars PROVE IInv'
  OBVIOUS
<1>1. CASE OpenDevice
  BY <1>1, OpenKeeps
<1>2. CASE MainRegister
  BY <1>2, RegisterKeeps
<1>3. CASE MainRemove
  BY <1>3, RemoveKeeps
<1>4. ASSUME NEW t \in Transports, MainPacket(t) \/ MainSends(t) \/ LinkLost(t) \/ OutputRead(t)
      PROVE  IInv'
  BY <1>4, WatchedKeeps DEF MainPacket, MainSends, LinkLost, OutputRead, device, threads, watched
<1>5. ASSUME NEW t \in Transports, OutputThread(t) PROVE IInv'
  <2>1. CASE OutputStart(t)
    BY <2>1, OutputMovesKeeps, Zenon DEF OutputStart, device, Pcs
  <2>2. CASE OutputReadFails(t)
    BY <2>2, OutputMovesKeeps, Zenon DEF OutputReadFails, device, Pcs
  <2>3. CASE OutputMark(t)
    BY <2>3, OutputMarkKeeps, Zenon DEF OutputMark, device
  <2>4. CASE OutputKick(t)
    BY <2>4, OutputKickKeeps, Zenon DEF OutputKick
  <2>5. CASE OutputUnref(t)
    BY <2>5, OutputUnrefKeeps, Zenon DEF OutputUnref
  <2> QED BY <1>5, <2>1, <2>2, <2>3, <2>4, <2>5 DEF OutputThread
<1>6. ASSUME NEW t \in Transports, InputThread(t) PROVE IInv'
  <2>1. CASE InputRead(t)
    <3> DEFINE pc == IF Head(toInput[t]) = "SYNC0" THEN "close" ELSE "run"
    <3>1. pc \in Pcs \ {"none", "done", "kick"} /\ ipc[t] = "run" /\ ipc' = [ipc EXCEPT ![t] = pc]
      BY <2>1 DEF InputRead, Pcs
    <3> HIDE DEF pc
    <3> QED BY <2>1, <3>1, InputMovesKeeps, Zenon DEF InputRead, device
  <2>2. CASE InputClose(t)
    BY <2>2, InputMarkKeeps, Zenon DEF InputClose, device
  <2>3. CASE InputKick(t)
    BY <2>3, InputKickKeeps, Zenon DEF InputKick
  <2>4. CASE InputUnref(t)
    BY <2>4, InputUnrefKeeps, Zenon DEF InputUnref
  <2> QED BY <1>6, <2>1, <2>2, <2>3, <2>4 DEF InputThread
<1>7. CASE UNCHANGED vars
  BY <1>7, WatchedKeeps DEF vars, watched
<1> QED
  BY <1>1, <1>2, <1>3, <1>4, <1>5, <1>6, <1>7 DEF Next, MainThread

\* The invariant holds for ever.
LEMMA IInvHolds == Spec => []IInv
BY InitIInv, NextKeeps, PTL DEF Spec

\* "The transport will not actually be closed until both threads exit"
\* (transport.c:250-251), for any number of connections, lost at any point.
THEOREM ThreadsEndFirst == Spec => []ClosedAfterThreads
<1>1. IInv => ClosedAfterThreads
  <2> SUFFICES ASSUME IInv, NEW t \in Transports,
                      state[t] = "freed" \/ \E i \in DOMAIN reg : reg[i] = <<t, 0>>
               PROVE  opc[t] = "done" /\ ipc[t] = "done"
    BY DEF ClosedAfterThreads
  <2>1. CASE state[t] = "freed"
    BY <2>1 DEF IInv, Phases
  <2>2. CASE \E i \in DOMAIN reg : reg[i] = <<t, 0>>
    BY <2>2 DEF IInv, Messages
  <2> QED BY <2>1, <2>2
<1> QED BY <1>1, IInvHolds, PTL

\* A kick only ever closes the connection of its own transport, although the USB
\* handle is shared with the next one (transport.c:65-81, usb_linux_client.c:239-249).
THEOREM KickHitsItsOwn == Spec => []KicksItsOwn
<1>1. IInv => KicksItsOwn
  BY DEF IInv, Kicking, KicksItsOwn
<1> QED BY <1>1, IInvHolds, PTL

\* ref_count is the number of threads that still run (transport.c:620, 705-719).
THEOREM CountIsThreads == Spec => []RefsAreThreads
<1>1. IInv => RefsAreThreads
  BY DEF IInv
<1> QED BY <1>1, IInvHolds, PTL

-----------------------------------------------------------------------------
(* The endpoints of the gadget.                                            *)

(***************************************************************************)
(* EndpointsOwned is not inductive: it does not say what the handle's      *)
(* numbers stand for while the thread is half way.  The strengthening      *)
(* gives, for each place of the thread, the fields that hold an open       *)
(* endpoint; an endpoint that is not open has -1, or 0 for bulk_in before  *)
(* the first success.                                                      *)
(***************************************************************************)
GadgetTypes ==
    /\ fds \in [Numbers -> {"free", "other"} \cup Endpoints]
    /\ control \in Numbers \cup {-1}
    /\ bulk_out \in Numbers \cup {-1}
    /\ bulk_in \in Numbers \cup {-1}
    /\ opener \in {"wait", "control", "describe", "bulk_out", "bulk_in"}
    /\ transport \in {"none", "up", "ending"}

\* A number that is open on an endpoint is the one the handle has for it.
Named ==
    /\ 0 \in Numbers /\ fds[0] = "other"
    /\ \A n \in Numbers:
          /\ fds[n] = "control" => n = control
          /\ fds[n] = "bulk_out" => n = bulk_out
          /\ fds[n] = "bulk_in" => n = bulk_in

ControlOpen == control \in Numbers /\ fds[control] = "control"
OutOpen == bulk_out \in Numbers /\ fds[bulk_out] = "bulk_out"
InOpen == bulk_in \in Numbers /\ fds[bulk_in] = "bulk_in"
InShut == bulk_in \in {-1, 0}

Progress ==
    /\ opener # "wait" => transport = "none"
    /\ opener = "control" => control = -1 /\ bulk_out = -1 /\ InShut
    /\ opener \in {"describe", "bulk_out"} => ControlOpen /\ bulk_out = -1 /\ InShut
    /\ opener = "bulk_in" => ControlOpen /\ OutOpen /\ InShut
    /\ opener = "wait" /\ transport = "none" => control = -1 /\ bulk_out = -1 /\ InShut
    /\ transport \in {"up", "ending"} => ControlOpen /\ OutOpen /\ InOpen

HandleInv == GadgetTypes /\ Named /\ Progress

\* open() returns a number that was free (LowestFree), so never 0.
LEMMA OpenTakesFree ==
    ASSUME GadgetTypes, HasFree
    PROVE  LowestFree \in Numbers /\ fds[LowestFree] = "free"
<1> DEFINE T == {n \in Numbers: fds[n] = "free"}
<1>1. T \subseteq Nat /\ T # {}
  BY MaxFdAssumption DEF HasFree, Numbers
<1>2. \E x \in T: \A y \in T: ~(<<y, x>> \in OpToRel(<, Nat))
  BY <1>1, NatLessThanWellFounded, WFMin, Zenon
<1>3. PICK x \in T: \A y \in T: ~(<<y, x>> \in OpToRel(<, Nat))
  BY <1>2, Zenon
<1>4. \A y \in T: ~(y < x)
  BY Zenon, <1>1, <1>3 DEF OpToRel
<1>5. x \in Numbers /\ fds[x] = "free" /\ \A m \in Numbers: m < x => fds[m] # "free"
  BY <1>3, <1>4, Zenon
<1> QED
  BY <1>5 DEF LowestFree

LEMMA HandleInit == GadgetInit => HandleInv
  BY MaxFdAssumption DEF GadgetInit, HandleInv, GadgetTypes, Named, Progress, Numbers, Endpoints, InShut

\* A field that holds an endpoint is above 0, since 0 is another's.
LEMMA OpenIsOwned ==
    ASSUME HandleInv
    PROVE  /\ ControlOpen => Owns(control)
           /\ OutOpen => Owns(bulk_out)
           /\ InOpen => Owns(bulk_in)
  BY MaxFdAssumption DEF HandleInv, Named, Owns, ControlOpen, OutOpen, InOpen, Numbers

LEMMA HandleStep == HandleInv /\ [GadgetNext]_gadgetvars => HandleInv'
<1> SUFFICES ASSUME HandleInv, [GadgetNext]_gadgetvars
             PROVE  HandleInv'
  OBVIOUS
<1> USE DEF HandleInv, ControlOpen, OutOpen, InOpen, InShut
<1>1. CASE OpenWaits
  BY <1>1, MaxFdAssumption DEF OpenWaits, GadgetTypes, Named, Progress, Numbers
<1>2. CASE OpensControl
  <2>1. LowestFree \in Numbers /\ fds[LowestFree] = "free"
    BY <1>2, OpenTakesFree DEF OpensControl
  <2> DEFINE n == LowestFree
  <2> HIDE DEF n
  <2>2. control' = n /\ fds' = [fds EXCEPT ![n] = "control"] /\ opener = "control" /\ opener' = "describe"
        /\ UNCHANGED <<bulk_out, bulk_in, mounted, transport>> /\ n \in Numbers /\ fds[n] = "free"
    BY <1>2, <2>1 DEF OpensControl, n
  <2>3. GadgetTypes'
    BY <2>2 DEF GadgetTypes, Endpoints
  <2>4. Named'
    BY <2>2, MaxFdAssumption DEF Named, GadgetTypes, Progress, Numbers
  <2>5. Progress'
    BY <2>2, MaxFdAssumption DEF Progress, GadgetTypes, Numbers
  <2> QED
    BY <2>3, <2>4, <2>5
<1>3. CASE WritesDescriptors
  BY <1>3 DEF WritesDescriptors, GadgetTypes, Named, Progress
<1>4. CASE OpensBulkOut
  <2>1. LowestFree \in Numbers /\ fds[LowestFree] = "free"
    BY <1>4, OpenTakesFree DEF OpensBulkOut
  <2> DEFINE n == LowestFree
  <2> HIDE DEF n
  <2>2. bulk_out' = n /\ fds' = [fds EXCEPT ![n] = "bulk_out"] /\ opener = "bulk_out" /\ opener' = "bulk_in"
        /\ UNCHANGED <<control, bulk_in, mounted, transport>> /\ n \in Numbers /\ fds[n] = "free"
    BY <1>4, <2>1 DEF OpensBulkOut, n
  <2>3. GadgetTypes'
    BY <2>2 DEF GadgetTypes, Endpoints
  <2>4. Named'
    BY <2>2, MaxFdAssumption DEF Named, GadgetTypes, Progress, Numbers
  <2>5. Progress'
    BY <2>2, MaxFdAssumption DEF Progress, GadgetTypes, Numbers
  <2> QED
    BY <2>3, <2>4, <2>5
<1>5. CASE OpensBulkIn
  <2>1. LowestFree \in Numbers /\ fds[LowestFree] = "free"
    BY <1>5, OpenTakesFree DEF OpensBulkIn
  <2> DEFINE n == LowestFree
  <2> HIDE DEF n
  <2>2. bulk_in' = n /\ fds' = [fds EXCEPT ![n] = "bulk_in"] /\ opener = "bulk_in" /\ opener' = "wait"
        /\ transport' = "up"
        /\ UNCHANGED <<control, bulk_out, mounted>> /\ n \in Numbers /\ fds[n] = "free"
    BY <1>5, <2>1 DEF OpensBulkIn, n
  <2>3. GadgetTypes'
    BY <2>2 DEF GadgetTypes, Endpoints
  <2>4. Named'
    BY <2>2, MaxFdAssumption DEF Named, GadgetTypes, Progress, Numbers
  <2>5. Progress'
    BY <2>2, MaxFdAssumption DEF Progress, GadgetTypes, Numbers
  <2> QED
    BY <2>3, <2>4, <2>5
<1>6. CASE InitFails
  <2>1. opener \in {"control", "describe", "bulk_out", "bulk_in"} /\ opener' = "control"
        /\ UNCHANGED <<mounted, transport>>
    BY <1>6 DEF InitFails
  <2>2. /\ ControlOpen \/ control = -1
        /\ OutOpen \/ bulk_out = -1
        /\ InShut
        /\ opener = "control" => control = -1
        /\ opener = "bulk_out" => bulk_out = -1
    BY <2>1 DEF Progress
  <2>3. ~Owns(-1) /\ ~Owns(0)
    BY DEF Owns
  <2>4. /\ control' = -1 /\ bulk_out' = -1 /\ bulk_in' \in {-1, 0}
        /\ fds' = [n \in Numbers |-> IF n \in {v \in {control, bulk_out}: Owns(v)} THEN "free" ELSE fds[n]]
    BY <1>6, <2>1, <2>2, <2>3, OpenIsOwned DEF InitFails, FailedValue
  <2>5. GadgetTypes'
    BY <2>1, <2>4, MaxFdAssumption DEF GadgetTypes, Numbers
  <2>6. Named'
    <3>1. fds'[0] = "other"
      BY <2>3, <2>4 DEF Named
    <3>2. \A n \in Numbers: fds'[n] \notin Endpoints
      BY <2>1, <2>2, <2>4, OpenIsOwned, MaxFdAssumption DEF Named, Endpoints, GadgetTypes, Numbers
    <3> QED
      BY <3>1, <3>2 DEF Named, Endpoints
  <2>7. Progress'
    BY <2>1, <2>4, Zenon DEF Progress
  <2> QED
    BY <2>5, <2>6, <2>7
<1>7. CASE OtherOpens
  <2>1. LowestFree \in Numbers /\ fds[LowestFree] = "free"
    BY <1>7, OpenTakesFree DEF OtherOpens
  <2> DEFINE n == LowestFree
  <2> HIDE DEF n
  <2>2. fds' = [fds EXCEPT ![n] = "other"] /\ n \in Numbers /\ fds[n] = "free"
        /\ UNCHANGED <<control, bulk_out, bulk_in, opener, mounted, transport>>
    BY <1>7, <2>1, Zenon DEF OtherOpens, n
  <2> QED
    BY <2>2 DEF GadgetTypes, Named, Progress, Endpoints
<1>8. CASE OtherCloses
  <2>1. PICK n \in Numbers \ {0}: fds[n] = "other" /\ fds' = [fds EXCEPT ![n] = "free"]
    BY Zenon, <1>8 DEF OtherCloses
  <2>2. UNCHANGED <<control, bulk_out, bulk_in, opener, mounted, transport>>
    BY <1>8, Zenon DEF OtherCloses
  <2> QED
    BY <2>1, <2>2 DEF GadgetTypes, Named, Progress, Endpoints
<1>9. CASE Mounts
  BY <1>9, Zenon DEF Mounts, GadgetTypes, Named, Progress
<1>10. CASE TransportEnds
  BY <1>10 DEF TransportEnds, GadgetTypes, Named, Progress
<1>11. CASE FfsKick
  <2>1. /\ control' = -1 /\ bulk_out' = -1 /\ bulk_in' = -1 /\ transport' = "none" /\ opener' = opener
        /\ fds' = [n \in Numbers |-> IF n \in {control, bulk_out, bulk_in} THEN "free" ELSE fds[n]]
    BY <1>11, Zenon DEF FfsKick, Forgets
  <2>2. opener = "wait" /\ ControlOpen /\ OutOpen /\ InOpen
    BY <1>11 DEF FfsKick, Progress, GadgetTypes
  <2>3. GadgetTypes'
    BY <2>1 DEF GadgetTypes
  <2>4. Named'
    BY <2>1, <2>2 DEF Named
  <2> QED
    BY <2>1, <2>2, <2>3, <2>4 DEF Progress
<1>12. CASE UNCHANGED gadgetvars
  BY <1>12 DEF gadgetvars, GadgetTypes, Named, Progress
<1> QED
  BY <1>1, <1>2, <1>3, <1>4, <1>5, <1>6, <1>7, <1>8, <1>9, <1>10, <1>11, <1>12
  DEF GadgetNext, Opener

\* Failed attempts of usb_ffs_open_thread() at whichever step, and kicks, leave
\* no endpoint open that the handle does not name and never close a descriptor
\* of another owner (usb_linux_client.c:290-480), for any number of descriptors.
THEOREM NoEndpointLeaks == GadgetSpec => []EndpointsOwned
<1>1. HandleInv => EndpointsOwned
  BY DEF HandleInv, GadgetTypes, Named, Progress, EndpointsOwned, Endpoints, ControlOpen, OutOpen, InOpen
<1> QED
  BY HandleInit, HandleStep, <1>1, PTL DEF GadgetSpec
=============================================================================
