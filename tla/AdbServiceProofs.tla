------------------------- MODULE AdbServiceProofs -------------------------
(***************************************************************************)
(* Proofs about the services of adbd: however the exits of processes, the  *)
(* notices of the threads that wait for them, the reads of the event loop  *)
(* and the requests of the host interleave, and however often a descriptor *)
(* number is closed and given out again, no output is lost and the table   *)
(* of the event loop agrees with the descriptors.                          *)
(***************************************************************************)
EXTENDS AdbService, WellFoundedInduction, TLAPS

Services == Shells \cup Threaded \cup {"backup"}

\* A backup has no other service next to it: see the README on the number
\* that backup_child_waiter() closes.
BackupAlone ==
    \A k \in Kinds: \A s, t \in Streams:
       k[s] = "backup" /\ k[t] \in Services => s = t

ServiceType ==
    /\ kind \in Kinds
    /\ sock \in [Streams -> {"none", "open", "refused", "closed"}]
    /\ num \in [Streams -> Fds \cup {NoFd}]
    /\ fd_table \in [Fds -> Streams \cup {None}]
    /\ osfd \in [Fds -> Int]
    /\ holders \in [Streams -> SUBSET {"child", "bg", "thread"}]
    /\ tty \in [Streams -> Nat] /\ wrote \in [Streams -> Nat] /\ passed \in [Streams -> Nat]
    /\ notify \in Seq(Fds \cup {NoFd})
    /\ how \in [Streams -> {"none", "host", "end", "error"}]

\* The number of an open socket is registered for it and stands for its end,
\* unless it is a backup whose child was reaped.
Registered(s) ==
    sock[s] = "open" =>
       /\ num[s] \in Fds
       /\ fd_table[num[s]] = s
       /\ osfd[num[s]] = s \/ (osfd[num[s]] = None /\ kind[s] = "backup")

\* What is registered is an open socket that has the number.
Listed(n) ==
    fd_table[n] # None => sock[fd_table[n]] = "open" /\ num[fd_table[n]] = n

\* A descriptor is the near end of an open socket or the far end of a thread.
Held(n) ==
    \/ osfd[n] = None
    \/ osfd[n] \in Streams /\ sock[osfd[n]] = "open" /\ num[osfd[n]] = n
    \/ \E t \in Streams: osfd[n] = FarEnd(t) /\ "thread" \in holders[t]

\* Only services are opened, and only threads keep a far end in adbd.
Served(s) ==
    /\ sock[s] # "none" => kind[s] \in Services
    /\ "thread" \in holders[s] => kind[s] \in Threaded

LinkInv ==
    /\ \A s \in Streams: Registered(s) /\ Served(s)
    /\ \A n \in Fds: Listed(n) /\ Held(n)

\* What a service wrote waits or was sent to the host; a stream that adbd
\* ended on its own was read to its end.
Accounted(s) ==
    /\ wrote[s] = tty[s] + passed[s]
    /\ sock[s] \in {"none", "refused"} => holders[s] = {}
    /\ sock[s] # "closed" => how[s] = "none"
    /\ kind[s] # "backup" /\ how[s] \in {"end", "error"} =>
          tty[s] = 0 /\ holders[s] = {}

ServiceInv ==
    /\ ServiceType /\ LinkInv
    /\ \A s \in Streams: Accounted(s)
    /\ adbd # "fatal"

-----------------------------------------------------------------------------
(* The kernel's choice of a number.                                        *)

\* A nonempty set of numbers has a least one, and Min is it.
LEMMA MinOfNumbers ==
    ASSUME NEW S \in SUBSET Nat, S # {}
    PROVE  Min(S) \in S /\ \A y \in S: Min(S) <= y
<1>1. PICK x \in S: \A y \in S: ~(<<y, x>> \in OpToRel(<, Nat))
  BY NatLessThanWellFounded, WFMin, Zenon
<1>2. \A y \in S: ~(y < x)
  BY Zenon, <1>1 DEF OpToRel
<1>3. \A y \in S: x <= y
  BY <1>2
<1> QED
  BY <1>3, Zenon DEF Min

\* A new descriptor gets a number that stands for nothing.
LEMMA LowestIsUnused ==
    ASSUME Unused # {}
    PROVE  Lowest \in Fds /\ osfd[Lowest] = None
<1>1. Unused \in SUBSET Nat
  BY Zenon, ServiceAssumption DEF Unused
<1>2. Lowest \in Unused
  BY <1>1, MinOfNumbers, Zenon DEF Lowest
<1> QED
  BY <1>2 DEF Unused

LEMMA SecondIsUnused ==
    ASSUME Unused \ {Lowest} # {}
    PROVE  /\ Min(Unused \ {Lowest}) \in Fds
           /\ osfd[Min(Unused \ {Lowest})] = None
           /\ Min(Unused \ {Lowest}) # Lowest
<1>1. Unused \ {Lowest} \in SUBSET Nat
  BY Zenon, ServiceAssumption DEF Unused
<1>2. Min(Unused \ {Lowest}) \in Unused \ {Lowest}
  BY <1>1, MinOfNumbers, Zenon
<1> QED
  BY <1>2 DEF Unused

\* What a read takes is there and fits the packet.
LEMMA ReadAmount ==
    ASSUME NEW a \in Nat
    PROVE  /\ Min({a, MAX_PAYLOAD}) \in Nat
           /\ Min({a, MAX_PAYLOAD}) <= a
           /\ a < MAX_PAYLOAD => Min({a, MAX_PAYLOAD}) = a
<1> DEFINE S == {a, MAX_PAYLOAD}
<1>1. S \in SUBSET Nat /\ S # {}
  BY ServiceAssumption
<1>2. Min(S) \in S /\ \A y \in S: Min(S) <= y
  BY <1>1, MinOfNumbers, Zenon
<1>3. a \in S /\ MAX_PAYLOAD \in S
  OBVIOUS
<1> QED
  BY <1>2, <1>3, ServiceAssumption

-----------------------------------------------------------------------------
(* Descriptors and registrations.                                          *)

LEMMA LinkInit == ServiceInit => LinkInv
BY ServiceAssumption DEF ServiceInit, LinkInv, Registered, Served, Listed, Held, None

\* Steps of processes and threads that leave the descriptors alone.
LEMMA SameLinks ==
    ASSUME LinkInv, UNCHANGED <<kind, sock, num, fd_table, osfd>>,
           \A s \in Streams: "thread" \in holders'[s] <=> "thread" \in holders[s]
    PROVE  LinkInv'
<1>1. \A s \in Streams: Registered(s)' /\ Served(s)'
  BY DEF LinkInv, Registered, Served
<1>2. \A n \in Fds: Listed(n)'
  BY DEF LinkInv, Listed
<1>3. \A n \in Fds: Held(n)'
  BY DEF LinkInv, Held, FarEnd
<1> QED
  BY <1>1, <1>2, <1>3 DEF LinkInv

\* A service that could not be started.
LEMMA RefusedKeepsLinks ==
    ASSUME NEW s \in Streams, ServiceType, LinkInv, sock[s] = "none", kind[s] \in Services,
           Refused(s), UNCHANGED <<kind, holders>>
    PROVE  LinkInv'
<1>0. \A t \in Streams: sock'[t] = IF t = s THEN "refused" ELSE sock[t]
  BY DEF Refused, ServiceType
<1>1. \A t \in Streams: Registered(t)' /\ Served(t)'
  BY <1>0 DEF LinkInv, Registered, Served, Refused
<1>2. \A n \in Fds: Listed(n)'
  BY <1>0 DEF LinkInv, Listed, Refused, ServiceType, None
<1>3. \A n \in Fds: Held(n)'
  BY <1>0 DEF LinkInv, Held, FarEnd, Refused
<1> QED
  BY <1>1, <1>2, <1>3 DEF LinkInv

\* A new socket takes a number that stands for nothing: nothing that is open
\* has it, and nothing but an ended backup is registered there.
LEMMA NothingThere ==
    ASSUME BackupAlone, ServiceType, LinkInv, NEW s \in Streams, sock[s] = "none",
           kind[s] \in Services, NEW n \in Fds, osfd[n] = None
    PROVE  /\ fd_table[n] = None
           /\ \A t \in Streams: sock[t] = "open" => num[t] # n
<1>1. SUFFICES ASSUME NEW t \in Streams, sock[t] = "open", num[t] = n PROVE FALSE
  BY DEF LinkInv, Listed, ServiceType
<1>2. osfd[n] # t
  BY ServiceAssumption DEF None
<1>3. kind[t] = "backup"
  BY <1>1, <1>2 DEF LinkInv, Registered
<1>4. t = s
  BY <1>3, Zenon DEF BackupAlone, ServiceType
<1> QED
  BY <1>1, <1>4

EndAt(s, n, F, m) == IF m = n THEN s ELSE IF m \in F THEN FarEnd(s) ELSE osfd[m]

\* The socket of a new service, its end and the far end of a thread.
LEMMA OpenKeepsLinks ==
    ASSUME BackupAlone, ServiceType, LinkInv, NEW s \in Streams, sock[s] = "none",
           kind[s] \in Services, NEW n \in Fds, osfd[n] = None, Install(s, n),
           kind' = kind, NEW F \in SUBSET Fds, n \notin F, \A m \in F: osfd[m] = None,
           \A m \in Fds: osfd'[m] = EndAt(s, n, F, m),
           \A t \in Streams \ {s}: holders'[t] = holders[t],
           "thread" \in holders'[s] => kind[s] \in Threaded,
           "thread" \in holders[s] \/ F # {} => "thread" \in holders'[s]
    PROVE  LinkInv'
<1>0. /\ \A t \in Streams: sock'[t] = IF t = s THEN "open" ELSE sock[t]
      /\ \A t \in Streams: num'[t] = IF t = s THEN n ELSE num[t]
      /\ \A m \in Fds: fd_table'[m] = IF m = n THEN s ELSE fd_table[m]
  BY DEF Install, ServiceType
<1>b. \A m \in Fds: osfd'[m] = IF m = n THEN s ELSE IF m \in F THEN FarEnd(s) ELSE osfd[m]
  BY DEF EndAt
<1>a. fd_table[n] = None /\ \A t \in Streams: sock[t] = "open" => num[t] # n
  BY NothingThere, Zenon
<1>1. ASSUME NEW t \in Streams PROVE Registered(t)'
  <2>1. CASE t = s
    BY <1>0, <1>b, <2>1 DEF Registered
  <2>2. CASE t # s
    <3>1. SUFFICES ASSUME sock[t] = "open" PROVE Registered(t)'
      BY <1>0, <2>2 DEF Registered
    <3>2. /\ num[t] \in Fds /\ num[t] # n /\ fd_table[num[t]] = t
          /\ osfd[num[t]] = t \/ (osfd[num[t]] = None /\ kind[t] = "backup")
      BY <1>a, <3>1 DEF LinkInv, Registered
    <3>3. num[t] \notin F
      <4>1. CASE osfd[num[t]] = t
        BY Zenon, <4>1, <3>2, ServiceAssumption DEF None
      <4>2. CASE kind[t] = "backup"
        BY <4>2, <2>2, Zenon DEF BackupAlone, ServiceType
      <4> QED
        BY <4>1, <4>2, <3>2
    <3>4. fd_table'[num[t]] = t /\ osfd'[num[t]] = osfd[num[t]] /\ num'[t] = num[t]
      BY <1>0, <1>b, <2>2, <3>2, <3>3
    <3> QED
      BY <3>2, <3>4 DEF Registered
  <2> QED
    BY <2>1, <2>2
<1>2. \A t \in Streams: Served(t)'
  BY <1>0 DEF LinkInv, Served
<1>3. ASSUME NEW m \in Fds PROVE Listed(m)'
  <2>1. CASE m = n
    BY <1>0, <2>1 DEF Listed
  <2>2. CASE m # n
    <3>1. SUFFICES ASSUME fd_table[m] # None PROVE Listed(m)'
      BY <1>0, <2>2 DEF Listed
    <3>2. fd_table[m] \in Streams /\ sock[fd_table[m]] = "open" /\ num[fd_table[m]] = m
      BY <3>1 DEF LinkInv, Listed, ServiceType
    <3>3. fd_table[m] # s
      BY <3>2
    <3> QED
      BY <1>0, <2>2, <3>2, <3>3 DEF Listed
  <2> QED
    BY <2>1, <2>2
<1>4. ASSUME NEW m \in Fds PROVE Held(m)'
  <2>1. CASE m = n
    BY <1>0, <1>b, <2>1 DEF Held
  <2>2. CASE m \in F
    BY <1>b, <2>2 DEF Held
  <2>3. CASE m # n /\ m \notin F
    <3>1. osfd'[m] = osfd[m]
      BY <1>b, <2>3
    <3>2. CASE osfd[m] \in Streams /\ sock[osfd[m]] = "open" /\ num[osfd[m]] = m
      BY <1>0, <3>1, <3>2 DEF Held
    <3>3. CASE \E t \in Streams: osfd[m] = FarEnd(t) /\ "thread" \in holders[t]
      BY <3>1, <3>3 DEF Held
    <3>4. CASE osfd[m] = None
      BY <3>1, <3>4 DEF Held
    <3> QED
      BY <3>2, <3>3, <3>4 DEF LinkInv, Held
  <2> QED
    BY <2>1, <2>2, <2>3
<1> QED
  BY <1>1, <1>2, <1>3, <1>4 DEF LinkInv

\* An open socket passes the test of fdevent_unregister(), and its number is
\* closed and registered no more.
LEMMA CloseKeepsLinks ==
    ASSUME ServiceType, LinkInv, NEW s \in Streams, sock[s] = "open", NEW by,
           CloseSocket(s, by), UNCHANGED <<kind, num, holders>>
    PROVE  /\ LinkInv'
           /\ sock' = [sock EXCEPT ![s] = "closed"]
           /\ how' = [how EXCEPT ![s] = by]
           /\ fd_table' = [fd_table EXCEPT ![num[s]] = None]
           /\ osfd' = [osfd EXCEPT ![num[s]] = None]
           /\ adbd' \in {adbd, "exited"}
<1>1. num[s] \in Fds /\ fd_table[num[s]] = s
  BY DEF LinkInv, Registered
<1>2. /\ sock' = [sock EXCEPT ![s] = "closed"]
      /\ fd_table' = [fd_table EXCEPT ![num[s]] = None]
      /\ osfd' = [osfd EXCEPT ![num[s]] = None]
      /\ how' = [how EXCEPT ![s] = by]
      /\ adbd' \in {adbd, "exited"}
  BY <1>1 DEF CloseSocket
<1>0. /\ \A t \in Streams: sock'[t] = IF t = s THEN "closed" ELSE sock[t]
      /\ \A m \in Fds: fd_table'[m] = IF m = num[s] THEN None ELSE fd_table[m]
      /\ \A m \in Fds: osfd'[m] = IF m = num[s] THEN None ELSE osfd[m]
  BY <1>2 DEF ServiceType
<1>3. ASSUME NEW t \in Streams PROVE Registered(t)'
  <2>1. CASE t = s
    BY <1>0, <2>1 DEF Registered
  <2>2. CASE t # s
    <3>1. SUFFICES ASSUME sock[t] = "open" PROVE Registered(t)'
      BY <1>0, <2>2 DEF Registered
    <3>2. /\ num[t] \in Fds /\ fd_table[num[t]] = t
          /\ osfd[num[t]] = t \/ (osfd[num[t]] = None /\ kind[t] = "backup")
      BY <3>1 DEF LinkInv, Registered
    <3>3. num[t] # num[s]
      BY <1>1, <3>2, <2>2
    <3> QED
      BY <1>0, <3>2, <3>3 DEF Registered
  <2> QED
    BY <2>1, <2>2
<1>4. \A t \in Streams: Served(t)'
  BY <1>0 DEF LinkInv, Served
<1>5. ASSUME NEW m \in Fds PROVE Listed(m)'
  BY <1>0, <1>1 DEF LinkInv, Listed, ServiceType
<1>6. ASSUME NEW m \in Fds PROVE Held(m)'
  <2>1. CASE m = num[s]
    BY <1>0, <2>1 DEF Held
  <2>2. CASE m # num[s]
    BY <1>0, <2>2 DEF Held, LinkInv
  <2> QED
    BY <2>1, <2>2
<1> QED
  BY <1>2, <1>3, <1>4, <1>5, <1>6 DEF LinkInv

\* The thread that waits for a backup closes the number the socket still has.
LEMMA BackupReapedKeepsLinks ==
    ASSUME BackupAlone, ServiceType, LinkInv, NEW s \in Streams, BackupReaped(s)
    PROVE  LinkInv'
<1>0. /\ kind[s] = "backup" /\ UNCHANGED <<kind, sock, num, fd_table, holders>>
      /\ \A m \in Fds: osfd'[m] = IF m = num[s] THEN None ELSE osfd[m]
  BY DEF BackupReaped, ServiceType, ends
<1>1. ASSUME NEW t \in Streams PROVE Registered(t)'
  <2>1. CASE t = s
    BY <1>0, <2>1 DEF LinkInv, Registered
  <2>2. CASE t # s
    <3>1. kind[t] \notin Services
      BY <1>0, <2>2, Zenon DEF BackupAlone, ServiceType
    <3> QED
      BY <1>0, <3>1 DEF LinkInv, Registered, Served
  <2> QED
    BY <2>1, <2>2
<1>2. \A t \in Streams: Served(t)'
  BY <1>0 DEF LinkInv, Served
<1>3. \A m \in Fds: Listed(m)'
  BY <1>0 DEF LinkInv, Listed
<1>4. \A m \in Fds: Held(m)'
  BY <1>0 DEF LinkInv, Held, FarEnd
<1> QED
  BY <1>1, <1>2, <1>3, <1>4 DEF LinkInv

\* A thread that ends closes its end of the pair and no other number.
LEMMA ThreadClosesKeepsLinks ==
    ASSUME ServiceType, LinkInv, NEW s \in Streams, ThreadCloses(s)
    PROVE  LinkInv'
<1>0. /\ UNCHANGED <<kind, sock, num, fd_table>>
      /\ \A m \in Fds: osfd'[m] = IF osfd[m] = FarEnd(s) THEN None ELSE osfd[m]
      /\ \A t \in Streams: holders'[t] = IF t = s THEN {} ELSE holders[t]
  BY DEF ThreadCloses, ServiceType
<1>1. ASSUME NEW t \in Streams PROVE Registered(t)'
  <2>1. t # FarEnd(s) /\ None # FarEnd(s)
    BY ServiceAssumption DEF FarEnd, None
  <2> QED
    BY <1>0, <2>1 DEF LinkInv, Registered
<1>2. \A t \in Streams: Served(t)'
  BY <1>0 DEF LinkInv, Served
<1>3. \A m \in Fds: Listed(m)'
  BY <1>0 DEF LinkInv, Listed
<1>4. ASSUME NEW m \in Fds PROVE Held(m)'
  <2>1. CASE osfd[m] = FarEnd(s)
    BY <1>0, <2>1 DEF Held
  <2>2. CASE osfd[m] # FarEnd(s)
    BY <1>0, <2>2 DEF Held, LinkInv
  <2> QED
    BY <2>1, <2>2
<1> QED
  BY <1>1, <1>2, <1>3, <1>4 DEF LinkInv

LEMMA CloseKeepsType ==
    ASSUME ServiceType, NEW s \in Streams, NEW by \in {"host", "end", "error"},
           sock' = [sock EXCEPT ![s] = "closed"], how' = [how EXCEPT ![s] = by],
           fd_table' = [fd_table EXCEPT ![num[s]] = None],
           osfd' = [osfd EXCEPT ![num[s]] = None],
           UNCHANGED <<kind, num, holders, wrote>>, notify' \in Seq(Fds \cup {NoFd}),
           tty' \in [Streams -> Nat], passed' \in [Streams -> Nat]
    PROVE  ServiceType'
<1>1. sock' \in [Streams -> {"none", "open", "refused", "closed"}]
  BY DEF ServiceType
<1>2. how' \in [Streams -> {"none", "host", "end", "error"}]
  BY DEF ServiceType
<1>3. fd_table' \in [Fds -> Streams \cup {None}]
  BY Zenon DEF ServiceType
<1>4. osfd' \in [Fds -> Int]
  <2>1. osfd \in [Fds -> Int]
    BY Zenon DEF ServiceType
  <2>2. None \in Int
    BY DEF None
  <2> QED
    BY <2>1, <2>2, Zenon
<1> QED
  BY <1>1, <1>2, <1>3, <1>4, Zenon DEF ServiceType

-----------------------------------------------------------------------------
(* Output.                                                                 *)

\* A read of the socket, for data, at the end or of a number that is closed.
LEMMA ReadKeeps ==
    ASSUME ServiceInv, NEW s \in Streams, sock[s] = "open", ReadEvent(s),
           UNCHANGED <<kind, num, holders, wrote>>, notify' \in Seq(Fds \cup {NoFd})
    PROVE  ServiceInv'
<1> DEFINE o == osfd[num[s]]
           k == Min({tty[s], MAX_PAYLOAD})
<1>0. ServiceType /\ LinkInv /\ adbd # "fatal" /\ \A t \in Streams: Accounted(t)
  BY DEF ServiceInv
<1>1. num[s] \in Fds /\ (o = s \/ (o = None /\ kind[s] = "backup"))
  BY <1>0 DEF LinkInv, Registered
<1>2. CASE o = None
  <2>0. kind[s] = "backup"
    BY <1>1, <1>2, ServiceAssumption DEF None
  <2>1. CloseSocket(s, "error") /\ UNCHANGED <<tty, passed>>
    BY <1>2 DEF ReadEvent
  <2>2. /\ LinkInv' /\ adbd' # "fatal"
        /\ sock' = [sock EXCEPT ![s] = "closed"]
        /\ how' = [how EXCEPT ![s] = "error"]
        /\ fd_table' = [fd_table EXCEPT ![num[s]] = None]
        /\ osfd' = [osfd EXCEPT ![num[s]] = None]
    BY <1>0, <2>1, CloseKeepsLinks, Zenon
  <2>3. ServiceType'
    BY <1>0, <2>1, <2>2, CloseKeepsType, Zenon DEF ServiceType
  <2>4. \A t \in Streams: Accounted(t)'
    BY <1>0, <2>0, <2>1, <2>2 DEF Accounted, ServiceType
  <2> QED
    BY <2>2, <2>3, <2>4 DEF ServiceInv
<1>3. CASE o = s
  <2>0. s # None /\ tty[s] \in Nat
    BY <1>0, ServiceAssumption DEF None, ServiceType
  <2>1. k \in Nat /\ k <= tty[s] /\ (tty[s] < MAX_PAYLOAD => k = tty[s])
    BY <2>0, ReadAmount
  <2>2. /\ tty' = [tty EXCEPT ![s] = @ - k]
        /\ passed' = [passed EXCEPT ![s] = @ + k]
    BY <1>3, <2>0 DEF ReadEvent
  <2>3. EndSeen(s, s) => CloseSocket(s, "end")
    BY <1>3, <2>0 DEF ReadEvent
  <2>4. ~EndSeen(s, s) => UNCHANGED <<sock, fd_table, osfd, how, adbd>>
    BY <1>3, <2>0 DEF ReadEvent
  <2> HIDE DEF k
  <2>5. /\ tty' \in [Streams -> Nat] /\ passed' \in [Streams -> Nat]
        /\ \A t \in Streams: wrote'[t] = tty'[t] + passed'[t]
    BY <1>0, <2>1, <2>2 DEF ServiceType, Accounted
  <2>6. CASE EndSeen(s, s)
    <3>1. /\ LinkInv' /\ adbd' # "fatal"
          /\ sock' = [sock EXCEPT ![s] = "closed"]
          /\ how' = [how EXCEPT ![s] = "end"]
          /\ fd_table' = [fd_table EXCEPT ![num[s]] = None]
          /\ osfd' = [osfd EXCEPT ![num[s]] = None]
      BY <1>0, <2>3, <2>6, CloseKeepsLinks, Zenon
    <3>2. ServiceType'
      BY <1>0, <2>5, <3>1, CloseKeepsType, Zenon
    <3>3. holders[s] = {} /\ tty'[s] = 0
      BY <1>0, <2>1, <2>2, <2>6 DEF EndSeen, AtEnd, ServiceType
    <3>4. \A t \in Streams: Accounted(t)'
      BY <1>0, <2>2, <2>5, <3>1, <3>3 DEF Accounted, ServiceType
    <3> QED
      BY <3>1, <3>2, <3>4 DEF ServiceInv
  <2>7. CASE ~EndSeen(s, s)
    <3>1. LinkInv'
      BY <1>0, <2>4, <2>7, SameLinks, Zenon
    <3>2. ServiceType'
      BY <1>0, <2>4, <2>5, <2>7 DEF ServiceType
    <3>3. \A t \in Streams: Accounted(t)'
      BY <1>0, <2>2, <2>4, <2>5, <2>7 DEF Accounted, ServiceType
    <3> QED
      BY <1>0, <2>4, <2>7, <3>1, <3>2, <3>3 DEF ServiceInv
  <2> QED
    BY <2>6, <2>7
<1> QED
  BY <1>1, <1>2, <1>3

-----------------------------------------------------------------------------
(* The steps.                                                              *)

LEMMA ServiceInitInv == ServiceInit => ServiceInv
<1>1. ServiceInit => ServiceType
  BY DEF ServiceInit, ServiceType, None, NoFd
<1>2. ServiceInit => \A s \in Streams: Accounted(s)
  BY DEF ServiceInit, Accounted
<1> QED
  BY <1>1, <1>2, LinkInit DEF ServiceInv, ServiceInit

\* What an opened socket does to the types.
LEMMA OpenKeepsType ==
    ASSUME ServiceType, NEW s \in Streams, NEW n \in Fds, Install(s, n),
           osfd' \in [Fds -> Int], holders' \in [Streams -> SUBSET {"child", "bg", "thread"}],
           UNCHANGED <<kind, tty, wrote, passed, notify, how>>
    PROVE  ServiceType'
<1>1. sock' \in [Streams -> {"none", "open", "refused", "closed"}]
  BY DEF ServiceType, Install
<1>2. num' \in [Streams -> Fds \cup {NoFd}]
  BY Zenon DEF ServiceType, Install
<1>3. fd_table' \in [Fds -> Streams \cup {None}]
  BY Zenon DEF ServiceType, Install
<1> QED
  BY <1>1, <1>2, <1>3, Zenon DEF ServiceType

LEMMA RefusedKeeps ==
    ASSUME ServiceInv, NEW s \in Streams, sock[s] = "none", kind[s] \in Services, Refused(s),
           UNCHANGED <<kind, holders, tty, wrote, passed, notify, how, adbd>>
    PROVE  ServiceInv'
<1>0. ServiceType /\ LinkInv /\ adbd # "fatal" /\ \A t \in Streams: Accounted(t)
  BY DEF ServiceInv
<1>1. LinkInv'
  BY <1>0, RefusedKeepsLinks, Zenon
<1>2. sock' \in [Streams -> {"none", "open", "refused", "closed"}]
  BY <1>0 DEF Refused, ServiceType
<1>3. ServiceType'
  BY <1>0, <1>2, Zenon DEF Refused, ServiceType
<1>4. \A t \in Streams: Accounted(t)'
  BY <1>0 DEF Accounted, Refused, ServiceType
<1> QED
  BY <1>0, <1>1, <1>3, <1>4 DEF ServiceInv

LEMMA OpenKeeps ==
    ASSUME BackupAlone, ServiceInv, NEW s \in Streams, sock[s] = "none",
           kind[s] \in Services, NEW n \in Fds, osfd[n] = None, Install(s, n),
           NEW F \in SUBSET Fds, n \notin F, \A m \in F: osfd[m] = None,
           osfd' \in [Fds -> Int],
           \A m \in Fds: osfd'[m] = EndAt(s, n, F, m),
           NEW h \in {"child", "thread"}, holders' = [holders EXCEPT ![s] = {h}],
           h = "thread" <=> kind[s] \in Threaded, F # {} => h = "thread",
           UNCHANGED <<kind, tty, wrote, passed, notify, how, adbd>>
    PROVE  ServiceInv'
<1>0. ServiceType /\ LinkInv /\ adbd # "fatal" /\ \A t \in Streams: Accounted(t)
  BY DEF ServiceInv
<1>1. /\ holders' \in [Streams -> SUBSET {"child", "bg", "thread"}]
      /\ \A t \in Streams \ {s}: holders'[t] = holders[t]
      /\ holders'[s] = {h} /\ holders[s] = {}
  BY <1>0 DEF ServiceType, Accounted
<1>2. ServiceType'
  BY <1>0, <1>1, OpenKeepsType, Zenon
<1>3. LinkInv'
  <2>1. /\ "thread" \in holders'[s] => kind[s] \in Threaded
        /\ "thread" \in holders[s] \/ F # {} => "thread" \in holders'[s]
        /\ kind' = kind
    BY <1>1
  <2> QED
    BY <1>0, <1>1, <2>1, OpenKeepsLinks
<1>4. \A t \in Streams: Accounted(t)'
  BY <1>0, <1>1 DEF Accounted, Install, ServiceType
<1> QED
  BY <1>0, <1>2, <1>3, <1>4 DEF ServiceInv

LEMMA OpenStep ==
    ASSUME BackupAlone, ServiceInv, NEW s \in Streams,
           OpenShell(s) \/ OpenBackup(s) \/ OpenThread(s)
    PROVE  ServiceInv'
<1>0. ServiceType /\ sock[s] = "none" /\ kind[s] \in Services
  BY DEF ServiceInv, OpenShell, OpenBackup, OpenThread, Services
<1>a. UNCHANGED <<kind, tty, wrote, passed, notify, how, adbd>>
  BY DEF OpenShell, OpenBackup, OpenThread
<1>1. CASE Refused(s) /\ UNCHANGED holders
  BY <1>0, <1>1, <1>a, RefusedKeeps, Zenon
<1>2. CASE /\ OpenShell(s) \/ OpenBackup(s)
           /\ Unused # {} /\ osfd' = [osfd EXCEPT ![Lowest] = s] /\ Install(s, Lowest)
           /\ holders' = [holders EXCEPT ![s] = {"child"}]
  <2>1. Lowest \in Fds /\ osfd[Lowest] = None
    BY <1>2, LowestIsUnused
  <2>2. kind[s] \notin Threaded
    BY <1>2 DEF OpenShell, OpenBackup, Shells, Threaded
  <2>3. /\ osfd' \in [Fds -> Int]
        /\ \A m \in Fds: osfd'[m] = EndAt(s, Lowest, {}, m)
    <3>1. osfd \in [Fds -> Int] /\ s \in Int
      BY <1>0, ServiceAssumption DEF ServiceType
    <3> QED
      BY <1>2, <2>1, <3>1 DEF EndAt
  <2> DEFINE n == Lowest
  <2>4. n \in Fds /\ osfd[n] = None /\ Install(s, n)
    BY <1>2, <2>1
  <2>5. \A m \in Fds: osfd'[m] = EndAt(s, n, {}, m)
    BY <2>3
  <2> HIDE DEF n
  <2>6. "child" = "thread" <=> kind[s] \in Threaded
    BY <2>2
  <2> QED
    BY <1>0, <1>2, <1>a, <2>3, <2>4, <2>5, <2>6, OpenKeeps, Zenon
<1>3. CASE /\ kind[s] \in Threaded /\ Unused \ {Lowest} # {}
           /\ osfd' = [osfd EXCEPT ![Lowest] = s, ![Min(Unused \ {Lowest})] = FarEnd(s)]
           /\ Install(s, Lowest)
           /\ holders' = [holders EXCEPT ![s] = {"thread"}]
  <2> DEFINE n == Lowest
             F == {Min(Unused \ {Lowest})}
  <2>1. n \in Fds /\ osfd[n] = None /\ Install(s, n)
    BY <1>3, LowestIsUnused
  <2>2. F \in SUBSET Fds /\ n \notin F /\ (\A m \in F: osfd[m] = None) /\ F # {}
    BY <1>3, SecondIsUnused
  <2>3. osfd' \in [Fds -> Int]
    <3>1. osfd \in [Fds -> Int] /\ s \in Int /\ FarEnd(s) \in Int
      BY <1>0, ServiceAssumption DEF ServiceType, FarEnd
    <3> QED
      BY ZenonT(60), <1>3, <3>1
  <2>4. \A m \in Fds: osfd'[m] = EndAt(s, n, F, m)
    BY <1>0, <1>3, <2>1, <2>2 DEF ServiceType, EndAt
  <2> HIDE DEF n, F
  <2> QED
    BY <1>0, <1>3, <1>a, <2>1, <2>2, <2>3, <2>4, OpenKeeps, Zenon
<1> QED
  BY <1>1, <1>2, <1>3 DEF OpenShell, OpenBackup, OpenThread

\* Processes and threads that write, fork and end, and threads that wait.
LEMMA OutsideStep ==
    ASSUME ServiceInv, NEW s \in Streams,
           \/ ProcessWrites(s) \/ ForksBackground(s)
           \/ ProcessExits(s, "child") \/ ProcessExits(s, "bg")
           \/ ShellReaped(s) \/ ShellExitTold(s) \/ ThreadAnswers(s) \/ HostReady(s)
           \/ \E t \in Streams: StrayReaps(s, t)
    PROVE  ServiceInv'
<1>0. ServiceType /\ LinkInv /\ adbd # "fatal" /\ \A t \in Streams: Accounted(t)
  BY DEF ServiceInv
<1>1. UNCHANGED <<kind, sock, num, fd_table, osfd, passed, how, adbd>>
  BY Zenon DEF ProcessWrites, ForksBackground, ProcessExits, ShellReaped, ShellExitTold,
         ThreadAnswers, HostReady, StrayReaps
<1>2. \/ UNCHANGED <<tty, wrote>>
      \/ /\ holders[s] # {} /\ holders' = holders
         /\ tty' = [tty EXCEPT ![s] = @ + 1] /\ wrote' = [wrote EXCEPT ![s] = @ + 1]
  BY Zenon DEF ProcessWrites, ForksBackground, ProcessExits, ShellReaped, ShellExitTold,
         ThreadAnswers, HostReady, StrayReaps, ends, Writes1
<1>3. \/ holders' = holders
      \/ holders[s] # {} /\ holders' = [holders EXCEPT ![s] = @ \cup {"bg"}]
      \/ holders' = [holders EXCEPT ![s] = @ \ {"child"}]
      \/ holders' = [holders EXCEPT ![s] = @ \ {"bg"}]
  BY DEF ProcessWrites, ForksBackground, ProcessExits, ShellReaped, ShellExitTold,
         ThreadAnswers, HostReady, StrayReaps, ends
<1>4. notify' \in Seq(Fds \cup {NoFd})
  <2>1. notify' = notify \/ notify' = Append(notify, num[s])
    BY DEF ProcessWrites, ForksBackground, ProcessExits, ShellReaped, ShellExitTold,
           ThreadAnswers, HostReady, StrayReaps
  <2>2. notify \in Seq(Fds \cup {NoFd}) /\ num[s] \in Fds \cup {NoFd}
    BY <1>0 DEF ServiceType
  <2> QED
    BY <2>1, <2>2
<1>5. /\ holders' \in [Streams -> SUBSET {"child", "bg", "thread"}]
      /\ \A t \in Streams: "thread" \in holders'[t] <=> "thread" \in holders[t]
      /\ \A t \in Streams: holders[t] = {} => holders'[t] = {}
  <2>0. holders \in [Streams -> SUBSET {"child", "bg", "thread"}]
    BY <1>0, Zenon DEF ServiceType
  <2> QED
    BY <2>0, <1>3
<1>6. /\ tty' \in [Streams -> Nat] /\ wrote' \in [Streams -> Nat]
      /\ \A t \in Streams: wrote'[t] = tty'[t] + passed'[t]
      /\ \A t \in Streams: holders[t] = {} => tty'[t] = tty[t]
  <2>0. /\ tty \in [Streams -> Nat] /\ wrote \in [Streams -> Nat]
        /\ passed \in [Streams -> Nat]
        /\ \A t \in Streams: wrote[t] = tty[t] + passed[t]
    BY <1>0, Zenon DEF ServiceType, Accounted
  <2> QED
    BY <2>0, <1>1, <1>2
<1>7. LinkInv'
  BY <1>0, <1>1, <1>5, SameLinks, Zenon
<1>8. ServiceType'
  BY <1>0, <1>1, <1>4, <1>5, <1>6, Zenon DEF ServiceType
<1>9. \A t \in Streams: Accounted(t)'
  BY <1>0, <1>1, <1>5, <1>6 DEF Accounted
<1> QED
  BY <1>0, <1>1, <1>7, <1>8, <1>9 DEF ServiceInv

LEMMA EndsStep ==
    ASSUME BackupAlone, ServiceInv, NEW s \in Streams, BackupReaped(s) \/ ThreadCloses(s)
    PROVE  ServiceInv'
<1>0. ServiceType /\ LinkInv /\ adbd # "fatal" /\ \A t \in Streams: Accounted(t)
  BY DEF ServiceInv
<1>1. UNCHANGED <<kind, sock, num, fd_table, tty, wrote, passed, notify, how, adbd>>
  BY DEF BackupReaped, ThreadCloses, ends
<1>2. LinkInv'
  BY <1>0, BackupReapedKeepsLinks, ThreadClosesKeepsLinks, Zenon
<1>3. holders' = holders \/ holders' = [holders EXCEPT ![s] = {}]
  BY DEF BackupReaped, ThreadCloses, ends
<1>4. /\ holders' \in [Streams -> SUBSET {"child", "bg", "thread"}]
      /\ \A t \in Streams: holders[t] = {} => holders'[t] = {}
  BY Zenon, <1>0, <1>3 DEF ServiceType
<1>5. osfd' \in [Fds -> Int]
  <2>1. osfd \in [Fds -> Int] /\ None \in Int
    BY <1>0 DEF ServiceType, None
  <2> QED
    BY <2>1, Zenon DEF BackupReaped, ThreadCloses
<1>6. ServiceType'
  BY <1>0, <1>1, <1>4, <1>5, Zenon DEF ServiceType
<1>7. \A t \in Streams: Accounted(t)'
  BY <1>0, <1>1, <1>4 DEF Accounted
<1> QED
  BY <1>0, <1>1, <1>2, <1>6, <1>7 DEF ServiceInv

\* The host closes the stream: its output may be cut short, the tables agree.
LEMMA HostClosesStep ==
    ASSUME ServiceInv, NEW s \in Streams, HostCloses(s)
    PROVE  ServiceInv'
<1>0. ServiceType /\ LinkInv /\ adbd # "fatal" /\ \A t \in Streams: Accounted(t)
  BY DEF ServiceInv
<1>1. /\ sock[s] = "open" /\ CloseSocket(s, "host")
      /\ UNCHANGED <<kind, num, holders, tty, wrote, passed, notify>>
  BY DEF HostCloses, ends
<1>2. /\ LinkInv' /\ adbd' # "fatal"
      /\ sock' = [sock EXCEPT ![s] = "closed"]
      /\ how' = [how EXCEPT ![s] = "host"]
      /\ fd_table' = [fd_table EXCEPT ![num[s]] = None]
      /\ osfd' = [osfd EXCEPT ![num[s]] = None]
  BY <1>0, <1>1, CloseKeepsLinks, Zenon
<1>3. /\ tty' \in [Streams -> Nat] /\ passed' \in [Streams -> Nat]
      /\ notify' \in Seq(Fds \cup {NoFd})
  BY <1>0, <1>1, Zenon DEF ServiceType
<1>4. ServiceType'
  BY <1>0, <1>1, <1>2, <1>3, CloseKeepsType, Zenon
<1>5. \A t \in Streams: Accounted(t)'
  BY <1>0, <1>1, <1>2 DEF Accounted, ServiceType
<1> QED
  BY <1>2, <1>4, <1>5 DEF ServiceInv

\* The notice of a shell's exit, for whatever has the number by now.
LEMMA ExitHeardStep ==
    ASSUME ServiceInv, ShellExitHeard
    PROVE  ServiceInv'
<1>0. ServiceType /\ LinkInv /\ adbd # "fatal" /\ \A t \in Streams: Accounted(t)
  BY DEF ServiceInv
<1> DEFINE n == Head(notify)
           s == IF n = NoFd THEN None ELSE fd_table[n]
<1>1. /\ notify' \in Seq(Fds \cup {NoFd})
      /\ n \in Fds \cup {NoFd}
  BY <1>0 DEF ServiceType, ShellExitHeard
<1>2. UNCHANGED <<kind, num, holders, wrote>>
  BY DEF ShellExitHeard
<1>3. CASE UNCHANGED <<sock, fd_table, osfd, tty, passed, how, adbd>>
  <2>1. LinkInv'
    BY <1>0, <1>2, <1>3, SameLinks, Zenon
  <2>2. ServiceType'
    BY <1>0, <1>1, <1>2, <1>3, Zenon DEF ServiceType
  <2>3. \A t \in Streams: Accounted(t)'
    BY <1>0, <1>2, <1>3 DEF Accounted
  <2> QED
    BY <1>0, <1>3, <2>1, <2>2, <2>3 DEF ServiceInv
<1>4. CASE s # None /\ ReadEvent(s)
  <2>1. s \in Streams /\ sock[s] = "open"
    BY <1>0, <1>1, <1>4 DEF LinkInv, Listed, ServiceType
  <2>2. ReadEvent(s)
    BY <1>4
  <2> HIDE DEF s, n
  <2>3. ASSUME ReadEvent(s) PROVE ServiceInv'
    BY <1>1, <1>2, <2>1, <2>3, ReadKeeps
  <2> QED
    BY <2>2, <2>3
<1> QED
  BY <1>3, <1>4 DEF ShellExitHeard

LEMMA ServiceStep ==
    ASSUME BackupAlone, ServiceInv, [ServiceNext]_servicevars
    PROVE  ServiceInv'
<1>1. CASE UNCHANGED servicevars
  <2>1. /\ UNCHANGED <<kind, sock, num, fd_table, osfd, holders>>
        /\ UNCHANGED <<tty, wrote, passed, notify, how, adbd>>
    BY <1>1 DEF servicevars, ends
  <2>2. ServiceType' /\ LinkInv'
    BY <2>1, SameLinks, Zenon DEF ServiceInv, ServiceType
  <2>3. \A t \in Streams: Accounted(t)'
    BY <2>1 DEF ServiceInv, Accounted
  <2> QED
    BY <2>1, <2>2, <2>3 DEF ServiceInv
<1>2. ASSUME NEW s \in Streams, LocalSocketReads(s) PROVE ServiceInv'
  <2>1. notify' \in Seq(Fds \cup {NoFd})
    BY <1>2, Zenon DEF LocalSocketReads, ServiceInv, ServiceType
  <2> QED
    BY <1>2, <2>1, ReadKeeps DEF LocalSocketReads
<1> QED
  BY <1>1, <1>2, OpenStep, OutsideStep, EndsStep, HostClosesStep, ExitHeardStep, Zenon
     DEF ServiceNext, Main

-----------------------------------------------------------------------------
(* The theorem.                                                            *)

\* For any number of streams, descriptors and units of output: adbd ends the
\* stream of a shell or of a thread only after all of its output was sent, and
\* the table of the event loop is never "out of sync" (services.c:266-406,
\* sockets.c:330-380, fdevent.c:463), while a backup runs alone.
THEOREM NoOutputLost ==
    ASSUME BackupAlone
    PROVE  ServiceSpec => []ShellsKept
<1>1. ServiceInit => ServiceInv
  BY ServiceInitInv
<1>2. ServiceInv /\ [ServiceNext]_servicevars => ServiceInv'
  BY ServiceStep
<1>3. ServiceInv => ShellsKept
  <2>1. ServiceInv => AllOutput
    BY DEF ServiceInv, ServiceType, Accounted, AllOutput
  <2> QED
    BY <2>1 DEF ServiceInv, ShellsKept, RegistrationKept
<1> QED
  BY <1>1, <1>2, <1>3, PTL DEF ServiceSpec

=============================================================================
