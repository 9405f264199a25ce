------------------------------ MODULE AdbSync ------------------------------
(***************************************************************************)
(* The file sync protocol of adb: "adb push", "pull", "sync" and "ls"      *)
(* (file_sync_client.c) and the service thread of adbd at the other end of *)
(* the stream (file_sync_service.c).  A run of the client opens a stream,  *)
(* and with it a service thread, of its own; the thread of a run that was  *)
(* cut short may still be at work when the next run begins.                *)
(*                                                                         *)
(* A message stands for its header and payload.  Each direction of the     *)
(* stream holds at most Room messages: a writer blocks on a full one.  A   *)
(* path of the device names an inode, so that a thread can write to a file *)
(* that another thread has unlinked.                                       *)
(***************************************************************************)
EXTENDS Naturals, Sequences

LOCAL INSTANCE SequencesExt

CONSTANTS
    Reg, Link,      \* the regular files and the symbolic links of the tree
    Nested,         \* those of them in a subdirectory
    Chunks,         \* the number of DATA messages a file needs
    Found,          \* what the device may hold: "absent", "same", "stale" or "longer"
    Plans,          \* the commands to explore: a sequence of commands per run
    Room,           \* messages that fit in one direction of the stream
    MaxFaults       \* bound on the faults of a behaviour

File == Reg \cup Link
Run == 1..2

NoInode == <<>>
Absent == [kind |-> "none", data |-> <<>>, time |-> 0]

\* A file of the host, and the older version of it a device may hold.
Content(f, v) == [i \in 1..Chunks[f] |-> <<f, v, i>>]
HostTime == 2
DeviceTime == 3     \* "now" on the device: later than any file of the host
Host(f) == [kind |-> IF f \in Link THEN "link" ELSE "reg", data |-> Content(f, "new"),
            time |-> HostTime]
Stale(f) == [Host(f) EXCEPT !.data = Content(f, "old"), !.time = 1]
Longer(f) == [Stale(f) EXCEPT !.data = Content(f, "old") \o <<<<f, "old", 0>>>>]

VARIABLES
    plan, run,      \* the commands, and the one that is being run
    cpc,            \* where the client is
    list,           \* copyinfo list: the files still to be handled
    answers,        \* STAT answers still to be read, or directories to be listed
    skip,           \* the files with ci->flag set
    cur, sent,      \* the file of sync_send() or sync_recv(), and its chunks so far
    code,           \* the exit code of each run
    host,           \* the files of the host (pull replaces them)
    req, ans, link, \* the stream of each run
    svc,            \* its service thread
    path, inode,    \* the directory of the device and its inodes
    faults, short,  \* history: faults so far, files this run could not read in full
    kept,           \* history: files an unlink() of which failed
    alone           \* history: no earlier thread was left when this run connected

client == <<run, cpc, list, answers, skip, cur, sent, code, host, short, alone>>
stream == <<req, ans, link>>
device == <<path, inode, kept>>
syncvars == <<plan, client, stream, svc, device, faults>>

Command == plan[run]
Lookup(p, f) == IF p[f] = NoInode THEN Absent ELSE inode[p[f]]
OnDevice(f) == Lookup(path, f)

Idle == [pc |-> "none", f |-> "none", fd |-> NoInode, todo |-> <<>>]

SyncInit ==
    /\ plan \in Plans
    /\ run = 1 /\ cpc = "connect"
    /\ list = <<>> /\ answers = <<>> /\ skip = {} /\ cur = "none" /\ sent = 0
    /\ code = [r \in Run |-> "none"]
    /\ host = [f \in File |-> Host(f)]
    /\ req = [r \in Run |-> <<>>] /\ ans = [r \in Run |-> <<>>]
    /\ link = [r \in Run |-> "none"]
    /\ svc = [r \in Run |-> Idle]
    /\ \E was \in Found:
          /\ path = [f \in File |-> IF was[f] = "absent" THEN NoInode ELSE <<0, f>>]
          /\ inode = [n \in (0..2) \X File |->
                        IF n[1] # 0 THEN Absent
                        ELSE CASE was[n[2]] = "same" -> Host(n[2])
                               [] was[n[2]] = "stale" -> Stale(n[2])
                               [] was[n[2]] = "longer" -> Longer(n[2])
                               [] OTHER -> Absent]
    /\ faults = 0 /\ short = {} /\ kept = {} /\ alone = TRUE

Fault == faults < MaxFaults /\ faults' = faults + 1

-----------------------------------------------------------------------------
(* The client's end of the stream: writex() and readx().                   *)

Req(id, f) == [id |-> id, f |-> f]
Data(f, chunk) == [id |-> "DATA", f |-> f, chunk |-> chunk]

\* A write after the service has closed its end may still be accepted by the
\* server and dropped there.
Writes(m) ==
    /\ link[run] = "up"
    /\ IF svc[run].pc = "closed" THEN UNCHANGED req
       ELSE /\ Len(req[run]) < Room
            /\ req' = [req EXCEPT ![run] = Append(@, m)]
    /\ UNCHANGED <<ans, link>>

WriteFails == link[run] = "down" \/ svc[run].pc = "closed"

Reads(m) ==
    /\ ans[run] # <<>> /\ m = Head(ans[run])
    /\ ans' = [ans EXCEPT ![run] = Tail(@)]
    /\ UNCHANGED <<req, link>>

ReadFails == ans[run] = <<>> /\ WriteFails

\* The client exits and its end of the stream is closed.
Exits(c) ==
    /\ cpc' = "exited"
    /\ code' = [code EXCEPT ![run] = c]
    /\ link' = [link EXCEPT ![run] = "down"]
    /\ UNCHANGED <<run, list, answers, skip, cur, sent, host, short, alone>>

Fails == Exits("1") /\ UNCHANGED <<req, ans>>

-----------------------------------------------------------------------------
(* The client.                                                             *)

Uses(c) == Command.do = c
Pushes == Command.do \in {"push", "pushdir", "sync", "synclist"}
Pulls == Command.do \in {"pull", "pulldir"}

\* adb_connect("sync:")
Connects ==
    /\ cpc = "connect"
    /\ \/ /\ link' = [link EXCEPT ![run] = "up"]
          /\ svc' = [svc EXCEPT ![run].pc = "wait"]
          /\ alone' = (\A r \in Run: svc[r].pc \in {"none", "closed"})
          /\ cpc' = CASE Uses("push") \/ Pulls -> "mode"
                      [] Uses("ls") -> "ls"
                      [] OTHER -> "build"
          /\ answers' = IF Uses("ls") THEN <<"dir">> ELSE <<>>
          /\ UNCHANGED <<run, list, skip, cur, sent, code, host, short, faults>>
       \/ /\ Fault /\ Exits("1") /\ UNCHANGED svc
    /\ UNCHANGED <<plan, req, ans, device>>

\* local_build_list(): what a nested call returns is not looked at, so the
\* files of a subdirectory that cannot be opened are left out.
BuildsList ==
    /\ cpc = "build"
    /\ \/ /\ \E out \in IF faults < MaxFaults THEN {{}, Nested} ELSE {{}}:
                /\ faults' = IF out = {} THEN faults ELSE faults + 1
                /\ short' = short \cup out
                /\ list' = SetToSeq(File \ out)
          /\ cpc' = IF Uses("pushdir") THEN "next" ELSE "stat"
          /\ answers' = list'
          /\ UNCHANGED <<run, skip, cur, sent, code, host, alone, stream>>
       \/ Fault /\ Fails
    /\ UNCHANGED <<plan, svc, device>>

\* copy_local_dir_remote(): a STAT for every file before the first answer is
\* read.
SyncStats ==
    /\ cpc = "stat"
    /\ \/ /\ answers # <<>>
          /\ \/ /\ Writes(Req("STAT", Head(answers)))
                /\ answers' = Tail(answers)
                /\ UNCHANGED <<run, cpc, list, skip, cur, sent, code, host, short, alone>>
             \/ WriteFails /\ Fails
       \/ /\ answers = <<>>
          /\ answers' = list
          /\ cpc' = "statans"
          /\ UNCHANGED <<run, list, skip, cur, sent, code, host, short, alone, stream>>
    /\ UNCHANGED <<plan, svc, device, faults>>

\* Mutant: the sizes are not compared.
UpToDateByTime(f, st) == st.kind # "none" /\ st.time >= HostTime

\* "for links, we cannot update the atime/mtime".  S_ISREG(a & b) holds when
\* either mode is S_IFREG and the other S_IFREG or S_IFLNK.
UpToDate(f, st) ==
    /\ Len(st.data) = Len(Host(f).data)
    /\ \/ st.kind # "none" /\ "reg" \in {st.kind, Host(f).kind} /\ st.time = HostTime
       \/ st.kind = "link" /\ Host(f).kind = "link" /\ st.time >= HostTime

SyncStatAnswers ==
    /\ cpc = "statans"
    /\ \/ /\ answers # <<>>
          /\ \/ /\ ans[run] # <<>> /\ Reads(Head(ans[run]))
                /\ skip' = IF UpToDate(Head(answers), Head(ans[run]).st)
                           THEN skip \cup {Head(answers)} ELSE skip
                /\ answers' = Tail(answers)
                /\ UNCHANGED <<run, cpc, list, cur, sent, code, host, short, alone>>
             \/ ReadFails /\ Fails
       \/ /\ answers = <<>>
          /\ cpc' = "next"
          /\ UNCHANGED <<run, list, answers, skip, cur, sent, code, host, short, alone, stream>>
    /\ UNCHANGED <<plan, svc, device, faults>>

\* sync_readmode(): push asks whether the remote path is a directory, pull
\* what it is.  A missing file is not pulled and no QUIT is sent.
AsksMode ==
    /\ cpc = "mode"
    /\ \/ /\ Writes(Req("STAT", Command.f))
          /\ cpc' = "modeans"
          /\ UNCHANGED <<run, list, answers, skip, cur, sent, code, host, short, alone>>
       \/ WriteFails /\ Fails
    /\ UNCHANGED <<plan, svc, device, faults>>

\* do_sync_push(): a remote directory only changes the name of the copy.
PushHearsMode ==
    /\ cpc = "modeans" /\ Uses("push")
    /\ \/ /\ ans[run] # <<>> /\ Reads(Head(ans[run]))
          /\ cpc' = "next" /\ list' = <<Command.f>>
          /\ UNCHANGED <<run, answers, skip, cur, sent, code, host, short, alone>>
       \/ ReadFails /\ Fails
    /\ UNCHANGED <<plan, svc, device, faults>>

\* do_sync_pull()
PullHearsMode ==
    /\ cpc = "modeans" /\ Pulls
    /\ \/ /\ ans[run] # <<>> /\ Head(ans[run]).st.kind = "none"
          /\ Exits("1") /\ ans' = [ans EXCEPT ![run] = Tail(@)] /\ UNCHANGED req
       \/ /\ ans[run] # <<>> /\ Head(ans[run]).st.kind # "none"
          /\ Reads(Head(ans[run]))
          /\ IF Head(ans[run]).st.kind = "dir" THEN cpc' = "ls" /\ answers' = <<"dir">> /\ UNCHANGED list
             ELSE cpc' = "next" /\ list' = <<Command.f>> /\ UNCHANGED answers
          /\ UNCHANGED <<run, skip, cur, sent, code, host, short, alone>>
       \/ ReadFails /\ Fails
    /\ UNCHANGED <<plan, svc, device, faults>>

\* sync_ls(), for "adb ls" and for each directory of remote_build_list().
Lists ==
    /\ cpc = "ls"
    /\ \/ /\ Writes(Req("LIST", Head(answers)))
          /\ cpc' = "dents"
          /\ UNCHANGED <<run, list, answers, skip, cur, sent, code, host, short, alone>>
       \/ WriteFails /\ Fails
    /\ UNCHANGED <<plan, svc, device, faults>>

\* sync_ls_build_list_cb(): a file goes to the front of the list, a
\* directory to those still to be listed.
Listed(f) ==
    /\ list' = IF Pulls /\ f # "sub" THEN <<f>> \o list ELSE list
    /\ answers' = IF Pulls /\ f = "sub" THEN Append(answers, f) ELSE answers
    /\ UNCHANGED cpc

\* remote_build_list(): the next directory.
ListedAll ==
    /\ answers' = Tail(answers)
    /\ cpc' = IF Len(answers) = 1 THEN "next" ELSE "ls"
    /\ UNCHANGED list

ReadsDents ==
    /\ cpc = "dents"
    /\ \/ /\ ans[run] # <<>> /\ Reads(Head(ans[run]))
          /\ IF Head(ans[run]).id = "DONE" THEN ListedAll ELSE Listed(Head(ans[run]).f)
          /\ UNCHANGED <<run, skip, cur, sent, code, host, short, alone>>
       \/ ReadFails /\ Fails
    /\ UNCHANGED <<plan, svc, device, faults>>

ListDone == list = <<>> /\ cpc' = "quit" /\ UNCHANGED <<list, cur, sent>>
Goto(pc) == list # <<>> /\ list' = Tail(list) /\ cur' = Head(list) /\ sent' = 0 /\ cpc' = pc

\* The loop of copy_local_dir_remote().
NextPush ==
    /\ cpc = "next" /\ ~Pulls
    /\ ListDone \/ Goto(IF Uses("synclist") \/ Head(list) \in skip THEN "next" ELSE "send")
    /\ UNCHANGED <<plan, run, answers, skip, code, host, short, alone, stream, svc, device, faults>>

\* The loop of copy_remote_dir_local().
NextPull ==
    /\ cpc = "next" /\ Pulls
    /\ ListDone \/ Goto("recv")
    /\ UNCHANGED <<plan, run, answers, skip, code, host, short, alone, stream, svc, device, faults>>

\* sync_send(): a name that is too long with the mode is refused by the
\* service, a longer one by the client.
SendsFile ==
    /\ cpc = "send"
    /\ \/ /\ \E id \in {"SEND"} \cup IF faults < MaxFaults THEN {"LONG"} ELSE {}:
                /\ Writes(Req(id, cur))
                /\ faults' = IF id = "LONG" THEN faults + 1 ELSE faults
          /\ cpc' = "data"
          /\ UNCHANGED <<run, list, answers, skip, cur, sent, code, host, short, alone>>
       \/ WriteFails /\ Fails /\ UNCHANGED faults
       \/ Fault /\ Fails
    /\ UNCHANGED <<plan, svc, device>>

\* write_data_file() and write_data_link().  What they return is not looked
\* at: after an error of the file or of the stream DONE is written all the
\* same.
SendsData ==
    /\ cpc = "data"
    /\ \/ /\ sent < Chunks[cur]
          /\ \/ /\ Writes(Data(cur, Host(cur).data[sent + 1]))
                /\ sent' = sent + 1
                /\ UNCHANGED <<cpc, short, faults>>
             \/ /\ WriteFails
                /\ cpc' = "done" /\ short' = short \cup {cur}
                /\ UNCHANGED <<sent, faults, stream>>
             \/ /\ Fault
                /\ cpc' = "done" /\ short' = short \cup {cur}
                /\ UNCHANGED <<sent, stream>>
       \/ /\ sent = Chunks[cur]
          /\ cpc' = "done"
          /\ UNCHANGED <<sent, short, faults, stream>>
    /\ UNCHANGED <<plan, run, list, answers, skip, cur, code, host, alone, svc, device>>

SendsDone ==
    /\ cpc = "done"
    /\ \/ /\ Writes(Req("DONE", cur))
          /\ cpc' = "status"
          /\ UNCHANGED <<run, list, answers, skip, cur, sent, code, host, short, alone>>
       \/ WriteFails /\ Fails
    /\ UNCHANGED <<plan, svc, device, faults>>

\* Mutant: the status is read and not looked at.
HearsAnyStatus ==
    /\ cpc = "status"
    /\ \/ /\ ans[run] # <<>> /\ Reads(Head(ans[run])) /\ cpc' = "next"
          /\ UNCHANGED <<run, list, answers, skip, cur, sent, code, host, short, alone>>
       \/ ReadFails /\ Fails
    /\ UNCHANGED <<plan, svc, device, faults>>

HearsStatus ==
    /\ cpc = "status"
    /\ \/ /\ ans[run] # <<>>
          /\ LET m == Head(ans[run]) IN
             IF m.id = "OKAY"
             THEN /\ Reads(m) /\ cpc' = "next"
                  /\ UNCHANGED <<run, list, answers, skip, cur, sent, code, host, short, alone>>
             ELSE Exits("1") /\ ans' = [ans EXCEPT ![run] = Tail(@)] /\ UNCHANGED req
       \/ ReadFails /\ Fails
    /\ UNCHANGED <<plan, svc, device, faults>>

\* sync_recv()
AsksFile ==
    /\ cpc = "recv"
    /\ \/ /\ Writes(Req("RECV", cur))
          /\ cpc' = "first"
          /\ UNCHANGED <<run, list, answers, skip, cur, sent, code, host, short, alone>>
       \/ WriteFails /\ Fails
    /\ UNCHANGED <<plan, svc, device, faults>>

\* Mutant: the old file is neither unlinked nor truncated.
ExtendedOnly(m) == [kind |-> "reg", time |-> DeviceTime,
                    data |-> IF m.id = "DONE" THEN host[cur].data
                             ELSE Append(host[cur].data, m.chunk)]

\* The old file is unlinked when the first message is there; FAIL, then or
\* later, unlinks what there is and the function still returns 0.  A local
\* error or a broken stream leaves the part that was written.
Extended(m) == [kind |-> "reg", time |-> DeviceTime,
                data |-> CASE m.id = "DONE" -> IF cpc = "first" THEN <<>> ELSE host[cur].data
                           [] cpc = "first" -> <<m.chunk>>
                           [] OTHER -> Append(host[cur].data, m.chunk)]

ReceivesFile ==
    /\ cpc \in {"first", "recvdata"}
    /\ \/ /\ ans[run] # <<>>
          /\ LET m == Head(ans[run]) IN
             /\ ans' = [ans EXCEPT ![run] = Tail(@)]
             /\ \/ /\ m.id # "FAIL"
                   /\ host' = [host EXCEPT ![cur] = Extended(m)]
                   /\ cpc' = IF m.id = "DONE" THEN "next" ELSE "recvdata"
                   /\ UNCHANGED <<code, short, link, faults>>
                \/ /\ m.id = "FAIL"
                   /\ host' = [host EXCEPT ![cur] = Absent]
                   /\ short' = short \cup {cur}
                   /\ cpc' = "next"
                   /\ UNCHANGED <<code, link, faults>>
                \/ /\ m.id # "FAIL" /\ Fault
                   /\ host' = [host EXCEPT ![cur] = IF cpc = "first" THEN Absent ELSE @]
                   /\ cpc' = "exited" /\ code' = [code EXCEPT ![run] = "1"]
                   /\ link' = [link EXCEPT ![run] = "down"]
                   /\ UNCHANGED short
          /\ UNCHANGED <<run, list, answers, skip, cur, sent, alone, req>>
       \/ ReadFails /\ Fails /\ UNCHANGED faults
    /\ UNCHANGED <<plan, svc, device>>

\* sync_quit(): whether it was written is not looked at.
Quits ==
    /\ cpc = "quit"
    /\ Exits("0")
    /\ req' = IF link[run] = "up" /\ svc[run].pc # "closed"
              THEN [req EXCEPT ![run] = Append(@, Req("QUIT", "none"))] ELSE req
    /\ UNCHANGED <<plan, ans, svc, device, faults>>

\* The next command is given once this one has exited; nothing waits for the
\* service thread.
NextRun ==
    /\ cpc = "exited" /\ run < Len(plan)
    /\ run' = run + 1
    /\ cpc' = "connect"
    /\ list' = <<>> /\ answers' = <<>> /\ skip' = {} /\ cur' = "none" /\ sent' = 0 /\ short' = {}
    /\ UNCHANGED <<plan, code, host, alone, stream, svc, device, faults>>

-----------------------------------------------------------------------------
(* The service thread of run r.                                            *)

CanAnswer(r) == link[r] = "up" /\ Len(ans[r]) < Room
CannotAnswer(r) == link[r] = "down"
Answer(r, m) == ans' = [ans EXCEPT ![r] = Append(@, m)] /\ UNCHANGED <<req, link>>
Takes(r) == req' = [req EXCEPT ![r] = Tail(@)]
AtEof(r) == req[r] = <<>> /\ link[r] = "down"

Closes(r) == svc' = [svc EXCEPT ![r] = [Idle EXCEPT !.pc = "closed"]]
Goes(r, pc) == svc' = [svc EXCEPT ![r].pc = pc]
Waits(r) == svc' = [svc EXCEPT ![r] = [Idle EXCEPT !.pc = "wait"]]

Unlinked(f) == [path EXCEPT ![f] = NoInode]
UnlinkFails(f) == kept' = kept \cup {f} /\ UNCHANGED path

\* The files of a directory of the device, and its subdirectory.
Entries(d) ==
    LET nested == {f \in Nested: path[f] # NoInode} IN
    IF d = "sub" THEN nested
    ELSE {f \in File \ Nested: path[f] # NoInode} \cup (IF nested = {} THEN {} ELSE {"sub"})

\* file_sync_service(): reads a command.  do_send() begins with an unlink().
TakesCommand(r) ==
    /\ svc[r].pc = "wait"
    /\ \/ /\ req[r] # <<>>
          /\ LET m == Head(req[r]) IN
             /\ Takes(r)
             /\ \/ /\ m.id = "SEND"
                   /\ \/ path' = Unlinked(m.f) /\ UNCHANGED <<faults, kept>>
                      \/ OnDevice(m.f).kind # "none" /\ Fault /\ UnlinkFails(m.f)
                   /\ svc' = [svc EXCEPT ![r] = [Idle EXCEPT !.f = m.f,
                                  !.pc = IF m.f \in Link THEN "linkdata" ELSE "open"]]
                \/ /\ m.id \in {"STAT", "RECV"}
                   /\ svc' = [svc EXCEPT ![r] = [Idle EXCEPT !.f = m.f,
                                  !.pc = IF m.id = "STAT" THEN "stat" ELSE "recvopen"]]
                   /\ UNCHANGED <<path, kept, faults>>
                \/ /\ m.id = "LIST"
                   /\ \E out \in IF faults < MaxFaults THEN BOOLEAN ELSE {FALSE}:
                         /\ faults' = IF out THEN faults + 1 ELSE faults
                         /\ svc' = [svc EXCEPT ![r] = [Idle EXCEPT !.pc = "list",
                                       !.todo = IF out THEN <<>>
                                          ELSE SetToSeq(Entries(m.f))]]
                   /\ UNCHANGED <<path, kept>>
                \/ m.id = "QUIT" /\ Closes(r) /\ UNCHANGED <<path, kept, faults>>
                \/ /\ m.id \notin {"SEND", "STAT", "RECV", "LIST", "QUIT"}
                   /\ svc' = [svc EXCEPT ![r].pc = "refuse", ![r].f = m.f]
                   /\ UNCHANGED <<path, kept, faults>>
       \/ /\ AtEof(r)
          /\ Closes(r)
          /\ UNCHANGED <<req, path, kept, faults>>
    /\ UNCHANGED <<plan, client, ans, link, inode>>

\* "invalid namelen", "unknown command": FAIL, and the thread ends.
Refuses(r) ==
    /\ svc[r].pc = "refuse"
    /\ \/ CanAnswer(r) /\ Answer(r, Req("FAIL", svc[r].f))
       \/ CannotAnswer(r) /\ UNCHANGED stream
    /\ Closes(r)
    /\ UNCHANGED <<plan, client, device, faults>>

\* do_stat()
AnswersStat(r) ==
    /\ svc[r].pc = "stat"
    /\ \/ /\ CanAnswer(r)
          /\ Answer(r, [id |-> "STAT", f |-> svc[r].f,
                        st |-> IF svc[r].f = "dir" THEN [Absent EXCEPT !.kind = "dir"]
                               ELSE OnDevice(svc[r].f)])
          /\ Waits(r)
       \/ CannotAnswer(r) /\ Closes(r) /\ UNCHANGED stream
    /\ UNCHANGED <<plan, client, device, faults>>

\* do_list(): a directory that cannot be opened is listed as empty.
AnswersList(r) ==
    /\ svc[r].pc = "list"
    /\ \/ /\ CanAnswer(r)
          /\ IF svc[r].todo = <<>> THEN Answer(r, Req("DONE", "dir")) /\ Waits(r)
             ELSE /\ Answer(r, Req("DENT", Head(svc[r].todo)))
                  /\ svc' = [svc EXCEPT ![r].todo = Tail(@)]
       \/ CannotAnswer(r) /\ Closes(r) /\ UNCHANGED stream
    /\ UNCHANGED <<plan, client, device, faults>>

\* handle_send_file(): a file that could not be unlinked is opened without
\* O_TRUNC.  When neither works the failure is told at once, and the rest of
\* the transfer is read.
OpensFile(r) ==
    /\ svc[r].pc = "open"
    /\ LET f == svc[r].f IN
       \/ /\ IF path[f] = NoInode
             THEN /\ path' = [path EXCEPT ![f] = <<r, f>>]
                  /\ inode' = [inode EXCEPT ![<<r, f>>] =
                                  [kind |-> "reg", data |-> <<>>, time |-> DeviceTime]]
             ELSE UNCHANGED <<path, inode>>
          /\ svc' = [svc EXCEPT ![r].pc = "data", ![r].fd = path'[f], ![r].todo = <<>>]
          /\ UNCHANGED <<stream, faults>>
       \/ /\ Fault
          /\ \/ CanAnswer(r) /\ Answer(r, Req("FAIL", f)) /\ Goes(r, "data")
             \/ CannotAnswer(r) /\ Closes(r) /\ UNCHANGED stream
          /\ UNCHANGED <<path, inode>>
    /\ UNCHANGED <<plan, client, kept>>

Overwritten(data, i, chunk) ==
    IF i <= Len(data) THEN [data EXCEPT ![i] = chunk] ELSE Append(data, chunk)

Writing(r) == svc[r].pc = "data" /\ svc[r].fd # NoInode

\* Mutant: a transfer that fails is given up at once.
WriteFailsGivesUp(r) ==
    /\ Writing(r) /\ req[r] # <<>> /\ Head(req[r]).id = "DATA" /\ Fault
    /\ CanAnswer(r) /\ ans' = [ans EXCEPT ![r] = Append(@, Req("FAIL", svc[r].f))]
    /\ Takes(r)
    /\ path' = Unlinked(svc[r].f)
    /\ Waits(r)
    /\ UNCHANGED <<plan, client, link, inode, kept>>

\* A write fails: the file is closed and unlinked and FAIL is told.
WriteFileFails(r) ==
    /\ Writing(r) /\ req[r] # <<>> /\ Head(req[r]).id = "DATA" /\ Fault
    /\ Takes(r)
    /\ path' = Unlinked(svc[r].f)
    /\ \/ /\ CanAnswer(r) /\ ans' = [ans EXCEPT ![r] = Append(@, Req("FAIL", svc[r].f))]
          /\ svc' = [svc EXCEPT ![r].fd = NoInode]
       \/ CannotAnswer(r) /\ Closes(r) /\ UNCHANGED ans
    /\ UNCHANGED <<plan, client, link, inode, kept>>

TakesData(r) ==
    /\ svc[r].pc = "data" /\ req[r] # <<>> /\ Head(req[r]).id = "DATA"
    /\ Takes(r)
    /\ IF svc[r].fd = NoInode THEN UNCHANGED <<inode, svc>>
       ELSE /\ svc' = [svc EXCEPT ![r].todo = Append(@, 1)]
            /\ inode' = [inode EXCEPT ![svc[r].fd] =
                  [@ EXCEPT !.data = Overwritten(@, Len(svc[r].todo) + 1, Head(req[r]).chunk),
                            !.time = DeviceTime]]
    /\ UNCHANGED <<plan, client, ans, link, path, kept, faults>>

\* utime() names the path, not the descriptor.
Stamps(r) ==
    IF path[svc[r].f] = NoInode THEN inode
    ELSE [inode EXCEPT ![path[svc[r].f]].time = HostTime]

TakesDone(r) ==
    /\ svc[r].pc = "data" /\ req[r] # <<>> /\ Head(req[r]).id = "DONE"
    /\ IF svc[r].fd = NoInode THEN Waits(r) /\ UNCHANGED <<inode, ans>>
       ELSE /\ inode' = Stamps(r)
            /\ \/ CanAnswer(r) /\ Waits(r) /\ ans' = [ans EXCEPT ![r] = Append(@, Req("OKAY", svc[r].f))]
               \/ CannotAnswer(r) /\ Closes(r) /\ UNCHANGED ans
    /\ Takes(r)
    /\ UNCHANGED <<plan, client, link, path, kept, faults>>

\* The stream ended inside the transfer: the path is unlinked, whoever owns
\* the file there by now.  The unlink() may fail.
BreaksOff(r) ==
    /\ svc[r].pc = "data" /\ AtEof(r)
    /\ Closes(r)
    /\ \/ path' = Unlinked(svc[r].f) /\ UNCHANGED <<faults, kept>>
       \/ Fault /\ UnlinkFails(svc[r].f)
    /\ UNCHANGED <<plan, client, stream, inode>>

\* handle_send_link()
TakesLink(r) ==
    /\ svc[r].pc = "linkdata"
    /\ LET f == svc[r].f IN
       \/ /\ req[r] # <<>> /\ Takes(r) /\ UNCHANGED <<ans, link>>
          /\ \/ /\ Head(req[r]).id = "DATA" /\ path[f] = NoInode
                /\ path' = [path EXCEPT ![f] = <<r, f>>]
                /\ inode' = [inode EXCEPT ![<<r, f>>] =
                      [kind |-> "link", data |-> <<Head(req[r]).chunk>>, time |-> DeviceTime]]
                /\ Goes(r, "linkdone")
                /\ UNCHANGED <<kept, faults>>
             \/ /\ Head(req[r]).id # "DATA" \/ path[f] # NoInode
                /\ Goes(r, "refuse") /\ UNCHANGED <<device, faults>>
             \/ Fault /\ Goes(r, "refuse") /\ UNCHANGED device
       \/ AtEof(r) /\ Closes(r) /\ UNCHANGED <<stream, device, faults>>
    /\ UNCHANGED <<plan, client>>

TakesLinkDone(r) ==
    /\ svc[r].pc = "linkdone"
    /\ \/ /\ req[r] # <<>> /\ Takes(r)
          /\ \/ CanAnswer(r) /\ Waits(r) /\ ans' = [ans EXCEPT ![r] = Append(@, Req("OKAY", svc[r].f))]
             \/ CannotAnswer(r) /\ Closes(r) /\ UNCHANGED ans
          /\ UNCHANGED link
       \/ AtEof(r) /\ Closes(r) /\ UNCHANGED stream
    /\ UNCHANGED <<plan, client, device, faults>>

\* do_recv(): the descriptor keeps the inode.
OpensToSend(r) ==
    /\ svc[r].pc = "recvopen"
    /\ \/ /\ path[svc[r].f] # NoInode
          /\ svc' = [svc EXCEPT ![r].pc = "recv", ![r].fd = path[svc[r].f], ![r].todo = <<>>]
          /\ UNCHANGED <<stream, faults>>
       \/ /\ \/ path[svc[r].f] = NoInode /\ UNCHANGED faults
             \/ path[svc[r].f] # NoInode /\ Fault
          /\ \/ CanAnswer(r) /\ Answer(r, Req("FAIL", svc[r].f)) /\ Waits(r)
             \/ CannotAnswer(r) /\ Closes(r) /\ UNCHANGED stream
    /\ UNCHANGED <<plan, client, device>>

SendsChunk(r) ==
    /\ svc[r].pc = "recv"
    /\ LET f == svc[r].f
           data == inode[svc[r].fd].data
           i == Len(svc[r].todo) + 1 IN
       \/ /\ CanAnswer(r) /\ i <= Len(data)
          /\ Answer(r, Data(f, data[i]))
          /\ svc' = [svc EXCEPT ![r].todo = Append(@, 1)]
          /\ UNCHANGED faults
       \/ /\ CanAnswer(r) /\ i > Len(data)
          /\ Answer(r, Req("DONE", f)) /\ Waits(r) /\ UNCHANGED faults
       \/ CanAnswer(r) /\ Fault /\ Answer(r, Req("FAIL", f)) /\ Waits(r)
       \/ CannotAnswer(r) /\ Closes(r) /\ UNCHANGED <<stream, faults>>
    /\ UNCHANGED <<plan, client, device>>

ServiceSteps(r) ==
    \/ TakesCommand(r) \/ Refuses(r) \/ AnswersStat(r) \/ AnswersList(r)
    \/ OpensFile(r) \/ TakesData(r) \/ WriteFileFails(r) \/ TakesDone(r) \/ BreaksOff(r)
    \/ TakesLink(r) \/ TakesLinkDone(r)
    \/ OpensToSend(r) \/ SendsChunk(r)

-----------------------------------------------------------------------------
(* Faults from outside.                                                    *)

\* The transport is lost: what had not arrived is lost with it.
LinkCut ==
    /\ link[run] = "up" /\ Fault
    /\ link' = [link EXCEPT ![run] = "down"]
    /\ \E i \in 0..Len(req[run]), j \in 0..Len(ans[run]):
          /\ req' = [req EXCEPT ![run] = SubSeq(@, 1, i)]
          /\ ans' = [ans EXCEPT ![run] = SubSeq(@, 1, j)]
    /\ UNCHANGED <<plan, client, svc, device>>

\* The user stops the client.
ClientKilled ==
    /\ cpc \notin {"connect", "exited"} /\ Fault
    /\ Exits("killed")
    /\ UNCHANGED <<plan, req, ans, svc, device>>

\* adbd dies, and with it every service thread.
DaemonDies ==
    /\ link[run] = "up" /\ Fault
    /\ link' = [link EXCEPT ![run] = "down"]
    /\ svc' = [r \in Run |-> IF svc[r].pc = "none" THEN svc[r] ELSE [Idle EXCEPT !.pc = "closed"]]
    /\ UNCHANGED <<plan, client, req, ans, device>>

ClientSteps ==
    \/ Connects \/ BuildsList \/ SyncStats \/ SyncStatAnswers \/ AsksMode \/ PushHearsMode \/ PullHearsMode
    \/ Lists \/ ReadsDents \/ NextPush \/ NextPull \/ SendsFile \/ SendsData \/ SendsDone \/ HearsStatus
    \/ AsksFile \/ ReceivesFile \/ Quits \/ NextRun

SyncNext ==
    \/ ClientSteps
    \/ \E r \in Run: ServiceSteps(r)
    \/ LinkCut \/ ClientKilled \/ DaemonDies

\* Both ends are processes the systems schedule.
SyncFairness ==
    /\ WF_syncvars(ClientSteps)
    /\ \A r \in Run: WF_syncvars(ServiceSteps(r))

SyncSpec == SyncInit /\ [][SyncNext]_syncvars /\ SyncFairness

-----------------------------------------------------------------------------
(* Properties.                                                             *)

\* The two ends stay in step whatever fails: after the answer to a transfer
\* no other answer is under way, each transfer is answered once and for its
\* own file, and the service never takes the data of a transfer for a
\* command or a command for data (handle_send_file() reads the rest of a
\* transfer it has refused, file_sync_service.c:193).
SyncInStep ==
    \A r \in Run:
       /\ r = run /\ cpc \in {"next", "send"} => ans[r] = <<>>
       /\ r = run /\ cpc = "status" /\ ans[r] # <<>> =>
             Len(ans[r]) = 1 /\ ans[r][1].f = cur /\ ans[r][1].id \in {"OKAY", "FAIL"}
       /\ req[r] # <<>> /\ svc[r].pc = "data" =>
             Head(req[r]).id \in {"DATA", "DONE"} /\ Head(req[r]).f = svc[r].f
       /\ req[r] # <<>> /\ svc[r].pc = "wait" =>
             Head(req[r]).id \in {"STAT", "LIST", "SEND", "RECV", "QUIT", "LONG"}

Holds(f) ==
    LET have == OnDevice(f).data
        want == Host(f).data IN
    /\ OnDevice(f).kind = Host(f).kind
    /\ Len(have) >= Len(want) /\ SubSeq(have, 1, Len(want)) = want
    /\ Len(have) = Len(want) \/ f \in kept

Targets == IF Uses("push") THEN {Command.f} ELSE IF Uses("synclist") THEN skip ELSE File

\* push and sync that exit with 0 leave each file they could read on the
\* device in full, whatever an earlier run that was cut short, killed or
\* stopped by the death of adbd left there; sync skips only such a file.  (A
\* file that cannot be unlinked is overwritten in place: what was longer
\* keeps its tail.)
PushedIsWhole ==
    cpc = "exited" /\ code[run] = "0" /\ Pushes /\ alone =>
       \A f \in Targets \ short: Holds(f) \/ f \in skip \cap kept

Written(f) == \E r \in Run: svc[r].f = f /\ svc[r].pc \in {"open", "data"}

\* A file that is not whole is one sync will send again: whatever was cut
\* short, no file of the device that could be unlinked has the size and the time
\* of the host's file and another content (utime() is called last,
\* file_sync_service.c:210).
DamagedIsSentAgain ==
    \A f \in Reg: UpToDate(f, OnDevice(f)) /\ ~Written(f) /\ f \notin kept =>
       OnDevice(f).data = Host(f).data

\* pull that exits with 0 leaves no part of a file on the host: a file it
\* replaced is the device's file, unless the device answered FAIL.
PulledIsWhole ==
    cpc = "exited" /\ code[run] = "0" /\ Pulls /\ alone =>
       \A f \in File \ short: host[f] # Host(f) => host[f].data = OnDevice(f).data

\* Each command comes to its exit and each service thread ends, whatever
\* fails: neither end waits for the other for ever.
SyncEnds ==
    <>[](cpc = "exited" /\ run = Len(plan) /\ \A r \in Run: svc[r].pc \in {"none", "closed"})

\* A transfer that succeeds is complete, in either direction.
WholeFiles == PushedIsWhole /\ PulledIsWhole
=============================================================================
