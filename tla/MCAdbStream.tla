---------------------------- MODULE MCAdbStream ----------------------------
(***************************************************************************)
(* The streams of both adb ends, and the event loop under each of them: a  *)
(* behaviour runs one of them while the other rests.                       *)
(*                                                                         *)
(* One stream with every fault, two streams of a server that is restarted, *)
(* and one stream whose link holds, with and without other faults. Three   *)
(* events on two descriptors, two kinds of events.                         *)
(***************************************************************************)
EXTENDS AdbStream, FdEvent
CONSTANTS f1, f2, f3, R, W
VARIABLE part

Load(s, h, d, r, f) ==
    [streams |-> s, data |-> [e \in Ends |-> IF e = Host THEN h ELSE d], restarts |-> r, faults |-> f]

MCLoads == {Load(1, 2, 2, 1, {"link", "write", "hangup"}), Load(1, 3, 3, 0, {}),
            Load(1, 2, 2, 0, {"write", "hangup"}),
            Load(2, 1, 0, 1, {}), Load(2, 0, 1, 1, {})}

MCFdes == {f1, f2, f3}
MCFds == {0, 1}
MCEvents == {R, W}

\* Nobody is connected.
StreamsIdle ==
    /\ load = Load(1, 0, 0, 0, {})
    /\ sock = [e \in Ends |-> [i \in Ids |-> Free]]
    /\ next_id = [e \in Ends |-> 1]
    /\ chan = [e \in Ends |-> <<>>]
    /\ online = [e \in Ends |-> FALSE]
    /\ transport = [e \in Ends |-> "up"]
    /\ io = [e \in Ends |-> [k \in Streams |->
                 [made |-> 0, taken |-> 0, eof |-> FALSE, got |-> <<>>]]]
    /\ status = [k \in Streams |-> "none"]
    /\ clients = 0
    /\ restarts = 0

LoopInit ==
    \/ part = "streams" /\ Init /\ FdInit
    \/ part = "events" /\ StreamsIdle /\ FdInit

LoopNext ==
    \/ part = "streams" /\ Next /\ UNCHANGED <<fdvars, part>>
    \/ part = "events" /\ FdNext /\ UNCHANGED <<vars, part>>

LoopSpec ==
    /\ LoopInit /\ [][LoopNext]_<<vars, fdvars, part>>
    /\ \A e \in Ends : /\ WF_vars(part = "streams" /\ HandlePacket(e))
                        /\ WF_vars(part = "streams" /\ TransportEnds(e))
    /\ \A e \in Ends : \A i \in Ids : WF_vars(part = "streams" /\ LocalEvent(e, i))
    /\ \A i \in Ids : WF_vars(part = "streams" /\ SmartEvent(i))
=============================================================================
