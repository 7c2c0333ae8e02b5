------------------------- MODULE LinearizableReads --------------------------
(***************************************************************************)
(* An application on the Raft library: its state machine tracks client     *)
(* sessions, a writer proposes its requests again until they are           *)
(* committed, copies of a request may still be proposed after the next     *)
(* one, and a reader uses the library's read index or the coordinator of   *)
(* cloud9-raft-io, or nobody reads (api, chosen at the start).             *)
(***************************************************************************)
EXTENDS ReadCoordinator, SessionTracker, SequencesExt

CONSTANTS
    FirstLeader,
    Apis,           \* the read interfaces that may be chosen
    Entries,        \* bound: the length of a log, by interface
    Terms,          \* bound: the last term, by interface
    MaxSequence     \* bound: the requests of the writer

VARIABLES api, sequence, reader

vars == <<raftVars, readVars, coordVars, api, sequence, reader>>
clientVars == <<api, sequence, reader>>

(* The writer is client 1, registered by the first entry.                  *)
Request(s) == [op |-> "request", client |-> 1, sequence |-> s]
Expire == [op |-> "expire", client |-> 1]

NoRead ==
    [node |-> FirstLeader, round |-> 0, read_index |-> 0, floor |-> 0, seen |-> 0,
     phase |-> "idle"]

Init ==
    /\ RaftInit(FirstLeader) /\ ReadIndexInit /\ CoordinatorInit
    /\ api \in Apis
    /\ sequence = 1
    /\ reader = NoRead

-----------------------------------------------------------------------------
(* A step of the replicated log, with what it does to the leaders.         *)
LogStep ==
    /\ reads' = KeepLeaders(reads)
    /\ ClearDeposed
    /\ UNCHANGED <<readMsgs, last_applied, rounds, heartbeats, completed, clientVars>>

Elects ==
    /\ \E n \in Node, Q \in SUBSET Node : term[n] < Terms[api] /\ Elect(n, Q)
    /\ LogStep
Writes(cmd) ==
    /\ \E n \in Node : last_index(log[n]) < Entries[api] /\ AppendCommand(n, cmd)
    /\ LogStep
Follows == (\E l, n \in Node : \E k \in 0 .. MaxLog : Replicate(l, n, k)) /\ LogStep
Commits == (\E l \in Node : \E i \in 1 .. MaxLog : Commit(l, i)) /\ LogStep

Acknowledge ==
    /\ api = "none" /\ sequence < MaxSequence
    /\ \E e \in Range(Committed) : e.cmd = Request(sequence)
    /\ sequence' = sequence + 1
    /\ UNCHANGED <<raftVars, readVars, coordVars, api, reader>>

Advances ==
    /\ api = "library" /\ \E n \in Node : leading[n] /\ advance(n)
    /\ UNCHANGED <<coordVars, clientVars>>

-----------------------------------------------------------------------------
(* The reader of the library: request_read_index, then read_index_ready    *)
(* until it holds, then the state of the node.                             *)
BeginRead(n) ==
    /\ api = "library" /\ reader.phase # "waiting"
    /\ request_read_index(n)
    /\ reader' = [node |-> n, round |-> reads[n].next_read_id, read_index |-> commit[n],
                  floor |-> Len(Committed), seen |-> 0, phase |-> "waiting"]
    /\ UNCHANGED <<coordVars, api, sequence>>

ServeRead ==
    /\ reader.phase = "waiting"
    /\ read_index_ready(reader.node, reader.read_index)
    /\ reader' = [reader EXCEPT !.seen = last_applied[reader.node], !.phase = "served"]
    /\ UNCHANGED <<raftVars, readVars, coordVars, api, sequence>>

GiveUp ==
    /\ reader.phase = "waiting"
    /\ reader' = NoRead
    /\ UNCHANGED <<raftVars, readVars, coordVars, api, sequence>>

ReadMsgArrives ==
    /\ \E m \in readMsgs, n \in Node :
           \/ handle_read_index_request(n, m)
           \/ handle_read_index_response(n, m)
           \/ ReadMsgDeposes(n, m)
    /\ UNCHANGED <<coordVars, clientVars>>

(* The reader of the coordinator.                                          *)
Coordinates ==
    /\ api = "coordinator"
    /\ \/ \E n \in Node : request_read(n) \/ begin_heartbeat_round(n)
       \/ \E n \in Node, h \in heartbeats : AnswerHeartbeat(n, h) \/ record_ack(n, h)
    /\ UNCHANGED <<readVars, clientVars>>

Next ==
    \/ Elects \/ Follows \/ Commits \/ Acknowledge \/ Advances
    \/ \E s \in 1 .. sequence : Writes(Request(s))
    \/ api = "none" /\ Writes(Expire)
    \/ \E n \in Node : BeginRead(n)
    \/ ServeRead \/ GiveUp \/ ReadMsgArrives
    \/ Coordinates

Spec == Init /\ [][Next]_vars

-----------------------------------------------------------------------------
(* The state machine of a replica after the committed entries of n.        *)
Machine(n) ==
    FoldLeft(LAMBDA m, e : apply(m, e.cmd), machine_new, SubSeq(log[n], 1, commit[n]))

(* The requests of a client whose session is alive take effect once each   *)
(* and in order, whatever was proposed twice and by whichever leaders      *)
(* (session.rs: check_duplicate and record_completion).                    *)
ExecutedInOrder ==
    \A n \in Node :
        LET executed == Machine(n).executed
        IN  (\A i \in 1 .. commit[n] : log[n][i].cmd # Expire)
            => \A i \in 1 .. Len(executed) : executed[i] = <<1, i>>

(* read_index_ready tells the reader of a leader's first round when its    *)
(* read may be served: the state it sees then covers all that was          *)
(* committed at the request (mod.rs:318: "Whether a previously requested   *)
(* read index is confirmed and applied").  The answer for a later round    *)
(* may come from an earlier one with the same index.                       *)
FirstReadIsFresh ==
    reader.phase = "served" /\ reader.round = 1 => reader.seen >= reader.floor
=============================================================================
