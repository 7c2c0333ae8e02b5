-------------------------- MODULE ReadCoordinator ---------------------------
(***************************************************************************)
(* The read-index coordinator of cloud9-raft-io (read_index.rs), driven    *)
(* the way its documentation says: request_read when a client wants to     *)
(* read, begin_heartbeat_round before heartbeats are sent, record_ack on   *)
(* each successful response, clear when the node stops leading.            *)
(*                                                                         *)
(* The code's heartbeats and responses carry the term and no round number: *)
(* round, in a message, and late, asked, floor and confirmed are history   *)
(* that no guard reads.                                                    *)
(***************************************************************************)
EXTENDS ReadIndex

CONSTANTS
    Coordinators,   \* bound: the nodes whose clients read through a coordinator
    MaxRounds       \* bound: the heartbeat rounds of one leader

VARIABLES
    coord,          \* coord[n]: the coordinator of node n
    heartbeats,     \* heartbeat requests and successful responses
    completed       \* history: the reads that completed

coordVars == <<coord, heartbeats, completed>>

(* late: an acknowledgement of an earlier round was counted in this one.   *)
NewCoordinator ==
    [next_read_id |-> 0, current_round |-> 0, round_acks |-> {}, pending |-> {}, late |-> FALSE]

CoordinatorInit ==
    /\ coord = [n \in Node |-> NewCoordinator]
    /\ heartbeats = {}
    /\ completed = {}

check_quorum(c) == Quorum(c.round_acks)

(* c with the acknowledgements of a round; a quorum completes all reads.   *)
(* It confirms those that were asked for before the round began, unless a  *)
(* late acknowledgement was counted.                                       *)
AfterAcks(n, c) ==
    LET done == IF check_quorum(c) THEN {r \in c.pending : r.round <= c.current_round} ELSE {}
    IN  /\ coord' = [coord EXCEPT ![n] = [c EXCEPT !.pending = @ \ done]]
        /\ completed' = completed \cup
               {[read_index |-> r.read_index, floor |-> r.floor,
                 confirmed |-> r.asked < c.current_round /\ ~c.late] : r \in done}

(* request_read leaves it to its caller to check that the leader has       *)
(* committed in its term.  can_serve_reads, which its documentation names, *)
(* also asks for a confirmed round of the library's own read index, which  *)
(* a user of the coordinator does not run; the weaker guard has more       *)
(* behaviours.  floor: what is committed when the read is asked for.       *)
request_read(n) ==
    /\ n \in Coordinators /\ leading[n] /\ current_term_committed(n)
    /\ coord[n].next_read_id < MaxReads
    /\ coord' = [coord EXCEPT
           ![n].next_read_id = @ + 1,
           ![n].pending = @ \cup {[id |-> coord[n].next_read_id, read_index |-> commit[n],
                                   round |-> coord[n].current_round,
                                   asked |-> coord[n].current_round,
                                   floor |-> Len(Committed)]}]
    /\ UNCHANGED <<raftVars, heartbeats, completed>>

(* The acknowledgements a round starts with.                               *)
Faulty_first_acks(n, c) == c.round_acks \cup {n}

first_acks(n, c) == {n}

begin_heartbeat_round(n) ==
    LET c == coord[n]
        round == c.current_round + 1
    IN  /\ n \in Coordinators /\ leading[n] /\ round <= MaxRounds
        /\ heartbeats' = heartbeats \cup {[kind |-> "heartbeat", from |-> n, to |-> m,
                                           term |-> term[n], round |-> round] :
                                           m \in Node \ {n}}
        /\ AfterAcks(n, [c EXCEPT !.current_round = round, !.round_acks = first_acks(n, c),
                                  !.late = FALSE,
                                  !.pending = {[r EXCEPT !.round = round] : r \in @}])
        /\ UNCHANGED raftVars

(* A follower accepts the heartbeat.                                       *)
AnswerHeartbeat(n, h) ==
    /\ h.kind = "heartbeat" /\ h.to = n
    /\ ~leading[n] /\ h.term >= term[n]
    /\ term' = [term EXCEPT ![n] = h.term]
    /\ heartbeats' = heartbeats \cup {[kind |-> "ack", from |-> n, to |-> h.from,
                                       term |-> h.term, round |-> h.round]}
    /\ UNCHANGED <<leading, log, commit, match, coord, completed>>

record_ack(n, h) ==
    /\ h.kind = "ack" /\ h.to = n
    /\ leading[n] /\ h.term = term[n]
    /\ h.from \notin coord[n].round_acks
    /\ AfterAcks(n, [coord[n] EXCEPT !.round_acks = @ \cup {h.from},
                                     !.late = @ \/ h.round # coord[n].current_round])
    /\ UNCHANGED <<raftVars, heartbeats>>

(* clear, for every node that stops leading in a step.                     *)
ClearDeposed ==
    coord' = [n \in Node |-> IF leading[n] /\ ~leading'[n]
                             THEN [coord[n] EXCEPT !.pending = {}, !.round_acks = {}]
                             ELSE coord[n]]

-----------------------------------------------------------------------------
(* A majority's acknowledgements of a round that began after a read was    *)
(* asked for show that no other leader had committed past its read_index   *)
(* (read_index.rs:9-12: "waits for majority acknowledgment", "guaranteed  *)
(* to still be leader"), with an election, a rival's commits and answers   *)
(* to any earlier round in between.                                        *)
ConfirmedReadsAreFresh == \A r \in completed : r.confirmed => r.read_index >= r.floor
=============================================================================
