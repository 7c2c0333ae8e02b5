----------------------------- MODULE ReadIndex ------------------------------
(***************************************************************************)
(* The read index of the Raft library (leader.rs, follower.rs): a leader   *)
(* notes its commit index, asks all voters whether it still leads, and     *)
(* the read may be served once a quorum has answered and the state machine *)
(* has reached the index.                                                  *)
(*                                                                         *)
(* Requests and responses stay in readMsgs: they may arrive late, in any   *)
(* order, more than once, or never.                                        *)
(***************************************************************************)
EXTENDS ReplicatedLog

CONSTANT MaxReads       \* bound: the read-index rounds of one leader

VARIABLES
    reads,          \* reads[n]: the read-index part of n's Leader
    readMsgs,
    last_applied,
    rounds          \* history: the rounds that were confirmed

readVars == <<reads, readMsgs, last_applied, rounds>>

NoPending == [id |-> 0, read_index |-> 0, floor |-> 0, acks |-> {}]
NewLeader == [next_read_id |-> 1, pending |-> NoPending, confirmed |-> 0]

ReadIndexInit ==
    /\ reads = [n \in Node |-> NewLeader]
    /\ readMsgs = {}
    /\ last_applied = commit
    /\ rounds = {}

(* What is left of the Leader records after a step: a node that stops      *)
(* leading drops its own.                                                  *)
KeepLeaders(rs) ==
    [n \in Node |-> IF leading[n] /\ leading'[n] /\ term'[n] = term[n]
                    THEN rs[n] ELSE NewLeader]

ReadMsg(kind, from, to, t, round) ==
    [kind |-> kind, from |-> from, to |-> to, term |-> t,
     id |-> round.id, read_index |-> round.read_index]

(* current_term_commit_index is some: the last committed entry has the     *)
(* leader's term.                                                          *)
current_term_committed(n) ==
    commit[n] > 0 /\ log[n][commit[n]].term = term[n]

-----------------------------------------------------------------------------
(* A round whose floor is what was committed anywhere when it began.       *)
request_read_index(n) ==
    LET id == reads[n].next_read_id
        round == [id |-> id, read_index |-> commit[n], floor |-> Len(Committed), acks |-> {n}]
    IN  /\ leading[n] /\ id <= MaxReads
        /\ reads[n].pending = NoPending
        /\ current_term_committed(n)
        /\ reads' = [reads EXCEPT ![n].next_read_id = @ + 1, ![n].pending = round]
        /\ readMsgs' = readMsgs \cup
               {ReadMsg("request", n, to, term[n], round) : to \in Node \ {n}}
        /\ UNCHANGED <<raftVars, last_applied, rounds>>

(* A follower answers with its term, whether the request is stale or not.  *)
handle_read_index_request(n, m) ==
    /\ m.kind = "request" /\ m.to = n /\ ~leading[n]
    /\ term' = [term EXCEPT ![n] = Max({@, m.term})]
    /\ readMsgs' = readMsgs \cup {ReadMsg("response", n, m.from, term'[n], m)}
    /\ UNCHANGED <<leading, log, commit, match, reads, last_applied, rounds>>

(* A leader that sees a higher term steps down.                            *)
StepDown(n, t) ==
    /\ leading[n] /\ t > term[n]
    /\ term' = [term EXCEPT ![n] = t]
    /\ leading' = [leading EXCEPT ![n] = FALSE]
    /\ match' = [match EXCEPT ![n] = Nothing]
    /\ UNCHANGED <<log, commit>>

ReadMsgDeposes(n, m) ==
    /\ m.to = n /\ StepDown(n, m.term)
    /\ reads' = KeepLeaders(reads)
    /\ UNCHANGED <<readMsgs, last_applied, rounds>>

Faulty_answers(p, m) == p # NoPending /\ p.read_index = m.read_index

answers(p, m) == p # NoPending /\ p.id = m.id /\ p.read_index = m.read_index

handle_read_index_response(n, m) ==
    LET p == reads[n].pending
        acks == p.acks \cup {m.from}
    IN  /\ m.kind = "response" /\ m.to = n
        /\ leading[n] /\ m.term = term[n]
        /\ answers(p, m)
        /\ IF Quorum(acks)
           THEN /\ reads' = [reads EXCEPT ![n].pending = NoPending,
                                          ![n].confirmed = Max({@, p.read_index})]
                /\ rounds' = rounds \cup {[read_index |-> p.read_index, floor |-> p.floor]}
           ELSE /\ reads' = [reads EXCEPT ![n].pending.acks = acks]
                /\ UNCHANGED rounds
        /\ UNCHANGED <<raftVars, readMsgs, last_applied>>

Faulty_read_index_ready(n, index) == leading[n] /\ last_applied[n] >= index

read_index_ready(n, index) ==
    leading[n] /\ reads[n].confirmed >= index /\ last_applied[n] >= index

(* The driver has applied entries and calls advance.                       *)
advance(n) ==
    /\ last_applied[n] < commit[n]
    /\ last_applied' = [last_applied EXCEPT ![n] = commit[n]]
    /\ UNCHANGED <<raftVars, reads, readMsgs, rounds>>

-----------------------------------------------------------------------------
(* A confirmed round is current: its read index covers everything any node *)
(* knew to be committed when the round began, whoever leads by then        *)
(* (mod.rs:310: "Start a linearizable read-index quorum round").           *)
RoundsAreFresh == \A r \in rounds : r.read_index >= r.floor
=============================================================================
