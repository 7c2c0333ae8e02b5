------------------------------ MODULE RaftCore ------------------------------
(***************************************************************************)
(* State shared by the four roles of a Raft node (raft/core.rs and the     *)
(* role structs), the messages (raft/event.rs) and the role transitions    *)
(* of raft/mod.rs (apply_transition).                                      *)
(*                                                                         *)
(* Membership is fixed: every server is a voter of the bootstrap           *)
(* configuration and no configuration entry is ever proposed, which is how *)
(* cloud9-node runs the library.                                           *)
(*                                                                         *)
(* Time.  Ticks are not counted.  heard[n] is the value of                 *)
(* recently_heard_from_leader: fewer than election_timeout.min ticks since *)
(* the last contact.  A deadline is never earlier than that many ticks     *)
(* after the contact that set it, so an election timeout needs ~heard[n].  *)
(* With a minimum of 0 no contact is ever recent.                          *)
(*                                                                         *)
(* Network.  msgs holds every message ever sent.  Receiving one leaves it  *)
(* there, so messages may be delayed, reordered, duplicated, or never      *)
(* received at all, as cloud9-raft-io/src/transport.rs allows.  A handler  *)
(* that neither changes state nor answers is a stuttering step.            *)
(***************************************************************************)
EXTENDS RaftLog, FiniteSets

CONSTANTS
    Server,             \* the voters
    None,               \* Option::None
    Command,            \* command payloads
    MaxTerm,            \* bound: no election beyond this term
    MaxLog,             \* bound: no proposal beyond this log length
    MaxEntriesPerMsg,   \* Config.max_entries_per_msg
    MaxUncommitted,     \* Config.max_uncommitted_entries
    ElectionTimeoutMin, \* Config.election_timeout.0; only 0 or not 0 matters
    PreVote,            \* Config.prevote
    Pipelining,         \* Config.pipelining
    ParallelDiskWrite,  \* Config.parallel_disk_write
    Campaigners,        \* bound: Campaigners[t] may start an election for term t
    Proposers,          \* bound: the servers clients send commands to
    Down,               \* bound: the servers that receive nothing
    Crashing,           \* bound: the servers that may crash and restart
    TransferTargets     \* bound: the servers leadership may be transferred to

ASSUME ServerAssumption == IsFiniteSet(Server) /\ Server # {} /\ None \notin Server

ASSUME BoundAssumption ==
    /\ MaxTerm \in Nat /\ MaxLog \in Nat
    /\ MaxEntriesPerMsg \in Nat /\ MaxUncommitted \in Nat /\ ElectionTimeoutMin \in Nat

ASSUME OptionAssumption ==
    /\ PreVote \in BOOLEAN /\ Pipelining \in BOOLEAN
    /\ ParallelDiskWrite \in BOOLEAN
    /\ Campaigners \in [1 .. MaxTerm -> SUBSET Server]
    /\ Proposers \subseteq Server /\ Down \subseteq Server /\ Crashing \subseteq Server
    /\ TransferTargets \subseteq Server

VARIABLES
    term, voted_for, log,       \* Persistent, in memory
    stable,                     \* Persistent, as last written to disk
    commit_index,
    role,
    leader,                     \* Follower.leader
    heard,                      \* recently_heard_from_leader
    votes,                      \* PreCandidate.pre_votes or Candidate.votes
    next_index, match_index,    \* Leader
    msgs

persistentVars == <<term, voted_for, log, stable>>
roleVars == <<role, leader, heard, votes>>
leaderVars == <<next_index, match_index>>
vars == <<term, voted_for, log, stable, commit_index, role, leader, heard,
          votes, next_index, match_index, msgs>>

Roles == {"Follower", "PreCandidate", "Candidate", "Leader"}

-----------------------------------------------------------------------------
(* Configuration::has_quorum for a simple configuration of all servers.    *)
has_quorum(S) == Cardinality(S) > Cardinality(Server) \div 2

(* RPC payloads (event.rs).                                                *)
PreVoteRequest(from, to, t, lg) ==
    [kind |-> "PreVoteRequest", from |-> from, to |-> to, term |-> t, next_term |-> t + 1,
     last_log_index |-> last_index(lg), last_log_term |-> last_term(lg)]

PreVoteResponse(from, to, t, respTerm, granted) ==
    [kind |-> "PreVoteResponse", from |-> from, to |-> to, term |-> t,
     resp_term |-> respTerm, granted |-> granted]

VoteRequest(from, to, t, lg) ==
    [kind |-> "VoteRequest", from |-> from, to |-> to, term |-> t,
     last_log_index |-> last_index(lg), last_log_term |-> last_term(lg)]

VoteResponse(from, to, t, granted) ==
    [kind |-> "VoteResponse", from |-> from, to |-> to, term |-> t, granted |-> granted]

AppendRequest(from, to, t, lg, next, commit) ==
    [kind |-> "AppendRequest", from |-> from, to |-> to, term |-> t,
     prev_log_index |-> next - 1, prev_log_term |-> term_at(lg, next - 1),
     entries |-> entries_to_send(lg, next, MaxEntriesPerMsg), leader_commit |-> commit]

AppendResponse(from, to, t, success, lastIndex) ==
    [kind |-> "AppendResponse", from |-> from, to |-> to, term |-> t,
     success |-> success, last_log_index |-> lastIndex]

TimeoutNow(from, to, t) ==
    [kind |-> "TimeoutNow", from |-> from, to |-> to, term |-> t]

(* Answers their receiver would ignore now, and so for ever, since no      *)
(* server's term decreases: a denial or an outdated grant of no higher     *)
(* term than its own.  The network may lose them; the model always does.   *)
Ignored(m) ==
    \/ m.kind = "VoteResponse" /\ ~m.granted /\ m.term <= term[m.to]
    \/ /\ m.kind = "PreVoteResponse" /\ m.term <= term[m.to]
       /\ IF m.granted THEN m.resp_term < term[m.to] ELSE m.resp_term <= term[m.to]
    \/ m.kind = "AppendResponse" /\ m.term < term[m.to]

Send(ms) == msgs' = msgs \cup {m \in ms : ~Ignored(m)}

(* Effects.persist: the runtime saves the state before it sends anything.  *)
Faulty_Persist(n) ==
    stable' = [stable EXCEPT ![n].term = term'[n], ![n].log = log'[n]]

Persist(n) ==
    stable' = [stable EXCEPT ![n] =
                  [term |-> term'[n], voted_for |-> voted_for'[n], log |-> log'[n]]]

-----------------------------------------------------------------------------
(* apply_transition(ToFollower / ToFollowerAfterContact).                  *)
NoProgress == [s \in Server |-> 0]

ToFollower(n, knownLeader, contact) ==
    /\ role' = [role EXCEPT ![n] = "Follower"]
    /\ leader' = [leader EXCEPT ![n] = knownLeader]
    /\ heard' = [heard EXCEPT ![n] = contact /\ ElectionTimeoutMin > 0]
    /\ votes' = [votes EXCEPT ![n] = {}]
    /\ next_index' = [next_index EXCEPT ![n] = NoProgress]
    /\ match_index' = [match_index EXCEPT ![n] = NoProgress]

(* Leader::new starts every peer right after our own log.                  *)
Faulty_initial_next(lg) == [s \in Server |-> last_index(lg)]

initial_next(lg) == [s \in Server |-> last_index(lg) + 1]

(* Leader::new in term t, which sends the first heartbeats.                *)
ToLeader(n, t) ==
    /\ role' = [role EXCEPT ![n] = "Leader"]
    /\ leader' = [leader EXCEPT ![n] = None]
    /\ heard' = [heard EXCEPT ![n] = FALSE]
    /\ votes' = [votes EXCEPT ![n] = {}]
    /\ next_index' = [next_index EXCEPT ![n] = initial_next(log[n])]
    /\ match_index' = [match_index EXCEPT ![n] =
                          [s \in Server |-> IF s = n /\ ~ParallelDiskWrite
                                            THEN last_index(log[n]) ELSE 0]]
    /\ Send({AppendRequest(n, p, t, log[n], initial_next(log[n])[p], commit_index[n]) :
                 p \in Server \ {n}})

(* The bound on elections.                                                 *)
MayCampaign(n, t) == t < MaxTerm /\ n \in Campaigners[t + 1]

(* Candidate::new after term t: next term, vote for ourselves, persist,    *)
(* ask everyone; a single voter has won already.                           *)
ToCandidate(n, t, contact) ==
    /\ MayCampaign(n, t)
    /\ term' = [term EXCEPT ![n] = t + 1]
    /\ voted_for' = [voted_for EXCEPT ![n] = n]
    /\ UNCHANGED <<log, commit_index>>
    /\ Persist(n)
    /\ IF has_quorum({n})
       THEN ToLeader(n, t + 1)
       ELSE /\ role' = [role EXCEPT ![n] = "Candidate"]
            /\ leader' = [leader EXCEPT ![n] = None]
            /\ heard' = [heard EXCEPT ![n] = contact /\ ElectionTimeoutMin > 0]
            /\ votes' = [votes EXCEPT ![n] = {n}]
            /\ Send({VoteRequest(n, p, t + 1, log[n]) : p \in Server \ {n}})
            /\ UNCHANGED leaderVars

(* PreCandidate::new: the term stays, nothing is persisted.                *)
ToPreCandidate(n) ==
    IF has_quorum({n})
    THEN ToCandidate(n, term[n], FALSE)
    ELSE /\ MayCampaign(n, term[n])
         /\ role' = [role EXCEPT ![n] = "PreCandidate"]
         /\ leader' = [leader EXCEPT ![n] = None]
         /\ heard' = [heard EXCEPT ![n] = FALSE]
         /\ votes' = [votes EXCEPT ![n] = {n}]
         /\ Send({PreVoteRequest(n, p, term[n], log[n]) : p \in Server \ {n}})
         /\ UNCHANGED <<persistentVars, commit_index, leaderVars>>
=============================================================================
