------------------------------- MODULE Catchup -------------------------------
(***************************************************************************)
(* How one leader brings one follower's log up to date, in one term.       *)
(*                                                                         *)
(* The leader side is Leader.send_append_to, handle_append_response and    *)
(* handle_install_snapshot_response (leader.rs), the follower side         *)
(* Follower.handle_append_request and handle_install_snapshot              *)
(* (follower.rs).  RaftReplication has the append steps for a whole        *)
(* cluster; here nothing else happens, so the logs can be longer, compact, *)
(* and any that an earlier leader may have left behind.                    *)
(*                                                                         *)
(* The links are fair but unreliable: a message in flight may be lost or   *)
(* delivered more than once, and messages overtake each other.  The        *)
(* answers to snapshots are lost only if SnapshotAnswersLost.              *)
(*                                                                         *)
(* A log gets compact while its node is down: nothing in the library calls *)
(* truncate_prefix but install_snapshot, so the I/O layer restores it so.  *)
(***************************************************************************)
EXTENDS CompactLog, FiniteSets

CONSTANTS
    LeaderTerm,         \* the term of the leader
    StartLogs,          \* records [leader, follower, commit]: the logs at its
                        \* election, and the follower's commit index
    MaxLog,             \* bound: no proposal beyond this log length
    MaxInFlight,        \* bound: messages in flight in one direction
    MaxEntriesPerMsg,   \* Config.max_entries_per_msg
    Pipelining,         \* Config.pipelining
    SnapshotAnswersLost

ASSUME CatchupAssumption ==
    /\ {LeaderTerm, MaxLog, MaxInFlight, MaxEntriesPerMsg} \subseteq Nat
    /\ {Pipelining, SnapshotAnswersLost} \subseteq BOOLEAN

VARIABLES
    leader_log, follower_log,
    leader_commit, commit_index,    \* the leader's and the follower's
    next_index, match_index,        \* the leader's, for this follower
    requests, responses,            \* in flight
    installs, installed             \* snapshots and their answers, in flight

appendLinks == <<requests, responses>>
snapshotLinks == <<installs, installed>>
leaderVars == <<leader_log, leader_commit>>
followerVars == <<follower_log, commit_index>>
vars == <<leaderVars, followerVars, next_index, match_index, appendLinks, snapshotLinks>>

(* The leader has just been restored: its commit index is 0.               *)
Init ==
    \E logs \in StartLogs :
        /\ leader_log = logs.leader
        /\ follower_log = logs.follower
        /\ leader_commit = 0
        /\ commit_index = logs.commit
        /\ next_index = last_index(logs.leader) + 1
        /\ match_index = 0
        /\ requests = {} /\ responses = {} /\ installs = {} /\ installed = {}

-----------------------------------------------------------------------------
AppendRequest(lg, next) ==
    [prev_log_index |-> next - 1, prev_log_term |-> term_at(lg, next - 1),
     entries |-> entries_to_send(lg, next, MaxEntriesPerMsg), leader_commit |-> leader_commit]

AppendResponse(success, lastIndex) == [success |-> success, last_log_index |-> lastIndex]

(* The contents of a link after m is put on it: a full one loses another   *)
(* message.                                                                *)
Put(link, m) ==
    IF Cardinality(link \cup {m}) <= MaxInFlight
    THEN {link \cup {m}}
    ELSE {(link \ {lost}) \cup {m} : lost \in link}

(* Leader.send_append_to: a snapshot, if the next entry is discarded.  The *)
(* I/O layer sends the InstallSnapshot request.                            *)
send_append(lg, next) ==
    IF next <= lg.snapshot_index
    THEN /\ installs' = {[last_included_index |-> lg.snapshot_index,
                          last_included_term |-> lg.snapshot_term]}
         /\ next_index' = next
         /\ UNCHANGED requests
    ELSE /\ requests' \in Put(requests, AppendRequest(lg, next))
         /\ next_index' = next_after_send(lg, next, MaxEntriesPerMsg, Pipelining)
         /\ UNCHANGED installs

Heartbeat ==
    /\ send_append(leader_log, next_index)
    /\ UNCHANGED <<leaderVars, followerVars, match_index, responses, installed>>

Propose ==
    /\ last_index(leader_log) < MaxLog
    /\ leader_log' = append(leader_log, [term |-> LeaderTerm])
    /\ send_append(leader_log', next_index)
    /\ UNCHANGED <<leader_commit, followerVars, match_index, responses, installed>>

(* Follower.handle_append_request.  Delivery may leave the request in      *)
(* flight, to be delivered again.                                          *)
FollowerAppends(m) ==
    /\ m \in requests
    /\ requests' \in {requests, requests \ {m}}
    /\ LET accepted == consistent(follower_log, m.prev_log_index, m.prev_log_term)
       IN  /\ follower_log' = IF accepted
                              THEN append_entries(follower_log, m.prev_log_index, m.entries)
                              ELSE follower_log
           /\ commit_index' = IF accepted /\ m.leader_commit > commit_index
                              THEN Min({m.leader_commit, last_index(follower_log')})
                              ELSE commit_index
           /\ responses' \in Put(responses, AppendResponse(accepted, last_index(follower_log')))
    /\ UNCHANGED <<leaderVars, next_index, match_index, snapshotLinks>>

(* Follower.handle_install_snapshot: a snapshot that is not newer than     *)
(* ours, or does not fit what is committed, is refused.                    *)
Faulty_refuses_snapshot(m) == m.last_included_index < follower_log.snapshot_index

refuses_snapshot(m) ==
    \/ m.last_included_index <= follower_log.snapshot_index
    \/ /\ m.last_included_index < commit_index
       /\ ~snapshot_matches_prefix(follower_log, m.last_included_index, m.last_included_term)

FollowerInstalls(m) ==
    /\ m \in installs
    /\ installs' \in {installs, installs \ {m}}
    /\ IF refuses_snapshot(m) THEN UNCHANGED followerVars
       ELSE /\ follower_log' = install_snapshot(follower_log, m.last_included_index,
                                                m.last_included_term)
            /\ commit_index' = Max({commit_index, m.last_included_index})
    /\ installed' = installed \cup {[success |-> ~refuses_snapshot(m),
                                     last_included_index |-> m.last_included_index]}
    /\ UNCHANGED <<leaderVars, next_index, match_index, appendLinks>>

-----------------------------------------------------------------------------
(* maybe_commit, for a group of these two nodes: our own log counts.       *)
maybe_commit(match) ==
    LET replicated == {i \in leader_commit + 1 .. last_index(leader_log) :
                          term_at(leader_log, i) = LeaderTerm /\ match >= i}
    IN  /\ leader_commit' = IF replicated = {} THEN leader_commit ELSE Max(replicated)
        /\ UNCHANGED leader_log

(* Leader.handle_append_response.                                          *)
Faulty_AppendSucceeded(m) ==
    /\ m.success
    /\ match_index' = next_index - 1
    /\ maybe_commit(match_index')
    /\ UNCHANGED <<next_index, requests, installs>>

AppendSucceeded(m) ==
    /\ m.success
    /\ match_index' = m.last_log_index
    /\ next_index' = IF Pipelining THEN next_index ELSE m.last_log_index + 1
    /\ maybe_commit(match_index')
    /\ UNCHANGED <<requests, installs>>

Faulty_AppendRejected(m) ==
    /\ ~m.success
    /\ send_append(leader_log, next_index)
    /\ UNCHANGED <<match_index, leaderVars>>

AppendRejected(m) ==
    /\ ~m.success
    /\ send_append(leader_log, next_after_rejection(match_index, m.last_log_index, Pipelining))
    /\ UNCHANGED <<match_index, leaderVars>>

LeaderReceives(m) ==
    /\ m \in responses
    /\ responses' \in {responses, responses \ {m}}
    /\ AppendSucceeded(m) \/ AppendRejected(m)
    /\ UNCHANGED <<followerVars, installed>>

(* Leader.handle_install_snapshot_response.                                *)
SnapshotAnswered(m) ==
    /\ m \in installed
    /\ installed' \in {installed, installed \ {m}}
    /\ IF m.success /\ m.last_included_index > match_index
       THEN /\ match_index' = m.last_included_index
            /\ next_index' = m.last_included_index + 1
            /\ maybe_commit(match_index')
       ELSE UNCHANGED <<match_index, next_index, leaderVars>>
    /\ UNCHANGED <<followerVars, appendLinks, installs>>

Lose ==
    /\ \/ \E m \in requests : requests' = requests \ {m} /\ UNCHANGED <<responses, snapshotLinks>>
       \/ \E m \in responses : responses' = responses \ {m} /\ UNCHANGED <<requests, snapshotLinks>>
       \/ \E m \in installs : installs' = installs \ {m} /\ UNCHANGED <<appendLinks, installed>>
       \/ \E m \in installed : /\ SnapshotAnswersLost
                                /\ installed' = installed \ {m}
                                /\ UNCHANGED <<appendLinks, installs>>
    /\ UNCHANGED <<leaderVars, followerVars, next_index, match_index>>

Next ==
    \/ Heartbeat
    \/ Propose
    \/ \E m \in requests : FollowerAppends(m)
    \/ \E m \in responses : LeaderReceives(m)
    \/ \E m \in installs : FollowerInstalls(m)
    \/ \E m \in installed : SnapshotAnswered(m)
    \/ Lose

(* The leader's ticks keep coming, and what is sent again and again is     *)
(* received again and again: requests for one position of the log, and     *)
(* answers with one content.  Every duplicate is the last one some time.   *)
ReceiveRequest(i) ==
    \E m \in requests : m.prev_log_index = i /\ FollowerAppends(m) /\ m \notin requests'

ReceiveResponse(m) == LeaderReceives(m) /\ m \notin responses'

ReceiveInstall == \E m \in installs : FollowerInstalls(m) /\ m \notin installs'

ReceiveInstalled ==
    \E m \in installed : m.success /\ SnapshotAnswered(m) /\ m \notin installed'

Responses == [success : BOOLEAN, last_log_index : 0 .. MaxLog]

Installed == [success : BOOLEAN, last_included_index : 1 .. MaxLog]

Spec ==
    /\ Init /\ [][Next]_vars
    /\ WF_vars(Heartbeat)
    /\ \A i \in 0 .. MaxLog : SF_vars(ReceiveRequest(i))
    /\ \A m \in Responses : SF_vars(ReceiveResponse(m))
    /\ SF_vars(ReceiveInstall)
    /\ SF_vars(ReceiveInstalled)

-----------------------------------------------------------------------------
Entry == [term : 1 .. LeaderTerm]

(* Logs with entries in term order, and the ways to compact them.          *)
FullLogs == {es \in UNION {[1 .. k -> Entry] : k \in 0 .. MaxLog} :
                \A i \in 2 .. Len(es) : es[i - 1].term <= es[i].term}

Compacted(es, i) ==
    CompactLog(i, IF i = 0 THEN 0 ELSE es[i].term, SubSeq(es, i + 1, Len(es)))

Log == {Compacted(es, i) : <<es, i>> \in {x \in FullLogs \X (0 .. MaxLog) : x[2] <= Len(x[1])}}

(* Logs are in term order, the follower holds no entry the leader's term   *)
(* could not explain, and messages name positions in a log.                *)
TypeOK ==
    /\ leader_log \in Log
    /\ follower_log \in Log
    /\ {leader_commit, commit_index, match_index} \subseteq 0 .. MaxLog
    /\ next_index \in 1 .. MaxLog + 1
    /\ \A m \in requests : m.prev_log_index \in 0 .. MaxLog
    /\ responses \subseteq Responses
    /\ installed \subseteq Installed

(* The logs hold the same entry at i, as far as it is not discarded.       *)
Agree(i) ==
    \/ i < Max({leader_log.snapshot_index, follower_log.snapshot_index})
    \/ term_at(follower_log, i) = term_at(leader_log, i)

(* match_index is the "highest index known to be replicated" on the        *)
(* follower (leader.rs, struct Leader): up to there the follower has the   *)
(* leader's entries or a snapshot of them.  This is what                   *)
(* advance_commit_index relies on when it counts replicas.                 *)
MatchIsReplicated ==
    match_index <= last_index(follower_log) /\ \A i \in 1 .. match_index : Agree(i)

(* No append and no snapshot, however late or often it arrives, costs the  *)
(* follower an entry it knows to be committed (handle_install_snapshot     *)
(* refuses snapshots that are not newer).                                  *)
KeepsCommitted ==
    commit_index <= last_index(follower_log) /\ \A i \in 1 .. commit_index : Agree(i)

(* A follower that stays reachable ends up with the leader's log, however  *)
(* many messages are lost, duplicated or reordered on the way              *)
(* (spec/10-consensus.md, "conflicting log repair").                       *)
CaughtUp ==
    /\ last_index(follower_log) = last_index(leader_log)
    /\ \A i \in 1 .. last_index(leader_log) : Agree(i)

Converges == <>[]CaughtUp

(* ... which the library achieves if the follower lacks no entry that the  *)
(* leader has discarded, and nothing of its log has to be replaced.        *)
ConvergesByAppends ==
    last_index(follower_log) >= leader_log.snapshot_index => Converges
=============================================================================
