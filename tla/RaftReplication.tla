-------------------------- MODULE RaftReplication --------------------------
(***************************************************************************)
(* Log replication: the append side of leader.rs and of the other roles.   *)
(***************************************************************************)
EXTENDS RaftElection

(* advance_commit_index: the highest entry of the current term that a      *)
(* quorum of match_index reaches, or the old commit index.                 *)
advance_commit_index(t, lg, match, commit) ==
    LET replicated == {i \in commit + 1 .. last_index(lg) :
                          /\ term_at(lg, i) = t
                          /\ has_quorum({s \in Server : match[s] >= i})}
    IN  IF replicated = {} THEN commit ELSE Max(replicated)

(* broadcast_append with the log, commit index and next_index given.       *)
broadcast_append(n, lg, commit) ==
    /\ Send({AppendRequest(n, p, term[n], lg, next_index[n][p], commit) : p \in Server \ {n}})
    /\ next_index' = [next_index EXCEPT ![n] =
                         [p \in Server |->
                             IF p = n THEN @[p]
                             ELSE next_after_send(lg, @[p], MaxEntriesPerMsg, Pipelining)]]

-----------------------------------------------------------------------------
(* Leader.handle_tick at the heartbeat deadline.                           *)
Heartbeat(n) ==
    /\ role[n] = "Leader"
    /\ broadcast_append(n, log[n], commit_index[n])
    /\ UNCHANGED <<persistentVars, commit_index, roleVars, match_index>>

(* Leader.propose: the entry goes to the end of our log, and unless the    *)
(* disk write runs in parallel it counts as replicated on ourselves.       *)
Faulty_with_proposal(lg, t, cmd) ==
    Append(SelectSeq(lg, LAMBDA e : e.term = t), [term |-> t, cmd |-> cmd])

with_proposal(lg, t, cmd) == Append(lg, [term |-> t, cmd |-> cmd])

Faulty_match_after_proposal(n, lg) == [match_index[n] EXCEPT ![n] = last_index(lg)]

match_after_proposal(n, lg) ==
    IF ParallelDiskWrite THEN match_index[n]
    ELSE [match_index[n] EXCEPT ![n] = last_index(lg)]

(* RaftNode.propose: throttled by the number of uncommitted entries.       *)
Propose(n, cmd) ==
    /\ n \in Proposers
    /\ role[n] = "Leader"
    /\ last_index(log[n]) - commit_index[n] < MaxUncommitted
    /\ last_index(log[n]) < MaxLog
    /\ LET lg == with_proposal(log[n], term[n], cmd)
           match == match_after_proposal(n, lg)
           commit == advance_commit_index(term[n], lg, match, commit_index[n])
       IN  /\ log' = [log EXCEPT ![n] = lg]
           /\ match_index' = [match_index EXCEPT ![n] = match]
           /\ commit_index' = [commit_index EXCEPT ![n] = commit]
           /\ broadcast_append(n, lg, commit)
    /\ UNCHANGED <<term, voted_for, roleVars>>
    /\ IF ParallelDiskWrite THEN UNCHANGED stable ELSE Persist(n)

(* Leader.handle_disk_write_complete: with parallel disk writes the I/O    *)
(* layer saves a proposal after it was sent, and reports that our own log  *)
(* is durable up to an index.                                              *)
DiskWriteComplete(n, i) ==
    /\ ParallelDiskWrite
    /\ role[n] = "Leader"
    /\ i > match_index[n][n]
    /\ LET match == [match_index[n] EXCEPT ![n] = i]
       IN  /\ match_index' = [match_index EXCEPT ![n] = match]
           /\ commit_index' = [commit_index EXCEPT ![n] =
                                  advance_commit_index(term[n], log[n], match, @)]
    /\ stable' = [stable EXCEPT ![n].log = IF i > Len(@) THEN SubSeq(log[n], 1, i) ELSE @]
    /\ UNCHANGED <<term, voted_for, log, roleVars, next_index, msgs>>

-----------------------------------------------------------------------------
(* Follower.handle_append_request after the term rule.  A consistent       *)
(* request may cut off and extend the log; the commit index follows the    *)
(* leader's up to our last entry, and the answer names our last entry.     *)
FollowerAppends(n, m) ==
    /\ role[n] = "Follower"
    /\ m.kind = "AppendRequest"
    /\ m.term >= term[n]
    /\ term' = [term EXCEPT ![n] = m.term]
    /\ voted_for' = [voted_for EXCEPT ![n] = IF HigherTerm(n, m) THEN None ELSE @]
    /\ leader' = [leader EXCEPT ![n] = m.from]
    /\ heard' = [heard EXCEPT ![n] = ElectionTimeoutMin > 0]
    /\ LET accepted == consistent(log[n], m.prev_log_index, m.prev_log_term)
           lg == IF accepted THEN append_entries(log[n], m.prev_log_index, m.entries)
                             ELSE log[n]
       IN  /\ log' = [log EXCEPT ![n] = lg]
           /\ commit_index' = [commit_index EXCEPT ![n] =
                                  IF accepted /\ m.leader_commit > @
                                  THEN Min({m.leader_commit, last_index(lg)}) ELSE @]
           /\ IF lg # log[n] \/ HigherTerm(n, m) THEN Persist(n) ELSE UNCHANGED stable
           /\ Send({AppendResponse(n, m.from, m.term, accepted, last_index(lg))})
    /\ UNCHANGED <<role, votes, leaderVars>>

(* A candidate yields to a sender of its own term, a pre-candidate also to *)
(* one of an older term; neither looks at the entries.                     *)
YieldToLeader(n, m) ==
    /\ m.kind = "AppendRequest"
    /\ \/ role[n] = "Candidate" /\ m.term = term[n]
       \/ role[n] = "PreCandidate" /\ m.term <= term[n]
    /\ ToFollower(n, m.from, TRUE)
    /\ UNCHANGED <<persistentVars, commit_index, msgs>>

(* reject_stale for AppendRequest; a pre-candidate has no such test.       *)
RejectStaleAppend(n, m) ==
    /\ m.kind = "AppendRequest"
    /\ role[n] # "PreCandidate"
    /\ m.term < term[n]
    /\ Send({AppendResponse(n, m.from, term[n], FALSE, last_index(log[n]))})
    /\ UNCHANGED <<persistentVars, commit_index, roleVars, leaderVars>>

-----------------------------------------------------------------------------
(* Leader.handle_append_response.                                          *)
AppendSucceeded(n, m) ==
    /\ role[n] = "Leader"
    /\ m.kind = "AppendResponse"
    /\ m.term = term[n]
    /\ m.success
    /\ LET match == [match_index[n] EXCEPT ![m.from] = m.last_log_index]
       IN  /\ match_index' = [match_index EXCEPT ![n] = match]
           /\ commit_index' = [commit_index EXCEPT ![n] =
                                  advance_commit_index(term[n], log[n], match, @)]
    /\ next_index' = IF Pipelining THEN next_index
                     ELSE [next_index EXCEPT ![n][m.from] = m.last_log_index + 1]
    /\ UNCHANGED <<persistentVars, roleVars, msgs>>

AppendRejected(n, m) ==
    /\ role[n] = "Leader"
    /\ m.kind = "AppendResponse"
    /\ m.term = term[n]
    /\ ~m.success
    /\ LET next == next_after_rejection(match_index[n][m.from], m.last_log_index, Pipelining)
       IN  /\ Send({AppendRequest(n, m.from, term[n], log[n], next, commit_index[n])})
           /\ next_index' = [next_index EXCEPT ![n][m.from] =
                                next_after_send(log[n], next, MaxEntriesPerMsg, Pipelining)]
    /\ UNCHANGED <<persistentVars, commit_index, roleVars, match_index>>
=============================================================================
