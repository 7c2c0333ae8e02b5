------------------------------- MODULE MCRaft -------------------------------
(***************************************************************************)
(* Raft on small instances.                                                *)
(***************************************************************************)
EXTENDS Raft

CONSTANTS s1, s2, s3

(* s1 and s2 compete for the first term, s2 may go on to start the next.   *)
RivalsThenS2 == [t \in 1 .. MaxTerm |-> IF t = 1 THEN {s1, s2} ELSE {s2}]

(* The messages that can still have an effect: on their receiver, or       *)
(* through its answer on their sender.  No term exceeds MaxTerm, so no     *)
(* answer can move a sender that is there already, unless it is (or may    *)
(* become) the leader of that term and takes the rejection of an old       *)
(* request for one of its own.                                             *)
Live(m) ==
    CASE m.kind = "AppendResponse" ->
             \/ m.term > term[m.to]
             \/ m.term = term[m.to] /\ role[m.to] \in {"Candidate", "Leader"}
      [] m.kind = "VoteResponse" ->
             \/ m.term > term[m.to]
             \/ m.term = term[m.to] /\ m.granted /\ role[m.to] = "Candidate"
      [] m.kind = "PreVoteResponse" -> ~Ignored(m)
      [] m.kind = "VoteRequest" ->
             \/ m.term > term[m.to]
             \/ m.term = term[m.to] /\ voted_for[m.to] \in {None, m.from}
             \/ term[m.from] < MaxTerm
      [] m.kind = "PreVoteRequest" -> m.term > term[m.to] \/ term[m.from] < MaxTerm
      [] m.kind = "TimeoutNow" -> m.term > term[m.to] \/ term[m.to] < MaxTerm
      [] m.kind = "AppendRequest" ->
             \/ m.term >= term[m.to]
             \/ term[m.from] < MaxTerm
             \/ role[m.from] \in {"Candidate", "Leader"}
             \/ PreVote /\ term[m.to] < MaxTerm

(* States that differ only in messages without effect are the same state.  *)
(* The requests ElectionSafety and the votes VotesAreDurable speak of are  *)
(* kept when those are checked.                                            *)
nodeState == <<term, voted_for, log, stable, commit_index, role, leader, heard, votes,
               next_index, match_index>>

ElectionView ==
    <<nodeState, {m \in msgs : \/ Live(m)
                               \/ m.kind = "AppendRequest"
                               \/ m.kind = "VoteResponse" /\ m.granted}>>

ReplicationView == <<nodeState, {m \in msgs : Live(m)}>>
=============================================================================
