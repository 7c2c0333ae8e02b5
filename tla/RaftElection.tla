---------------------------- MODULE RaftElection ----------------------------
(***************************************************************************)
(* Elections: the election side of follower.rs, precandidate.rs,           *)
(* candidate.rs and leader.rs, and leadership transfer.  One action per    *)
(* handler; handlers that answer alike in several roles share one.         *)
(***************************************************************************)
EXTENDS RaftCore

(* A vote or pre-vote request is denied, whatever its term, by a server    *)
(* that has recently heard from a leader.  Leaders do not look.            *)
ActiveLeaderKnown(n) == role[n] # "Leader" /\ heard[n]

(* The guard under which a role looks at the payload after the term rule.  *)
HigherTerm(n, m) == m.term > term[n]

-----------------------------------------------------------------------------
(* Ticks that reach no deadline: the last contact grows old.               *)
Quiet(n) ==
    /\ heard[n]
    /\ heard' = [heard EXCEPT ![n] = FALSE]
    /\ UNCHANGED <<persistentVars, commit_index, role, leader, votes, leaderVars, msgs>>

(* handle_tick at the election deadline.  A candidate restarts the         *)
(* election, everyone else starts (or restarts) the pre-vote if enabled.   *)
Faulty_skips_prevote(n) == role[n] \in {"Candidate", "PreCandidate"} \/ ~PreVote

skips_prevote(n) == role[n] = "Candidate" \/ (role[n] = "Follower" /\ ~PreVote)

ElectionTimeout(n) ==
    /\ role[n] # "Leader"
    /\ ~heard[n]
    /\ IF skips_prevote(n)
       THEN ToCandidate(n, term[n], FALSE)
       ELSE ToPreCandidate(n)

(* A message of a higher term makes any role but the follower drop it and  *)
(* become a follower.  Pre-vote requests carry no claim to a term, except  *)
(* that a pre-candidate applies the term rule to them all the same.        *)
StepDown(n, m) ==
    /\ role[n] # "Follower"
    /\ HigherTerm(n, m)
    /\ m.kind = "PreVoteRequest" => role[n] = "PreCandidate"
    /\ m.kind \in {"VoteRequest", "PreVoteRequest"} => ~ActiveLeaderKnown(n)
    /\ term' = [term EXCEPT ![n] = m.term]
    /\ voted_for' = [voted_for EXCEPT ![n] = None]
    /\ UNCHANGED <<log, commit_index, msgs>>
    /\ Persist(n)
    /\ ToFollower(n, IF m.kind = "AppendRequest" THEN m.from ELSE None, FALSE)

(* A follower takes a higher term over from a response and does no more.   *)
(* The leader it knew stays recorded.                                      *)
FollowerObservesTerm(n, m) ==
    /\ role[n] = "Follower"
    /\ HigherTerm(n, m)
    /\ m.kind \in {"VoteResponse", "PreVoteResponse", "AppendResponse"}
    /\ term' = [term EXCEPT ![n] = m.term]
    /\ voted_for' = [voted_for EXCEPT ![n] = None]
    /\ UNCHANGED <<log, commit_index, roleVars, leaderVars, msgs>>
    /\ Persist(n)

-----------------------------------------------------------------------------
(* A leader that hears a pre-vote request, or a server that follows an     *)
(* active leader, denies it and answers with its own term.  The others     *)
(* grant it to an up-to-date log of a newer term, echoing the term of the  *)
(* request.  No role changes its own state.                                *)
AnswerPreVote(n, m) ==
    /\ m.kind = "PreVoteRequest"
    /\ IF role[n] = "Leader" \/ ActiveLeaderKnown(n)
       THEN Send({PreVoteResponse(n, m.from, term[n], term[n], FALSE)})
       ELSE /\ role[n] = "PreCandidate" => ~HigherTerm(n, m)
            /\ LET granted == /\ m.next_term > term[n]
                              /\ log_is_up_to_date(log[n], m.last_log_term, m.last_log_index)
               IN  Send({PreVoteResponse(n, m.from, m.term, term[n], granted)})
    /\ UNCHANGED <<persistentVars, commit_index, roleVars, leaderVars>>

(* PreCandidate.handle_prevote_response.  A grant of a server whose own    *)
(* term is lower is ignored.                                               *)
PreVoteGranted(n, m) ==
    /\ role[n] = "PreCandidate"
    /\ m.kind = "PreVoteResponse"
    /\ ~HigherTerm(n, m)
    /\ m.resp_term = term[n]
    /\ m.granted
    /\ IF has_quorum(votes[n] \cup {m.from})
       THEN ToCandidate(n, term[n], FALSE)
       ELSE /\ votes' = [votes EXCEPT ![n] = @ \cup {m.from}]
            /\ UNCHANGED <<persistentVars, commit_index, role, leader, heard, leaderVars, msgs>>

Faulty_answered_from_higher_term(n, m) == m.resp_term >= term[n]

answered_from_higher_term(n, m) == m.resp_term > term[n]

PreVoteFromHigherTerm(n, m) ==
    /\ role[n] = "PreCandidate"
    /\ m.kind = "PreVoteResponse"
    /\ ~HigherTerm(n, m)
    /\ answered_from_higher_term(n, m)
    /\ term' = [term EXCEPT ![n] = m.resp_term]
    /\ voted_for' = [voted_for EXCEPT ![n] = None]
    /\ UNCHANGED <<log, commit_index, msgs>>
    /\ Persist(n)
    /\ ToFollower(n, None, FALSE)

-----------------------------------------------------------------------------
(* Follower.handle_vote_request, after the term rule of Follower.step.     *)
can_vote_for(n, m) == HigherTerm(n, m) \/ voted_for[n] \in {None, m.from}

(* A new vote or a new term is saved before the answer leaves.             *)
Faulty_vote_persists(n, m, granted) == HigherTerm(n, m)

vote_persists(n, m, granted) == granted \/ HigherTerm(n, m)

FollowerVotes(n, m) ==
    /\ role[n] = "Follower"
    /\ m.kind = "VoteRequest"
    /\ ~heard[n]
    /\ m.term >= term[n]
    /\ LET granted == /\ can_vote_for(n, m)
                      /\ log_is_up_to_date(log[n], m.last_log_term, m.last_log_index)
       IN  /\ term' = [term EXCEPT ![n] = m.term]
           /\ voted_for' = [voted_for EXCEPT ![n] = IF granted THEN m.from
                                                    ELSE IF HigherTerm(n, m) THEN None ELSE @]
           /\ UNCHANGED log
           /\ IF vote_persists(n, m, granted) THEN Persist(n) ELSE UNCHANGED stable
           /\ Send({VoteResponse(n, m.from, m.term, granted)})
    /\ UNCHANGED <<commit_index, roleVars, leaderVars>>

(* Every other vote request is denied with the server's own term: by the   *)
(* guard of an active leader, as stale, or because a server that is not a  *)
(* follower grants no vote in its term.                                    *)
DenyVote(n, m) ==
    /\ m.kind = "VoteRequest"
    /\ \/ ActiveLeaderKnown(n)
       \/ m.term < term[n]
       \/ m.term = term[n] /\ role[n] # "Follower"
    /\ Send({VoteResponse(n, m.from, term[n], FALSE)})
    /\ UNCHANGED <<persistentVars, commit_index, roleVars, leaderVars>>

(* Candidate.handle_vote_response.                                         *)
VoteGranted(n, m) ==
    /\ role[n] = "Candidate"
    /\ m.kind = "VoteResponse"
    /\ m.term = term[n]
    /\ m.granted
    /\ IF has_quorum(votes[n] \cup {m.from})
       THEN ToLeader(n, term[n])
       ELSE /\ votes' = [votes EXCEPT ![n] = @ \cup {m.from}]
            /\ UNCHANGED <<role, leader, heard, leaderVars, msgs>>
    /\ UNCHANGED <<persistentVars, commit_index>>

-----------------------------------------------------------------------------
(* Leader.transfer_leadership: the target must be fully caught up.         *)
TransferLeadership(n, target) ==
    /\ role[n] = "Leader"
    /\ target # n
    /\ match_index[n][target] >= last_index(log[n])
    /\ Send({TimeoutNow(n, target, term[n])})
    /\ UNCHANGED <<persistentVars, commit_index, roleVars, leaderVars>>

(* TimeoutNow starts an election at once, after the term rule: a follower  *)
(* takes a higher term over first, a candidate wants its own term, and a   *)
(* pre-candidate applies no test for a stale term.  The new candidate      *)
(* believes it heard from a leader if it has run for less than the minimum *)
(* election timeout, which the model does not track: both are possible.    *)
ReceiveTimeoutNow(n, m) ==
    /\ m.kind = "TimeoutNow"
    /\ \/ role[n] = "Follower" /\ m.term >= term[n]
       \/ role[n] = "PreCandidate" /\ m.term <= term[n]
       \/ role[n] = "Candidate" /\ m.term = term[n]
    /\ \E contact \in BOOLEAN :
           ToCandidate(n, IF HigherTerm(n, m) THEN m.term ELSE term[n], contact)

-----------------------------------------------------------------------------
(* A crash loses everything that was not saved; RaftNode::restore.         *)
Restart(n) ==
    /\ n \in Crashing
    /\ term' = [term EXCEPT ![n] = stable[n].term]
    /\ voted_for' = [voted_for EXCEPT ![n] = stable[n].voted_for]
    /\ log' = [log EXCEPT ![n] = stable[n].log]
    /\ commit_index' = [commit_index EXCEPT ![n] = 0]
    /\ ToFollower(n, None, FALSE)
    /\ UNCHANGED <<stable, msgs>>
=============================================================================
