-------------------------------- MODULE Raft --------------------------------
(***************************************************************************)
(* The Raft cluster: servers running raft/mod.rs's RaftNode over an        *)
(* unreliable network, with crashes.  Elections are in RaftElection,       *)
(* replication in RaftReplication.                                         *)
(***************************************************************************)
EXTENDS RaftReplication

Init ==
    /\ term = [n \in Server |-> 0]
    /\ voted_for = [n \in Server |-> None]
    /\ log = [n \in Server |-> <<>>]
    /\ stable = [n \in Server |-> [term |-> 0, voted_for |-> None, log |-> <<>>]]
    /\ commit_index = [n \in Server |-> 0]
    /\ role = [n \in Server |-> "Follower"]
    /\ leader = [n \in Server |-> None]
    /\ heard = [n \in Server |-> FALSE]
    /\ votes = [n \in Server |-> {}]
    /\ next_index = [n \in Server |-> NoProgress]
    /\ match_index = [n \in Server |-> NoProgress]
    /\ msgs = {}

(* RaftNode.step: one received message.                                    *)
Receive(n, m) ==
    \/ StepDown(n, m)
    \/ FollowerObservesTerm(n, m)
    \/ AnswerPreVote(n, m)
    \/ PreVoteGranted(n, m)
    \/ PreVoteFromHigherTerm(n, m)
    \/ FollowerVotes(n, m)
    \/ DenyVote(n, m)
    \/ VoteGranted(n, m)
    \/ ReceiveTimeoutNow(n, m)
    \/ FollowerAppends(n, m)
    \/ YieldToLeader(n, m)
    \/ RejectStaleAppend(n, m)
    \/ AppendSucceeded(n, m)
    \/ AppendRejected(n, m)

(* RaftNode.tick, propose, transfer_leadership, disk_write_complete and    *)
(* restore.                                                                *)
Local(n) ==
    \/ Quiet(n)
    \/ ElectionTimeout(n)
    \/ Heartbeat(n)
    \/ \E cmd \in Command : Propose(n, cmd)
    \/ \E i \in 1 .. last_index(log[n]) : DiskWriteComplete(n, i)
    \/ \E target \in TransferTargets : TransferLeadership(n, target)
    \/ Restart(n)

Next ==
    \E n \in Server :
        \/ Local(n)
        \/ \E m \in msgs : m.to = n /\ n \notin Down /\ Receive(n, m)

Spec == Init /\ [][Next]_vars

-----------------------------------------------------------------------------
Entry == [term : Nat, cmd : Command]

Persistent == [term : Nat, voted_for : Server \cup {None}, log : Seq(Entry)]

(* Every kind of message, with its fields.                                 *)
Message ==
    [kind : {"PreVoteRequest"}, from : Server, to : Server, term : Nat,
     next_term : Nat, last_log_index : Nat, last_log_term : Nat]
    \cup [kind : {"PreVoteResponse"}, from : Server, to : Server, term : Nat,
          resp_term : Nat, granted : BOOLEAN]
    \cup [kind : {"VoteRequest"}, from : Server, to : Server, term : Nat,
          last_log_index : Nat, last_log_term : Nat]
    \cup [kind : {"VoteResponse"}, from : Server, to : Server, term : Nat,
          granted : BOOLEAN]
    \cup [kind : {"AppendRequest"}, from : Server, to : Server, term : Nat,
          prev_log_index : Nat, prev_log_term : Nat, entries : Seq(Entry),
          leader_commit : Nat]
    \cup [kind : {"AppendResponse"}, from : Server, to : Server, term : Nat,
          success : BOOLEAN, last_log_index : Nat]
    \cup [kind : {"TimeoutNow"}, from : Server, to : Server, term : Nat]

(* State and messages are well formed, and a leader always has an entry,   *)
(* or the end of its log, to send next: no request starts before index 1.  *)
TypeOK ==
    /\ term \in [Server -> Nat]
    /\ voted_for \in [Server -> Server \cup {None}]
    /\ log \in [Server -> Seq(Entry)]
    /\ stable \in [Server -> Persistent]
    /\ commit_index \in [Server -> Nat]
    /\ role \in [Server -> Roles]
    /\ leader \in [Server -> Server \cup {None}]
    /\ heard \in [Server -> BOOLEAN]
    /\ votes \in [Server -> SUBSET Server]
    /\ next_index \in [Server -> [Server -> Nat]]
    /\ match_index \in [Server -> [Server -> Nat]]
    /\ msgs \subseteq Message
    /\ \A n, p \in Server : role[n] = "Leader" => next_index[n][p] >= 1

(* Election Safety (DISSERTATION_CHECKLIST.md): at most one leader per     *)
(* term, ever.  Every leader sends AppendRequests from its first step on,  *)
(* so two leaders of a term, even one after the other's crash, would show  *)
(* up as two senders.                                                      *)
ElectionSafety ==
    /\ \A a, b \in Server :
           role[a] = "Leader" /\ role[b] = "Leader" /\ term[a] = term[b] => a = b
    /\ \A m1, m2 \in msgs :
           /\ m1.kind = "AppendRequest" /\ m2.kind = "AppendRequest"
           /\ m1.term = m2.term
           => m1.from = m2.from

(* A vote that left the server survives a crash: what the server would     *)
(* recover still holds the vote, or a later term.  This is what "saved     *)
(* before network effects are released" buys.                              *)
VotesAreDurable ==
    \A m \in msgs :
        m.kind = "VoteResponse" /\ m.granted =>
            \/ stable[m.from].term > m.term
            \/ stable[m.from].term = m.term /\ stable[m.from].voted_for = m.to

(* Log Matching (DISSERTATION_CHECKLIST.md): entries with the same index   *)
(* and term are equal and so is everything before them.                    *)
LogMatching ==
    \A a, b \in Server :
        \A i \in 1 .. Min({Len(log[a]), Len(log[b])}) :
            log[a][i].term = log[b][i].term => SubSeq(log[a], 1, i) = SubSeq(log[b], 1, i)

(* "entries are in term order" (leader.rs, current_term_commit_index), and *)
(* no log runs ahead of its server's term.                                 *)
LogTermsOrdered ==
    \A n \in Server :
        /\ \A i \in 2 .. Len(log[n]) : log[n][i - 1].term <= log[n][i].term
        /\ last_term(log[n]) <= term[n]

(* A request with entries that a server would accept starts inside or      *)
(* right after its log, so no append leaves a gap (log.rs: "Entries are    *)
(* contiguous").  The test on prev_log_term alone must ensure it.          *)
AppendsAreContiguous ==
    \A m \in msgs :
        /\ m.kind = "AppendRequest" /\ m.term >= term[m.to]
        /\ m.entries # <<>>
        /\ consistent(log[m.to], m.prev_log_index, m.prev_log_term)
        => m.prev_log_index <= last_index(log[m.to])

(* State Machine Safety (DISSERTATION_CHECKLIST.md): two servers never     *)
(* commit, and so never apply, different entries at the same index.        *)
StateMachineSafety ==
    \A a, b \in Server :
        \A i \in 1 .. Min({commit_index[a], commit_index[b]}) :
            /\ i <= Len(log[a]) /\ i <= Len(log[b])
            /\ log[a][i] = log[b][i]

(* With parallel disk writes a leader counts itself into a quorum only for *)
(* what its own disk holds (core.rs, Config.parallel_disk_write).          *)
OwnMatchIsDurable ==
    \A n \in Server : role[n] = "Leader" => match_index[n][n] <= Len(stable[n].log)

(* Leader Append-Only (DISSERTATION_CHECKLIST.md).                         *)
LeaderAppendOnly ==
    [][\A n \in Server :
           role[n] = "Leader" /\ role'[n] = "Leader"
               => /\ Len(log'[n]) >= Len(log[n])
                  /\ SubSeq(log'[n], 1, Len(log[n])) = log[n]]_vars

(* A server's term never decreases and its vote in a term never changes,   *)
(* not even over a restart.                                                *)
VoteOncePerTerm ==
    [][\A n \in Server :
           /\ term'[n] >= term[n]
           /\ term'[n] = term[n] /\ voted_for[n] # None => voted_for'[n] = voted_for[n]]_vars

-----------------------------------------------------------------------------
(* The servers whose pre-vote n has won for the term after t.              *)
PreVoters(n, t) ==
    {n} \cup {m.from : m \in {r \in msgs : /\ r.kind = "PreVoteResponse"
                                            /\ r.to = n /\ r.resp_term = t /\ r.granted}}

(* With pre-votes, nobody becomes a candidate unless a quorum of servers   *)
(* in its own term granted it a pre-vote, or a leader asked it to take     *)
(* over (precandidate.rs: "only proceeds to a real election if it can win  *)
(* the pre-vote").                                                         *)
PreVoteFirst ==
    [][\A n \in Server :
           PreVote /\ role[n] # "Candidate" /\ role'[n] = "Candidate"
               => \/ has_quorum(PreVoters(n, term[n]))
                  \/ \E m \in msgs : m.kind = "TimeoutNow" /\ m.to = n]_vars
=============================================================================
