------------------------ MODULE RaftReplicationProofs ------------------------
(***************************************************************************)
(* Leaders only append to their logs, and count themselves into a quorum   *)
(* only for what their disk holds, for any number of servers and with or   *)
(* without parallel disk writes.                                           *)
(*                                                                         *)
(* The argument.  match_index[n][n] of a leader n changes in three places: *)
(* Leader::new and propose set it to the length of the log, which without  *)
(* parallel disk writes is the log on disk (Synced), and                   *)
(* handle_disk_write_complete sets it to what was written.  No answer      *)
(* changes it, because nobody sends append messages to itself (NoLoops).   *)
(***************************************************************************)
EXTENDS RaftTypeProofs

Synced == ~ParallelDiskWrite => \A n \in Server : stable[n].log = log[n]

IsAppend(m) == m.kind \in {"AppendRequest", "AppendResponse"}
NoLoops == \A m \in msgs : IsAppend(m) => m.from # m.to

(* The inductive invariant.                                                *)
OwnInv == TypeOK /\ Synced /\ NoLoops /\ OwnMatchIsDurable

(* What a step of n does to logs, disks and progress.                      *)
OwnStep(n) ==
    /\ \A s \in Server \ {n} : /\ log'[s] = log[s] /\ stable'[s] = stable[s]
                                /\ role'[s] = role[s] /\ match_index'[s] = match_index[s]
    /\ ~ParallelDiskWrite => stable'[n].log = log'[n]
    /\ role'[n] = "Leader" => match_index'[n][n] <= Len(stable'[n].log)
    /\ role[n] = "Leader" /\ role'[n] = "Leader"
           => log'[n] = log[n] \/ \E e \in Entry : log'[n] = Append(log[n], e)

(* ... and which messages it sends.                                        *)
Sends(ms) == \A m \in ms : IsAppend(m) => m.from # m.to

LEMMA SendsNoLoops ==
    ASSUME NoLoops, NEW ms, Sends(ms), Send(ms)
    PROVE  NoLoops'
BY DEF NoLoops, Sends, Send, IsAppend

(* Messages that are no append messages.                                   *)
LEMMA OtherMessages ==
    ASSUME NEW n, NEW to, NEW t, NEW u, NEW b
    PROVE  /\ Sends({PreVoteResponse(n, to, t, u, b)})
           /\ Sends({VoteResponse(n, to, t, b)})
           /\ Sends({TimeoutNow(n, to, t)})
BY DEF Sends, IsAppend, PreVoteResponse, VoteResponse, TimeoutNow

(* Nothing of a server's log, disk, role and progress changes.             *)
LEMMA StillStep ==
    ASSUME OwnInv, NEW n \in Server, UNCHANGED <<log, stable, role, match_index>>
    PROVE  OwnStep(n)
BY DEF OwnInv, OwnStep, Synced, OwnMatchIsDurable

(* The log stays and nobody leads afterwards that did not lead before.     *)
LEMMA NotLeading ==
    ASSUME OwnInv, NEW n \in Server, UNCHANGED log,
           Persist(n) \/ UNCHANGED stable,
           \A s \in Server \ {n} : role'[s] = role[s] /\ match_index'[s] = match_index[s],
           role'[n] # "Leader"
    PROVE  OwnStep(n)
<1>1. stable \in [Server -> Persistent] /\ log \in [Server -> Seq(Entry)]
  BY DEF OwnInv, TypeOK
<1> QED
  BY <1>1 DEF OwnInv, OwnStep, Synced, Persist

LEMMA FollowerStep ==
    ASSUME OwnInv, NEW n \in Server, NEW l, NEW c, ToFollower(n, l, c), UNCHANGED log,
           Persist(n) \/ UNCHANGED stable
    PROVE  OwnStep(n)
<1>1. role \in [Server -> Roles] /\ match_index \in [Server -> [Server -> Nat]]
  BY DEF OwnInv, TypeOK
<1>2. /\ role'[n] # "Leader"
      /\ \A s \in Server \ {n} : role'[s] = role[s] /\ match_index'[s] = match_index[s]
  BY <1>1 DEF ToFollower
<1> QED
  BY <1>2, NotLeading

LEMMA LeaderStep ==
    ASSUME OwnInv, NEW n \in Server, NEW t, ToLeader(n, t), UNCHANGED log,
           Persist(n) \/ UNCHANGED stable
    PROVE  OwnStep(n) /\ NoLoops'
<1>1. /\ role \in [Server -> Roles] /\ match_index \in [Server -> [Server -> Nat]]
      /\ stable \in [Server -> Persistent] /\ log \in [Server -> Seq(Entry)]
  BY DEF OwnInv, TypeOK
<1>2. /\ \A s \in Server \ {n} : /\ role'[s] = role[s] /\ match_index'[s] = match_index[s]
                                  /\ stable'[s] = stable[s]
      /\ match_index'[n][n] = IF ParallelDiskWrite THEN 0 ELSE Len(log[n])
  BY <1>1 DEF ToLeader, Persist, last_index
<1>3. ~ParallelDiskWrite => stable'[n].log = log'[n]
  BY <1>1 DEF OwnInv, Synced, Persist
<1>4. stable'[n].log \in Seq(Entry) /\ Len(stable'[n].log) \in Nat
  <2>1. stable'[n].log \in Seq(Entry)
    BY <1>1 DEF Persist, Persistent
  <2> QED BY <2>1, LenProperties
<1>5. match_index'[n][n] <= Len(stable'[n].log)
  BY <1>1, <1>2, <1>3, <1>4
<1>6. OwnStep(n)
  BY <1>2, <1>3, <1>5 DEF OwnStep
<1>7. NoLoops'
  <2> DEFINE ms == {AppendRequest(n, p, t, log[n], initial_next(log[n])[p], commit_index[n]) :
                        p \in Server \ {n}}
  <2>1. Sends(ms)
    BY DEF Sends, AppendRequest
  <2>2. Send(ms)
    BY DEF ToLeader
  <2> QED BY <2>1, <2>2, SendsNoLoops DEF OwnInv
<1> QED BY <1>6, <1>7

LEMMA CandidateStep ==
    ASSUME OwnInv, NEW n \in Server, NEW t, NEW c, ToCandidate(n, t, c)
    PROVE  OwnStep(n) /\ NoLoops'
<1>1. UNCHANGED log /\ Persist(n)
  BY DEF ToCandidate
<1>2. CASE has_quorum({n})
  BY <1>1, <1>2, LeaderStep DEF ToCandidate
<1>3. CASE ~has_quorum({n})
  <2> DEFINE ms == {VoteRequest(n, p, t + 1, log[n]) : p \in Server \ {n}}
  <2>1. /\ role' = [role EXCEPT ![n] = "Candidate"] /\ UNCHANGED match_index
        /\ Send(ms)
    BY <1>3 DEF ToCandidate, leaderVars
  <2>2. role \in [Server -> Roles]
    BY DEF OwnInv, TypeOK
  <2>3. OwnStep(n)
    BY <1>1, <2>1, <2>2, NotLeading
  <2>4. Sends(ms)
    BY DEF Sends, IsAppend, VoteRequest
  <2>5. NoLoops'
    BY <2>1, <2>4, SendsNoLoops DEF OwnInv
  <2> QED BY <2>3, <2>5
<1> QED BY <1>2, <1>3

LEMMA PreCandidateStep ==
    ASSUME OwnInv, NEW n \in Server, ToPreCandidate(n)
    PROVE  OwnStep(n) /\ NoLoops'
<1>1. CASE has_quorum({n})
  BY <1>1, CandidateStep DEF ToPreCandidate
<1>2. CASE ~has_quorum({n})
  <2> DEFINE ms == {PreVoteRequest(n, p, term[n], log[n]) : p \in Server \ {n}}
  <2>1. /\ role' = [role EXCEPT ![n] = "PreCandidate"]
        /\ UNCHANGED <<match_index, log, stable>>
        /\ Send(ms)
    BY <1>2 DEF ToPreCandidate, leaderVars, persistentVars
  <2>2. role \in [Server -> Roles]
    BY DEF OwnInv, TypeOK
  <2>3. OwnStep(n)
    BY <2>1, <2>2, NotLeading
  <2>4. Sends(ms)
    BY DEF Sends, IsAppend, PreVoteRequest
  <2>5. NoLoops'
    BY <2>1, <2>4, SendsNoLoops DEF OwnInv
  <2> QED BY <2>3, <2>5
<1> QED BY <1>1, <1>2

-----------------------------------------------------------------------------
(* Handlers of the election side.                                          *)
LEMMA ElectionReceiveStep ==
    ASSUME OwnInv, NEW n \in Server, NEW m \in msgs, m.to = n,
           \/ StepDown(n, m) \/ FollowerObservesTerm(n, m) \/ AnswerPreVote(n, m)
           \/ PreVoteGranted(n, m) \/ PreVoteFromHigherTerm(n, m) \/ FollowerVotes(n, m)
           \/ DenyVote(n, m) \/ VoteGranted(n, m) \/ ReceiveTimeoutNow(n, m)
    PROVE  OwnStep(n) /\ NoLoops'
<1> USE DEF persistentVars, roleVars, leaderVars
<1>0. /\ NoLoops /\ (UNCHANGED msgs => NoLoops')
      /\ role \in [Server -> Roles]
  BY DEF OwnInv, NoLoops, TypeOK
<1>1. CASE StepDown(n, m)
  BY <1>0, <1>1, FollowerStep DEF StepDown
<1>2. CASE FollowerObservesTerm(n, m)
  <2>1. /\ UNCHANGED <<log, role, match_index, msgs>> /\ Persist(n)
        /\ role[n] = "Follower"
    BY <1>2 DEF FollowerObservesTerm
  <2> QED BY <1>0, <2>1, NotLeading
<1>3. CASE AnswerPreVote(n, m)
  <2>1. UNCHANGED <<log, stable, role, match_index>>
    BY <1>3 DEF AnswerPreVote
  <2>2. \E t, b : Send({PreVoteResponse(n, m.from, t, term[n], b)})
    BY <1>3 DEF AnswerPreVote
  <2> QED BY <1>0, <2>1, <2>2, StillStep, OtherMessages, SendsNoLoops
<1>4. CASE PreVoteGranted(n, m)
  <2>1. \/ ToCandidate(n, term[n], FALSE)
        \/ UNCHANGED <<log, stable, role, match_index, msgs>>
    BY <1>4 DEF PreVoteGranted
  <2> QED BY <1>0, <2>1, CandidateStep, StillStep
<1>5. CASE PreVoteFromHigherTerm(n, m)
  BY <1>0, <1>5, FollowerStep DEF PreVoteFromHigherTerm
<1>6. CASE FollowerVotes(n, m)
  <2>1. /\ UNCHANGED <<log, role, match_index>> /\ (Persist(n) \/ UNCHANGED stable)
        /\ role[n] = "Follower"
    BY <1>6 DEF FollowerVotes
  <2>2. \E t, b : Send({VoteResponse(n, m.from, t, b)})
    BY <1>6 DEF FollowerVotes
  <2> QED BY <1>0, <2>1, <2>2, NotLeading, OtherMessages, SendsNoLoops
<1>7. CASE DenyVote(n, m)
  <2>1. UNCHANGED <<log, stable, role, match_index>>
    BY <1>7 DEF DenyVote
  <2>2. Send({VoteResponse(n, m.from, term[n], FALSE)})
    BY <1>7 DEF DenyVote
  <2> QED BY <1>0, <2>1, <2>2, StillStep, OtherMessages, SendsNoLoops
<1>8. CASE VoteGranted(n, m)
  <2>1. UNCHANGED <<log, stable>>
    BY <1>8 DEF VoteGranted
  <2>2. ToLeader(n, term[n]) \/ UNCHANGED <<role, match_index, msgs>>
    BY <1>8 DEF VoteGranted
  <2> QED BY <1>0, <2>1, <2>2, LeaderStep, StillStep
<1>9. CASE ReceiveTimeoutNow(n, m)
  <2>1. \E t, c : ToCandidate(n, t, c)
    BY <1>9 DEF ReceiveTimeoutNow
  <2> QED BY <2>1, CandidateStep
<1> QED
  BY <1>1, <1>2, <1>3, <1>4, <1>5, <1>6, <1>7, <1>8, <1>9

-----------------------------------------------------------------------------
(* Handlers of the replication side.                                       *)
LEMMA AppendReceiveStep ==
    ASSUME OwnInv, NEW n \in Server, NEW m \in msgs, m.to = n,
           \/ FollowerAppends(n, m) \/ YieldToLeader(n, m) \/ RejectStaleAppend(n, m)
           \/ AppendSucceeded(n, m) \/ AppendRejected(n, m)
    PROVE  OwnStep(n) /\ NoLoops'
<1> USE DEF persistentVars, roleVars, leaderVars
<1>0. /\ NoLoops /\ (UNCHANGED msgs => NoLoops')
      /\ role \in [Server -> Roles] /\ match_index \in [Server -> [Server -> Nat]]
      /\ stable \in [Server -> Persistent] /\ log \in [Server -> Seq(Entry)]
  BY DEF OwnInv, NoLoops, TypeOK
<1>r. ASSUME NEW t, NEW b, NEW i, m.kind = "AppendRequest"
      PROVE  Sends({AppendResponse(n, m.from, t, b, i)})
  BY <1>0, <1>r DEF NoLoops, IsAppend, Sends, AppendResponse
<1>1. CASE FollowerAppends(n, m)
  <2>1. /\ UNCHANGED <<role, match_index>> /\ role[n] = "Follower"
        /\ \A s \in Server \ {n} : log'[s] = log[s]
    BY <1>0, <1>1 DEF FollowerAppends
  <2>2. Persist(n) \/ UNCHANGED <<log, stable>>
    BY <1>0, <1>1 DEF FollowerAppends
  <2>3. /\ \A s \in Server \ {n} : stable'[s] = stable[s]
        /\ ~ParallelDiskWrite => stable'[n].log = log'[n]
    BY <1>0, <2>2 DEF Persist, OwnInv, Synced
  <2>4. OwnStep(n)
    BY <2>1, <2>3 DEF OwnStep
  <2>5. /\ m.kind = "AppendRequest"
        /\ \E t, b, i : Send({AppendResponse(n, m.from, t, b, i)})
    BY <1>1 DEF FollowerAppends
  <2> QED BY <1>0, <1>r, <2>4, <2>5, SendsNoLoops
<1>2. CASE YieldToLeader(n, m)
  BY <1>0, <1>2, FollowerStep DEF YieldToLeader
<1>3. CASE RejectStaleAppend(n, m)
  <2>1. /\ UNCHANGED <<log, stable, role, match_index>> /\ m.kind = "AppendRequest"
        /\ Send({AppendResponse(n, m.from, term[n], FALSE, last_index(log[n]))})
    BY <1>3 DEF RejectStaleAppend
  <2> QED BY <1>0, <1>r, <2>1, StillStep, SendsNoLoops
<1>4. CASE AppendSucceeded(n, m)
  <2>1. m.from # n
    BY <1>0, <1>4 DEF AppendSucceeded, NoLoops, IsAppend
  <2>2. UNCHANGED <<log, stable, role, msgs>>
    BY <1>4 DEF AppendSucceeded
  <2>3. match_index' = [match_index EXCEPT ![n] =
                           [match_index[n] EXCEPT ![m.from] = m.last_log_index]]
    BY <1>4 DEF AppendSucceeded
  <2>4. /\ match_index'[n][n] = match_index[n][n]
        /\ \A s \in Server \ {n} : match_index'[s] = match_index[s]
    BY <1>0, <2>1, <2>3
  <2>5. OwnStep(n)
    BY <2>2, <2>4 DEF OwnStep, OwnInv, Synced, OwnMatchIsDurable
  <2> QED BY <1>0, <2>2, <2>5
<1>5. CASE AppendRejected(n, m)
  <2>1. m.from # n
    BY <1>0, <1>5 DEF AppendRejected, NoLoops, IsAppend
  <2>2. UNCHANGED <<log, stable, role, match_index>>
    BY <1>5 DEF AppendRejected
  <2>3. \E i : Send({AppendRequest(n, m.from, term[n], log[n], i, commit_index[n])})
    BY <1>5 DEF AppendRejected
  <2>4. ASSUME NEW i
        PROVE  Sends({AppendRequest(n, m.from, term[n], log[n], i, commit_index[n])})
    BY <2>1 DEF Sends, AppendRequest
  <2> QED BY <1>0, <2>2, <2>3, <2>4, StillStep, SendsNoLoops
<1> QED
  BY <1>1, <1>2, <1>3, <1>4, <1>5

-----------------------------------------------------------------------------
(* broadcast_append sends to the others only.                              *)
LEMMA BroadcastNoLoops ==
    ASSUME NoLoops, NEW n \in Server, NEW lg, NEW c, broadcast_append(n, lg, c)
    PROVE  NoLoops'
<1> DEFINE ms == {AppendRequest(n, p, term[n], lg, next_index[n][p], c) : p \in Server \ {n}}
<1>1. Sends(ms)
  BY DEF Sends, AppendRequest
<1>2. Send(ms)
  BY DEF broadcast_append
<1> QED BY <1>1, <1>2, SendsNoLoops

LEMMA ProposeStep ==
    ASSUME OwnInv, NEW n \in Server, NEW cmd \in Command, Propose(n, cmd)
    PROVE  OwnStep(n) /\ NoLoops'
<1> DEFINE lg == Append(log[n], [term |-> term[n], cmd |-> cmd])
<1>0. /\ role \in [Server -> Roles] /\ match_index \in [Server -> [Server -> Nat]]
      /\ stable \in [Server -> Persistent] /\ log \in [Server -> Seq(Entry)]
      /\ term \in [Server -> Nat]
  BY DEF OwnInv, TypeOK
<1>1. /\ log' = [log EXCEPT ![n] = lg] /\ role' = role
      /\ match_index' = [match_index EXCEPT ![n] = match_after_proposal(n, lg)]
      /\ IF ParallelDiskWrite THEN UNCHANGED stable ELSE Persist(n)
  BY DEF Propose, with_proposal, roleVars
<1>2. role[n] = "Leader" /\ \E c : broadcast_append(n, lg, c)
  BY DEF Propose, with_proposal
<1>3. [term |-> term[n], cmd |-> cmd] \in Entry
  BY <1>0 DEF Entry
<1>4. \A s \in Server \ {n} : /\ log'[s] = log[s] /\ match_index'[s] = match_index[s]
                              /\ role'[s] = role[s]
  BY <1>0, <1>1
<1>5. \E e \in Entry : log'[n] = Append(log[n], e)
  BY <1>0, <1>1, <1>3
<1>6. NoLoops'
  BY <1>2, BroadcastNoLoops DEF OwnInv
<1>7. CASE ParallelDiskWrite
  <2>1. stable' = stable /\ match_index'[n] = match_index[n]
    BY <1>0, <1>1, <1>7 DEF match_after_proposal
  <2>2. match_index'[n][n] <= Len(stable'[n].log)
    BY <1>2, <2>1 DEF OwnInv, OwnMatchIsDurable
  <2> QED BY <1>4, <1>5, <1>6, <1>7, <2>1, <2>2 DEF OwnStep
<1>8. CASE ~ParallelDiskWrite
  <2>1. /\ \A s \in Server \ {n} : stable'[s] = stable[s]
        /\ stable'[n].log = log'[n]
    BY <1>0, <1>1, <1>8 DEF Persist
  <2>2. match_index'[n][n] = Len(log'[n])
    BY <1>0, <1>1, <1>8 DEF match_after_proposal, last_index
  <2>3. lg \in Seq(Entry) /\ log'[n] = lg
    BY <1>0, <1>1, <1>3
  <2>4. match_index'[n][n] <= Len(stable'[n].log)
    BY <2>1, <2>2, <2>3
  <2> QED BY <1>4, <1>5, <1>6, <2>1, <2>4 DEF OwnStep
<1> QED BY <1>7, <1>8

LEMMA DiskWriteStep ==
    ASSUME OwnInv, NEW n \in Server, NEW i \in 1 .. last_index(log[n]), DiskWriteComplete(n, i)
    PROVE  OwnStep(n) /\ NoLoops'
<1>0. /\ match_index \in [Server -> [Server -> Nat]]
      /\ stable \in [Server -> Persistent] /\ log \in [Server -> Seq(Entry)]
  BY DEF OwnInv, TypeOK
<1>1. /\ ParallelDiskWrite /\ UNCHANGED <<log, role, msgs>>
      /\ match_index' = [match_index EXCEPT ![n] = [match_index[n] EXCEPT ![n] = i]]
      /\ stable' = [stable EXCEPT ![n].log = IF i > Len(@) THEN SubSeq(log[n], 1, i) ELSE @]
  BY DEF DiskWriteComplete, roleVars
<1>2. /\ \A s \in Server \ {n} : stable'[s] = stable[s] /\ match_index'[s] = match_index[s]
      /\ match_index'[n][n] = i
      /\ stable'[n].log = IF i > Len(stable[n].log) THEN SubSeq(log[n], 1, i)
                                                     ELSE stable[n].log
  BY <1>0, <1>1 DEF Persistent
<1>3. stable[n].log \in Seq(Entry) /\ log[n] \in Seq(Entry) /\ i \in 1 .. Len(log[n])
  BY <1>0 DEF Persistent, last_index
<1>4. Len(SubSeq(log[n], 1, i)) = i
  BY <1>3
<1>5. i <= Len(stable'[n].log)
  BY <1>2, <1>3, <1>4
<1>6. OwnStep(n)
  BY <1>1, <1>2, <1>5 DEF OwnStep
<1>7. NoLoops'
  BY <1>1 DEF OwnInv, NoLoops
<1> QED BY <1>6, <1>7

LEMMA LocalOwnStep ==
    ASSUME OwnInv, NEW n \in Server, Local(n)
    PROVE  OwnStep(n) /\ NoLoops'
<1> USE DEF persistentVars, roleVars, leaderVars
<1>0. /\ NoLoops /\ (UNCHANGED msgs => NoLoops')
      /\ role \in [Server -> Roles] /\ stable \in [Server -> Persistent]
      /\ log \in [Server -> Seq(Entry)] /\ match_index \in [Server -> [Server -> Nat]]
  BY DEF OwnInv, NoLoops, TypeOK
<1>1. CASE Quiet(n)
  BY <1>0, <1>1, StillStep DEF Quiet
<1>2. CASE ElectionTimeout(n)
  BY <1>2, CandidateStep, PreCandidateStep DEF ElectionTimeout
<1>3. CASE Heartbeat(n)
  <2>1. UNCHANGED <<log, stable, role, match_index>>
        /\ broadcast_append(n, log[n], commit_index[n])
    BY <1>3 DEF Heartbeat
  <2> QED BY <1>0, <2>1, StillStep, BroadcastNoLoops
<1>4. CASE \E cmd \in Command : Propose(n, cmd)
  BY <1>4, ProposeStep
<1>5. CASE \E i \in 1 .. last_index(log[n]) : DiskWriteComplete(n, i)
  BY <1>5, DiskWriteStep
<1>6. CASE \E target \in TransferTargets : TransferLeadership(n, target)
  <2>1. PICK target \in TransferTargets : TransferLeadership(n, target)
    BY <1>6
  <2>2. UNCHANGED <<log, stable, role, match_index>>
        /\ Send({TimeoutNow(n, target, term[n])})
    BY <2>1 DEF TransferLeadership
  <2> QED BY <1>0, <2>2, StillStep, OtherMessages, SendsNoLoops
<1>7. CASE Restart(n)
  <2>1. /\ UNCHANGED <<stable, msgs>> /\ log' = [log EXCEPT ![n] = stable[n].log]
        /\ ToFollower(n, None, FALSE)
    BY <1>7 DEF Restart
  <2>2. /\ role'[n] = "Follower" /\ log'[n] = stable[n].log
        /\ \A s \in Server \ {n} : /\ role'[s] = role[s] /\ match_index'[s] = match_index[s]
                                    /\ log'[s] = log[s]
    BY <1>0, <2>1 DEF ToFollower
  <2>3. OwnStep(n)
    BY <2>1, <2>2 DEF OwnStep
  <2> QED BY <1>0, <2>1, <2>3
<1> QED
  BY <1>1, <1>2, <1>3, <1>4, <1>5, <1>6, <1>7 DEF Local

-----------------------------------------------------------------------------
(* Every step of the cluster is a step of one server.                      *)
LEMMA NextOwnStep ==
    ASSUME OwnInv, Next
    PROVE  NoLoops' /\ \E n \in Server : OwnStep(n)
<1>1. ASSUME NEW n \in Server, NEW m \in msgs, m.to = n, Receive(n, m)
      PROVE  OwnStep(n) /\ NoLoops'
  BY <1>1, ElectionReceiveStep, AppendReceiveStep DEF Receive
<1> QED
  BY <1>1, LocalOwnStep DEF Next

LEMMA OwnInvariance == Spec => []OwnInv
<1>1. Init => OwnInv
  <2>1. ASSUME Init PROVE Synced /\ NoLoops /\ OwnMatchIsDurable
    BY <2>1 DEF Init, Synced, NoLoops, OwnMatchIsDurable
  <2>2. Init => TypeOK
    BY DEF Init, TypeOK, Persistent, Roles, NoProgress
  <2> QED BY <2>1, <2>2 DEF OwnInv
<1>2. OwnInv /\ TypeOK' /\ [Next]_vars => OwnInv'
  <2> SUFFICES ASSUME OwnInv, TypeOK', [Next]_vars PROVE OwnInv'
    OBVIOUS
  <2>1. CASE Next
    <3>1. PICK n \in Server : OwnStep(n)
      BY <2>1, NextOwnStep
    <3>2. Synced'
      BY <3>1 DEF OwnStep, OwnInv, Synced
    <3>3. OwnMatchIsDurable'
      BY <3>1 DEF OwnStep, OwnInv, OwnMatchIsDurable
    <3> QED BY <2>1, <3>2, <3>3, NextOwnStep DEF OwnInv
  <2>2. CASE UNCHANGED vars
    BY <2>2 DEF vars, OwnInv, TypeOK, Synced, NoLoops, OwnMatchIsDurable
  <2> QED BY <2>1, <2>2
<1> QED BY <1>1, <1>2, TypeCorrectness, PTL DEF Spec

(* A leader counts itself into a quorum only for entries on its own disk,  *)
(* with parallel disk writes (core.rs, Config.parallel_disk_write) and     *)
(* without.                                                                *)
THEOREM LeaderCountsDurableEntries == Spec => []OwnMatchIsDurable
<1>1. OwnInv => OwnMatchIsDurable
  BY DEF OwnInv
<1> QED BY <1>1, OwnInvariance, PTL

(* Leader Append-Only (DISSERTATION_CHECKLIST.md): while it leads, a       *)
(* server's log is only extended.                                          *)
THEOREM LeadersOnlyAppend == Spec => LeaderAppendOnly
<1> DEFINE Step == \A n \in Server :
              role[n] = "Leader" /\ role'[n] = "Leader"
                  => /\ Len(log'[n]) >= Len(log[n])
                     /\ SubSeq(log'[n], 1, Len(log[n])) = log[n]
<1>1. OwnInv /\ [Next]_vars => [Step]_vars
  <2> SUFFICES ASSUME OwnInv, Next, NEW n \in Server,
                      role[n] = "Leader", role'[n] = "Leader"
               PROVE  /\ Len(log'[n]) >= Len(log[n])
                      /\ SubSeq(log'[n], 1, Len(log[n])) = log[n]
    OBVIOUS
  <2>1. log'[n] = log[n] \/ \E e \in Entry : log'[n] = Append(log[n], e)
    BY NextOwnStep DEF OwnStep
  <2>2. log[n] \in Seq(Entry)
    BY DEF OwnInv, TypeOK
  <2>3. CASE log'[n] = log[n]
    BY <2>2, <2>3
  <2>4. ASSUME NEW e \in Entry, log'[n] = Append(log[n], e)
        PROVE  /\ Len(log'[n]) >= Len(log[n])
               /\ SubSeq(log'[n], 1, Len(log[n])) = log[n]
    BY <2>2, <2>4
  <2> QED BY <2>1, <2>3, <2>4
<1> QED BY <1>1, OwnInvariance, PTL DEF Spec, LeaderAppendOnly
=============================================================================
