--------------------------- MODULE RaftTypeProofs ---------------------------
(***************************************************************************)
(* Type correctness of Raft, for every set of servers and every bound.     *)
(*                                                                         *)
(* TypeOK is inductive as it stands.  Its one relational conjunct, that a  *)
(* leader's next_index is at least 1, is what makes the requests it sends  *)
(* well formed.  A leaf with two SMT limits gets a second attempt.         *)
(***************************************************************************)
EXTENDS Raft, RaftLogProofs

(* TypeOK in the groups the actions change together.                       *)
PersistentOK ==
    /\ term \in [Server -> Nat]
    /\ voted_for \in [Server -> Server \cup {None}]
    /\ log \in [Server -> Seq(Entry)]

StableOK == stable \in [Server -> Persistent]

CommitOK == commit_index \in [Server -> Nat]

RoleOK ==
    /\ role \in [Server -> Roles]
    /\ leader \in [Server -> Server \cup {None}]
    /\ heard \in [Server -> BOOLEAN]
    /\ votes \in [Server -> SUBSET Server]

ProgressOK ==
    /\ next_index \in [Server -> [Server -> Nat]]
    /\ match_index \in [Server -> [Server -> Nat]]
    /\ \A n, p \in Server : role[n] = "Leader" => next_index[n][p] >= 1

MessagesOK == msgs \subseteq Message

(* The groups are TypeOK.                                                  *)
LEMMA TypeOKGroups ==
    TypeOK <=> PersistentOK /\ StableOK /\ CommitOK /\ RoleOK /\ ProgressOK /\ MessagesOK
BY SMTT(60), SMTT(90) DEF TypeOK, PersistentOK, StableOK, CommitOK, RoleOK, ProgressOK, MessagesOK

(* ... in the next state too.                                              *)
LEMMA TypeOKGroupsNext ==
    TypeOK' <=> PersistentOK' /\ StableOK' /\ CommitOK' /\ RoleOK' /\ ProgressOK' /\ MessagesOK'
BY DEF TypeOK, PersistentOK, StableOK, CommitOK, RoleOK, ProgressOK, MessagesOK

-----------------------------------------------------------------------------
(* Positions and terms of the servers' logs.                               *)
LEMMA EntryLogTypes ==
    ASSUME NEW lg \in Seq(Entry), NEW i \in Int
    PROVE  last_index(lg) \in Nat /\ term_at(lg, i) \in Nat /\ last_term(lg) \in Nat
<1>1. lg \in Seq([term : Nat, cmd : Command])
  BY DEF Entry
<1>2. QED
  BY ONLY <1>1, i \in Int, LogTypes

(* The messages the handlers build are messages.                           *)
LEMMA ElectionRequestTypes ==
    ASSUME NEW from \in Server, NEW to \in Server, NEW t \in Nat, NEW lg \in Seq(Entry)
    PROVE  /\ PreVoteRequest(from, to, t, lg) \in Message
           /\ VoteRequest(from, to, t, lg) \in Message
<1>1. last_index(lg) \in Nat /\ last_term(lg) \in Nat
  BY EntryLogTypes, 0 \in Int
<1>2. PreVoteRequest(from, to, t, lg) \in Message
  BY <1>1 DEF PreVoteRequest, Message
<1>3. VoteRequest(from, to, t, lg) \in Message
  BY <1>1 DEF VoteRequest, Message
<1>4. QED
  BY <1>2, <1>3

(* ... the answers to them and TimeoutNow too.  The answers are quantified *)
(* in the statement, so that a use needs no fact about the flag's type.    *)
LEMMA PreVoteResponseType ==
    ASSUME NEW from \in Server, NEW to \in Server, NEW t \in Nat, NEW rt \in Nat
    PROVE  \A b \in BOOLEAN : {PreVoteResponse(from, to, t, rt, b)} \subseteq Message
BY DEF PreVoteResponse, Message

LEMMA VoteResponseType ==
    ASSUME NEW from \in Server, NEW to \in Server, NEW t \in Nat
    PROVE  \A b \in BOOLEAN : {VoteResponse(from, to, t, b)} \subseteq Message
BY DEF VoteResponse, Message

LEMMA TimeoutNowType ==
    ASSUME NEW from \in Server, NEW to \in Server, NEW t \in Nat
    PROVE  {TimeoutNow(from, to, t)} \subseteq Message
BY DEF TimeoutNow, Message

(* ... the requests of replication.                                        *)
LEMMA AppendRequestType ==
    ASSUME NEW from \in Server, NEW to \in Server, NEW t \in Nat, NEW lg \in Seq(Entry),
           NEW next \in Nat, next >= 1, NEW c \in Nat
    PROVE  AppendRequest(from, to, t, lg, next, c) \in Message
<1>1. entries_to_send(lg, next, MaxEntriesPerMsg) \in Seq(Entry)
  BY SMTT(60), SMTT(90), SentEntriesType, BoundAssumption
<1>2. term_at(lg, next - 1) \in Nat
  BY EntryLogTypes, next - 1 \in Int
<1>3. QED
  BY <1>1, <1>2 DEF AppendRequest, Message

(* ... and the answers to them.                                            *)
LEMMA AppendResponseType ==
    ASSUME NEW from \in Server, NEW to \in Server, NEW t \in Nat, NEW i \in Nat
    PROVE  \A b \in BOOLEAN : {AppendResponse(from, to, t, b, i)} \subseteq Message
BY DEF AppendResponse, Message

(* Sending keeps the network well formed.                                  *)
LEMMA SendType ==
    ASSUME NEW ms, ms \subseteq Message, MessagesOK, Send(ms)
    PROVE  MessagesOK'
BY DEF Send, MessagesOK

(* Saving keeps the disk well formed.                                      *)
LEMMA PersistType ==
    ASSUME NEW n \in Server, StableOK, PersistentOK', Persist(n)
    PROVE  StableOK'
BY DEF Persist, StableOK, PersistentOK, Persistent

(* Every transition leaves a well-formed role behind.                      *)
LEMMA ToFollowerType ==
    ASSUME NEW n \in Server, NEW l \in Server \cup {None}, NEW c \in BOOLEAN,
           RoleOK, ProgressOK, ToFollower(n, l, c)
    PROVE  RoleOK' /\ ProgressOK'
<1>1. role' \in [Server -> Roles] /\ leader' \in [Server -> Server \cup {None}]
  BY DEF ToFollower, RoleOK, Roles
<1>2. heard' \in [Server -> BOOLEAN]
  BY DEF ToFollower, RoleOK
<1>3. votes' \in [Server -> SUBSET Server]
  BY DEF ToFollower, RoleOK
<1>4. ProgressOK'
  BY DEF ToFollower, RoleOK, ProgressOK, NoProgress
<1>5. QED
  BY <1>1, <1>2, <1>3, <1>4 DEF RoleOK

(* ... the new leader's requests included.                                 *)
LEMMA ToLeaderType ==
    ASSUME NEW n \in Server, NEW t \in Nat, PersistentOK, CommitOK, RoleOK, ProgressOK,
           MessagesOK, ToLeader(n, t)
    PROVE  RoleOK' /\ ProgressOK' /\ MessagesOK'
<1>1. last_index(log[n]) \in Nat
  BY EntryLogTypes, 0 \in Int DEF PersistentOK
<1>2. /\ initial_next(log[n]) \in [Server -> Nat]
      /\ \A p \in Server : initial_next(log[n])[p] >= 1
  BY <1>1 DEF initial_next
<1>3. RoleOK'
  <2>1. role' \in [Server -> Roles] /\ leader' \in [Server -> Server \cup {None}]
    BY DEF ToLeader, RoleOK, Roles
  <2>2. heard' \in [Server -> BOOLEAN]
    BY DEF ToLeader, RoleOK
  <2>3. votes' \in [Server -> SUBSET Server]
    BY DEF ToLeader, RoleOK
  <2>4. QED
    BY SMTT(60), SMTT(90), <2>1, <2>2, <2>3 DEF RoleOK
<1>4. ProgressOK'
  <2>1. next_index' = [next_index EXCEPT ![n] = initial_next(log[n])]
    BY DEF ToLeader
  <2>2. next_index' \in [Server -> [Server -> Nat]]
    BY <1>2, <2>1 DEF ProgressOK
  <2>3. match_index' \in [Server -> [Server -> Nat]]
    BY <1>1 DEF ToLeader, ProgressOK
  <2>4. \A s, p \in Server : role'[s] = "Leader" => next_index'[s][p] >= 1
    BY <1>2, <2>1 DEF ToLeader, ProgressOK, RoleOK
  <2>5. QED
    BY <2>2, <2>3, <2>4 DEF ProgressOK
<1>5. MessagesOK'
  <2> DEFINE ms == {AppendRequest(n, p, t, log[n], initial_next(log[n])[p], commit_index[n]) :
                       p \in Server \ {n}}
  <2>1. log[n] \in Seq(Entry) /\ commit_index[n] \in Nat
    BY DEF PersistentOK, CommitOK
  <2>2. ASSUME NEW p \in Server
        PROVE  AppendRequest(n, p, t, log[n], initial_next(log[n])[p], commit_index[n]) \in Message
    <3>1. initial_next(log[n])[p] \in Nat /\ initial_next(log[n])[p] >= 1
      BY <1>2
    <3>2. QED
      BY <2>1, <3>1, AppendRequestType
  <2>3. ms \subseteq Message
    BY <2>2
  <2>4. Send(ms)
    BY DEF ToLeader
  <2>5. QED
    BY <2>3, <2>4, SendType
<1>6. QED
  BY <1>3, <1>4, <1>5

(* Starting an election keeps every group well formed.                     *)
LEMMA ToCandidateType ==
    ASSUME NEW n \in Server, NEW t \in Nat, NEW c \in BOOLEAN, TypeOK, ToCandidate(n, t, c)
    PROVE  TypeOK'
<1>1. PersistentOK /\ StableOK /\ CommitOK /\ RoleOK /\ ProgressOK /\ MessagesOK
  BY TypeOKGroups
<1>2. PersistentOK' /\ CommitOK'
  BY <1>1 DEF ToCandidate, PersistentOK, CommitOK
<1>3. StableOK'
  BY <1>1, <1>2, PersistType DEF ToCandidate
<1>4. CASE has_quorum({n})
  <2>1. ToLeader(n, t + 1)
    BY <1>4 DEF ToCandidate
  <2>2. RoleOK' /\ ProgressOK' /\ MessagesOK'
    BY <1>1, <2>1, ToLeaderType
  <2>3. QED
    BY SMTT(60), SMTT(90), <1>2, <1>3, <2>2, TypeOKGroupsNext
<1>5. CASE ~has_quorum({n})
  <2>1. role' \in [Server -> Roles] /\ leader' \in [Server -> Server \cup {None}]
    BY <1>1, <1>5 DEF ToCandidate, RoleOK, Roles
  <2>2. heard' \in [Server -> BOOLEAN]
    BY ZenonT(40), <1>1, <1>5 DEF ToCandidate, RoleOK
  <2>3. votes' \in [Server -> SUBSET Server]
    BY <1>1, <1>5 DEF ToCandidate, RoleOK
  <2>4. ProgressOK'
    BY <1>1, <1>5 DEF ToCandidate, ProgressOK, RoleOK, leaderVars
  <2>5. MessagesOK'
    <3> DEFINE ms == {VoteRequest(n, p, t + 1, log[n]) : p \in Server \ {n}}
    <3>1. log[n] \in Seq(Entry)
      BY <1>1 DEF PersistentOK
    <3>2. ms \subseteq Message
      BY <3>1, ElectionRequestTypes
    <3>3. Send(ms)
      BY <1>5 DEF ToCandidate
    <3>4. QED
      BY <1>1, <3>2, <3>3, SendType
  <2>6. QED
    BY SMTT(60), SMTT(90), <1>2, <1>3, <2>1, <2>2, <2>3, <2>4, <2>5, TypeOKGroupsNext DEF RoleOK
<1>6. QED
  BY <1>4, <1>5

(* ... and so does asking for pre-votes.                                   *)
LEMMA ToPreCandidateType ==
    ASSUME NEW n \in Server, TypeOK, ToPreCandidate(n)
    PROVE  TypeOK'
<1>1. PersistentOK /\ StableOK /\ CommitOK /\ RoleOK /\ ProgressOK /\ MessagesOK
  BY TypeOKGroups
<1>2. CASE has_quorum({n})
  <2>1. ToCandidate(n, term[n], FALSE)
    BY <1>2, ZenonT(40) DEF ToPreCandidate
  <2>2. term[n] \in Nat /\ FALSE \in BOOLEAN
    BY <1>1 DEF PersistentOK
  <2>3. QED
    BY <2>1, <2>2, ToCandidateType, ZenonT(40)
<1>3. CASE ~has_quorum({n})
  <2>1. PersistentOK' /\ StableOK' /\ CommitOK'
    BY SMTT(60), SMTT(90), <1>1, <1>3 DEF ToPreCandidate, PersistentOK, StableOK, CommitOK, persistentVars
  <2>2. role' \in [Server -> Roles] /\ leader' \in [Server -> Server \cup {None}]
    BY <1>1, <1>3 DEF ToPreCandidate, RoleOK, Roles
  <2>3. heard' \in [Server -> BOOLEAN]
    BY <1>1, <1>3, ZenonT(40) DEF ToPreCandidate, RoleOK
  <2>4. votes' \in [Server -> SUBSET Server]
    BY SMTT(60), SMTT(90), <1>1, <1>3 DEF ToPreCandidate, RoleOK
  <2>5. ProgressOK'
    BY SMTT(60), SMTT(90), <1>1, <1>3 DEF ToPreCandidate, ProgressOK, RoleOK, leaderVars
  <2>6. MessagesOK'
    <3> DEFINE ms == {PreVoteRequest(n, p, term[n], log[n]) : p \in Server \ {n}}
    <3>1. log[n] \in Seq(Entry) /\ term[n] \in Nat
      BY SMTT(60), SMTT(90), <1>1 DEF PersistentOK
    <3>2. ms \subseteq Message
      BY <3>1, ElectionRequestTypes
    <3>3. Send(ms)
      BY <1>3 DEF ToPreCandidate
    <3>4. QED
      BY SMTT(60), SMTT(90), <1>1, <3>2, <3>3, SendType
  <2>7. QED
    BY SMTT(60), SMTT(90), <2>1, <2>2, <2>3, <2>4, <2>5, <2>6, TypeOKGroupsNext DEF RoleOK
<1>4. QED
  BY <1>2, <1>3

-----------------------------------------------------------------------------
(* The fields of a message.                                                *)
LEMMA MessageFields ==
    ASSUME NEW m \in Message
    PROVE  /\ m.from \in Server /\ m.to \in Server /\ m.term \in Nat
           /\ m.kind = "PreVoteResponse" => m.resp_term \in Nat
           /\ m.kind = "AppendRequest" =>
                 /\ m.prev_log_index \in Nat /\ m.prev_log_term \in Nat
                 /\ m.entries \in Seq(Entry) /\ m.leader_commit \in Nat
           /\ m.kind = "AppendResponse" => m.last_log_index \in Nat
BY DEF Message

(* What advance_commit_index returns is an index.                          *)
LEMMA CommitIndexType ==
    ASSUME NEW t \in Nat, NEW lg \in Seq(Entry), NEW match \in [Server -> Nat], NEW c \in Nat
    PROVE  advance_commit_index(t, lg, match, c) \in Nat
<1> DEFINE R == {i \in c + 1 .. last_index(lg) : /\ term_at(lg, i) = t
                                                 /\ has_quorum({s \in Server : match[s] >= i})}
<1>1. CASE R = {}
  BY <1>1 DEF advance_commit_index
<1>2. CASE R # {}
  <2>1. last_index(lg) \in Nat
    BY EntryLogTypes, 0 \in Int
  <2>2. R \in SUBSET (0 .. last_index(lg))
    BY <2>1
  <2>3. Max(R) \in R
    <3> HIDE DEF R
    <3> QED BY <1>2, <2>1, <2>2, MaxOfBounded, ZenonT(40)
  <2>4. QED
    BY <1>2, <2>1, <2>2, <2>3 DEF advance_commit_index
<1>3. QED
  BY ZenonT(40), <1>1, <1>2

(* broadcast_append with any log and commit index.                         *)
LEMMA BroadcastType ==
    ASSUME NEW n \in Server, NEW lg \in Seq(Entry), NEW c \in Nat, TypeOK, role[n] = "Leader",
           role' = role, broadcast_append(n, lg, c)
    PROVE  /\ next_index' \in [Server -> [Server -> Nat]]
           /\ \A s, p \in Server : role'[s] = "Leader" => next_index'[s][p] >= 1
           /\ MessagesOK'
<1>1. \A p \in Server : next_index[n][p] \in Nat /\ next_index[n][p] >= 1
  BY DEF TypeOK
<1>2. ASSUME NEW p \in Server
      PROVE  LET x == next_after_send(lg, next_index[n][p], MaxEntriesPerMsg, Pipelining)
             IN  x \in Nat /\ x >= 1
  BY <1>1, NextIndexType, 0 \in Nat, BoundAssumption, OptionAssumption, ZenonT(40)
<1> DEFINE row == [p \in Server |->
                      IF p = n THEN next_index[n][p]
                      ELSE next_after_send(lg, next_index[n][p], MaxEntriesPerMsg, Pipelining)]
<1>3. row \in [Server -> Nat] /\ \A p \in Server : row[p] >= 1
  BY <1>1, <1>2
<1>4. next_index' = [next_index EXCEPT ![n] = row]
  BY DEF broadcast_append
<1>5. /\ next_index' \in [Server -> [Server -> Nat]]
      /\ \A s, p \in Server : role'[s] = "Leader" => next_index'[s][p] >= 1
  <2> HIDE DEF row
  <2> QED BY <1>3, <1>4 DEF TypeOK
<1>6. MessagesOK'
  <2> DEFINE ms == {AppendRequest(n, p, term[n], lg, next_index[n][p], c) : p \in Server \ {n}}
  <2>1. term[n] \in Nat
    BY SMTT(60), SMTT(90) DEF TypeOK
  <2>2. ASSUME NEW p \in Server
        PROVE  AppendRequest(n, p, term[n], lg, next_index[n][p], c) \in Message
    BY <1>1, <2>1, AppendRequestType
  <2>3. ms \subseteq Message
    BY <2>2
  <2>4. Send(ms)
    BY DEF broadcast_append
  <2>5. QED
    BY <2>3, <2>4, SendType, TypeOKGroups
<1>7. QED
  BY <1>5, <1>6

-----------------------------------------------------------------------------
(* A received message of election keeps TypeOK.                            *)
LEMMA ElectionReceiveType ==
    ASSUME TypeOK, NEW n \in Server, NEW m \in msgs, m.to = n,
           \/ StepDown(n, m)
           \/ FollowerObservesTerm(n, m)
           \/ AnswerPreVote(n, m)
           \/ PreVoteGranted(n, m)
           \/ PreVoteFromHigherTerm(n, m)
           \/ FollowerVotes(n, m)
           \/ DenyVote(n, m)
           \/ VoteGranted(n, m)
           \/ ReceiveTimeoutNow(n, m)
    PROVE  TypeOK'
<1>1. PersistentOK /\ StableOK /\ CommitOK /\ RoleOK /\ ProgressOK /\ MessagesOK
  BY TypeOKGroups
<1>2. m \in Message
  BY <1>1 DEF MessagesOK
<1>3. /\ m.from \in Server /\ m.term \in Nat
      /\ m.kind = "PreVoteResponse" => m.resp_term \in Nat
  BY <1>2, MessageFields
<1>4. term[n] \in Nat /\ log[n] \in Seq(Entry) /\ votes[n] \in SUBSET Server
  BY <1>1 DEF PersistentOK, RoleOK
<1>5. CASE StepDown(n, m)
  <2>1. PersistentOK' /\ CommitOK' /\ MessagesOK'
    BY SMTT(60), SMTT(90), <1>1, <1>3, <1>5 DEF StepDown, PersistentOK, CommitOK, MessagesOK
  <2>2. StableOK'
    BY <1>1, <1>5, <2>1, PersistType DEF StepDown
  <2>3. RoleOK' /\ ProgressOK'
    <3>1. (IF m.kind = "AppendRequest" THEN m.from ELSE None) \in Server \cup {None}
      BY SMTT(60), SMTT(90), <1>3
    <3>2. QED
      BY <1>1, <1>5, <3>1, FALSE \in BOOLEAN, ToFollowerType, ZenonT(40) DEF StepDown
  <2>4. QED
    BY SMTT(60), SMTT(90), <2>1, <2>2, <2>3, TypeOKGroupsNext
<1>6. CASE FollowerObservesTerm(n, m)
  <2>1. PersistentOK' /\ CommitOK' /\ MessagesOK'
    BY SMTT(60), SMTT(90), <1>1, <1>3, <1>6 DEF FollowerObservesTerm, PersistentOK, CommitOK, MessagesOK
  <2>2. StableOK'
    BY ZenonT(40), <1>1, <1>6, <2>1, PersistType DEF FollowerObservesTerm
  <2>3. RoleOK' /\ ProgressOK'
    BY <1>1, <1>6 DEF FollowerObservesTerm, RoleOK, ProgressOK, roleVars, leaderVars
  <2>4. QED
    BY <2>1, <2>2, <2>3, TypeOKGroupsNext
<1>7. CASE AnswerPreVote(n, m)
  <2>1. PersistentOK' /\ StableOK' /\ CommitOK' /\ RoleOK' /\ ProgressOK'
    BY <1>1, <1>7 DEF AnswerPreVote, PersistentOK, StableOK, CommitOK, RoleOK, ProgressOK,
                      persistentVars, roleVars, leaderVars
  <2>2. MessagesOK'
    <3>1. \A b \in BOOLEAN, t \in Nat : {PreVoteResponse(n, m.from, t, term[n], b)} \subseteq Message
      BY SMTT(60), SMTT(90), <1>3, <1>4, PreVoteResponseType
    <3> DEFINE granted == /\ m.next_term > term[n]
                          /\ log_is_up_to_date(log[n], m.last_log_term, m.last_log_index)
    <3>2. \/ Send({PreVoteResponse(n, m.from, term[n], term[n], FALSE)})
          \/ Send({PreVoteResponse(n, m.from, m.term, term[n], granted)})
      BY SMTT(60), SMTT(90), <1>7 DEF AnswerPreVote
    <3>3. granted \in BOOLEAN
      BY SMTT(60), SMTT(90) DEF log_is_up_to_date
    <3>4. QED
      <4> HIDE DEF granted
      <4> QED BY <1>1, <1>3, <1>4, <3>1, <3>2, <3>3, SendType, ZenonT(40)
  <2>3. QED
    BY SMTT(60), SMTT(90), <2>1, <2>2, TypeOKGroupsNext
<1>8. CASE PreVoteGranted(n, m)
  <2>1. CASE has_quorum(votes[n] \cup {m.from})
    <3>1. ToCandidate(n, term[n], FALSE)
      BY <1>8, <2>1, ZenonT(40) DEF PreVoteGranted
    <3>2. QED
      BY <1>4, <3>1, FALSE \in BOOLEAN, ToCandidateType
  <2>2. CASE ~has_quorum(votes[n] \cup {m.from})
    <3>1. votes' = [votes EXCEPT ![n] = votes[n] \cup {m.from}]
      BY SMTT(60), SMTT(90), <1>8, <2>2 DEF PreVoteGranted
    <3>2. UNCHANGED <<persistentVars, commit_index, role, leader, heard, leaderVars, msgs>>
      BY SMTT(60), SMTT(90), <1>8, <2>2 DEF PreVoteGranted
    <3>3. RoleOK' /\ ProgressOK'
      BY <1>1, <1>3, <1>4, <3>1, <3>2, SMTT(40) DEF RoleOK, ProgressOK, leaderVars
    <3>4. PersistentOK' /\ StableOK' /\ CommitOK' /\ MessagesOK'
      BY <1>1, <3>2 DEF PersistentOK, StableOK, CommitOK, MessagesOK, persistentVars
    <3>5. QED
      BY <3>3, <3>4, TypeOKGroupsNext
  <2>3. QED
    BY SMTT(60), SMTT(90), <2>1, <2>2
<1>9. CASE PreVoteFromHigherTerm(n, m)
  <2>1. PersistentOK' /\ CommitOK' /\ MessagesOK'
    BY SMTT(60), SMTT(90), <1>1, <1>3, <1>9 DEF PreVoteFromHigherTerm, PersistentOK, CommitOK, MessagesOK
  <2>2. StableOK'
    BY SMTT(60), SMTT(90), <1>1, <1>9, <2>1, PersistType DEF PreVoteFromHigherTerm
  <2>3. RoleOK' /\ ProgressOK'
    BY <1>1, <1>9, FALSE \in BOOLEAN, ToFollowerType DEF PreVoteFromHigherTerm
  <2>4. QED
    BY <2>1, <2>2, <2>3, TypeOKGroupsNext
<1>10. CASE FollowerVotes(n, m)
  <2> DEFINE granted == /\ can_vote_for(n, m)
                        /\ log_is_up_to_date(log[n], m.last_log_term, m.last_log_index)
  <2>1. /\ term' = [term EXCEPT ![n] = m.term]
        /\ voted_for' = [voted_for EXCEPT ![n] = IF granted THEN m.from
                                                 ELSE IF HigherTerm(n, m) THEN None ELSE @]
        /\ log' = log /\ commit_index' = commit_index
        /\ Persist(n) \/ stable' = stable
        /\ Send({VoteResponse(n, m.from, m.term, granted)})
        /\ UNCHANGED <<roleVars, leaderVars>>
    BY ZenonT(40), <1>10 DEF FollowerVotes
  <2>2. granted \in BOOLEAN
    BY SMTT(60), SMTT(90) DEF can_vote_for, log_is_up_to_date
  <2> HIDE DEF granted
  <2>3. PersistentOK' /\ CommitOK'
    BY ZenonT(40), <1>1, <1>3, <2>1 DEF PersistentOK, CommitOK
  <2>4. StableOK'
    BY SMTT(60), SMTT(90), <1>1, <2>1, <2>3, PersistType DEF StableOK
  <2>5. RoleOK' /\ ProgressOK'
    BY ZenonT(40), <1>1, <2>1 DEF RoleOK, ProgressOK, roleVars, leaderVars
  <2>6. {VoteResponse(n, m.from, m.term, granted)} \subseteq Message
    BY ZenonT(40), <1>3, <1>4, <2>2, VoteResponseType
  <2>7. MessagesOK'
    BY SMTT(60), SMTT(90), <1>1, <2>1, <2>6, SendType
  <2>8. QED
    BY SMTT(60), SMTT(90), <2>3, <2>4, <2>5, <2>7, TypeOKGroupsNext
<1>11. CASE DenyVote(n, m)
  <2>1. PersistentOK' /\ StableOK' /\ CommitOK' /\ RoleOK' /\ ProgressOK'
    BY SMTT(60), SMTT(90), <1>1, <1>11 DEF DenyVote, PersistentOK, StableOK, CommitOK, RoleOK, ProgressOK,
                       persistentVars, roleVars, leaderVars
  <2>2. {VoteResponse(n, m.from, term[n], FALSE)} \subseteq Message
    BY <1>3, <1>4, FALSE \in BOOLEAN, VoteResponseType
  <2>3. MessagesOK'
    BY ZenonT(40), <1>1, <1>11, <2>2, SendType DEF DenyVote
  <2>4. QED
    BY <2>1, <2>3, TypeOKGroupsNext
<1>12. CASE VoteGranted(n, m)
  <2>1. PersistentOK' /\ StableOK' /\ CommitOK'
    BY ZenonT(40), <1>1, <1>12 DEF VoteGranted, PersistentOK, StableOK, CommitOK, persistentVars
  <2>2. CASE has_quorum(votes[n] \cup {m.from})
    <3>1. ToLeader(n, term[n])
      BY SMTT(60), SMTT(90), <1>12, <2>2 DEF VoteGranted
    <3>2. RoleOK' /\ ProgressOK' /\ MessagesOK'
      BY SMTT(60), SMTT(90), <1>1, <1>4, <3>1, ToLeaderType
    <3>3. QED
      BY SMTT(60), SMTT(90), <2>1, <3>2, TypeOKGroupsNext
  <2>3. CASE ~has_quorum(votes[n] \cup {m.from})
    <3>1. votes' = [votes EXCEPT ![n] = votes[n] \cup {m.from}]
      BY ZenonT(40), <1>12, <2>3 DEF VoteGranted
    <3>2. UNCHANGED <<role, leader, heard, leaderVars, msgs>>
      BY SMTT(60), SMTT(90), <1>12, <2>3 DEF VoteGranted
    <3>3. RoleOK' /\ ProgressOK' /\ MessagesOK'
      BY SMTT(60), SMTT(90), <1>1, <1>3, <1>4, <3>1, <3>2 DEF RoleOK, ProgressOK, MessagesOK, leaderVars
    <3>4. QED
      BY <2>1, <3>3, TypeOKGroupsNext
  <2>4. QED
    BY <2>2, <2>3
<1>13. CASE ReceiveTimeoutNow(n, m)
  <2>1. PICK c \in BOOLEAN : ToCandidate(n, IF HigherTerm(n, m) THEN m.term ELSE term[n], c)
    BY SMTT(60), SMTT(90), <1>13 DEF ReceiveTimeoutNow
  <2>2. (IF HigherTerm(n, m) THEN m.term ELSE term[n]) \in Nat
    BY ZenonT(40), <1>3, <1>4
  <2>3. QED
    BY ZenonT(40), <2>1, <2>2, ToCandidateType
<1>14. QED
  BY SMTT(60), SMTT(90), <1>5, <1>6, <1>7, <1>8, <1>9, <1>10, <1>11, <1>12, <1>13

(* A received message of replication keeps TypeOK.                         *)
LEMMA ReplicationReceiveType ==
    ASSUME TypeOK, NEW n \in Server, NEW m \in msgs, m.to = n,
           \/ FollowerAppends(n, m)
           \/ YieldToLeader(n, m)
           \/ RejectStaleAppend(n, m)
           \/ AppendSucceeded(n, m)
           \/ AppendRejected(n, m)
    PROVE  TypeOK'
<1>1. PersistentOK /\ StableOK /\ CommitOK /\ RoleOK /\ ProgressOK /\ MessagesOK
  BY TypeOKGroups
<1>2. m \in Message
  BY SMTT(60), SMTT(90), <1>1 DEF MessagesOK
<1>3. m.from \in Server /\ m.term \in Nat
  BY SMTT(60), SMTT(90), <1>2, MessageFields
<1>4. term[n] \in Nat /\ log[n] \in Seq(Entry) /\ commit_index[n] \in Nat
  BY SMTT(60), SMTT(90), <1>1 DEF PersistentOK, CommitOK
<1>5. last_index(log[n]) \in Nat
  BY <1>4, EntryLogTypes, 0 \in Int
<1>6. CASE FollowerAppends(n, m)
  <2>1. /\ m.prev_log_index \in Nat /\ m.entries \in Seq(Entry) /\ m.leader_commit \in Nat
    BY ZenonT(40), <1>2, <1>6, MessageFields DEF FollowerAppends
  <2> DEFINE accepted == consistent(log[n], m.prev_log_index, m.prev_log_term)
             lg == IF accepted THEN append_entries(log[n], m.prev_log_index, m.entries)
                               ELSE log[n]
             commit == IF accepted /\ m.leader_commit > commit_index[n]
                       THEN Min({m.leader_commit, last_index(lg)}) ELSE commit_index[n]
  <2>2. lg \in Seq(Entry)
    BY ZenonT(40), <1>4, <2>1, AppendedLogType
  <2>3. accepted \in BOOLEAN
    BY SMTT(60), SMTT(90) DEF consistent
  <2>4. /\ term' = [term EXCEPT ![n] = m.term]
        /\ voted_for' = [voted_for EXCEPT ![n] = IF HigherTerm(n, m) THEN None ELSE @]
        /\ leader' = [leader EXCEPT ![n] = m.from]
        /\ heard' = [heard EXCEPT ![n] = ElectionTimeoutMin > 0]
        /\ UNCHANGED <<role, votes, leaderVars>>
    BY ZenonT(40), <1>6 DEF FollowerAppends
  <2>5. /\ log' = [log EXCEPT ![n] = lg]
        /\ commit_index' = [commit_index EXCEPT ![n] = commit]
        /\ Persist(n) \/ stable' = stable
        /\ Send({AppendResponse(n, m.from, m.term, accepted, last_index(lg))})
    BY ZenonT(40), <1>6 DEF FollowerAppends
  <2> HIDE DEF accepted, lg
  <2>6. last_index(lg) \in Nat
    BY <2>2, EntryLogTypes, 0 \in Int
  <2>7. commit \in Nat
    <3>1. Min({m.leader_commit, last_index(lg)}) \in Nat
      BY SMTT(60), SMTT(90), <2>1, <2>6, MinOfTwo
    <3>2. QED
      BY <1>4, <3>1
  <2> HIDE DEF commit
  <2>8. PersistentOK' /\ CommitOK'
    BY SMTT(60), SMTT(90), <1>1, <1>3, <2>2, <2>4, <2>5, <2>7 DEF PersistentOK, CommitOK
  <2>9. StableOK'
    BY SMTT(60), SMTT(90), <1>1, <2>5, <2>8, PersistType DEF StableOK
  <2>10. RoleOK'
    <3>1. role' \in [Server -> Roles] /\ leader' \in [Server -> Server \cup {None}]
      BY SMTT(60), SMTT(90), <1>1, <1>3, <2>4 DEF RoleOK
    <3>2. heard' \in [Server -> BOOLEAN]
      BY SMTT(60), SMTT(90), <1>1, <2>4 DEF RoleOK
    <3>3. QED
      BY SMTT(60), SMTT(90), <1>1, <2>4, <3>1, <3>2 DEF RoleOK
  <2>11. ProgressOK'
    BY SMTT(60), SMTT(90), <1>1, <2>4 DEF ProgressOK, leaderVars
  <2>12. {AppendResponse(n, m.from, m.term, accepted, last_index(lg))} \subseteq Message
    BY SMTT(60), SMTT(90), <1>3, <2>3, <2>6, AppendResponseType
  <2>13. MessagesOK'
    BY SMTT(60), SMTT(90), <1>1, <2>5, <2>12, SendType
  <2>14. QED
    BY SMTT(60), SMTT(90), <2>8, <2>9, <2>10, <2>11, <2>13, TypeOKGroupsNext
<1>7. CASE YieldToLeader(n, m)
  <2>1. RoleOK' /\ ProgressOK'
    BY <1>1, <1>3, <1>7, TRUE \in BOOLEAN, ToFollowerType, ZenonT(40) DEF YieldToLeader
  <2>2. PersistentOK' /\ StableOK' /\ CommitOK' /\ MessagesOK'
    BY SMTT(60), SMTT(90), <1>1, <1>7 DEF YieldToLeader, PersistentOK, StableOK, CommitOK, MessagesOK, persistentVars
  <2>3. QED
    BY <2>1, <2>2, TypeOKGroupsNext
<1>8. CASE RejectStaleAppend(n, m)
  <2>1. PersistentOK' /\ StableOK' /\ CommitOK' /\ RoleOK' /\ ProgressOK'
    BY <1>1, <1>8 DEF RejectStaleAppend, PersistentOK, StableOK, CommitOK, RoleOK, ProgressOK,
                      persistentVars, roleVars, leaderVars
  <2>2. {AppendResponse(n, m.from, term[n], FALSE, last_index(log[n]))} \subseteq Message
    BY <1>3, <1>4, <1>5, FALSE \in BOOLEAN, AppendResponseType, ZenonT(40)
  <2>3. MessagesOK'
    BY <1>1, <1>8, <2>2, SendType, ZenonT(40) DEF RejectStaleAppend
  <2>4. QED
    BY SMTT(60), SMTT(90), <2>1, <2>3, TypeOKGroupsNext
<1>9. CASE AppendSucceeded(n, m)
  <2>1. m.last_log_index \in Nat
    BY SMTT(60), SMTT(90), <1>2, <1>9, MessageFields DEF AppendSucceeded
  <2> DEFINE match == [match_index[n] EXCEPT ![m.from] = m.last_log_index]
  <2>2. match \in [Server -> Nat]
    BY <1>1, <2>1, ZenonT(40) DEF ProgressOK
  <2>3. match_index' = [match_index EXCEPT ![n] = match]
    BY SMTT(60), SMTT(90), <1>9 DEF AppendSucceeded
  <2>4. commit_index' = [commit_index EXCEPT ![n] =
                            advance_commit_index(term[n], log[n], match, commit_index[n])]
    BY <1>9 DEF AppendSucceeded
  <2> HIDE DEF match
  <2>5. CommitOK'
    BY <1>1, <1>4, <2>2, <2>4, CommitIndexType, ZenonT(40) DEF CommitOK
  <2>6. next_index' \in [Server -> [Server -> Nat]]
    <3>1. next_index \in [Server -> [Server -> Nat]]
      BY SMTT(60), SMTT(90), <1>1 DEF ProgressOK
    <3>2. next_index' = next_index \/ next_index' = [next_index EXCEPT ![n][m.from] = m.last_log_index + 1]
      BY <1>9 DEF AppendSucceeded
    <3>3. m.last_log_index + 1 \in Nat
      BY SMTT(60), SMTT(90), <2>1
    <3>4. QED
      BY SMTT(60), SMTT(90), <1>3, <3>1, <3>2, <3>3
  <2>7. \A s, p \in Server : role'[s] = "Leader" => next_index'[s][p] >= 1
    <3>1. SUFFICES ASSUME NEW s \in Server, NEW p \in Server, role[s] = "Leader"
                   PROVE  next_index'[s][p] >= 1
      BY SMTT(60), SMTT(90), <1>9 DEF AppendSucceeded, roleVars
    <3>2. next_index[s][p] >= 1
      BY SMTT(60), SMTT(90), <1>1, <3>1 DEF ProgressOK
    <3>3. CASE Pipelining
      BY SMTT(60), SMTT(90), <1>9, <3>2, <3>3 DEF AppendSucceeded
    <3>4. CASE ~Pipelining
      <4>1. next_index' = [next_index EXCEPT ![n][m.from] = m.last_log_index + 1]
        BY SMTT(60), SMTT(90), <1>9, <3>4 DEF AppendSucceeded
      <4>2. next_index \in [Server -> [Server -> Nat]]
        BY SMTT(60), SMTT(90), <1>1 DEF ProgressOK
      <4>3. next_index'[s][p] = IF s = n /\ p = m.from THEN m.last_log_index + 1
                                ELSE next_index[s][p]
        BY <1>3, <4>1, <4>2
      <4>4. QED
        BY SMTT(60), SMTT(90), <2>1, <3>2, <4>3
    <3>5. QED
      BY SMTT(60), SMTT(90), <3>3, <3>4
  <2>8. ProgressOK'
    BY <1>1, <2>2, <2>3, <2>6, <2>7, ZenonT(40) DEF ProgressOK
  <2>9. PersistentOK' /\ StableOK' /\ RoleOK' /\ MessagesOK'
    BY SMTT(60), SMTT(90), <1>1, <1>9 DEF AppendSucceeded, PersistentOK, StableOK, RoleOK, MessagesOK,
                      persistentVars, roleVars
  <2>10. QED
    BY SMTT(60), SMTT(90), <2>5, <2>8, <2>9, TypeOKGroupsNext
<1>10. CASE AppendRejected(n, m)
  <2>1. m.last_log_index \in Nat
    BY SMTT(60), SMTT(90), <1>2, <1>10, MessageFields DEF AppendRejected
  <2>2. match_index[n][m.from] \in Nat
    BY <1>1, <1>3 DEF ProgressOK
  <2> DEFINE next == next_after_rejection(match_index[n][m.from], m.last_log_index, Pipelining)
             after == next_after_send(log[n], next, MaxEntriesPerMsg, Pipelining)
  <2>3. next \in Nat /\ next >= 1
    <3>1. 1 \in Nat /\ 1 >= 1
      OBVIOUS
    <3>2. QED
      BY <1>4, <2>1, <2>2, <3>1, NextIndexType, BoundAssumption, OptionAssumption, ZenonT(40)
  <2>4. after \in Nat /\ after >= 1
    <3> HIDE DEF next
    <3> QED BY <1>4, <2>3, 0 \in Nat, NextIndexType, BoundAssumption, OptionAssumption, ZenonT(40)
  <2>5. /\ Send({AppendRequest(n, m.from, term[n], log[n], next, commit_index[n])})
        /\ next_index' = [next_index EXCEPT ![n][m.from] = after]
        /\ UNCHANGED <<persistentVars, commit_index, roleVars, match_index>>
    BY SMTT(60), SMTT(90), <1>10 DEF AppendRejected
  <2> HIDE DEF next, after
  <2>6. ProgressOK'
    BY ZenonT(40), <1>1, <1>3, <2>4, <2>5 DEF ProgressOK, roleVars
  <2>7. {AppendRequest(n, m.from, term[n], log[n], next, commit_index[n])} \subseteq Message
    BY SMTT(60), SMTT(90), <1>3, <1>4, <2>3, AppendRequestType
  <2>8. MessagesOK'
    BY SMTT(60), SMTT(90), <1>1, <2>5, <2>7, SendType
  <2>9. PersistentOK' /\ StableOK' /\ CommitOK' /\ RoleOK'
    BY SMTT(60), SMTT(90), <1>1, <2>5 DEF PersistentOK, StableOK, CommitOK, RoleOK, persistentVars, roleVars
  <2>10. QED
    BY SMTT(60), SMTT(90), <2>6, <2>8, <2>9, TypeOKGroupsNext
<1>11. QED
  BY <1>6, <1>7, <1>8, <1>9, <1>10

(* A step a server takes by itself keeps TypeOK.                           *)
LEMMA LocalType ==
    ASSUME TypeOK, NEW n \in Server, Local(n)
    PROVE  TypeOK'
<1>1. PersistentOK /\ StableOK /\ CommitOK /\ RoleOK /\ ProgressOK /\ MessagesOK
  BY TypeOKGroups
<1>2. term[n] \in Nat /\ log[n] \in Seq(Entry) /\ commit_index[n] \in Nat
  BY <1>1 DEF PersistentOK, CommitOK
<1>3. CASE Quiet(n)
  <2>1. heard' \in [Server -> BOOLEAN]
    BY SMTT(60), SMTT(90), <1>1, <1>3 DEF Quiet, RoleOK
  <2>2. RoleOK' /\ ProgressOK'
    BY SMTT(60), SMTT(90), <1>1, <1>3, <2>1 DEF Quiet, RoleOK, ProgressOK, leaderVars
  <2>3. PersistentOK' /\ StableOK' /\ CommitOK' /\ MessagesOK'
    BY <1>1, <1>3 DEF Quiet, PersistentOK, StableOK, CommitOK, MessagesOK, persistentVars
  <2>4. QED
    BY <2>2, <2>3, TypeOKGroupsNext
<1>4. CASE ElectionTimeout(n)
  <2>1. ToCandidate(n, term[n], FALSE) \/ ToPreCandidate(n)
    BY <1>4, ZenonT(40) DEF ElectionTimeout
  <2>2. QED
    BY <1>2, <2>1, FALSE \in BOOLEAN, ToCandidateType, ToPreCandidateType, ZenonT(40)
<1>5. CASE Heartbeat(n)
  <2>1. /\ role[n] = "Leader" /\ role' = role
        /\ broadcast_append(n, log[n], commit_index[n])
        /\ UNCHANGED <<persistentVars, commit_index, roleVars, match_index>>
    BY <1>5 DEF Heartbeat, roleVars
  <2>2. ProgressOK' /\ MessagesOK'
    BY <1>1, <1>2, <2>1, BroadcastType, ZenonT(40) DEF ProgressOK
  <2>3. PersistentOK' /\ StableOK' /\ CommitOK' /\ RoleOK'
    BY <1>1, <2>1 DEF PersistentOK, StableOK, CommitOK, RoleOK, persistentVars, roleVars
  <2>4. QED
    BY SMTT(60), SMTT(90), <2>2, <2>3, TypeOKGroupsNext
<1>6. ASSUME NEW cmd \in Command, Propose(n, cmd)
      PROVE  TypeOK'
  <2> DEFINE lg == with_proposal(log[n], term[n], cmd)
             match == match_after_proposal(n, lg)
             commit == advance_commit_index(term[n], lg, match, commit_index[n])
  <2>1. lg \in Seq(Entry)
    <3>1. [term |-> term[n], cmd |-> cmd] \in Entry
      BY SMTT(60), SMTT(90), <1>2, <1>6 DEF Entry
    <3>2. QED
      BY SMTT(60), SMTT(90), <1>2, <3>1 DEF with_proposal
  <2>2. /\ role[n] = "Leader" /\ role' = role
        /\ log' = [log EXCEPT ![n] = lg]
        /\ match_index' = [match_index EXCEPT ![n] = match]
        /\ commit_index' = [commit_index EXCEPT ![n] = commit]
        /\ broadcast_append(n, lg, commit)
        /\ UNCHANGED <<term, voted_for, roleVars>>
        /\ Persist(n) \/ stable' = stable
    BY ZenonT(40), <1>6 DEF Propose, roleVars
  <2> HIDE DEF lg
  <2>3. last_index(lg) \in Nat
    BY <2>1, EntryLogTypes, 0 \in Int
  <2>4. match \in [Server -> Nat]
    BY <1>1, <2>3 DEF match_after_proposal, ProgressOK
  <2> HIDE DEF match
  <2>5. commit \in Nat
    BY <1>2, <2>1, <2>4, CommitIndexType, ZenonT(40)
  <2> HIDE DEF commit
  <2>6. PersistentOK' /\ CommitOK'
    BY SMTT(60), SMTT(90), <1>1, <2>1, <2>2, <2>5 DEF PersistentOK, CommitOK
  <2>7. StableOK'
    BY SMTT(60), SMTT(90), <1>1, <2>2, <2>6, PersistType DEF StableOK
  <2>8. /\ next_index' \in [Server -> [Server -> Nat]]
        /\ \A s, p \in Server : role'[s] = "Leader" => next_index'[s][p] >= 1
        /\ MessagesOK'
    BY <2>1, <2>2, <2>5, BroadcastType
  <2>9. ProgressOK' /\ RoleOK'
    BY <1>1, <2>2, <2>4, <2>8, ZenonT(40) DEF ProgressOK, RoleOK, roleVars
  <2>10. QED
    BY SMTT(60), SMTT(90), <2>6, <2>7, <2>8, <2>9, TypeOKGroupsNext
<1>7. ASSUME NEW i \in 1 .. last_index(log[n]), DiskWriteComplete(n, i)
      PROVE  TypeOK'
  <2>1. i \in Nat /\ last_index(log[n]) \in Nat
    BY <1>2, <1>7, EntryLogTypes, 0 \in Int
  <2> DEFINE match == [match_index[n] EXCEPT ![n] = i]
  <2>2. match \in [Server -> Nat]
    BY <1>1, <2>1 DEF ProgressOK
  <2>3. /\ match_index' = [match_index EXCEPT ![n] = match]
        /\ commit_index' = [commit_index EXCEPT ![n] =
                               advance_commit_index(term[n], log[n], match, commit_index[n])]
        /\ stable' = [stable EXCEPT ![n].log = IF i > Len(@) THEN SubSeq(log[n], 1, i) ELSE @]
        /\ UNCHANGED <<term, voted_for, log, roleVars, next_index, msgs>>
    BY <1>7 DEF DiskWriteComplete
  <2> HIDE DEF match
  <2>4. CommitOK'
    BY ZenonT(40), <1>1, <1>2, <2>2, <2>3, CommitIndexType DEF CommitOK
  <2>5. SubSeq(log[n], 1, i) \in Seq(Entry)
    <3>1. \A k \in 1 .. i : log[n][k] \in Entry
      BY <1>2, <1>7, <2>1, ElementOfSeq DEF last_index
    <3>2. QED
      BY <2>1, <3>1, SubSeqProperties
  <2>6. StableOK'
    BY <1>1, <2>3, <2>5, ZenonT(40) DEF StableOK, Persistent
  <2>7. PersistentOK' /\ RoleOK' /\ ProgressOK' /\ MessagesOK'
    BY SMTT(60), SMTT(90), <1>1, <2>2, <2>3 DEF PersistentOK, RoleOK, ProgressOK, MessagesOK, roleVars
  <2>8. QED
    BY SMTT(60), SMTT(90), <2>4, <2>6, <2>7, TypeOKGroupsNext
<1>8. ASSUME NEW target \in TransferTargets, TransferLeadership(n, target)
      PROVE  TypeOK'
  <2>1. target \in Server
    BY SMTT(60), SMTT(90), <1>8, OptionAssumption
  <2>2. {TimeoutNow(n, target, term[n])} \subseteq Message
    BY SMTT(60), SMTT(90), <1>2, <2>1, TimeoutNowType
  <2>3. MessagesOK'
    BY SMTT(60), SMTT(90), <1>1, <1>8, <2>2, SendType DEF TransferLeadership
  <2>4. PersistentOK' /\ StableOK' /\ CommitOK' /\ RoleOK' /\ ProgressOK'
    BY <1>1, <1>8, SMTT(40) DEF TransferLeadership, PersistentOK, StableOK, CommitOK, RoleOK, ProgressOK,
                      persistentVars, roleVars, leaderVars
  <2>5. QED
    BY SMTT(60), SMTT(90), <2>3, <2>4, TypeOKGroupsNext
<1>9. CASE Restart(n)
  <2>1. PersistentOK' /\ StableOK' /\ CommitOK' /\ MessagesOK'
    BY SMTT(60), SMTT(90), <1>1, <1>9 DEF Restart, PersistentOK, StableOK, CommitOK, MessagesOK, Persistent
  <2>2. RoleOK' /\ ProgressOK'
    BY <1>1, <1>9, FALSE \in BOOLEAN, ToFollowerType, ZenonT(40) DEF Restart
  <2>3. QED
    BY <2>1, <2>2, TypeOKGroupsNext
<1>10. QED
  BY SMTT(60), SMTT(90), <1>3, <1>4, <1>5, <1>6, <1>7, <1>8, <1>9 DEF Local

(* Type correctness: in every reachable state of a cluster of any size the *)
(* state of every server and every message in flight is well formed, and   *)
(* no leader would send a request from before the start of its log.        *)
THEOREM TypeCorrectness == Spec => []TypeOK
<1>1. Init => TypeOK
  <2>1. <<>> \in Seq(Entry)
    OBVIOUS
  <2>2. QED
    BY <2>1 DEF Init, TypeOK, Persistent, Roles, NoProgress
<1>2. TypeOK /\ [Next]_vars => TypeOK'
  <2>1. SUFFICES ASSUME TypeOK, [Next]_vars PROVE TypeOK'
    BY SMTT(60), SMTT(90)
  <2>2. ASSUME NEW n \in Server, NEW m \in msgs, m.to = n, Receive(n, m)
        PROVE  TypeOK'
    BY SMTT(60), SMTT(90), <2>1, <2>2, ElectionReceiveType, ReplicationReceiveType DEF Receive
  <2>3. CASE UNCHANGED vars
    BY <2>1, <2>3 DEF vars, TypeOK
  <2>4. QED
    BY SMTT(60), SMTT(90), <2>1, <2>2, <2>3, LocalType DEF Next
<1>3. QED
  BY <1>1, <1>2, PTL DEF Spec
=============================================================================
