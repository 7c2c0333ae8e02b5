------------------------- MODULE RaftElectionProofs -------------------------
(***************************************************************************)
(* At most one leader per term, and votes that survive crashes, for any    *)
(* number of servers, any number of terms and any configuration.           *)
(*                                                                         *)
(* The argument.  A server votes at most once in a term, and its vote is   *)
(* on disk before anybody learns of it, so a granted vote binds the server *)
(* for as long as it stays in the term, across restarts (VoteBinds).       *)
(* Running in a term is a vote for oneself (RunnerBinds), so nobody both   *)
(* runs in a term and votes for another there (RunnersDoNotVote), and      *)
(* nobody votes for two servers (OneVote).  What a candidate counts are    *)
(* real votes (CountedVotes); whoever leads, or ever led, a term has a     *)
(* quorum of them (LeadersElected), and two quorums share a server.        *)
(***************************************************************************)
EXTENDS RaftTypeProofs, FiniteSetTheorems

IsGrant(m) == m.kind = "VoteResponse" /\ m.granted

(* The servers that voted for n in term t, as the messages show.           *)
VotersOf(n, t) == {n} \cup {m.from : m \in {g \in msgs : IsGrant(g) /\ g.to = n /\ g.term = t}}

(* n leads term t, or has sent requests as its leader.                     *)
Led(n, t) ==
    \/ role[n] = "Leader" /\ term[n] = t
    \/ \E m \in msgs : m.kind = "AppendRequest" /\ m.from = n /\ m.term = t

(* n is, or was, a candidate or the leader in term t.                      *)
Ran(n, t) ==
    \/ role[n] \in {"Candidate", "Leader"} /\ term[n] = t
    \/ \E m \in msgs : m.kind \in {"VoteRequest", "AppendRequest"} /\ m.from = n /\ m.term = t

VotedOrMovedOn(n, t, c) == term[n] > t \/ (term[n] = t /\ voted_for[n] = c)

Saved == \A n \in Server : stable[n].term = term[n] /\ stable[n].voted_for = voted_for[n]

VoteBinds == \A m \in msgs : IsGrant(m) => VotedOrMovedOn(m.from, m.term, m.to)

RunnerBinds == \A n \in Server, t \in Nat : Ran(n, t) => VotedOrMovedOn(n, t, n)

RunnersDoNotVote ==
    \A m \in msgs : IsGrant(m) /\ Ran(m.from, m.term) => m.to = m.from

OneVote ==
    \A m1, m2 \in msgs :
        IsGrant(m1) /\ IsGrant(m2) /\ m1.from = m2.from /\ m1.term = m2.term => m1.to = m2.to

CountedVotes ==
    \A n \in Server : role[n] = "Candidate" => votes[n] \subseteq VotersOf(n, term[n])

LeadersElected == \A n \in Server, t \in Nat : Led(n, t) => has_quorum(VotersOf(n, t))

(* The inductive invariant.                                                *)
ElectionInv ==
    /\ TypeOK
    /\ Saved
    /\ VoteBinds
    /\ RunnerBinds
    /\ RunnersDoNotVote
    /\ OneVote
    /\ CountedVotes
    /\ LeadersElected

-----------------------------------------------------------------------------
(* Quorums: a larger set is one too, and any two of them share a server.   *)
LEMMA QuorumGrows ==
    ASSUME NEW S \in SUBSET Server, NEW T \in SUBSET Server, S \subseteq T, has_quorum(S)
    PROVE  has_quorum(T)
<1>1. IsFiniteSet(Server) /\ IsFiniteSet(T) /\ IsFiniteSet(S)
  BY ServerAssumption, FS_Subset
<1>2. Cardinality(S) \in Nat /\ Cardinality(T) \in Nat /\ Cardinality(Server) \in Nat
  BY <1>1, FS_CardinalityType
<1>3. Cardinality(S) <= Cardinality(T)
  BY <1>1, FS_Subset
<1>4. QED
  BY SMTT(60), SMTT(90), <1>2, <1>3 DEF has_quorum

LEMMA QuorumsMeet ==
    ASSUME NEW S \in SUBSET Server, NEW T \in SUBSET Server, has_quorum(S), has_quorum(T)
    PROVE  S \cap T # {}
<1>1. IsFiniteSet(Server) /\ IsFiniteSet(S) /\ IsFiniteSet(T)
  BY ServerAssumption, FS_Subset
<1>2. Cardinality(S) \in Nat /\ Cardinality(T) \in Nat /\ Cardinality(Server) \in Nat
  BY <1>1, FS_CardinalityType
<1>3. Cardinality(S) + Cardinality(T) > Cardinality(Server)
  BY <1>2 DEF has_quorum
<1>4. QED
  BY SMTT(60), SMTT(90), <1>1, <1>3, FS_MajoritiesIntersect

(* Senders and receivers are servers, terms are numbers.                   *)
LEMMA MessageEnds ==
    ASSUME TypeOK, NEW m \in msgs
    PROVE  m.from \in Server /\ m.to \in Server /\ m.term \in Nat
BY MessageFields DEF TypeOK

LEMMA VotersAreServers ==
    ASSUME TypeOK, NEW n \in Server, NEW t
    PROVE  VotersOf(n, t) \in SUBSET Server
BY MessageEnds DEF VotersOf

-----------------------------------------------------------------------------
(* What every step does: it changes the state of one server, saves its     *)
(* term and vote, never lowers its term or changes its vote in a term, and *)
(* takes no message back.                                                  *)
StepOf(n) ==
    /\ \A s \in Server \ {n} : /\ term'[s] = term[s] /\ voted_for'[s] = voted_for[s]
                                /\ role'[s] = role[s] /\ votes'[s] = votes[s]
                                /\ stable'[s] = stable[s]
    /\ stable'[n].term = term'[n] /\ stable'[n].voted_for = voted_for'[n]
    /\ term'[n] >= term[n]
    /\ term'[n] = term[n] /\ voted_for[n] # None => voted_for'[n] = voted_for[n]
    /\ msgs \subseteq msgs'

(* What most steps do besides: start no candidacy, grant no vote, and send *)
(* append requests only as the leader of the term.                         *)
Uninvolved(n) ==
    /\ StepOf(n)
    /\ role'[n] \in {"Candidate", "Leader"}
           => role'[n] = role[n] /\ term'[n] = term[n] /\ votes'[n] = votes[n]
    /\ \A m \in msgs' \ msgs :
           /\ ~IsGrant(m) /\ m.kind # "VoteRequest"
           /\ m.kind = "AppendRequest" => m.from = n /\ role[n] = "Leader" /\ m.term = term[n]

(* Every step keeps the votes that bind, and saves them.                   *)
LEMMA BindsKept ==
    ASSUME TypeOK, TypeOK', NEW n \in Server, StepOf(n)
    PROVE  /\ Saved => Saved'
           /\ \A s, c \in Server, t \in Nat : VotedOrMovedOn(s, t, c) => VotedOrMovedOn(s, t, c)'
<1>1. Saved => Saved'
  BY DEF StepOf, Saved
<1>2. ASSUME NEW s \in Server, NEW c \in Server, NEW t \in Nat, VotedOrMovedOn(s, t, c)
      PROVE  VotedOrMovedOn(s, t, c)'
  <2>1. term[s] \in Nat /\ term'[s] \in Nat /\ c # None
    BY SMTT(60), SMTT(90), ServerAssumption DEF TypeOK
  <2>2. CASE s = n
    BY SMTT(60), SMTT(90), <1>2, <2>1, <2>2 DEF StepOf, VotedOrMovedOn
  <2>3. CASE s # n
    BY <1>2, <2>1, <2>3 DEF StepOf, VotedOrMovedOn
  <2>4. QED
    BY SMTT(60), SMTT(90), <2>2, <2>3
<1>3. QED
  BY SMTT(60), SMTT(90), <1>1, <1>2

LEMMA UninvolvedStep ==
    ASSUME ElectionInv, TypeOK', NEW n \in Server, Uninvolved(n)
    PROVE  ElectionInv' /\ StepOf(n)
<1>1. TypeOK /\ StepOf(n)
  BY DEF ElectionInv, Uninvolved
<1>2. msgs \subseteq msgs' /\ \A m \in msgs' : IsGrant(m) => m \in msgs
  BY DEF Uninvolved, StepOf
<1>3. \A s \in Server, t \in Nat : VotersOf(s, t)' = VotersOf(s, t)
  BY <1>2 DEF VotersOf, IsGrant
<1>4. \A s \in Server, t \in Nat : Ran(s, t)' => Ran(s, t)
  BY DEF Uninvolved, StepOf, Ran
<1>5. \A s \in Server, t \in Nat : Led(s, t)' => Led(s, t)
  BY DEF Uninvolved, StepOf, Led
<1>6. /\ Saved'
      /\ \A s, c \in Server, t \in Nat : VotedOrMovedOn(s, t, c) => VotedOrMovedOn(s, t, c)'
  BY <1>1, BindsKept DEF ElectionInv
<1>7. VoteBinds'
  BY SMTT(60), SMTT(90), <1>1, <1>2, <1>6, MessageEnds DEF ElectionInv, VoteBinds, IsGrant
<1>8. RunnerBinds'
  BY <1>4, <1>6 DEF ElectionInv, RunnerBinds
<1>9. RunnersDoNotVote'
  BY SMTT(60), SMTT(90), <1>1, <1>2, <1>4, MessageEnds DEF ElectionInv, RunnersDoNotVote, IsGrant
<1>10. OneVote'
  BY <1>2 DEF ElectionInv, OneVote, IsGrant
<1>11. CountedVotes'
  <2>1. \A s \in Server : term[s] \in Nat
    BY <1>1 DEF TypeOK
  <2>2. \A s \in Server : role'[s] = "Candidate"
            => role[s] = "Candidate" /\ votes'[s] = votes[s] /\ term'[s] = term[s]
    BY DEF Uninvolved, StepOf
  <2>3. QED
    BY SMTT(60), SMTT(90), <1>3, <2>1, <2>2 DEF ElectionInv, CountedVotes
<1>12. LeadersElected'
  BY <1>3, <1>5 DEF ElectionInv, LeadersElected, has_quorum
<1>13. QED
  BY SMTT(60), SMTT(90), <1>1, <1>6, <1>7, <1>8, <1>9, <1>10, <1>11, <1>12 DEF ElectionInv

-----------------------------------------------------------------------------
(* A new candidacy is for a term in which the server has never voted.      *)
LEMMA CandidacyStep ==
    ASSUME ElectionInv, TypeOK', NEW n \in Server, NEW t \in Nat, t >= term[n],
           NEW contact \in BOOLEAN, ToCandidate(n, t, contact)
    PROVE  ElectionInv' /\ StepOf(n)
<1> DEFINE T == t + 1
<1>1. TypeOK /\ term[n] \in Nat /\ T \in Nat /\ T > term[n]
  BY SMTT(60), SMTT(90) DEF ElectionInv, TypeOK
<1>2. /\ term' = [term EXCEPT ![n] = T] /\ voted_for' = [voted_for EXCEPT ![n] = n]
      /\ Persist(n)
  BY DEF ToCandidate
<1>3. \/ has_quorum({n}) /\ role' = [role EXCEPT ![n] = "Leader"]
                         /\ votes' = [votes EXCEPT ![n] = {}]
      \/ role' = [role EXCEPT ![n] = "Candidate"] /\ votes' = [votes EXCEPT ![n] = {n}]
  BY DEF ToCandidate, ToLeader
<1>4. /\ msgs \subseteq msgs'
      /\ \A m \in msgs' \ msgs :
             /\ m.from = n /\ m.term = T
             /\ \/ m.kind = "AppendRequest" /\ has_quorum({n})
                \/ m.kind = "VoteRequest"
  BY SMTT(60), SMTT(90) DEF ToCandidate, ToLeader, Send, AppendRequest, VoteRequest
<1> HIDE DEF T
<1>5. /\ StepOf(n) /\ term'[n] = T
      /\ role'[n] = "Leader" => has_quorum({n})
      /\ role'[n] = "Candidate" => votes'[n] = {n}
  <2>1. \A s \in Server \ {n} : /\ term'[s] = term[s] /\ voted_for'[s] = voted_for[s]
                                /\ role'[s] = role[s] /\ votes'[s] = votes[s]
                                /\ stable'[s] = stable[s]
    BY <1>1, <1>2, <1>3, ZenonT(40) DEF Persist, TypeOK
  <2>2. stable'[n].term = term'[n] /\ stable'[n].voted_for = voted_for'[n] /\ term'[n] = T
    BY <1>1, <1>2 DEF Persist, TypeOK
  <2>3. (role'[n] = "Leader" => has_quorum({n})) /\ (role'[n] = "Candidate" => votes'[n] = {n})
    BY <1>1, <1>3 DEF TypeOK
  <2>4. QED
    BY SMTT(60), SMTT(90), <1>1, <1>4, <2>1, <2>2, <2>3 DEF StepOf
<1>6. /\ Saved'
      /\ \A s, c \in Server, u \in Nat : VotedOrMovedOn(s, u, c) => VotedOrMovedOn(s, u, c)'
  BY <1>1, <1>5, BindsKept DEF ElectionInv
<1>7. \A m \in msgs' : IsGrant(m) => m \in msgs
  BY <1>4 DEF IsGrant
<1>8. \A m \in msgs : IsGrant(m) => ~(m.from = n /\ m.term = T)
  BY <1>1, MessageEnds DEF ElectionInv, VoteBinds, VotedOrMovedOn
<1>9. \A s \in Server, u \in Nat : VotersOf(s, u)' = VotersOf(s, u)
  BY SMTT(60), SMTT(90), <1>4, <1>7 DEF VotersOf, IsGrant
<1>10. \A s \in Server, u \in Nat : Ran(s, u)' => Ran(s, u) \/ (s = n /\ u = T)
  BY SMTT(60), SMTT(90), <1>4, <1>5 DEF StepOf, Ran
<1>11. \A s \in Server, u \in Nat : Led(s, u)' => Led(s, u) \/ (s = n /\ has_quorum({n}))
  BY <1>4, <1>5, ZenonT(40) DEF StepOf, Led
<1>12. VoteBinds'
  BY SMTT(60), SMTT(90), <1>1, <1>6, <1>7, MessageEnds DEF ElectionInv, VoteBinds, IsGrant
<1>13. RunnerBinds'
  <2>1. VotedOrMovedOn(n, T, n)'
    BY SMTT(60), SMTT(90), <1>1, <1>2 DEF VotedOrMovedOn, TypeOK
  <2>2. QED
    BY SMTT(60), SMTT(90), <1>6, <1>10, <2>1 DEF ElectionInv, RunnerBinds
<1>14. RunnersDoNotVote'
  BY SMTT(60), SMTT(90), <1>1, <1>7, <1>8, <1>10, MessageEnds DEF ElectionInv, RunnersDoNotVote, IsGrant
<1>15. OneVote'
  BY <1>7 DEF ElectionInv, OneVote, IsGrant
<1>16. CountedVotes'
  <2>1. SUFFICES ASSUME NEW s \in Server, role'[s] = "Candidate"
                 PROVE  votes'[s] \subseteq VotersOf(s, term[s])'
    BY DEF CountedVotes
  <2>2. CASE s = n
    BY SMTT(60), SMTT(90), <1>5, <2>1, <2>2 DEF VotersOf
  <2>3. CASE s # n
    <3>1. /\ role[s] = "Candidate" /\ votes'[s] = votes[s]
          /\ term'[s] = term[s] /\ term[s] \in Nat
      BY SMTT(60), SMTT(90), <1>1, <1>5, <2>1, <2>3 DEF StepOf, TypeOK
    <3>2. QED
      BY SMTT(60), SMTT(90), <1>9, <3>1 DEF ElectionInv, CountedVotes
  <2>4. QED
    BY SMTT(60), SMTT(90), <2>2, <2>3
<1>17. LeadersElected'
  <2>1. SUFFICES ASSUME NEW s \in Server, NEW u \in Nat, Led(s, u)'
                 PROVE  has_quorum(VotersOf(s, u))
    BY <1>9 DEF LeadersElected, has_quorum
  <2>2. CASE Led(s, u)
    BY <2>2 DEF ElectionInv, LeadersElected
  <2>3. CASE s = n /\ has_quorum({n})
    <3>1. {n} \subseteq VotersOf(n, u)
      BY SMTT(60), SMTT(90) DEF VotersOf
    <3>2. QED
      BY SMTT(60), SMTT(90), <1>1, <2>3, <3>1, VotersAreServers, QuorumGrows
  <2>4. QED
    BY SMTT(60), SMTT(90), <1>11, <2>1, <2>2, <2>3
<1>18. QED
  BY SMTT(60), SMTT(90), <1>5, <1>6, <1>12, <1>13, <1>14, <1>15, <1>16, <1>17 DEF ElectionInv

(* A granted vote goes to the only server the voter supports in the term.  *)
LEMMA GrantStep ==
    ASSUME ElectionInv, TypeOK', NEW n \in Server, NEW m \in msgs, m.to = n,
           FollowerVotes(n, m),
           can_vote_for(n, m), log_is_up_to_date(log[n], m.last_log_term, m.last_log_index)
    PROVE  ElectionInv' /\ StepOf(n)
<1> DEFINE g == VoteResponse(n, m.from, m.term, TRUE)
<1>1. TypeOK /\ term[n] \in Nat /\ m.term \in Nat /\ m.from \in Server
  BY ZenonT(40), MessageEnds DEF ElectionInv, TypeOK
<1>2. /\ role[n] = "Follower" /\ m.term >= term[n]
      /\ term' = [term EXCEPT ![n] = m.term] /\ voted_for' = [voted_for EXCEPT ![n] = m.from]
      /\ Persist(n) /\ Send({g}) /\ role' = role /\ votes' = votes
  BY DEF FollowerVotes, vote_persists, roleVars
<1>3. msgs \subseteq msgs' /\ msgs' \subseteq msgs \cup {g}
  BY <1>2, ZenonT(40) DEF Send
<1>4. g.kind = "VoteResponse" /\ g.from = n /\ g.to = m.from /\ g.term = m.term
  BY DEF VoteResponse
<1> HIDE DEF g
<1>5. term[n] = m.term => voted_for[n] \in {None, m.from}
  BY <1>1 DEF can_vote_for, HigherTerm
<1>6. StepOf(n)
  BY <1>1, <1>2, <1>3, <1>5, ZenonT(40) DEF StepOf, Persist, TypeOK
<1>7. /\ Saved'
      /\ \A s, c \in Server, u \in Nat : VotedOrMovedOn(s, u, c) => VotedOrMovedOn(s, u, c)'
  BY <1>1, <1>6, BindsKept DEF ElectionInv
<1>8. \A s \in Server, u \in Nat : VotersOf(s, u) \subseteq VotersOf(s, u)'
  BY <1>3 DEF VotersOf, IsGrant
<1>9. \A s \in Server, u \in Nat : (Ran(s, u)' => Ran(s, u)) /\ (Led(s, u)' => Led(s, u))
  BY <1>1, <1>2, <1>3, <1>4, ZenonT(40) DEF Ran, Led, TypeOK
<1>10. \A c \in Server : VotedOrMovedOn(n, m.term, c) => c = m.from
  BY SMTT(60), SMTT(90), <1>1, <1>2, <1>5, ServerAssumption DEF VotedOrMovedOn
<1>11. VoteBinds'
  <2>1. VotedOrMovedOn(n, m.term, m.from)'
    BY SMTT(60), SMTT(90), <1>1, <1>2 DEF VotedOrMovedOn, TypeOK
  <2>2. QED
    BY SMTT(60), SMTT(90), <1>1, <1>3, <1>4, <1>7, <2>1, MessageEnds DEF ElectionInv, VoteBinds, IsGrant
<1>12. RunnerBinds'
  BY SMTT(60), SMTT(90), <1>7, <1>9 DEF ElectionInv, RunnerBinds
<1>13. RunnersDoNotVote'
  <2>1. Ran(n, m.term) => m.from = n
    BY SMTT(60), SMTT(90), <1>1, <1>10 DEF ElectionInv, RunnerBinds
  <2>2. QED
    BY SMTT(60), SMTT(90), <1>1, <1>3, <1>4, <1>9, <2>1, MessageEnds DEF ElectionInv, RunnersDoNotVote, IsGrant
<1>14. OneVote'
  <2>1. \A h \in msgs : IsGrant(h) /\ h.from = n /\ h.term = m.term => h.to = m.from
    BY SMTT(60), SMTT(90), <1>1, <1>10, MessageEnds DEF ElectionInv, VoteBinds
  <2>2. QED
    BY SMTT(60), SMTT(90), <1>3, <1>4, <2>1 DEF ElectionInv, OneVote, IsGrant
<1>15. CountedVotes'
  <2>1. SUFFICES ASSUME NEW s \in Server, role'[s] = "Candidate"
                 PROVE  votes'[s] \subseteq VotersOf(s, term[s])'
    BY SMTT(60), SMTT(90) DEF CountedVotes
  <2>2. role[s] = "Candidate" /\ votes'[s] = votes[s] /\ term'[s] = term[s] /\ term[s] \in Nat
    BY SMTT(60), SMTT(90), <1>1, <1>2, <2>1 DEF TypeOK
  <2>3. VotersOf(s, term[s]) \subseteq VotersOf(s, term[s])'
    BY SMTT(60), SMTT(90), <1>3, <2>2 DEF VotersOf, IsGrant
  <2>4. QED
    BY SMTT(60), SMTT(90), <2>2, <2>3 DEF ElectionInv, CountedVotes
<1>16. LeadersElected'
  <2>1. SUFFICES ASSUME NEW s \in Server, NEW u \in Nat, Led(s, u)'
                 PROVE  has_quorum(VotersOf(s, u)')
    BY SMTT(60), SMTT(90) DEF LeadersElected, has_quorum
  <2>2. has_quorum(VotersOf(s, u))
    BY SMTT(60), SMTT(90), <1>9, <2>1 DEF ElectionInv, LeadersElected
  <2>3. VotersOf(s, u)' \in SUBSET Server /\ VotersOf(s, u) \in SUBSET Server
    <3>1. \A h \in msgs' : h.from \in Server
      BY SMTT(60), SMTT(90), <1>1, <1>3, <1>4, MessageEnds
    <3>2. VotersOf(s, u)' \in SUBSET Server
      BY SMTT(60), SMTT(90), <3>1 DEF VotersOf
    <3>3. QED
      BY SMTT(60), SMTT(90), <1>1, <3>2, VotersAreServers
  <2>4. QED
    BY SMTT(60), SMTT(90), <1>8, <2>2, <2>3, QuorumGrows
<1>17. QED
  BY SMTT(60), SMTT(90), <1>6, <1>7, <1>11, <1>12, <1>13, <1>14, <1>15, <1>16 DEF ElectionInv

(* A counted vote is a real one; a candidate that wins has a quorum.       *)
LEMMA CountStep ==
    ASSUME ElectionInv, TypeOK', NEW n \in Server, NEW m \in msgs, m.to = n, VoteGranted(n, m)
    PROVE  ElectionInv' /\ StepOf(n)
<1>1. TypeOK /\ term[n] \in Nat /\ m.from \in Server
  BY MessageEnds, ZenonT(40) DEF ElectionInv, TypeOK
<1>2. /\ role[n] = "Candidate" /\ m.term = term[n] /\ IsGrant(m)
      /\ term' = term /\ voted_for' = voted_for /\ stable' = stable
  BY SMTT(60), SMTT(90) DEF VoteGranted, IsGrant, persistentVars
<1>3. votes[n] \cup {m.from} \subseteq VotersOf(n, term[n])
  BY SMTT(60), SMTT(90), <1>2 DEF ElectionInv, CountedVotes, VotersOf
<1>4. \/ /\ has_quorum(votes[n] \cup {m.from})
         /\ role' = [role EXCEPT ![n] = "Leader"] /\ votes' = [votes EXCEPT ![n] = {}]
      \/ /\ role' = role /\ votes' = [votes EXCEPT ![n] = votes[n] \cup {m.from}]
  BY SMTT(60), SMTT(90) DEF VoteGranted, ToLeader
<1>5. /\ msgs \subseteq msgs'
      /\ \A h \in msgs' \ msgs : /\ h.from = n /\ h.term = term[n] /\ h.kind = "AppendRequest"
                                 /\ has_quorum(votes[n] \cup {m.from})
  <2> DEFINE ms == {AppendRequest(n, p, term[n], log[n], initial_next(log[n])[p], commit_index[n]) :
                        p \in Server \ {n}}
  <2>1. \A h \in ms : h.from = n /\ h.term = term[n] /\ h.kind = "AppendRequest"
    BY SMTT(60), SMTT(90) DEF AppendRequest
  <2>2. msgs' = msgs \/ (Send(ms) /\ has_quorum(votes[n] \cup {m.from}))
    BY DEF VoteGranted, ToLeader
  <2> HIDE DEF ms
  <2>3. QED
    BY SMTT(60), SMTT(90), <2>1, <2>2 DEF Send
<1>6. has_quorum(votes[n] \cup {m.from}) => has_quorum(VotersOf(n, term[n]))
  <2>1. votes[n] \cup {m.from} \in SUBSET Server
    BY SMTT(60), SMTT(90), <1>1 DEF TypeOK
  <2>2. QED
    BY SMTT(60), SMTT(90), <1>1, <1>3, <2>1, VotersAreServers, QuorumGrows
<1>7. /\ StepOf(n)
      /\ role'[n] = "Leader" => has_quorum(VotersOf(n, term[n]))
      /\ role'[n] = "Candidate" => votes'[n] \subseteq VotersOf(n, term[n])
  <2>1. \A s \in Server \ {n} : role'[s] = role[s] /\ votes'[s] = votes[s]
    BY <1>1, <1>4, ZenonT(40) DEF TypeOK
  <2>2. /\ role'[n] = "Leader" => has_quorum(votes[n] \cup {m.from})
        /\ role'[n] = "Candidate" => votes'[n] = votes[n] \cup {m.from}
    BY SMTT(60), SMTT(90), <1>1, <1>2, <1>4 DEF TypeOK
  <2>3. StepOf(n)
    <3>1. stable[n].term = term[n] /\ stable[n].voted_for = voted_for[n]
      BY DEF ElectionInv, Saved
    <3>2. term[n] >= term[n]
      BY SMTT(60), SMTT(90), <1>1
    <3>3. QED
      BY SMTT(60), SMTT(90), <1>2, <1>5, <2>1, <3>1, <3>2 DEF StepOf
  <2>4. QED
    BY SMTT(60), SMTT(90), <1>3, <1>6, <2>2, <2>3
<1>8. /\ Saved'
      /\ \A s, c \in Server, u \in Nat : VotedOrMovedOn(s, u, c) => VotedOrMovedOn(s, u, c)'
  BY SMTT(60), SMTT(90), <1>1, <1>7, BindsKept DEF ElectionInv
<1>9. \A h \in msgs' : IsGrant(h) => h \in msgs
  BY SMTT(60), SMTT(90), <1>5 DEF IsGrant
<1>10. \A s \in Server, u \in Nat : VotersOf(s, u)' = VotersOf(s, u)
  BY SMTT(60), SMTT(90), <1>5, <1>9 DEF VotersOf, IsGrant
<1>11. \A s \in Server, u \in Nat : Ran(s, u)' => Ran(s, u)
  <2>1. SUFFICES ASSUME NEW s \in Server, NEW u \in Nat, Ran(s, u)'
                 PROVE  Ran(s, u)
    BY SMTT(60), SMTT(90)
  <2>2. CASE role'[s] \in {"Candidate", "Leader"} /\ term'[s] = u
    <3>1. s = n \/ role'[s] = role[s]
      BY SMTT(60), SMTT(90), <1>7 DEF StepOf
    <3>2. QED
      BY SMTT(60), SMTT(90), <1>2, <2>2, <3>1 DEF Ran
  <2>3. ASSUME NEW h \in msgs', h.kind \in {"VoteRequest", "AppendRequest"},
               h.from = s, h.term = u
        PROVE  Ran(s, u)
    <3>1. h \in msgs \/ (s = n /\ u = term[n])
      BY SMTT(60), SMTT(90), <1>5, <2>3
    <3>2. QED
      BY SMTT(60), SMTT(90), <1>2, <2>3, <3>1 DEF Ran
  <2>4. QED
    BY SMTT(60), SMTT(90), <2>1, <2>2, <2>3 DEF Ran
<1>12. \A s \in Server, u \in Nat :
           Led(s, u)' => Led(s, u) \/ (s = n /\ u = term[n] /\ has_quorum(VotersOf(n, term[n])))
  BY SMTT(60), SMTT(90), <1>2, <1>5, <1>6, <1>7 DEF StepOf, Led
<1>13. VoteBinds'
  BY SMTT(60), SMTT(90), <1>1, <1>8, <1>9, MessageEnds DEF ElectionInv, VoteBinds, IsGrant
<1>14. RunnerBinds'
  BY SMTT(60), SMTT(90), <1>8, <1>11 DEF ElectionInv, RunnerBinds
<1>15. RunnersDoNotVote'
  BY SMTT(60), SMTT(90), <1>1, <1>9, <1>11, MessageEnds DEF ElectionInv, RunnersDoNotVote, IsGrant
<1>16. OneVote'
  BY SMTT(60), SMTT(90), <1>9 DEF ElectionInv, OneVote, IsGrant
<1>17. CountedVotes'
  <2>1. SUFFICES ASSUME NEW s \in Server, role'[s] = "Candidate"
                 PROVE  votes'[s] \subseteq VotersOf(s, term[s])'
    BY SMTT(60), SMTT(90) DEF CountedVotes
  <2>2. term'[s] = term[s] /\ term[s] \in Nat
    BY SMTT(60), SMTT(90), <1>1, <1>2 DEF TypeOK
  <2>3. votes'[s] \subseteq VotersOf(s, term[s])
    BY SMTT(60), SMTT(90), <1>7, <2>1 DEF StepOf, ElectionInv, CountedVotes
  <2>4. QED
    BY SMTT(60), SMTT(90), <1>10, <2>2, <2>3
<1>18. LeadersElected'
  BY SMTT(60), SMTT(90), <1>10, <1>12 DEF ElectionInv, LeadersElected, has_quorum
<1>19. QED
  BY SMTT(60), SMTT(90), <1>7, <1>8, <1>13, <1>14, <1>15, <1>16, <1>17, <1>18 DEF ElectionInv

-----------------------------------------------------------------------------
(* The other steps.  Messages that neither ask for nor grant a vote, and   *)
(* append requests of the sitting leader, change nothing for elections.    *)
Harmless(n, ms) ==
    \A m \in ms :
        /\ ~IsGrant(m) /\ m.kind # "VoteRequest"
        /\ m.kind = "AppendRequest" => m.from = n /\ role[n] = "Leader" /\ m.term = term[n]

LEMMA UninvolvedWhen ==
    ASSUME ElectionInv, NEW n \in Server,
           \A s \in Server \ {n} : /\ term'[s] = term[s] /\ voted_for'[s] = voted_for[s]
                                   /\ role'[s] = role[s] /\ votes'[s] = votes[s]
                                   /\ stable'[s] = stable[s],
           \/ /\ term'[n] = term[n] /\ voted_for'[n] = voted_for[n]
              /\ stable'[n].term = stable[n].term /\ stable'[n].voted_for = stable[n].voted_for
           \/ /\ term'[n] \in Nat /\ term'[n] >= term[n]
              /\ term'[n] = term[n] => voted_for'[n] = voted_for[n]
              /\ stable'[n].term = term'[n] /\ stable'[n].voted_for = voted_for'[n],
           \/ role'[n] \in {"Follower", "PreCandidate"}
           \/ role'[n] = role[n] /\ term'[n] = term[n] /\ votes'[n] = votes[n],
           NEW ms, Harmless(n, ms), msgs' = msgs \/ Send(ms)
    PROVE  Uninvolved(n)
<1>1. term[n] \in Nat /\ stable[n].term = term[n] /\ stable[n].voted_for = voted_for[n]
  BY SMTT(60), SMTT(90) DEF ElectionInv, TypeOK, Saved
<1>2. msgs \subseteq msgs' /\ msgs' \ msgs \subseteq ms
  BY SMTT(60), SMTT(90) DEF Send
<1>3. StepOf(n)
  BY SMTT(60), SMTT(90), <1>1, <1>2 DEF StepOf
<1>4. QED
  BY SMTT(60), SMTT(90), <1>2, <1>3 DEF Uninvolved, Harmless

(* Steps that leave the server's term, vote, role and count alone.         *)
LEMMA SameRoleUninvolved ==
    ASSUME ElectionInv, NEW n \in Server,
           UNCHANGED <<term, voted_for, role, votes>>,
           stable' = stable \/ Persist(n),
           NEW ms, Harmless(n, ms), msgs' = msgs \/ Send(ms)
    PROVE  Uninvolved(n)
<1>1. stable \in [Server -> Persistent] /\ stable[n].term = term[n]
      /\ stable[n].voted_for = voted_for[n]
  BY SMTT(60), SMTT(90) DEF ElectionInv, TypeOK, Saved
<1>2. \A s \in Server \ {n} : stable'[s] = stable[s]
  BY SMTT(60), SMTT(90), <1>1 DEF Persist
<1>3. stable'[n].term = stable[n].term /\ stable'[n].voted_for = stable[n].voted_for
  BY SMTT(60), SMTT(90), <1>1 DEF Persist
<1>4. QED
  BY SMTT(60), SMTT(90), <1>2, <1>3, UninvolvedWhen

(* Steps after which the server is a follower of the same or a later term. *)
LEMMA FollowerUninvolved ==
    ASSUME ElectionInv, NEW n \in Server, NEW t \in Nat, NEW v,
           t >= term[n], t = term[n] => v = voted_for[n],
           term' = [term EXCEPT ![n] = t], voted_for' = [voted_for EXCEPT ![n] = v],
           \/ Persist(n)
           \/ t = term[n] /\ stable' = stable,
           \/ \E k, c : ToFollower(n, k, c)
           \/ role[n] = "Follower" /\ UNCHANGED <<role, votes>>,
           NEW ms, Harmless(n, ms), msgs' = msgs \/ Send(ms)
    PROVE  Uninvolved(n)
<1>1. /\ term \in [Server -> Nat] /\ voted_for \in [Server -> Server \cup {None}]
      /\ stable \in [Server -> Persistent] /\ role \in [Server -> Roles]
      /\ votes \in [Server -> SUBSET Server]
      /\ stable[n].term = term[n] /\ stable[n].voted_for = voted_for[n]
  BY DEF ElectionInv, TypeOK, Saved
<1>2. \A s \in Server \ {n} : term'[s] = term[s] /\ voted_for'[s] = voted_for[s]
  BY SMTT(60), SMTT(90), <1>1
<1>3. term'[n] = t /\ voted_for'[n] = v
  BY SMTT(60), SMTT(90), <1>1
<1>4. \A s \in Server \ {n} : stable'[s] = stable[s]
  BY SMTT(60), SMTT(90), <1>1 DEF Persist
<1>5. stable'[n].term = t /\ stable'[n].voted_for = v
  BY SMTT(60), SMTT(90), <1>1, <1>3 DEF Persist
<1>6. role'[n] = "Follower" /\ \A s \in Server \ {n} : role'[s] = role[s] /\ votes'[s] = votes[s]
  BY SMTT(60), SMTT(90), <1>1 DEF ToFollower
<1>7. QED
  BY SMTT(60), SMTT(90), <1>2, <1>3, <1>4, <1>5, <1>6, UninvolvedWhen

(* Pre-votes, answers to append requests, denials and TimeoutNow do no     *)
(* harm.                                                                   *)
LEMMA HarmlessKinds ==
    ASSUME NEW n, NEW ms,
           \A a \in ms : a.kind \notin {"VoteRequest", "AppendRequest"} /\ ~IsGrant(a)
    PROVE  Harmless(n, ms)
BY DEF Harmless

LEMMA HarmlessPreVotes ==
    ASSUME NEW n, NEW t, NEW lg
    PROVE  Harmless(n, {PreVoteRequest(n, p, t, lg) : p \in Server \ {n}})
<1>1. \A p : PreVoteRequest(n, p, t, lg).kind = "PreVoteRequest"
  BY DEF PreVoteRequest
<1>2. QED
  BY ONLY SMTT(60), SMTT(90), <1>1, HarmlessKinds DEF IsGrant

LEMMA HarmlessPreVoteResponse ==
    ASSUME NEW n, NEW to, NEW t, NEW rt, NEW b
    PROVE  Harmless(n, {PreVoteResponse(n, to, t, rt, b)})
<1>1. PreVoteResponse(n, to, t, rt, b).kind = "PreVoteResponse"
  BY DEF PreVoteResponse
<1>2. QED
  BY ONLY SMTT(60), SMTT(90), <1>1, HarmlessKinds DEF IsGrant

LEMMA HarmlessDenial ==
    ASSUME NEW n, NEW to, NEW t
    PROVE  Harmless(n, {VoteResponse(n, to, t, FALSE)})
<1>1. /\ VoteResponse(n, to, t, FALSE).kind = "VoteResponse"
      /\ ~VoteResponse(n, to, t, FALSE).granted
  BY DEF VoteResponse
<1>2. QED
  BY ONLY ZenonT(40), <1>1, HarmlessKinds DEF IsGrant

LEMMA HarmlessAppendResponse ==
    ASSUME NEW n, NEW to, NEW t, NEW b, NEW i
    PROVE  Harmless(n, {AppendResponse(n, to, t, b, i)})
<1>1. AppendResponse(n, to, t, b, i).kind = "AppendResponse"
  BY DEF AppendResponse
<1>2. QED
  BY ONLY <1>1, HarmlessKinds DEF IsGrant

LEMMA HarmlessTimeoutNow ==
    ASSUME NEW n, NEW to, NEW t
    PROVE  Harmless(n, {TimeoutNow(n, to, t)})
<1>1. TimeoutNow(n, to, t).kind = "TimeoutNow"
  BY SMTT(60), SMTT(90) DEF TimeoutNow
<1>2. QED
  BY ONLY SMTT(60), SMTT(90), <1>1, HarmlessKinds DEF IsGrant

-----------------------------------------------------------------------------
LEMMA ReceiveStep ==
    ASSUME ElectionInv, TypeOK', NEW n \in Server, NEW m \in msgs, m.to = n, Receive(n, m)
    PROVE  ElectionInv' /\ StepOf(n)
<1>1. /\ TypeOK /\ term[n] \in Nat /\ term[n] >= term[n] /\ term \in [Server -> Nat]
      /\ voted_for \in [Server -> Server \cup {None}] /\ votes \in [Server -> SUBSET Server]
      /\ m.term \in Nat /\ m.from \in Server
  <2>1. TypeOK /\ term[n] \in Nat
    BY SMTT(60), SMTT(90) DEF ElectionInv, TypeOK
  <2>2. term[n] >= term[n]
    BY <2>1
  <2>3. QED
    BY <2>1, <2>2, MessageEnds, ZenonT(40) DEF TypeOK
<1>2. Harmless(n, {})
  BY DEF Harmless
<1>3. CASE StepDown(n, m)
  <2>1. m.term >= term[n] /\ m.term # term[n]
    <3>1. HigherTerm(n, m)
      BY SMTT(60), SMTT(90), <1>3 DEF StepDown
    <3>2. QED
      BY SMTT(60), SMTT(90), <1>1, <3>1 DEF HigherTerm
  <2>2. Uninvolved(n)
    BY ZenonT(40), <1>1, <1>2, <1>3, <2>1, FollowerUninvolved DEF StepDown
  <2>3. QED
    BY SMTT(60), SMTT(90), <2>2, UninvolvedStep
<1>4. CASE FollowerObservesTerm(n, m)
  <2>1. m.term >= term[n] /\ m.term # term[n]
    <3>1. HigherTerm(n, m)
      BY SMTT(60), SMTT(90), <1>4 DEF FollowerObservesTerm
    <3>2. QED
      BY <1>1, <3>1 DEF HigherTerm
  <2>2. UNCHANGED <<role, votes, msgs>>
    BY SMTT(60), SMTT(90), <1>4 DEF FollowerObservesTerm, roleVars
  <2>3. Uninvolved(n)
    BY ZenonT(40), <1>1, <1>2, <1>4, <2>1, <2>2, FollowerUninvolved DEF FollowerObservesTerm
  <2>4. QED
    BY <2>3, UninvolvedStep
<1>5. CASE AnswerPreVote(n, m)
  <2>1. \E b \in BOOLEAN, t \in Nat : Send({PreVoteResponse(n, m.from, t, term[n], b)})
    BY <1>1, <1>5, ZenonT(40) DEF AnswerPreVote
  <2>2. \A b, t : Harmless(n, {PreVoteResponse(n, m.from, t, term[n], b)})
    BY HarmlessPreVoteResponse, Zenon
  <2>3. UNCHANGED <<term, voted_for, role, votes, stable>>
    BY ZenonT(40), <1>5 DEF AnswerPreVote, persistentVars, roleVars
  <2>4. Uninvolved(n)
    BY ZenonT(40), <2>1, <2>2, <2>3, SameRoleUninvolved
  <2>5. QED
    BY <2>4, UninvolvedStep
<1>6. CASE PreVoteGranted(n, m)
  <2>1. CASE ToCandidate(n, term[n], FALSE)
    BY <1>1, <2>1, FALSE \in BOOLEAN, CandidacyStep, ZenonT(40)
  <2>2. CASE ~ToCandidate(n, term[n], FALSE)
    <3>1. /\ votes' = [votes EXCEPT ![n] = @ \cup {m.from}]
          /\ UNCHANGED <<term, voted_for, stable, role, msgs>>
          /\ role[n] = "PreCandidate"
      BY <1>6, <2>2, ZenonT(40) DEF PreVoteGranted, persistentVars
    <3>2. Uninvolved(n)
      BY SMTT(60), SMTT(90), <1>1, <1>2, <3>1, UninvolvedWhen
    <3>3. QED
      BY <3>2, UninvolvedStep
  <2>3. QED
    BY <2>1, <2>2, ZenonT(40)
<1>7. CASE PreVoteFromHigherTerm(n, m)
  <2>1. m.resp_term \in Nat
    <3>1. m.kind = "PreVoteResponse"
      BY <1>7, ZenonT(40) DEF PreVoteFromHigherTerm
    <3>2. m \in Message
      BY <1>1, ZenonT(40) DEF TypeOK
    <3>3. QED
      BY <3>1, <3>2, MessageFields, ZenonT(40)
  <2>2. m.resp_term >= term[n] /\ m.resp_term # term[n]
    <3>1. m.resp_term > term[n]
      BY SMTT(60), SMTT(90), <1>7 DEF PreVoteFromHigherTerm, answered_from_higher_term
    <3>2. QED
      BY SMTT(60), SMTT(90), <1>1, <2>1, <3>1
  <2>3. Uninvolved(n)
    BY ZenonT(40), <1>1, <1>2, <1>7, <2>1, <2>2, FollowerUninvolved DEF PreVoteFromHigherTerm
  <2>4. QED
    BY <2>3, UninvolvedStep
<1>8. CASE FollowerVotes(n, m)
  <2> DEFINE granted == /\ can_vote_for(n, m)
                        /\ log_is_up_to_date(log[n], m.last_log_term, m.last_log_index)
  <2>1. CASE granted
    BY SMTT(60), SMTT(90), <1>8, <2>1, GrantStep
  <2>2. CASE ~granted
    <3> DEFINE v == IF HigherTerm(n, m) THEN None ELSE voted_for[n]
    <3>1. /\ term' = [term EXCEPT ![n] = m.term] /\ voted_for' = [voted_for EXCEPT ![n] = v]
          /\ m.term >= term[n] /\ role[n] = "Follower" /\ UNCHANGED <<role, votes>>
      BY <1>8, <2>2, ZenonT(40) DEF FollowerVotes, roleVars
    <3>2. Send({VoteResponse(n, m.from, m.term, FALSE)})
      BY <1>8, <2>2, ZenonT(40) DEF FollowerVotes
    <3>3. HigherTerm(n, m) => Persist(n)
      BY SMTT(60), SMTT(90), <1>8 DEF FollowerVotes, vote_persists
    <3>4. ~HigherTerm(n, m) => stable' = stable /\ m.term = term[n]
      <4>1. ~HigherTerm(n, m) => stable' = stable
        BY <1>8, <2>2, ZenonT(40) DEF FollowerVotes, vote_persists
      <4>2. ~HigherTerm(n, m) => m.term = term[n]
        BY SMTT(60), SMTT(90), <1>1, <3>1 DEF HigherTerm
      <4>3. QED
        BY <4>1, <4>2
    <3>5. m.term = term[n] => v = voted_for[n]
      BY <1>1 DEF HigherTerm
    <3>6. Harmless(n, {VoteResponse(n, m.from, m.term, FALSE)})
      BY HarmlessDenial, Zenon
    <3> HIDE DEF v
    <3>7. Uninvolved(n)
      BY ZenonT(40), <1>1, <3>1, <3>2, <3>3, <3>4, <3>5, <3>6, FollowerUninvolved
    <3>8. QED
      BY <3>7, UninvolvedStep
  <2>3. QED
    BY SMTT(60), SMTT(90), <2>1, <2>2
<1>9. CASE DenyVote(n, m)
  <2>1. UNCHANGED <<term, voted_for, role, votes, stable>>
    BY <1>9 DEF DenyVote, persistentVars, roleVars
  <2>2. Harmless(n, {VoteResponse(n, m.from, term[n], FALSE)})
    BY HarmlessDenial, Zenon
  <2>3. Uninvolved(n)
    BY SMTT(60), SMTT(90), <1>9, <2>1, <2>2, SameRoleUninvolved DEF DenyVote
  <2>4. QED
    BY <2>3, UninvolvedStep
<1>10. CASE VoteGranted(n, m)
  BY SMTT(60), SMTT(90), <1>10, CountStep
<1>11. CASE ReceiveTimeoutNow(n, m)
  <2>1. PICK c \in BOOLEAN : ToCandidate(n, IF HigherTerm(n, m) THEN m.term ELSE term[n], c)
    BY SMTT(60), SMTT(90), <1>11 DEF ReceiveTimeoutNow
  <2>2. /\ (IF HigherTerm(n, m) THEN m.term ELSE term[n]) \in Nat
        /\ (IF HigherTerm(n, m) THEN m.term ELSE term[n]) >= term[n]
    BY SMTT(60), SMTT(90), <1>1 DEF HigherTerm
  <2>3. QED
    BY SMTT(60), SMTT(90), <2>1, <2>2, CandidacyStep
<1>12. CASE FollowerAppends(n, m)
  <2> DEFINE v == IF HigherTerm(n, m) THEN None ELSE voted_for[n]
  <2>1. /\ term' = [term EXCEPT ![n] = m.term] /\ voted_for' = [voted_for EXCEPT ![n] = v]
        /\ m.term >= term[n] /\ role[n] = "Follower" /\ UNCHANGED <<role, votes>>
    BY ZenonT(40), <1>12 DEF FollowerAppends
  <2>2. \E b, i : Send({AppendResponse(n, m.from, m.term, b, i)})
    BY <1>12, ZenonT(40) DEF FollowerAppends
  <2>3. \/ Persist(n)
        \/ stable' = stable /\ ~HigherTerm(n, m)
    BY ZenonT(40), <1>12 DEF FollowerAppends
  <2>4. ~HigherTerm(n, m) => m.term = term[n]
    BY <1>1, <2>1 DEF HigherTerm
  <2>5. m.term = term[n] => v = voted_for[n]
    BY <1>1 DEF HigherTerm
  <2>6. \A b, i : Harmless(n, {AppendResponse(n, m.from, m.term, b, i)})
    BY HarmlessAppendResponse, Zenon
  <2> HIDE DEF v
  <2>7. Uninvolved(n)
    BY ZenonT(40), <1>1, <2>1, <2>2, <2>3, <2>4, <2>5, <2>6, FollowerUninvolved
  <2>8. QED
    BY <2>7, UninvolvedStep
<1>13. CASE YieldToLeader(n, m)
  <2>1. UNCHANGED <<term, voted_for, stable, msgs>> /\ ToFollower(n, m.from, TRUE)
    BY <1>13, ZenonT(40) DEF YieldToLeader, persistentVars
  <2>2. term' = [term EXCEPT ![n] = term[n]] /\ voted_for' = [voted_for EXCEPT ![n] = voted_for[n]]
    BY SMTT(60), SMTT(90), <1>1, <2>1
  <2>3. Uninvolved(n)
    BY <1>1, <1>2, <2>1, <2>2, FollowerUninvolved, ZenonT(40)
  <2>4. QED
    BY <2>3, UninvolvedStep
<1>14. CASE RejectStaleAppend(n, m)
  <2>1. UNCHANGED <<term, voted_for, role, votes, stable>>
    BY <1>14 DEF RejectStaleAppend, persistentVars, roleVars
  <2>2. Harmless(n, {AppendResponse(n, m.from, term[n], FALSE, last_index(log[n]))})
    BY HarmlessAppendResponse, Zenon
  <2>3. Uninvolved(n)
    BY SMTT(60), SMTT(90), <1>14, <2>1, <2>2, SameRoleUninvolved DEF RejectStaleAppend
  <2>4. QED
    BY <2>3, UninvolvedStep
<1>15. CASE AppendSucceeded(n, m)
  <2>1. UNCHANGED <<term, voted_for, role, votes, stable, msgs>>
    BY SMTT(60), SMTT(90), <1>15 DEF AppendSucceeded, persistentVars, roleVars
  <2>2. QED
    BY SMTT(60), SMTT(90), <1>2, <2>1, SameRoleUninvolved, UninvolvedStep
<1>16. CASE AppendRejected(n, m)
  <2>1. UNCHANGED <<term, voted_for, role, votes, stable>> /\ role[n] = "Leader"
    BY <1>16 DEF AppendRejected, persistentVars, roleVars
  <2>2. PICK next : Send({AppendRequest(n, m.from, term[n], log[n], next, commit_index[n])})
    BY <1>16, ZenonT(40) DEF AppendRejected
  <2> DEFINE a == AppendRequest(n, m.from, term[n], log[n], next, commit_index[n])
  <2>3. Harmless(n, {a})
    <3>1. a.kind = "AppendRequest" /\ a.from = n /\ a.term = term[n]
      BY ZenonT(40) DEF AppendRequest
    <3> HIDE DEF a
    <3>2. QED
      BY SMTT(60), SMTT(90), <2>1, <3>1 DEF Harmless, IsGrant
  <2>4. Uninvolved(n)
    BY SMTT(60), SMTT(90), <2>1, <2>2, <2>3, SameRoleUninvolved
  <2>5. QED
    BY <2>4, UninvolvedStep
<1>17. QED
  BY SMTT(60), SMTT(90), <1>3, <1>4, <1>5, <1>6, <1>7, <1>8, <1>9, <1>10, <1>11, <1>12, <1>13, <1>14, <1>15, <1>16
     DEF Receive

LEMMA LocalStep ==
    ASSUME ElectionInv, TypeOK', NEW n \in Server, Local(n)
    PROVE  ElectionInv' /\ StepOf(n)
<1>1. /\ TypeOK /\ term[n] \in Nat /\ term[n] >= term[n] /\ term \in [Server -> Nat]
      /\ voted_for \in [Server -> Server \cup {None}] /\ votes \in [Server -> SUBSET Server]
      /\ role \in [Server -> Roles] /\ stable \in [Server -> Persistent]
      /\ stable[n].term = term[n] /\ stable[n].voted_for = voted_for[n]
  <2>1. TypeOK /\ Saved /\ term[n] \in Nat
    BY DEF ElectionInv, TypeOK
  <2>2. term[n] >= term[n]
    BY SMTT(60), SMTT(90), <2>1
  <2>3. QED
    BY SMTT(60), SMTT(90), <2>1, <2>2 DEF TypeOK, Saved
<1>2. Harmless(n, {})
  BY SMTT(60), SMTT(90) DEF Harmless
<1>3. CASE Quiet(n)
  <2>1. UNCHANGED <<term, voted_for, role, votes, stable, msgs>>
    BY <1>3 DEF Quiet, persistentVars
  <2>2. QED
    BY SMTT(60), SMTT(90), <1>2, <2>1, SameRoleUninvolved, UninvolvedStep
<1>4. CASE ElectionTimeout(n)
  <2>1. CASE ToCandidate(n, term[n], FALSE)
    BY <1>1, <2>1, FALSE \in BOOLEAN, CandidacyStep, ZenonT(40)
  <2>2. CASE ~ToCandidate(n, term[n], FALSE)
    <3>1. /\ role' = [role EXCEPT ![n] = "PreCandidate"] /\ votes' = [votes EXCEPT ![n] = {n}]
          /\ UNCHANGED <<term, voted_for, stable>>
          /\ Send({PreVoteRequest(n, p, term[n], log[n]) : p \in Server \ {n}})
      BY <1>4, <2>2, ZenonT(40) DEF ElectionTimeout, ToPreCandidate, persistentVars
    <3>2. Harmless(n, {PreVoteRequest(n, p, term[n], log[n]) : p \in Server \ {n}})
      BY ONLY SMTT(60), SMTT(90), HarmlessPreVotes
    <3>3. Uninvolved(n)
      BY ZenonT(40), <1>1, <3>1, <3>2, UninvolvedWhen
    <3>4. QED
      BY SMTT(60), SMTT(90), <3>3, UninvolvedStep
  <2>3. QED
    BY ZenonT(40), <2>1, <2>2
<1>5. ASSUME role[n] = "Leader", NEW lg, NEW commit,
             broadcast_append(n, lg, commit),
             UNCHANGED <<term, voted_for, role, votes>>, stable' = stable \/ Persist(n)
      PROVE  ElectionInv' /\ StepOf(n)
  <2> DEFINE ms == {AppendRequest(n, p, term[n], lg, next_index[n][p], commit) :
                        p \in Server \ {n}}
  <2>1. Harmless(n, ms)
    <3>1. \A a \in ms : a.kind = "AppendRequest" /\ a.from = n /\ a.term = term[n]
      BY SMTT(60), SMTT(90) DEF AppendRequest
    <3> HIDE DEF ms
    <3>2. QED
      BY SMTT(60), SMTT(90), <1>5, <3>1 DEF Harmless, IsGrant
  <2>2. Send(ms)
    BY SMTT(60), SMTT(90), <1>5 DEF broadcast_append
  <2> HIDE DEF ms
  <2>3. Uninvolved(n)
    BY SMTT(60), SMTT(90), <1>5, <2>1, <2>2, SameRoleUninvolved
  <2>4. QED
    BY <2>3, UninvolvedStep
<1>6. CASE Heartbeat(n)
  BY SMTT(60), SMTT(90), <1>5, <1>6 DEF Heartbeat, persistentVars, roleVars
<1>7. ASSUME NEW cmd \in Command, Propose(n, cmd)
      PROVE  ElectionInv' /\ StepOf(n)
  <2>1. /\ UNCHANGED <<term, voted_for, role, votes>> /\ role[n] = "Leader"
        /\ stable' = stable \/ Persist(n)
    BY ZenonT(40), <1>7 DEF Propose, roleVars
  <2>2. \E lg, commit : broadcast_append(n, lg, commit)
    BY ZenonT(40), <1>7 DEF Propose
  <2>3. QED
    BY SMTT(60), SMTT(90), <1>5, <2>1, <2>2
<1>8. ASSUME NEW i \in 1 .. last_index(log[n]), DiskWriteComplete(n, i)
      PROVE  ElectionInv' /\ StepOf(n)
  <2>1. UNCHANGED <<term, voted_for, role, votes, msgs>>
    BY <1>8 DEF DiskWriteComplete, roleVars
  <2>2. /\ \A s \in Server \ {n} : stable'[s] = stable[s]
        /\ stable'[n].term = stable[n].term /\ stable'[n].voted_for = stable[n].voted_for
    BY SMTT(60), SMTT(90), <1>1, <1>8 DEF DiskWriteComplete, Persistent
  <2>3. Uninvolved(n)
    BY ZenonT(40), <1>1, <1>2, <2>1, <2>2, UninvolvedWhen
  <2>4. QED
    BY <2>3, UninvolvedStep
<1>9. ASSUME NEW target \in TransferTargets, TransferLeadership(n, target)
      PROVE  ElectionInv' /\ StepOf(n)
  <2>1. UNCHANGED <<term, voted_for, role, votes, stable>>
    BY <1>9 DEF TransferLeadership, persistentVars, roleVars
  <2>2. Harmless(n, {TimeoutNow(n, target, term[n])})
    BY HarmlessTimeoutNow, Zenon
  <2>3. Uninvolved(n)
    BY SMTT(60), SMTT(90), <1>9, <2>1, <2>2, SameRoleUninvolved DEF TransferLeadership
  <2>4. QED
    BY SMTT(60), SMTT(90), <2>3, UninvolvedStep
<1>10. CASE Restart(n)
  <2>1. /\ term' = [term EXCEPT ![n] = term[n]]
        /\ voted_for' = [voted_for EXCEPT ![n] = voted_for[n]]
        /\ stable' = stable /\ msgs' = msgs /\ ToFollower(n, None, FALSE)
    BY <1>1, <1>10, ZenonT(40) DEF Restart
  <2>2. Uninvolved(n)
    BY <1>1, <1>2, <2>1, FollowerUninvolved, ZenonT(40)
  <2>3. QED
    BY <2>2, UninvolvedStep
<1>11. QED
  BY SMTT(60), SMTT(90), <1>3, <1>4, <1>6, <1>7, <1>8, <1>9, <1>10 DEF Local

-----------------------------------------------------------------------------
LEMMA ElectionInvariance == Spec => []ElectionInv
<1>1. Init => ElectionInv
  <2>1. SUFFICES ASSUME Init PROVE ElectionInv
    BY SMTT(60), SMTT(90)
  <2>2. TypeOK
    <3>1. <<>> \in Seq(Entry)
      BY SMTT(60), SMTT(90)
    <3>2. QED
      BY SMTT(60), SMTT(90), <2>1, <3>1 DEF Init, TypeOK, Persistent, Roles, NoProgress
  <2>3. /\ msgs = {} /\ \A n \in Server : role[n] = "Follower"
        /\ Saved
    BY SMTT(60), SMTT(90), <2>1 DEF Init, Saved
  <2>4. VoteBinds /\ RunnersDoNotVote /\ OneVote /\ CountedVotes
    BY SMTT(60), SMTT(90), <2>3 DEF VoteBinds, RunnersDoNotVote, OneVote, CountedVotes
  <2>5. RunnerBinds /\ LeadersElected
    BY <2>3 DEF RunnerBinds, LeadersElected, Ran, Led
  <2>6. QED
    BY SMTT(60), SMTT(90), <2>2, <2>3, <2>4, <2>5 DEF ElectionInv
<1>2. TypeOK /\ TypeOK' /\ ElectionInv /\ [Next]_vars => ElectionInv'
  <2>1. SUFFICES ASSUME TypeOK, TypeOK', ElectionInv, [Next]_vars
                 PROVE  ElectionInv'
    OBVIOUS
  <2>2. CASE Next
    BY SMTT(60), SMTT(90), <2>1, <2>2, LocalStep, ReceiveStep DEF Next
  <2>3. CASE UNCHANGED vars
    <3>1. PICK n \in Server : TRUE
      BY SMTT(60), SMTT(90), ServerAssumption
    <3>2. UNCHANGED <<term, voted_for, role, votes, stable, msgs>> /\ Harmless(n, {})
      BY <2>3 DEF vars, Harmless
    <3>3. QED
      BY SMTT(60), SMTT(90), <2>1, <3>2, SameRoleUninvolved, UninvolvedStep
  <2>4. QED
    BY SMTT(60), SMTT(90), <2>1, <2>2, <2>3
<1>3. QED
  BY <1>1, <1>2, TypeCorrectness, PTL DEF Spec

(* Election Safety for any cluster: no two servers ever lead the same      *)
(* term, whatever is lost, duplicated, reordered or restarted, because a   *)
(* vote is saved before it is answered and quorums overlap.                *)
THEOREM ElectionIsSafe == Spec => []ElectionSafety
<1>1. ElectionInv => ElectionSafety
  <2>1. SUFFICES ASSUME ElectionInv PROVE ElectionSafety
    OBVIOUS
  <2>2. TypeOK
    BY SMTT(60), SMTT(90), <2>1 DEF ElectionInv
  <2>3. ASSUME NEW a \in Server, NEW b \in Server, NEW t \in Nat, Led(a, t), Led(b, t)
        PROVE  a = b
    <3>1. has_quorum(VotersOf(a, t)) /\ has_quorum(VotersOf(b, t))
      BY SMTT(60), SMTT(90), <2>1, <2>3 DEF ElectionInv, LeadersElected
    <3>2. PICK v : v \in VotersOf(a, t) /\ v \in VotersOf(b, t)
      BY SMTT(60), SMTT(90), <2>2, <3>1, VotersAreServers, QuorumsMeet
    <3>3. Ran(a, t) /\ Ran(b, t)
      BY SMTT(60), SMTT(90), <2>3 DEF Led, Ran
    <3>4. v = a \/ \E g \in msgs : IsGrant(g) /\ g.from = v /\ g.to = a /\ g.term = t
      BY SMTT(60), SMTT(90), <3>2 DEF VotersOf
    <3>5. v = b \/ \E g \in msgs : IsGrant(g) /\ g.from = v /\ g.to = b /\ g.term = t
      BY SMTT(60), SMTT(90), <3>2 DEF VotersOf
    <3>6. QED
      BY SMTT(60), SMTT(90), <2>1, <3>3, <3>4, <3>5 DEF ElectionInv, RunnersDoNotVote, OneVote
  <2>4. \A a, b \in Server :
            role[a] = "Leader" /\ role[b] = "Leader" /\ term[a] = term[b] => a = b
    BY SMTT(60), SMTT(90), <2>2, <2>3 DEF Led, TypeOK
  <2>5. \A m \in msgs : m.kind = "AppendRequest" => Led(m.from, m.term)
    BY SMTT(60), SMTT(90) DEF Led
  <2>6. QED
    BY SMTT(60), SMTT(90), <2>2, <2>3, <2>4, <2>5, MessageEnds DEF ElectionSafety
<1>2. QED
  BY <1>1, ElectionInvariance, PTL

(* Votes are durable for any cluster: whatever a server has promised in an *)
(* answer, the state it would recover after a crash still holds.           *)
THEOREM VotesSurviveCrashes == Spec => []VotesAreDurable
<1>1. ElectionInv => VotesAreDurable
  BY ZenonT(40), MessageEnds DEF ElectionInv, VoteBinds, VotedOrMovedOn, Saved, VotesAreDurable, IsGrant
<1>2. QED
  BY <1>1, ElectionInvariance, PTL

(* No step lowers a term or changes a vote within one, restarts included.  *)
THEOREM VoteIsOncePerTerm == Spec => VoteOncePerTerm
<1>1. TypeOK /\ TypeOK' /\ ElectionInv /\ [Next]_vars
      => [\A n \in Server :
              /\ term'[n] >= term[n]
              /\ term'[n] = term[n] /\ voted_for[n] # None => voted_for'[n] = voted_for[n]]_vars
  <2>1. SUFFICES ASSUME TypeOK, TypeOK', ElectionInv, Next, NEW s \in Server
                 PROVE  /\ term'[s] >= term[s]
                        /\ term'[s] = term[s] /\ voted_for[s] # None => voted_for'[s] = voted_for[s]
    BY SMTT(60), SMTT(90) DEF vars
  <2>2. PICK n \in Server : StepOf(n)
    BY SMTT(60), SMTT(90), <2>1, LocalStep, ReceiveStep DEF Next
  <2>3. term[s] \in Nat
    BY <2>1 DEF TypeOK
  <2>4. QED
    BY SMTT(60), SMTT(90), <2>2, <2>3 DEF StepOf
<1>2. QED
  BY <1>1, TypeCorrectness, ElectionInvariance, PTL DEF Spec, VoteOncePerTerm
=============================================================================
