------------------------- MODULE LogMatchingProofs -------------------------
(***************************************************************************)
(* Log Matching, term order and gap-free appends: every step of Next       *)
(* keeps the invariant LinkInv of LogLinksProofs, and LinkInv implies the  *)
(* three properties.                                                       *)
(***************************************************************************)
EXTENDS LogLinksProofs

(* A new leader of term t copies its log to everybody.                     *)
LEMMA FirstRequests ==
    ASSUME TypeOK, NEW n \in Server, NEW t \in Nat, t >= term[n]
    PROVE  Copies(n, {AppendRequest(n, p, t, log[n], initial_next(log[n])[p], commit_index[n]) :
                          p \in Server \ {n}})
<1>1. log[n] \in Seq(Entry) /\ Len(log[n]) \in Nat
  BY LenProperties DEF TypeOK
<1>2. SUFFICES ASSUME NEW p \in Server,
                      NEW m, m = AppendRequest(n, p, t, log[n], initial_next(log[n])[p], commit_index[n])
               PROVE  /\ m.kind = "AppendRequest" /\ m.term = t
                      /\ RequestLinks(m) \subseteq LogLinks(log[n])
  BY DEF Copies, IsGrant
<1>3. initial_next(log[n])[p] = Len(log[n]) + 1
  BY DEF initial_next, last_index
<1> DEFINE next == initial_next(log[n])[p]
<1>4. next \in Nat /\ next >= 1
  BY <1>1, <1>3
<1> HIDE DEF next
<1>5. m = AppendRequest(n, p, t, log[n], next, commit_index[n])
  BY <1>2 DEF next
<1>6. QED
  BY <1>1, <1>4, <1>5, RequestCopiesLog

(* A candidacy keeps the invariant; a server that is its own quorum leads  *)
(* at once.                                                                *)
LEMMA CandidacyLinks ==
    ASSUME ElectionInv, ElectionInv', LinkInv, NEW n \in Server, StepOf(n),
           NEW t \in Nat, t >= term[n], NEW contact \in BOOLEAN, ToCandidate(n, t, contact)
    PROVE  LinkInv'
<1> DEFINE T == t + 1
<1>1. TypeOK /\ term[n] \in Nat /\ T \in Nat /\ T > term[n] /\ T >= term[n] /\ T >= 1
  BY DEF ElectionInv, TypeOK
<1>2. UNCHANGED log /\ Persist(n) /\ term'[n] = T
  BY <1>1 DEF ToCandidate, TypeOK
<1>3. CASE has_quorum({n})
  <2>1. ASSUME NEW x \in AllLinks, x.entry.term = T
        PROVE  FALSE
    <3>1. PICK c \in Server : Won(c, T)
      BY <2>1 DEF LinkInv, LinksFromLeaders
    <3>2. n \in VotersOf(c, T)
      <4>1. VotersOf(c, T) \cap {n} # {}
        BY <1>1, <1>3, <3>1, VotersAreServers, QuorumsMeet DEF Won
      <4> QED BY <4>1
    <3>3. c = n \/ \E g \in msgs : IsGrant(g) /\ g.from = n /\ g.to = c /\ g.term = T
      BY SMTT(60), <3>2 DEF VotersOf
    <3>4. VotedOrMovedOn(n, T, n) \/ VotedOrMovedOn(n, T, c)
      BY <3>1, <3>3 DEF Won, ElectionInv, VoteBinds
    <3> QED BY <1>1, <3>4 DEF VotedOrMovedOn
  <2>2. Runs(n)
    <3>1. role'[n] = "Leader"
      BY SMTT(60), <1>1, <1>3 DEF ToCandidate, ToLeader, TypeOK
    <3> QED BY <1>1, <1>2, <2>1, <3>1 DEF Runs
  <2> DEFINE ms == {AppendRequest(n, p, T, log[n], initial_next(log[n])[p], commit_index[n]) :
                        p \in Server \ {n}}
  <2>3. Copies(n, ms)
    <3> HIDE DEF T
    <3> QED BY ZenonT(40), <1>1, FirstRequests
  <2>4. Send(ms)
    BY ZenonT(40), <1>3 DEF ToCandidate, ToLeader
  <2> HIDE DEF ms, T
  <2> QED BY <1>2, <2>2, <2>3, <2>4, SameLogStep
<1>4. CASE ~has_quorum({n})
  <2>1. Runs(n)
    <3>1. role'[n] = "Candidate"
      BY SMTT(60), <1>1, <1>4 DEF ToCandidate, TypeOK
    <3> QED BY <1>1, <1>2, <3>1 DEF Runs
  <2> DEFINE ms == {VoteRequest(n, p, T, log[n]) : p \in Server \ {n}}
  <2>2. Copies(n, ms)
    <3>1. \A m \in ms : m.kind = "VoteRequest"
      BY DEF VoteRequest
    <3> HIDE DEF ms
    <3> QED BY <3>1, CopiesNothing DEF IsGrant
  <2>3. Send(ms)
    BY <1>4 DEF ToCandidate
  <2> HIDE DEF ms, T
  <2> QED BY <1>2, <2>1, <2>2, <2>3, SameLogStep
<1>5. QED
  BY SMTT(60), <1>3, <1>4

(* The winner of an election finds no link of its term.                    *)
LEMMA CountLinks ==
    ASSUME ElectionInv, ElectionInv', LinkInv, NEW n \in Server, StepOf(n),
           NEW m \in msgs, m.to = n, VoteGranted(n, m)
    PROVE  LinkInv'
<1>1. TypeOK /\ term[n] \in Nat /\ term[n] >= term[n] /\ m.from \in Server
  <2>1. TypeOK
    BY SMTT(60) DEF ElectionInv
  <2>2. term[n] \in Nat
    BY SMTT(60), <2>1 DEF TypeOK
  <2> QED BY <2>1, <2>2, MessageEnds
<1>2. /\ role[n] = "Candidate" /\ m.term = term[n] /\ IsGrant(m)
      /\ UNCHANGED <<term, log, stable>>
  BY ZenonT(40) DEF VoteGranted, IsGrant, persistentVars
<1>3. CASE has_quorum(votes[n] \cup {m.from})
  <2>1. has_quorum(VotersOf(n, term[n]))
    <3>1. votes[n] \cup {m.from} \subseteq VotersOf(n, term[n])
      BY <1>2 DEF ElectionInv, CountedVotes, VotersOf
    <3>2. votes[n] \cup {m.from} \in SUBSET Server
      BY <1>1 DEF TypeOK
    <3> QED BY SMTT(60), <1>1, <1>3, <3>1, <3>2, VotersAreServers, QuorumGrows
  <2>2. ASSUME NEW x \in AllLinks, x.entry.term = term[n]
        PROVE  FALSE
    <3>1. PICK c \in Server : Won(c, term[n])
      BY <2>2 DEF LinkInv, LinksFromLeaders
    <3>2. Ran(n, term[n])
      BY <1>2 DEF Ran
    <3>3. c = n
      BY <1>1, <2>1, <3>1, <3>2, OneWinner
    <3> QED BY <1>2, <3>1, <3>3 DEF Won
  <2>3. Runs(n)
    <3>1. role'[n] = "Leader"
      BY ZenonT(40), <1>1, <1>3 DEF VoteGranted, ToLeader, TypeOK
    <3>2. term'[n] >= 1
      BY <1>2 DEF LinkInv, RunnersHaveTerms
    <3> QED BY SMTT(60), <1>2, <2>2, <3>1, <3>2 DEF Runs
  <2> DEFINE ms == {AppendRequest(n, p, term[n], log[n], initial_next(log[n])[p], commit_index[n]) :
                        p \in Server \ {n}}
  <2>4. Copies(n, ms)
    BY SMTT(60), <1>1, FirstRequests
  <2>5. Send(ms)
    BY ZenonT(40), <1>3 DEF VoteGranted, ToLeader
  <2> HIDE DEF ms
  <2> QED BY <1>2, <2>3, <2>4, <2>5, SameLogStep
<1>4. CASE ~has_quorum(votes[n] \cup {m.from})
  <2>1. role' = role /\ msgs' = msgs
    BY <1>4 DEF VoteGranted
  <2>2. Runs(n)
    BY <1>1, <1>2, <2>1, RunsOn
  <2>3. Copies(n, {})
    BY SMTT(60) DEF Copies
  <2> QED BY ZenonT(40), <1>2, <2>1, <2>2, <2>3, SameLogStep
<1>5. QED
  BY <1>3, <1>4

-----------------------------------------------------------------------------
(* A follower takes links over from a request of its own term.             *)
LEMMA FollowerLinks ==
    ASSUME ElectionInv, ElectionInv', LinkInv, NEW n \in Server, StepOf(n),
           NEW m \in msgs, m.to = n, FollowerAppends(n, m)
    PROVE  LinkInv'
<1>1. /\ TypeOK /\ term[n] \in Nat /\ m.term \in Nat /\ m.term >= term[n]
      /\ log[n] \in Seq(Entry) /\ stable \in [Server -> Persistent]
      /\ term'[n] = m.term /\ m.kind = "AppendRequest"
  BY ZenonT(40), MessageEnds DEF ElectionInv, TypeOK, FollowerAppends
<1>2. m.prev_log_index \in Nat /\ m.prev_log_term \in Nat /\ m.entries \in Seq(Entry)
  BY SMTT(60), <1>1, MessageFields DEF TypeOK
<1> DEFINE lg == IF consistent(log[n], m.prev_log_index, m.prev_log_term)
                 THEN append_entries(log[n], m.prev_log_index, m.entries) ELSE log[n]
<1>3. /\ log' = [log EXCEPT ![n] = lg]
      /\ stable' = stable \/ Persist(n)
      /\ role' = role /\ role[n] = "Follower"
      /\ \E b, i : Send({AppendResponse(n, m.from, m.term, b, i)})
  BY ZenonT(40) DEF FollowerAppends
<1>4. LogLinks(lg) \subseteq LogLinks(log[n]) \cup RequestLinks(m)
  <2>1. \A x \in RequestLinks(m) : WellLinked(x)
    BY SMTT(60), <1>1, LinkSource DEF LinkInv, LinksOK
  <2> QED BY SMTT(60), <1>1, <1>2, <2>1, AppendedLinks DEF RequestLinks
<1> HIDE DEF lg
<1>5. log'[n] = lg /\ (stable'[n].log = stable[n].log \/ stable'[n].log = lg)
      /\ \A s \in Server \ {n} : log'[s] = log[s]
  BY SMTT(60), <1>1, <1>3 DEF Persist, TypeOK
<1>6. \A x \in AllLinks : x.entry.term \in Nat
  BY <1>1, AllLinksType
<1>7. \A x \in LogLinks(log[n]) \cup LogLinks(stable[n].log) \cup RequestLinks(m) :
          x \in AllLinks /\ x.entry.term <= m.term
  <2>1. \A x \in LogLinks(log[n]) \cup LogLinks(stable[n].log) :
            x \in AllLinks /\ x.entry.term <= m.term
    BY <1>1, <1>6, OwnLinks
  <2>2. \A x \in RequestLinks(m) : x \in AllLinks /\ x.entry.term <= m.term
    BY SMTT(60), <1>1, LinkSource DEF LinkInv, LinksBounded
  <2> QED BY SMTT(60), <2>1, <2>2
<1>8. \A h \in msgs' \ msgs : h.kind = "AppendResponse"
  <2>1. PICK b, i : Send({AppendResponse(n, m.from, m.term, b, i)})
    BY SMTT(60), <1>3
  <2>2. AppendResponse(n, m.from, m.term, b, i).kind = "AppendResponse"
    BY SMTT(60) DEF AppendResponse
  <2> QED BY <2>1, <2>2 DEF Send
<1>9. Carries(n)
  BY ZenonT(40), <1>1, <1>4, <1>5, <1>7, <1>8 DEF Carries, IsGrant
<1>10. Runs(n)
  BY ZenonT(40), <1>3 DEF Runs
<1>11. QED
  BY SMTT(60), <1>9, <1>10, CarriedStep

(* The one place where a link is made.                                     *)
LEMMA ProposalLinks ==
    ASSUME ElectionInv, ElectionInv', LinkInv, NEW n \in Server, StepOf(n),
           NEW cmd \in Command, Propose(n, cmd)
    PROVE  LinkInv'
<1> DEFINE e == [term |-> term[n], cmd |-> cmd]
           lg == Append(log[n], e)
           new == [index |-> Len(log[n]) + 1, entry |-> e, before |-> last_term(log[n])]
<1>1. /\ TypeOK /\ TypeOK' /\ term[n] \in Nat /\ log[n] \in Seq(Entry) /\ Len(log[n]) \in Nat
      /\ stable \in [Server -> Persistent] /\ log \in [Server -> Seq(Entry)]
  <2>1. TypeOK /\ TypeOK'
    BY SMTT(60) DEF ElectionInv
  <2> QED BY SMTT(60), <2>1, LenProperties DEF TypeOK
<1>2. e \in Entry /\ e.term = term[n]
  BY ZenonT(40), <1>1 DEF Entry
<1>3. lg \in Seq(Entry) /\ Len(lg) = Len(log[n]) + 1
  BY SMTT(60), <1>1, <1>2, AppendProperties
<1>4. /\ role[n] = "Leader" /\ log' = [log EXCEPT ![n] = lg]
      /\ UNCHANGED <<term, role>>
      /\ stable' = stable \/ Persist(n)
      /\ \E c : broadcast_append(n, lg, c)
  BY ZenonT(40) DEF Propose, with_proposal, roleVars
<1>5. term[n] >= 1
  BY <1>4 DEF LinkInv, RunnersHaveTerms
<1> HIDE DEF e
<1>6. LogLinks(lg) \subseteq LogLinks(log[n]) \cup {new}
  BY SMTT(60), <1>1, <1>2, ProposedLinks
<1>7. \A m \in msgs' \ msgs : m.kind = "AppendRequest" /\ m.term = term[n]
                              /\ RequestLinks(m) \subseteq LogLinks(lg)
  <2>1. PICK c : broadcast_append(n, lg, c)
    BY SMTT(60), <1>4
  <2>2. \A m \in msgs' \ msgs : \E p \in Server :
            m = AppendRequest(n, p, term[n], lg, next_index[n][p], c)
    BY SMTT(60), <2>1 DEF broadcast_append, Send
  <2>3. \A p \in Server : next_index[n][p] \in Nat /\ next_index[n][p] >= 1
    BY SMTT(60), <1>1, <1>4 DEF TypeOK
  <2> HIDE DEF lg
  <2> QED BY SMTT(60), <1>3, <2>2, <2>3, RequestCopiesLog
<1> HIDE DEF lg
<1>8. /\ log'[n] = lg /\ (stable'[n].log = stable[n].log \/ stable'[n].log = lg)
      /\ \A s \in Server \ {n} : log'[s] = log[s] /\ stable'[s] = stable[s]
  BY <1>1, <1>4 DEF Persist
<1>9. /\ new.index = Len(log[n]) + 1 /\ new.entry.term = term[n]
      /\ new.before = last_term(log[n])
  BY <1>2
<1> HIDE DEF new
<1>10. /\ \A s \in Server : LogLinks(log'[s]) \cup LogLinks(stable'[s].log)
              \subseteq LogLinks(log[s]) \cup LogLinks(stable[s].log) \cup (IF s = n THEN {new} ELSE {})
  BY <1>6, <1>8
<1>11. AllLinks' \subseteq AllLinks \cup {new}
  <2>1. SUFFICES ASSUME NEW x \in AllLinks' PROVE x \in AllLinks \cup {new}
    OBVIOUS
  <2>2. CASE \E s \in Server : x \in LogLinks(log'[s]) \/ x \in LogLinks(stable'[s].log)
    BY <1>10, <2>2, LinkSource
  <2>3. CASE \E m \in msgs' : m.kind = "AppendRequest" /\ x \in RequestLinks(m)
    BY <1>6, <1>7, <2>3, LinkSource
  <2> QED BY SMTT(60), <2>1, <2>2, <2>3, LinkSourceNext
<1>12. \A x \in AllLinks : x.index \in Nat /\ x.entry.term \in Nat
  BY SMTT(60), <1>1, AllLinksType
<1>13. \A x \in AllLinks : x.entry.term = term[n] => x.index <= Len(log[n])
  BY SMTT(60), <1>4 DEF LinkInv, LeaderHasAll
<1>14. LinksAgree'
  <2>1. \A x \in AllLinks : ~(x.index = new.index /\ x.entry.term = new.entry.term)
    BY SMTT(60), <1>1, <1>9, <1>12, <1>13
  <2>2. \A x, y \in AllLinks \cup {new} :
            x.index = y.index /\ x.entry.term = y.entry.term => x = y
    BY <2>1 DEF LinkInv, LinksAgree
  <2> QED BY SMTT(60), <1>11, <2>2 DEF LinksAgree
<1>15. LinksOK'
  <2>1. WellLinked(new)
    <3>1. CASE Len(log[n]) = 0
      <4>1. last_term(log[n]) = 0
        BY <3>1 DEF last_term, term_at
      <4> QED BY SMTT(60), <1>1, <1>5, <1>9, <3>1, <4>1 DEF WellLinked
    <3>2. CASE Len(log[n]) # 0
      <4> DEFINE last == [index |-> Len(log[n]), entry |-> log[n][Len(log[n])],
                          before |-> term_at(log[n], Len(log[n]) - 1)]
      <4>1. Len(log[n]) \in 1 .. Len(log[n])
        BY SMTT(60), <1>1, <3>2
      <4>2. last \in LogLinks(log[n])
        BY ZenonT(40), <1>1, <4>1, LogLink
      <4>3. last.entry.term = last_term(log[n])
        BY <4>1 DEF last_term, term_at
      <4> HIDE DEF last
      <4>4. last \in AllLinks /\ last.entry.term <= term[n] /\ last.entry.term >= 1
        BY <4>2, OwnLinks DEF LinkInv, LinksOK, WellLinked
      <4>5. last_term(log[n]) \in Nat
        BY SMTT(60), <1>12, <4>3, <4>4
      <4> QED BY <1>1, <1>5, <1>9, <3>2, <4>3, <4>4, <4>5 DEF WellLinked
    <3> QED BY <3>1, <3>2
  <2>2. \A x \in AllLinks \cup {new} : WellLinked(x)
    BY SMTT(60), <2>1 DEF LinkInv, LinksOK
  <2> QED BY <1>11, <2>2 DEF LinksOK, WellLinked
<1>16. LinksBounded'
  <2>1. ASSUME NEW s \in Server, NEW x \in LogLinks(log'[s]) \cup LogLinks(stable'[s].log)
        PROVE  x.entry.term <= term[s]
    <3>1. CASE x \in LogLinks(log[s]) \cup LogLinks(stable[s].log)
      BY SMTT(60), <3>1 DEF LinkInv, LinksBounded
    <3>2. CASE s = n /\ x = new
      BY SMTT(60), <1>1, <1>9, <3>2
    <3> QED BY SMTT(60), <1>10, <2>1, <3>1, <3>2
  <2>2. ASSUME NEW m \in msgs', m.kind = "AppendRequest", NEW x \in RequestLinks(m)
        PROVE  x.entry.term <= m.term
    <3>1. CASE m \in msgs
      BY <2>2, <3>1 DEF LinkInv, LinksBounded
    <3>2. CASE m \notin msgs
      <4>1. m.term = term[n] /\ (x \in LogLinks(log[n]) \/ x = new)
        BY <1>6, <1>7, <2>2, <3>2
      <4> QED BY SMTT(60), <1>1, <1>9, <4>1, OwnLinks
    <3> QED BY <3>1, <3>2
  <2>3. QED
    BY SMTT(60), <1>4, <2>1, <2>2 DEF LinksBounded, LogLinks, RequestLinks, Links
<1>17. LinksFromLeaders'
  <2>1. Won(n, term[n])
    <3>1. Led(n, term[n]) /\ Ran(n, term[n])
      BY ZenonT(40), <1>4 DEF Led, Ran
    <3> QED BY ZenonT(40), <1>1, <1>4, <3>1 DEF Won, ElectionInv, LeadersElected, RunnerBinds, RunnersDoNotVote
  <2>2. \A x \in AllLinks \cup {new} : x.entry.term \in Nat /\ \E c \in Server : Won(c, x.entry.term)
    BY ZenonT(40), <1>1, <1>9, <1>12, <2>1 DEF LinkInv, LinksFromLeaders
  <2>3. Runs(n)
    BY SMTT(60), <1>1, <1>3, <1>4, <1>8 DEF Runs
  <2>4. \A m \in msgs' \ msgs : ~IsGrant(m)
    BY SMTT(60), <1>7 DEF IsGrant
  <2>5. \A x \in AllLinks \cup {new} : \E c \in Server : Won(c, x.entry.term)'
    BY ZenonT(40), <2>2, <2>3, <2>4, WonKept
  <2> QED BY <1>11, <2>5 DEF LinksFromLeaders
<1>18. LeaderHasAll'
  <2>1. SUFFICES ASSUME NEW s \in Server, role[s] = "Leader", NEW x \in AllLinks \cup {new},
                        x.entry.term = term[s]
                 PROVE  x.index <= Len(log'[s])
    BY <1>4, <1>11 DEF LeaderHasAll
  <2>2. CASE x \in AllLinks
    <3>1. x.index <= Len(log[s]) /\ x.index \in Nat
      BY SMTT(60), <1>12, <2>1, <2>2 DEF LinkInv, LeaderHasAll
    <3> QED BY SMTT(60), <1>1, <1>3, <1>8, <3>1
  <2>3. CASE x = new
    <3>1. Led(n, term[n]) /\ Led(s, term[n])
      BY <1>4, <1>9, <2>1, <2>3 DEF Led
    <3>2. s = n
      <4>1. Ran(n, term[n]) /\ Ran(s, term[n]) /\ has_quorum(VotersOf(s, term[n]))
        BY ZenonT(40), <1>1, <1>4, <1>9, <2>1, <2>3, <3>1 DEF Ran, ElectionInv, LeadersElected
      <4>2. Won(n, term[n])
        BY ZenonT(40), <1>1, <1>4, <3>1, <4>1 DEF Won, ElectionInv, LeadersElected, RunnerBinds, RunnersDoNotVote
      <4> QED BY <1>1, <4>1, <4>2, OneWinner
    <3> QED BY SMTT(60), <1>1, <1>3, <1>8, <1>9, <2>3, <3>2
  <2> QED BY SMTT(60), <2>1, <2>2, <2>3
<1>19. RunnersHaveTerms'
  BY SMTT(60), <1>4 DEF LinkInv, RunnersHaveTerms
<1>20. QED
  BY <1>14, <1>15, <1>16, <1>17, <1>18, <1>19 DEF LinkInv

(* What a leader's disk gets is a prefix of its log.                       *)
LEMMA DiskWriteLinks ==
    ASSUME ElectionInv, ElectionInv', LinkInv, NEW n \in Server, StepOf(n),
           NEW i \in 1 .. last_index(log[n]), DiskWriteComplete(n, i)
    PROVE  LinkInv'
<1>1. TypeOK /\ log[n] \in Seq(Entry) /\ stable[n] \in Persistent /\ stable \in [Server -> Persistent]
  BY DEF ElectionInv, TypeOK
<1>2. UNCHANGED <<term, log, role, msgs>>
  BY DEF DiskWriteComplete, roleVars
<1>3. stable'[n].log = stable[n].log \/ stable'[n].log = SubSeq(log[n], 1, i)
  BY <1>1 DEF DiskWriteComplete, Persistent
<1>4. LogLinks(SubSeq(log[n], 1, i)) \subseteq LogLinks(log[n])
  BY SMTT(60), <1>1, PrefixLinks DEF last_index
<1>5. \A x \in LogLinks(log[n]) \cup LogLinks(stable[n].log) : x \in AllLinks /\ x.entry.term <= term[n]
  BY ZenonT(40), OwnLinks
<1>6. Carries(n)
  BY ZenonT(40), <1>2, <1>3, <1>4, <1>5 DEF Carries
<1>7. Runs(n)
  BY <1>1, <1>2, RunsOn
<1>8. QED
  BY <1>6, <1>7, CarriedStep

(* A restarted server has the log of its disk.                             *)
LEMMA RestartLinks ==
    ASSUME ElectionInv, ElectionInv', LinkInv, NEW n \in Server, StepOf(n), Restart(n)
    PROVE  LinkInv'
<1>1. TypeOK /\ role'[n] = "Follower" /\ msgs' = msgs /\ stable' = stable
      /\ log'[n] = stable[n].log /\ \A s \in Server \ {n} : log'[s] = log[s]
  BY SMTT(60) DEF ElectionInv, TypeOK, Restart, ToFollower
<1>2. term'[n] = term[n]
  BY DEF Restart, ElectionInv, TypeOK, Saved
<1>3. \A x \in LogLinks(log[n]) \cup LogLinks(stable[n].log) : x \in AllLinks /\ x.entry.term <= term[n]
  BY SMTT(60), OwnLinks
<1>4. Carries(n)
  BY ZenonT(40), <1>1, <1>2, <1>3 DEF Carries
<1>5. Runs(n)
  BY ZenonT(40), <1>1 DEF Runs
<1>6. QED
  BY SMTT(60), <1>4, <1>5, CarriedStep

(* Steps of an unchanged log that leave the server where it was, or not    *)
(* running, and answer no more than they may.                              *)
LEMMA BystanderLinks ==
    ASSUME ElectionInv, ElectionInv', LinkInv, NEW n \in Server, StepOf(n), UNCHANGED log,
           stable' = stable \/ Persist(n), NEW ms, Copies(n, ms), msgs' = msgs \/ Send(ms),
           \/ role'[n] \in {"Follower", "PreCandidate"}
           \/ role'[n] = role[n] /\ term'[n] = term[n]
    PROVE  LinkInv'
<1>1. Runs(n)
  BY RunsOn DEF ElectionInv
<1>2. QED
  BY ZenonT(40), <1>1, SameLogStep

-----------------------------------------------------------------------------
(* Handling any message keeps the invariant, one case for each handler.    *)
LEMMA ReceiveLinks ==
    ASSUME ElectionInv, ElectionInv', LinkInv, NEW n \in Server, StepOf(n),
           NEW m \in msgs, m.to = n, Receive(n, m)
    PROVE  LinkInv'
<1>1. /\ TypeOK /\ term[n] \in Nat /\ term[n] >= term[n] /\ m.term \in Nat /\ m.from \in Server
      /\ role \in [Server -> Roles] /\ log[n] \in Seq(Entry)
  <2>1. TypeOK
    BY SMTT(60) DEF ElectionInv
  <2>2. term[n] \in Nat /\ role \in [Server -> Roles] /\ log[n] \in Seq(Entry)
    BY SMTT(60), <2>1 DEF TypeOK
  <2> QED BY SMTT(60), <2>1, <2>2, MessageEnds
<1>2. Copies(n, {})
  BY SMTT(60) DEF Copies
<1>3. \A l, c : ToFollower(n, l, c) => role'[n] = "Follower"
  BY SMTT(60), <1>1 DEF ToFollower
<1>4. CASE StepDown(n, m)
  BY ZenonT(40), <1>2, <1>3, <1>4, BystanderLinks DEF StepDown
<1>5. CASE FollowerObservesTerm(n, m)
  <2>1. UNCHANGED <<log, msgs, role>> /\ Persist(n) /\ role[n] = "Follower"
    BY SMTT(60), <1>5 DEF FollowerObservesTerm, roleVars
  <2> QED BY SMTT(60), <1>2, <2>1, BystanderLinks
<1>6. CASE AnswerPreVote(n, m)
  <2>1. \E b, t : Send({PreVoteResponse(n, m.from, t, term[n], b)})
    BY <1>6, ZenonT(40) DEF AnswerPreVote
  <2>2. UNCHANGED <<term, log, stable, role>>
    BY <1>6 DEF AnswerPreVote, persistentVars, roleVars
  <2>3. \A b, t : Copies(n, {PreVoteResponse(n, m.from, t, term[n], b)})
    BY AnswersCopyNothing, Zenon
  <2> QED BY <2>1, <2>2, <2>3, BystanderLinks
<1>7. CASE PreVoteGranted(n, m)
  <2>1. CASE ToCandidate(n, term[n], FALSE)
    BY <1>1, <2>1, FALSE \in BOOLEAN, CandidacyLinks, ZenonT(40)
  <2>2. CASE ~ToCandidate(n, term[n], FALSE)
    <3>1. UNCHANGED <<term, log, stable, role, msgs>>
      BY <1>7, <2>2, ZenonT(40) DEF PreVoteGranted, persistentVars
    <3> QED BY <1>2, <3>1, BystanderLinks
  <2> QED BY <2>1, <2>2, ZenonT(40)
<1>8. CASE PreVoteFromHigherTerm(n, m)
  BY ZenonT(40), <1>2, <1>3, <1>8, BystanderLinks DEF PreVoteFromHigherTerm
<1>9. CASE FollowerVotes(n, m)
  <2>1. PICK b \in BOOLEAN : Send({VoteResponse(n, m.from, m.term, b)})
    BY <1>9, ZenonT(40) DEF FollowerVotes
  <2>2. /\ UNCHANGED <<log, role>> /\ role[n] = "Follower"
        /\ stable' = stable \/ Persist(n)
    BY <1>9, ZenonT(40) DEF FollowerVotes, roleVars
  <2>3. term'[n] = m.term
    BY ZenonT(40), <1>1, <1>9 DEF FollowerVotes, TypeOK
  <2>4. Copies(n, {VoteResponse(n, m.from, m.term, b)})
    <3>1. \A r \in {VoteResponse(n, m.from, m.term, b)} :
              r.kind = "VoteResponse" /\ r.from = n /\ r.term = m.term
      BY DEF VoteResponse
    <3> QED BY <2>3, <3>1 DEF Copies
  <2> QED BY <2>1, <2>2, <2>4, BystanderLinks
<1>10. CASE DenyVote(n, m)
  <2>1. UNCHANGED <<term, log, stable, role>>
    BY ZenonT(40), <1>10 DEF DenyVote, persistentVars, roleVars
  <2>2. Copies(n, {VoteResponse(n, m.from, term[n], FALSE)})
    BY AnswersCopyNothing, Zenon
  <2>3. Send({VoteResponse(n, m.from, term[n], FALSE)})
    BY SMTT(60), <1>10 DEF DenyVote
  <2> QED BY ZenonT(40), <2>1, <2>2, <2>3, BystanderLinks
<1>11. CASE VoteGranted(n, m)
  BY <1>11, CountLinks
<1>12. CASE ReceiveTimeoutNow(n, m)
  <2>1. PICK c \in BOOLEAN : ToCandidate(n, IF HigherTerm(n, m) THEN m.term ELSE term[n], c)
    BY <1>12 DEF ReceiveTimeoutNow
  <2>2. /\ (IF HigherTerm(n, m) THEN m.term ELSE term[n]) \in Nat
        /\ (IF HigherTerm(n, m) THEN m.term ELSE term[n]) >= term[n]
    BY <1>1 DEF HigherTerm
  <2> QED BY <2>1, <2>2, CandidacyLinks
<1>13. CASE FollowerAppends(n, m)
  BY <1>13, FollowerLinks
<1>14. CASE YieldToLeader(n, m)
  <2>1. UNCHANGED <<log, stable, msgs>> /\ role'[n] = "Follower"
    BY ZenonT(40), <1>3, <1>14 DEF YieldToLeader, persistentVars
  <2> QED BY SMTT(60), <1>2, <2>1, BystanderLinks
<1>15. CASE RejectStaleAppend(n, m)
  <2>1. UNCHANGED <<term, log, stable, role>>
    BY ZenonT(40), <1>15 DEF RejectStaleAppend, persistentVars, roleVars
  <2>2. Copies(n, {AppendResponse(n, m.from, term[n], FALSE, last_index(log[n]))})
    BY AnswersCopyNothing, Zenon
  <2>3. Send({AppendResponse(n, m.from, term[n], FALSE, last_index(log[n]))})
    BY ZenonT(40), <1>15 DEF RejectStaleAppend
  <2> QED BY SMTT(60), <2>1, <2>2, <2>3, BystanderLinks
<1>16. CASE AppendSucceeded(n, m)
  <2>1. UNCHANGED <<term, log, stable, role, msgs>>
    BY SMTT(60), <1>16 DEF AppendSucceeded, persistentVars, roleVars
  <2> QED BY <1>2, <2>1, BystanderLinks
<1>17. CASE AppendRejected(n, m)
  <2> DEFINE next == next_after_rejection(match_index[n][m.from], m.last_log_index, Pipelining)
             a == AppendRequest(n, m.from, term[n], log[n], next, commit_index[n])
  <2>1. UNCHANGED <<term, log, stable, role>> /\ m.kind = "AppendResponse" /\ Send({a})
    BY <1>17 DEF AppendRejected, persistentVars, roleVars
  <2>2. next \in Nat /\ next >= 1
    <3>1. m.last_log_index \in Nat /\ match_index[n][m.from] \in Nat
      BY <1>1, <2>1, MessageFields DEF TypeOK
    <3> DEFINE hint == m.last_log_index
               match == match_index[n][m.from]
    <3> HIDE DEF hint, match
    <3>2. hint \in Nat /\ match \in Nat
      BY <3>1 DEF hint, match
    <3>3. Max({hint + 1, match + 1}) \in Nat /\ Max({hint + 1, match + 1}) >= 1
      BY <3>2, MaxOfTwo
    <3>4. Max({hint + 1, 1}) \in Nat /\ Max({hint + 1, 1}) >= 1
      BY SMTT(60), <3>2, MaxOfTwo
    <3> QED BY ZenonT(40), <3>3, <3>4 DEF next_after_rejection, hint, match
  <2> HIDE DEF next
  <2>3. a.kind = "AppendRequest" /\ a.term = term[n] /\ RequestLinks(a) \subseteq LogLinks(log[n])
    <3> HIDE DEF a
    <3>1. a = AppendRequest(n, m.from, term[n], log[n], next, commit_index[n])
      BY DEF a
    <3> QED BY <1>1, <2>2, <3>1, RequestCopiesLog
  <2> HIDE DEF a
  <2>4. Copies(n, {a})
    BY <1>1, <2>3 DEF Copies, IsGrant
  <2> QED BY ZenonT(40), <2>1, <2>4, BystanderLinks
<1>18. QED
  BY <1>4, <1>5, <1>6, <1>7, <1>8, <1>9, <1>10, <1>11, <1>12, <1>13, <1>14, <1>15, <1>16, <1>17
     DEF Receive

(* So do timeouts, proposals, heartbeats, disk writes and restarts.        *)
LEMMA LocalLinks ==
    ASSUME ElectionInv, ElectionInv', LinkInv, NEW n \in Server, StepOf(n), Local(n)
    PROVE  LinkInv'
<1>1. /\ TypeOK /\ term[n] \in Nat /\ term[n] >= term[n] /\ role \in [Server -> Roles]
      /\ log[n] \in Seq(Entry)
  <2>1. TypeOK
    BY DEF ElectionInv
  <2> QED BY <2>1 DEF TypeOK
<1>2. Copies(n, {})
  BY DEF Copies
<1>3. CASE Quiet(n)
  <2>1. UNCHANGED <<term, log, stable, role, msgs>>
    BY <1>3 DEF Quiet, persistentVars
  <2> QED BY <1>2, <2>1, BystanderLinks
<1>4. CASE ElectionTimeout(n)
  <2>1. CASE ToCandidate(n, term[n], FALSE)
    BY <1>1, <2>1, FALSE \in BOOLEAN, CandidacyLinks, ZenonT(40)
  <2>2. CASE ~ToCandidate(n, term[n], FALSE)
    <3> DEFINE ms == {PreVoteRequest(n, p, term[n], log[n]) : p \in Server \ {n}}
    <3>1. /\ role' = [role EXCEPT ![n] = "PreCandidate"] /\ UNCHANGED <<log, stable>>
          /\ Send(ms)
      BY <1>4, <2>2, ZenonT(40) DEF ElectionTimeout, ToPreCandidate, persistentVars
    <3>2. \A m \in ms : m.kind = "PreVoteRequest"
      BY DEF PreVoteRequest
    <3> HIDE DEF ms
    <3>3. Copies(n, ms)
      BY <3>2, CopiesNothing DEF IsGrant
    <3>4. role'[n] = "PreCandidate"
      BY <1>1, <3>1
    <3> QED BY <3>1, <3>3, <3>4, BystanderLinks
  <2> QED BY <2>1, <2>2, ZenonT(40)
<1>5. CASE Heartbeat(n)
  <2> DEFINE ms == {AppendRequest(n, p, term[n], log[n], next_index[n][p], commit_index[n]) :
                        p \in Server \ {n}}
  <2>1. UNCHANGED <<term, log, stable, role>> /\ Send(ms) /\ role[n] = "Leader"
    BY SMTT(60), <1>5 DEF Heartbeat, broadcast_append, persistentVars, roleVars
  <2>2. \A p \in Server : next_index[n][p] \in Nat /\ next_index[n][p] >= 1
    BY ZenonT(40), <1>1, <2>1 DEF TypeOK
  <2>3. \A m \in ms : \E p \in Server :
            m = AppendRequest(n, p, term[n], log[n], next_index[n][p], commit_index[n])
    OBVIOUS
  <2> HIDE DEF ms
  <2>4. \A m \in ms : /\ m.kind = "AppendRequest" /\ m.term = term[n]
                      /\ RequestLinks(m) \subseteq LogLinks(log[n])
    BY SMTT(60), <1>1, <2>2, <2>3, RequestCopiesLog
  <2>5. Copies(n, ms)
    BY <1>1, <2>4 DEF Copies, IsGrant
  <2> QED BY <2>1, <2>5, BystanderLinks
<1>6. ASSUME NEW cmd \in Command, Propose(n, cmd)
      PROVE  LinkInv'
  BY <1>6, ProposalLinks
<1>7. ASSUME NEW i \in 1 .. last_index(log[n]), DiskWriteComplete(n, i)
      PROVE  LinkInv'
  BY <1>7, DiskWriteLinks
<1>8. ASSUME NEW target \in TransferTargets, TransferLeadership(n, target)
      PROVE  LinkInv'
  <2>1. UNCHANGED <<term, log, stable, role>> /\ Send({TimeoutNow(n, target, term[n])})
    BY ZenonT(40), <1>8 DEF TransferLeadership, persistentVars, roleVars
  <2>2. Copies(n, {TimeoutNow(n, target, term[n])})
    BY AnswersCopyNothing, Zenon
  <2> QED BY SMTT(60), <2>1, <2>2, BystanderLinks
<1>9. CASE Restart(n)
  BY <1>9, RestartLinks
<1>10. QED
  BY <1>3, <1>4, <1>5, <1>6, <1>7, <1>8, <1>9 DEF Local

-----------------------------------------------------------------------------
(* LinkInv holds in every reachable state.                                 *)
LEMMA LinkInvariance == Spec => []LinkInv
<1>1. Init => LinkInv
  <2>1. SUFFICES ASSUME Init PROVE LinkInv
    OBVIOUS
  <2>2. \A n \in Server : /\ log[n] = <<>> /\ stable[n].log = <<>>
                          /\ role[n] = "Follower"
    BY SMTT(60), <2>1 DEF Init
  <2>3. LogLinks(<<>>) = {} /\ msgs = {}
    BY <2>1 DEF Init, LogLinks, Links
  <2>4. AllLinks = {}
    BY <2>2, <2>3, LinkSource
  <2>5. LinksBounded
    BY <2>2, <2>3 DEF LinksBounded
  <2>6. LeaderHasAll /\ RunnersHaveTerms
    BY <2>2 DEF LeaderHasAll, RunnersHaveTerms
  <2> QED BY <2>4, <2>5, <2>6 DEF LinkInv, LinksAgree, LinksOK, LinksFromLeaders
<1>2. TypeOK' /\ ElectionInv /\ ElectionInv' /\ LinkInv /\ [Next]_vars => LinkInv'
  <2>1. SUFFICES ASSUME TypeOK', ElectionInv, ElectionInv', LinkInv, [Next]_vars
                 PROVE  LinkInv'
    OBVIOUS
  <2>2. CASE Next
    <3>1. PICK n \in Server : Local(n) \/ \E m \in msgs : m.to = n /\ Receive(n, m)
      BY <2>2 DEF Next
    <3>2. CASE Local(n)
      BY <2>1, <3>2, LocalStep, LocalLinks
    <3>3. CASE \E m \in msgs : m.to = n /\ Receive(n, m)
      BY <2>1, <3>3, ReceiveStep, ReceiveLinks
    <3> QED BY <3>1, <3>2, <3>3
  <2>3. CASE UNCHANGED vars
    <3>1. PICK n \in Server : TRUE
      BY SMTT(60), ServerAssumption
    <3>2. UNCHANGED <<term, voted_for, log, stable, role, votes, msgs>>
      BY SMTT(60), <2>3 DEF vars
    <3>3. StepOf(n)
      BY <2>1, <3>2 DEF StepOf, ElectionInv, TypeOK, Saved
    <3>4. Copies(n, {})
      BY DEF Copies
    <3> QED BY <2>1, <3>2, <3>3, <3>4, BystanderLinks
  <2> QED BY <2>1, <2>2, <2>3
<1>3. QED
  BY <1>1, <1>2, TypeCorrectness, ElectionInvariance, PTL DEF Spec

(* Log Matching for any cluster: two logs with an entry of the same term   *)
(* at the same index are equal up to there, whatever is lost, duplicated,  *)
(* reordered or restarted in between.                                      *)
THEOREM LogsMatch == Spec => []LogMatching
<1>1. TypeOK /\ LinkInv => LogMatching
  <2>1. SUFFICES ASSUME TypeOK, LinkInv, NEW a \in Server, NEW b \in Server,
                        NEW i \in 1 .. Min({Len(log[a]), Len(log[b])}),
                        log[a][i].term = log[b][i].term
                 PROVE  SubSeq(log[a], 1, i) = SubSeq(log[b], 1, i)
    BY DEF LogMatching
  <2>2. /\ log[a] \in Seq(Entry) /\ log[b] \in Seq(Entry)
        /\ Len(log[a]) \in Nat /\ Len(log[b]) \in Nat
    BY <2>1, LenProperties DEF TypeOK
  <2>3. i \in Nat /\ i >= 1 /\ i <= Len(log[a]) /\ i <= Len(log[b])
    <3> DEFINE shorter == Min({Len(log[a]), Len(log[b])})
    <3>1. shorter = IF Len(log[a]) <= Len(log[b]) THEN Len(log[a]) ELSE Len(log[b])
      BY <2>2, MinOfTwo
    <3>2. i \in 1 .. shorter
      OBVIOUS
    <3> HIDE DEF shorter
    <3> QED BY <2>2, <3>1, <3>2
  <2>4. ASSUME NEW k \in 1 .. i, log[a][k].term = log[b][k].term
        PROVE  log[a][k] = log[b][k] /\ term_at(log[a], k - 1) = term_at(log[b], k - 1)
    <3> DEFINE x == [index |-> k, entry |-> log[a][k], before |-> term_at(log[a], k - 1)]
               y == [index |-> k, entry |-> log[b][k], before |-> term_at(log[b], k - 1)]
    <3>1. k \in 1 .. Len(log[a]) /\ k \in 1 .. Len(log[b])
      BY <2>2, <2>3
    <3>2. x \in AllLinks /\ y \in AllLinks
      BY <2>2, <3>1, LogLink, LinkSource
    <3>3. x = y
      <4>1. x.index = y.index /\ x.entry.term = y.entry.term
        BY <2>4
      <4> HIDE DEF x, y
      <4> QED BY <2>1, <3>2, <4>1 DEF LinkInv, LinksAgree
    <3>4. x.entry = y.entry /\ x.before = y.before
      BY ONLY <3>3, SMTT(60)
    <3> QED BY <3>4
  <2> DEFINE D == {k \in 1 .. i : log[a][k] # log[b][k]}
  <2>5. D = {}
    <3>1. SUFFICES ASSUME D # {} PROVE FALSE
      OBVIOUS
    <3>2. D \in SUBSET (0 .. i)
      BY <2>3
    <3>3. PICK k \in D : \A j \in D : j <= k
      <4> HIDE DEF D
      <4> QED BY ZenonT(40), <2>3, <3>1, <3>2, MaxOfBounded
    <3>4. k # i
      BY <2>1, <2>3, <2>4, <3>3
    <3>5. k \in 1 .. i /\ k + 1 \in 1 .. i /\ k + 1 \notin D /\ (k + 1) - 1 = k
      BY <2>3, <3>3, <3>4
    <3>6. log[a][k + 1] = log[b][k + 1]
      BY <3>5
    <3>7. term_at(log[a], k) = term_at(log[b], k)
      BY <2>4, <3>5, <3>6
    <3>8. log[a][k].term = log[b][k].term
      BY <2>2, <2>3, <3>5, <3>7 DEF term_at
    <3>9. log[a][k] = log[b][k]
      BY <2>4, <3>5, <3>8
    <3> QED BY <3>3, <3>9
  <2>6. \A k \in 1 .. i : log[a][k] = log[b][k]
    BY <2>5
  <2>7. QED
    BY <2>2, <2>3, <2>6
<1>2. QED
  BY <1>1, TypeCorrectness, LinkInvariance, PTL

(* Term order for any cluster: no log has a term after a higher one, or    *)
(* one its server has not reached.                                         *)
THEOREM TermsAreOrdered == Spec => []LogTermsOrdered
<1>1. TypeOK /\ LinkInv => LogTermsOrdered
  <2>1. SUFFICES ASSUME TypeOK, LinkInv, NEW n \in Server
                 PROVE  /\ \A i \in 2 .. Len(log[n]) : log[n][i - 1].term <= log[n][i].term
                        /\ last_term(log[n]) <= term[n]
    BY DEF LogTermsOrdered
  <2>2. log[n] \in Seq(Entry) /\ Len(log[n]) \in Nat /\ term[n] \in Nat
    BY <2>1, LenProperties DEF TypeOK
  <2>3. ASSUME NEW i \in 1 .. Len(log[n])
        PROVE  term_at(log[n], i - 1) <= log[n][i].term /\ log[n][i].term <= term[n]
    <3> DEFINE x == [index |-> i, entry |-> log[n][i], before |-> term_at(log[n], i - 1)]
    <3>1. x \in LogLinks(log[n])
      BY SMTT(60), <2>2, LogLink
    <3>2. x.entry = log[n][i] /\ x.before = term_at(log[n], i - 1)
      OBVIOUS
    <3> HIDE DEF x
    <3>3. x \in AllLinks /\ x.entry.term <= term[n] /\ x.before <= x.entry.term
      BY SMTT(60), <2>1, <3>1, OwnLinks DEF LinkInv, LinksOK, WellLinked
    <3> QED BY <3>2, <3>3
  <2>4. \A i \in 2 .. Len(log[n]) : log[n][i - 1].term <= log[n][i].term
    <3>1. \A i \in 2 .. Len(log[n]) : term_at(log[n], i - 1) = log[n][i - 1].term /\ i \in 1 .. Len(log[n])
      BY <2>2 DEF term_at
    <3> QED BY <2>3, <3>1
  <2>5. last_term(log[n]) <= term[n]
    BY <2>2, <2>3 DEF last_term, term_at
  <2> QED BY <2>4, <2>5
<1>2. QED
  BY <1>1, TypeCorrectness, LinkInvariance, PTL

(* No gaps for any cluster: where the test on prev_log_term accepts        *)
(* entries, the entry before them is there.                                *)
THEOREM AppendsLeaveNoGap == Spec => []AppendsAreContiguous
<1>1. TypeOK /\ LinkInv => AppendsAreContiguous
  <2>1. SUFFICES ASSUME TypeOK, LinkInv, NEW m \in msgs, m.kind = "AppendRequest",
                        m.entries # <<>>,
                        consistent(log[m.to], m.prev_log_index, m.prev_log_term)
                 PROVE  m.prev_log_index <= last_index(log[m.to])
    BY DEF AppendsAreContiguous
  <2>2. /\ m.to \in Server /\ m.prev_log_index \in Nat /\ m.prev_log_term \in Nat
        /\ m.entries \in Seq(Entry)
    BY <2>1, MessageFields DEF TypeOK
  <2>3. log[m.to] \in Seq(Entry) /\ Len(log[m.to]) \in Nat
    BY <2>1, <2>2, LenProperties DEF TypeOK
  <2>4. CASE m.prev_log_index = 0
    BY <2>3, <2>4 DEF last_index
  <2>5. CASE m.prev_log_index # 0
    <3> DEFINE x == [index |-> m.prev_log_index + 1, entry |-> m.entries[1],
                     before |-> m.prev_log_term]
    <3>1. Len(m.entries) \in Nat /\ Len(m.entries) # 0
      BY <2>1, <2>2, EmptySeq, LenProperties
    <3>2. x \in RequestLinks(m)
      <4>1. 1 \in 1 .. Len(m.entries)
        BY <3>1
      <4> QED BY <4>1 DEF RequestLinks, Links
    <3>3. x.index = m.prev_log_index + 1 /\ x.before = m.prev_log_term
      OBVIOUS
    <3> HIDE DEF x
    <3>4. WellLinked(x)
      BY <2>1, <3>2, LinkSource DEF LinkInv, LinksOK
    <3>5. m.prev_log_term # 0
      BY <2>2, <2>5, <3>3, <3>4 DEF WellLinked
    <3>6. term_at(log[m.to], m.prev_log_index) = m.prev_log_term
      BY <2>1, <2>5 DEF consistent
    <3> QED BY <2>2, <2>3, <3>5, <3>6 DEF term_at, last_index
  <2> QED BY SMTT(60), <2>4, <2>5
<1>2. QED
  BY <1>1, TypeCorrectness, LinkInvariance, PTL
=============================================================================
