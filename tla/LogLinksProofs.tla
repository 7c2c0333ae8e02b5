--------------------------- MODULE LogLinksProofs ---------------------------
(***************************************************************************)
(* Log Matching, term order and gap-free appends, for any number of        *)
(* servers, any number of terms and any length of the logs.                *)
(*                                                                         *)
(* The argument.  A link is an entry, its index and the term of the entry  *)
(* before it.  Logs, in memory and on disk, and append requests are chains *)
(* of links, and the test on prev_log_term lets a follower join a request  *)
(* to its log only where the result is a chain of the same links.  So a    *)
(* link comes into being in one place, a leader's propose, and there index *)
(* and term determine it: all links of the leader's term lie inside its    *)
(* own log (LeaderHasAll), because before it was elected there were none   *)
(* (LinksFromLeaders).  Two logs that agree on the term of an index have   *)
(* the same link there, hence the same term one index earlier, and so on   *)
(* down to the start.                                                      *)
(*                                                                         *)
(* Here are links, the invariant and the steps that only carry links       *)
(* about; LogMatchingProofs has the actions and the theorems.              *)
(***************************************************************************)
EXTENDS RaftElectionProofs

(* The links of entries that follow one of term prevTerm at index prev.    *)
Links(prev, prevTerm, entries) ==
    {[index |-> prev + k, entry |-> entries[k],
      before |-> IF k = 1 THEN prevTerm ELSE entries[k - 1].term] : k \in 1 .. Len(entries)}

LogLinks(lg) == Links(0, 0, lg)

RequestLinks(m) == Links(m.prev_log_index, m.prev_log_term, m.entries)

MemoryLinks == UNION {LogLinks(log[n]) : n \in Server}

DiskLinks == UNION {LogLinks(stable[n].log) : n \in Server}

SentLinks == UNION {RequestLinks(m) : m \in {r \in msgs : r.kind = "AppendRequest"}}

AllLinks == MemoryLinks \cup DiskLinks \cup SentLinks

(* Index and term determine a link.                                        *)
LinksAgree ==
    \A x, y \in AllLinks : x.index = y.index /\ x.entry.term = y.entry.term => x = y

(* Entries have terms, only the first one has nothing before it, and terms *)
(* do not decrease.                                                        *)
WellLinked(x) ==
    /\ x.entry.term >= 1
    /\ x.index = 1 <=> x.before = 0
    /\ x.before <= x.entry.term

LinksOK == \A x \in AllLinks : WellLinked(x)

(* No server or request is ahead of its own term.                          *)
LinksBounded ==
    /\ \A n \in Server : \A x \in LogLinks(log[n]) \cup LogLinks(stable[n].log) :
           x.entry.term <= term[n]
    /\ \A m \in msgs : m.kind = "AppendRequest" =>
           \A x \in RequestLinks(m) : x.entry.term <= m.term

(* c has won the election of term t, and supported nobody else in it.      *)
Won(c, t) ==
    /\ has_quorum(VotersOf(c, t))
    /\ VotedOrMovedOn(c, t, c)
    /\ ~(role[c] = "Candidate" /\ term[c] = t)
    /\ \A m \in msgs : IsGrant(m) /\ m.from = c /\ m.term = t => m.to = c

LinksFromLeaders == \A x \in AllLinks : \E c \in Server : Won(c, x.entry.term)

LeaderHasAll ==
    \A n \in Server : role[n] = "Leader" =>
        \A x \in AllLinks : x.entry.term = term[n] => x.index <= Len(log[n])

RunnersHaveTerms == \A n \in Server : role[n] \in {"Candidate", "Leader"} => term[n] >= 1

(* The inductive invariant.                                                *)
LinkInv ==
    /\ LinksAgree
    /\ LinksOK
    /\ LinksBounded
    /\ LinksFromLeaders
    /\ LeaderHasAll
    /\ RunnersHaveTerms

-----------------------------------------------------------------------------
(* The links of a log and of what is made from it.                         *)
LEMMA LogLink ==
    ASSUME NEW lg \in Seq(Entry), NEW x
    PROVE  x \in LogLinks(lg) <=>
               \E i \in 1 .. Len(lg) :
                   x = [index |-> i, entry |-> lg[i], before |-> term_at(lg, i - 1)]
<1>1. Len(lg) \in Nat
  BY LenProperties
<1>2. \A i \in 1 .. Len(lg) : term_at(lg, i - 1) = IF i = 1 THEN 0 ELSE lg[i - 1].term
  BY <1>1 DEF term_at
<1>3. \A i \in 1 .. Len(lg) : 0 + i = i
  BY <1>1
<1>4. QED
  BY <1>2, <1>3 DEF LogLinks, Links

(* Cutting a log off adds no link.                                         *)
LEMMA PrefixLinks ==
    ASSUME NEW lg \in Seq(Entry), NEW i \in 1 .. Len(lg)
    PROVE  LogLinks(SubSeq(lg, 1, i)) \subseteq LogLinks(lg)
<1>1. /\ Len(SubSeq(lg, 1, i)) = i
      /\ \A k \in 1 .. i : SubSeq(lg, 1, i)[k] = lg[k]
  BY SubSeqProperties
<1>2. Len(lg) \in Nat
  BY LenProperties
<1>3. QED
  BY <1>1, <1>2 DEF LogLinks, Links

(* What a request carries are links of the log it was cut from.            *)
LEMMA EntriesToSendLinks ==
    ASSUME NEW lg \in Seq(Entry), NEW next \in Nat, next >= 1, NEW max \in Nat
    PROVE  Links(next - 1, term_at(lg, next - 1), entries_to_send(lg, next, max))
               \subseteq LogLinks(lg)
<1> DEFINE end == Min({next + max, Len(lg) + 1})
           last == Min({end, Len(lg)})
           es == entries_to_send(lg, next, max)
<1>1. end \in Int
  BY MinOfTwo, LenProperties
<1>2. last \in Int /\ last <= Len(lg)
  <2> HIDE DEF end
  <2> QED BY <1>1, MinOfTwo, LenProperties
<1>3. es = SubSeq(lg, next, last)
  <2>1. Max({next, 1}) = next
    BY MaxOfTwo
  <2> QED BY ZenonT(40), <2>1 DEF entries_to_send, slice
<1>4. /\ Len(es) \in Nat
      /\ \A k \in 1 .. Len(es) : next - 1 + k \in 1 .. Len(lg) /\ es[k] = lg[next - 1 + k]
  <2> HIDE DEF last, es
  <2>1. CASE next <= last
    BY <1>2, <1>3, <2>1, SubSeqProperties, LenProperties
  <2>2. CASE next > last
    <3>1. es = <<>>
      BY <1>2, <1>3, <2>2, SubSeqProperties
    <3> QED BY <3>1
  <2> QED BY <1>2, <2>1, <2>2
<1>5. SUFFICES ASSUME NEW k \in 1 .. Len(es)
               PROVE  [index |-> next - 1 + k, entry |-> es[k],
                       before |-> IF k = 1 THEN term_at(lg, next - 1) ELSE es[k - 1].term]
                          \in LogLinks(lg)
  BY DEF Links
<1> HIDE DEF es, last
<1> DEFINE i == next - 1 + k
<1>6. (IF k = 1 THEN term_at(lg, next - 1) ELSE es[k - 1].term) = term_at(lg, i - 1)
  <2>1. CASE k = 1
    BY <2>1
  <2>2. CASE k # 1
    <3>1. k - 1 \in 1 .. Len(es) /\ i - 1 = next - 1 + (k - 1)
      BY <1>4, <2>2
    <3>2. es[k - 1] = lg[i - 1] /\ i - 1 \in 1 .. Len(lg)
      BY <1>4, <3>1
    <3> QED BY <2>2, <3>2 DEF term_at
  <2> QED BY <2>1, <2>2
<1>7. QED
  BY SMTT(60), <1>4, <1>6, LogLink

(* A proposal adds one link to the log, at its end.                        *)
LEMMA ProposedLinks ==
    ASSUME NEW lg \in Seq(Entry), NEW e \in Entry
    PROVE  LogLinks(Append(lg, e)) \subseteq
               LogLinks(lg) \cup {[index |-> Len(lg) + 1, entry |-> e, before |-> last_term(lg)]}
<1> DEFINE new == Append(lg, e)
           link(i) == [index |-> i, entry |-> new[i], before |-> term_at(lg, i - 1)]
<1>1. /\ new \in Seq(Entry) /\ Len(new) = Len(lg) + 1 /\ Len(lg) \in Nat
      /\ \A i \in 1 .. Len(lg) : new[i] = lg[i]
      /\ new[Len(lg) + 1] = e
  BY AppendProperties, LenProperties
<1> HIDE DEF new
<1>2. \A i \in 1 .. Len(lg) + 1 : term_at(new, i - 1) = term_at(lg, i - 1)
  BY <1>1 DEF term_at
<1>3. ASSUME NEW i \in 1 .. Len(lg)
      PROVE  link(i) \in LogLinks(lg)
  BY <1>1, LogLink
<1>4. link(Len(lg) + 1) = [index |-> Len(lg) + 1, entry |-> e, before |-> last_term(lg)]
  BY <1>1 DEF last_term
<1>5. SUFFICES ASSUME NEW x \in LogLinks(new)
               PROVE  \E i \in 1 .. Len(lg) + 1 : x = link(i)
  <2>1. \A i \in 1 .. Len(lg) + 1 : i \in 1 .. Len(lg) \/ i = Len(lg) + 1
    BY <1>1
  <2> QED BY <1>3, <1>4, <2>1 DEF new
<1>6. PICK i \in 1 .. Len(new) :
          x = [index |-> i, entry |-> new[i], before |-> term_at(new, i - 1)]
  BY <1>1, LogLink
<1>7. QED
  BY <1>1, <1>2, <1>6

(* A prefix of one log followed by a suffix of another.                    *)
Joined(res, lg, es, k, cut) ==
    /\ Len(res) = cut + (Len(es) - k + 1)
    /\ \A i \in 1 .. cut : res[i] = lg[i]
    /\ \A j \in k .. Len(es) : res[cut + (j - k + 1)] = es[j]

(* What concatenating the two gives.                                       *)
LEMMA JoinedLog ==
    ASSUME NEW S, NEW lg \in Seq(S), NEW es \in Seq(S), NEW k \in 1 .. Len(es),
           NEW cut \in 0 .. Len(lg)
    PROVE  Joined(SubSeq(lg, 1, cut) \o SubSeq(es, k, Len(es)), lg, es, k, cut)
<1> DEFINE front == SubSeq(lg, 1, cut)
           back == SubSeq(es, k, Len(es))
           size == Len(es) - k + 1
<1>1. Len(lg) \in Nat /\ Len(es) \in Nat
  BY LenProperties
<1>2. front \in Seq(S) /\ Len(front) = cut /\ \A i \in 1 .. cut : front[i] = lg[i]
  <2>1. \A i \in 1 .. cut : lg[i] \in S
    BY <1>1, ElementOfSeq
  <2> QED BY <1>1, <2>1, SubSeqProperties
<1>3. back \in Seq(S) /\ Len(back) = size /\ \A i \in 1 .. size : back[i] = es[k + i - 1]
  <2>1. \A i \in k .. Len(es) : es[i] \in S
    BY <1>1, ElementOfSeq
  <2> QED BY <1>1, <2>1, SubSeqProperties
<1>4. size \in Nat /\ cut \in Nat
  BY <1>1
<1>5. \A j \in k .. Len(es) : j - k + 1 \in 1 .. size /\ k + (j - k + 1) - 1 = j
  BY <1>1
<1> HIDE DEF front, back, size
<1>6. /\ Len(front \o back) = Len(front) + Len(back)
      /\ \A i \in 1 .. Len(front) + Len(back) : (front \o back)[i] =
             IF i <= Len(front) THEN front[i] ELSE back[i - Len(front)]
  BY <1>2, <1>3, ConcatProperties
<1>7. /\ Len(front \o back) = cut + size
      /\ \A i \in 1 .. cut + size : (front \o back)[i] =
             IF i <= cut THEN front[i] ELSE back[i - cut]
  BY <1>2, <1>3, <1>6
<1>8. \A i \in 1 .. cut : (front \o back)[i] = lg[i]
  BY <1>2, <1>4, <1>7
<1>9. \A i \in 1 .. size : (front \o back)[cut + i] = back[i]
  BY SMTT(60), <1>4, <1>7
<1>10. \A j \in k .. Len(es) : (front \o back)[cut + (j - k + 1)] = es[j]
  BY ZenonT(40), <1>3, <1>5, <1>9
<1>11. QED
  BY ZenonT(40), <1>7, <1>8, <1>10 DEF front, back, size, Joined

(* What the test on prev_log_term is for: every link of the follower's new *)
(* log comes from its old log or from the request.                         *)
LEMMA AppendedLinks ==
    ASSUME NEW lg \in Seq(Entry), NEW prev \in Nat, NEW prevTerm \in Nat,
           NEW entries \in Seq(Entry), consistent(lg, prev, prevTerm),
           \A x \in Links(prev, prevTerm, entries) : WellLinked(x)
    PROVE  LogLinks(append_entries(lg, prev, entries))
               \subseteq LogLinks(lg) \cup Links(prev, prevTerm, entries)
<1> DEFINE new == {k \in DOMAIN entries : term_at(lg, prev + k) # entries[k].term}
           k == Min(new)
           cut == Min({prev + k - 1, Len(lg)})
           res == append_entries(lg, prev, entries)
           link(j) == [index |-> prev + j, entry |-> entries[j],
                       before |-> IF j = 1 THEN prevTerm ELSE entries[j - 1].term]
<1>1. Len(lg) \in Nat /\ Len(entries) \in Nat /\ DOMAIN entries = 1 .. Len(entries)
  BY LenProperties
<1>2. CASE new = {}
  BY <1>2 DEF append_entries
<1>3. CASE new # {}
  <2>1. new \in SUBSET Nat /\ new \subseteq 1 .. Len(entries)
    BY <1>1
  <2>2. /\ k \in 1 .. Len(entries)
        /\ \A j \in 1 .. k - 1 : j \notin new
    <3>1. k \in new /\ \A x \in new : k <= x
      <4> HIDE DEF new
      <4> QED BY <1>3, <2>1, MinOfNaturals
    <3> HIDE DEF k, new
    <3> QED BY <1>1, <2>1, <3>1
  <2>3. \A j \in 1 .. k - 1 : term_at(lg, prev + j) = entries[j].term
    <3> HIDE DEF k
    <3> QED BY <1>1, <2>2
  <2>4. res = SubSeq(lg, 1, cut) \o SubSeq(entries, k, Len(entries))
    BY ZenonT(40), <1>3 DEF append_entries
  <2> HIDE DEF k, new, res
  <2>5. \A j \in 1 .. Len(entries) : WellLinked(link(j))
    BY DEF Links
  <2>6. /\ term_at(lg, prev + k - 1) = link(k).before
        /\ prev + k - 1 <= Len(lg)
    <3>1. CASE k = 1
      <4>1. prev + k - 1 = prev
        BY <3>1
      <4>2. CASE prev = 0
        <5>1. link(k).before = 0
          BY <2>2, <2>5, <3>1, <4>2 DEF WellLinked
        <5> QED BY <1>1, <4>1, <4>2, <5>1 DEF term_at
      <4>3. CASE prev # 0
        <5>1. term_at(lg, prev) = prevTerm
          BY <4>3 DEF consistent
        <5>2. link(k).before # 0 /\ link(k).before = prevTerm
          BY <2>2, <2>5, <3>1, <4>3 DEF WellLinked
        <5> QED BY <1>1, <4>1, <5>1, <5>2 DEF term_at
      <4> QED BY <4>2, <4>3
    <3>2. CASE k # 1
      <4>1. k - 1 \in 1 .. k - 1 /\ k - 1 \in 1 .. Len(entries) /\ prev + (k - 1) = prev + k - 1
        BY <1>1, <2>2, <3>2
      <4>2. term_at(lg, prev + k - 1) = entries[k - 1].term
        BY <2>3, <4>1
      <4>3. entries[k - 1].term >= 1 /\ entries[k - 1].term # 0
        BY <2>5, <4>1 DEF WellLinked
      <4> QED BY <1>1, <2>2, <3>2, <4>1, <4>2, <4>3 DEF term_at
    <3> QED BY <3>1, <3>2
  <2>7. cut = prev + k - 1 /\ cut \in 0 .. Len(lg)
    BY <1>1, <2>2, <2>6, MinOfTwo
  <2> HIDE DEF cut
  <2>8. /\ Len(res) = prev + Len(entries)
        /\ \A i \in 1 .. cut : res[i] = lg[i]
        /\ \A j \in k .. Len(entries) : res[prev + j] = entries[j]
    <3>1. /\ Len(res) = cut + (Len(entries) - k + 1)
          /\ \A i \in 1 .. cut : res[i] = lg[i]
          /\ \A j \in k .. Len(entries) : res[cut + (j - k + 1)] = entries[j]
      <4>1. k \in 1 .. Len(entries) /\ cut \in 0 .. Len(lg)
        BY <2>2, <2>7
      <4>2. Joined(res, lg, entries, k, cut)
        BY <2>4, <4>1, JoinedLog
      <4> QED BY <4>2 DEF Joined
    <3>2. \A j \in k .. Len(entries) : cut + (j - k + 1) = prev + j
      BY <1>1, <2>2, <2>7
    <3>3. cut + (Len(entries) - k + 1) = prev + Len(entries)
      BY <1>1, <2>2, <2>7
    <3> QED BY <3>1, <3>2, <3>3
  <2>9. res \in Seq(Entry)
    BY AppendedLogType DEF res
  <2>10. SUFFICES ASSUME NEW i \in 1 .. Len(res)
                  PROVE  [index |-> i, entry |-> res[i], before |-> term_at(res, i - 1)]
                             \in LogLinks(lg) \cup Links(prev, prevTerm, entries)
    BY <2>9, LogLink DEF res
  <2>11. CASE i <= cut
    <3>1. /\ i \in 1 .. cut /\ i \in 1 .. Len(lg)
          /\ i - 1 \in 1 .. Len(res) <=> i - 1 \in 1 .. cut
          /\ i - 1 \in 1 .. Len(lg) <=> i - 1 \in 1 .. cut
      <4>1. i \in Nat /\ i >= 1 /\ i <= Len(res) /\ Len(res) \in Nat
        BY <1>1, <2>8
      <4>2. cut \in Nat /\ cut <= Len(lg) /\ cut <= Len(res)
        BY <1>1, <2>2, <2>7, <2>8
      <4> QED BY <1>1, <2>11, <4>1, <4>2
    <3>2. res[i] = lg[i] /\ term_at(res, i - 1) = term_at(lg, i - 1)
      BY <2>8, <3>1 DEF term_at
    <3> QED BY <3>1, <3>2, LogLink
  <2>12. CASE i > cut
    <3> DEFINE j == i - prev
    <3>1. j \in k .. Len(entries) /\ i = prev + j
      BY <1>1, <2>2, <2>7, <2>8, <2>12
    <3>2. res[i] = entries[j]
      BY <2>8, <3>1
    <3>3. term_at(res, i - 1) = link(j).before
      <4>1. CASE j = k
        <5>1. i - 1 = cut
          BY <2>7, <3>1, <4>1
        <5>2. term_at(res, cut) = term_at(lg, cut)
          BY <1>1, <2>2, <2>7, <2>8 DEF term_at
        <5> QED BY <2>6, <2>7, <4>1, <5>1, <5>2
      <4>2. CASE j # k
        <5>1. j - 1 \in k .. Len(entries) /\ i - 1 = prev + (j - 1) /\ i - 1 \in 1 .. Len(res) /\ j # 1
          <6>1. Len(res) = prev + Len(entries)
            BY <2>8
          <6> QED BY <1>1, <2>2, <3>1, <4>2, <6>1
        <5>2. res[i - 1] = entries[j - 1]
          BY <2>8, <5>1
        <5> QED BY <5>1, <5>2 DEF term_at
      <4> QED BY <4>1, <4>2
    <3>4. link(j) \in Links(prev, prevTerm, entries)
      <4>1. j \in 1 .. Len(entries)
        BY <1>1, <2>2, <3>1
      <4> QED BY ZenonT(40), <4>1 DEF Links
    <3> QED BY <3>1, <3>2, <3>3, <3>4
  <2> QED BY <2>7, <2>11, <2>12
<1> QED BY <1>2, <1>3
-----------------------------------------------------------------------------
(* Links are made of indexes, entries and terms.                           *)
LEMMA LinksType ==
    ASSUME NEW prev \in Nat, NEW prevTerm \in Nat, NEW entries \in Seq(Entry),
           NEW x \in Links(prev, prevTerm, entries)
    PROVE  x.index \in Nat /\ x.entry \in Entry /\ x.entry.term \in Nat /\ x.before \in Nat
<1>1. /\ Len(entries) \in Nat
      /\ \A k \in 1 .. Len(entries) : entries[k] \in Entry /\ entries[k].term \in Nat
  <2>1. Len(entries) \in Nat /\ \A k \in 1 .. Len(entries) : entries[k] \in Entry
    BY LenProperties, ElementOfSeq
  <2> QED BY <2>1 DEF Entry
<1>2. PICK k \in 1 .. Len(entries) :
          x = [index |-> prev + k, entry |-> entries[k],
               before |-> IF k = 1 THEN prevTerm ELSE entries[k - 1].term]
  BY DEF Links
<1>3. k # 1 => k - 1 \in 1 .. Len(entries)
  BY <1>1
<1>4. QED
  BY <1>1, <1>2, <1>3

(* Where a link can be.                                                    *)
LEMMA LinkSource ==
    ASSUME NEW x
    PROVE  x \in AllLinks <=>
               \/ \E n \in Server : x \in LogLinks(log[n]) \/ x \in LogLinks(stable[n].log)
               \/ \E m \in msgs : m.kind = "AppendRequest" /\ x \in RequestLinks(m)
<1>1. x \in MemoryLinks <=> \E n \in Server : x \in LogLinks(log[n])
  BY DEF MemoryLinks
<1>2. x \in DiskLinks <=> \E n \in Server : x \in LogLinks(stable[n].log)
  BY DEF DiskLinks
<1>3. x \in SentLinks <=> \E m \in msgs : m.kind = "AppendRequest" /\ x \in RequestLinks(m)
  BY DEF SentLinks
<1>4. QED
  BY <1>1, <1>2, <1>3 DEF AllLinks

(* Where a link can be after the step.                                     *)
LEMMA LinkSourceNext ==
    ASSUME NEW x \in AllLinks'
    PROVE  \/ \E n \in Server : x \in LogLinks(log'[n]) \/ x \in LogLinks(stable'[n].log)
           \/ \E m \in msgs' : m.kind = "AppendRequest" /\ x \in RequestLinks(m)
<1>1. x \in MemoryLinks' => \E n \in Server : x \in LogLinks(log'[n])
  BY DEF MemoryLinks, LogLinks, Links
<1>2. x \in DiskLinks' => \E n \in Server : x \in LogLinks(stable'[n].log)
  BY DEF DiskLinks, LogLinks, Links
<1>3. x \in SentLinks' => \E m \in msgs' : m.kind = "AppendRequest" /\ x \in RequestLinks(m)
  BY DEF SentLinks, RequestLinks, Links
<1>4. QED
  BY <1>1, <1>2, <1>3 DEF AllLinks

(* A link has numbers for its index and its terms, and an entry.           *)
LEMMA AllLinksType ==
    ASSUME TypeOK, NEW x \in AllLinks
    PROVE  x.index \in Nat /\ x.entry \in Entry /\ x.entry.term \in Nat /\ x.before \in Nat
<1>1. \A n \in Server : log[n] \in Seq(Entry) /\ stable[n].log \in Seq(Entry)
  BY DEF TypeOK, Persistent
<1>2. \A m \in msgs : m.kind = "AppendRequest" =>
          m.prev_log_index \in Nat /\ m.prev_log_term \in Nat /\ m.entries \in Seq(Entry)
  BY MessageFields DEF TypeOK
<1>3. CASE \E n \in Server : x \in LogLinks(log[n]) \/ x \in LogLinks(stable[n].log)
  BY <1>1, <1>3, LinksType DEF LogLinks
<1>4. CASE \E m \in msgs : m.kind = "AppendRequest" /\ x \in RequestLinks(m)
  BY <1>2, <1>4, LinksType DEF RequestLinks
<1>5. QED
  BY <1>3, <1>4, LinkSource

(* Nobody else wins a term that somebody won.                              *)
LEMMA OneWinner ==
    ASSUME ElectionInv, NEW c \in Server, NEW n \in Server, NEW t \in Nat,
           Won(c, t), has_quorum(VotersOf(n, t)), Ran(n, t)
    PROVE  c = n
<1>1. PICK v : v \in VotersOf(c, t) /\ v \in VotersOf(n, t)
  BY VotersAreServers, QuorumsMeet DEF Won, ElectionInv
<1>2. v = c \/ \E g \in msgs : IsGrant(g) /\ g.from = v /\ g.to = c /\ g.term = t
  BY <1>1 DEF VotersOf
<1>3. v = n \/ \E g \in msgs : IsGrant(g) /\ g.from = v /\ g.to = n /\ g.term = t
  BY <1>1 DEF VotersOf
<1>4. QED
  BY <1>2, <1>3 DEF ElectionInv, RunnersDoNotVote, OneVote, Won

(* A step of n that makes no link, and grants votes only in its own term.  *)
Carries(n) ==
    /\ StepOf(n)
    /\ \A s \in Server \ {n} : log'[s] = log[s]
    /\ \A x \in LogLinks(log'[n]) \cup LogLinks(stable'[n].log) :
           x \in AllLinks /\ x.entry.term <= term'[n]
    /\ \A m \in msgs' \ msgs :
           /\ m.kind = "AppendRequest" =>
                  \A x \in RequestLinks(m) : x \in AllLinks /\ x.entry.term <= m.term
           /\ IsGrant(m) => term'[m.from] = m.term

(* n goes on as before, or starts anew in a term without links.            *)
Runs(n) ==
    role'[n] \in {"Candidate", "Leader"} =>
        \/ role'[n] = role[n] /\ term'[n] = term[n] /\ Len(log'[n]) >= Len(log[n])
        \/ /\ term'[n] >= 1
           /\ role'[n] = "Candidate" => term'[n] > term[n]
           /\ role'[n] = "Leader" => \A x \in AllLinks : x.entry.term # term'[n]

(* Whoever has won a term has won it for good.                             *)
LEMMA WonKept ==
    ASSUME ElectionInv, ElectionInv', NEW n \in Server, StepOf(n), Runs(n),
           \A m \in msgs' \ msgs : IsGrant(m) => term'[m.from] = m.term,
           NEW c \in Server, NEW t \in Nat, Won(c, t)
    PROVE  Won(c, t)'
<1>1. TypeOK /\ TypeOK' /\ msgs \subseteq msgs'
  BY DEF ElectionInv, StepOf
<1>2. term[c] \in Nat /\ term'[c] \in Nat /\ c # None
  BY <1>1, ServerAssumption DEF TypeOK
<1>3. has_quorum(VotersOf(c, t))'
  <2>1. VotersOf(c, t) \subseteq VotersOf(c, t)'
    BY <1>1 DEF VotersOf, IsGrant
  <2>2. \A m \in msgs' : m.from \in Server
    BY <1>1, MessageFields DEF TypeOK
  <2>3. VotersOf(c, t)' \in SUBSET Server
    BY <2>2 DEF VotersOf
  <2>4. VotersOf(c, t) \in SUBSET Server
    BY <1>1, VotersAreServers
  <2>5. has_quorum(VotersOf(c, t)')
    BY <2>1, <2>3, <2>4, QuorumGrows DEF Won
  <2> QED BY <2>5 DEF has_quorum
<1>4. VotedOrMovedOn(c, t, c)'
  BY <1>1, BindsKept DEF Won
<1>5. ~(role'[c] = "Candidate" /\ term'[c] = t)
  <2>1. CASE c = n
    BY <1>2, <2>1 DEF Won, Runs, VotedOrMovedOn
  <2>2. CASE c # n
    BY <2>2 DEF Won, StepOf
  <2> QED BY SMTT(60), <2>1, <2>2
<1>6. ASSUME NEW m \in msgs', IsGrant(m), m.from = c, m.term = t
      PROVE  m.to = c
  <2>1. CASE m \in msgs
    BY <1>6, <2>1 DEF Won
  <2>2. CASE m \notin msgs
    <3>1. term'[c] = t
      BY <1>6, <2>2
    <3>2. voted_for'[c] = c
      BY <1>2, <1>4, <3>1 DEF VotedOrMovedOn
    <3>3. VotedOrMovedOn(c, t, m.to)'
      BY <1>6 DEF ElectionInv, VoteBinds, IsGrant
    <3> QED BY <1>2, <3>1, <3>2, <3>3 DEF VotedOrMovedOn
  <2> QED BY <2>1, <2>2
<1>7. QED
  BY <1>3, <1>4, <1>5, <1>6 DEF Won, IsGrant

(* A step that only carries links about keeps the invariant.               *)
LEMMA CarriedStep ==
    ASSUME ElectionInv, ElectionInv', LinkInv, NEW n \in Server, Carries(n), Runs(n)
    PROVE  LinkInv'
<1>1. TypeOK /\ TypeOK' /\ StepOf(n) /\ n \in Server
  BY DEF ElectionInv, Carries
<1>2. \A s \in Server \ {n} : log'[s] = log[s] /\ stable'[s] = stable[s]
  BY DEF Carries, StepOf
<1>3. AllLinks' \subseteq AllLinks
  <2>1. SUFFICES ASSUME NEW x \in AllLinks' PROVE x \in AllLinks
    OBVIOUS
  <2>2. CASE \E s \in Server : x \in LogLinks(log'[s]) \/ x \in LogLinks(stable'[s].log)
    BY SMTT(60), <1>2, <2>2, LinkSource DEF Carries
  <2>3. CASE \E m \in msgs' : m.kind = "AppendRequest" /\ x \in RequestLinks(m)
    BY <2>3, LinkSource DEF Carries
  <2>4. QED
    BY <2>1, <2>2, <2>3, LinkSourceNext
<1>4. \A x \in AllLinks : x.index \in Nat /\ x.entry.term \in Nat
  BY <1>1, AllLinksType
<1>5. LinksAgree' /\ LinksOK'
  BY <1>3 DEF LinkInv, LinksAgree, LinksOK, WellLinked
<1>6. LinksBounded'
  <2>1. ASSUME NEW s \in Server, NEW x \in LogLinks(log'[s]) \cup LogLinks(stable'[s].log)
        PROVE  x.entry.term <= term'[s]
    BY SMTT(60), <1>2, <2>1 DEF Carries, StepOf, LinkInv, LinksBounded
  <2>2. ASSUME NEW m \in msgs', m.kind = "AppendRequest", NEW x \in RequestLinks(m)
        PROVE  x.entry.term <= m.term
    BY <2>2 DEF Carries, LinkInv, LinksBounded
  <2>3. QED
    BY <2>1, <2>2 DEF LinksBounded, LogLinks, RequestLinks, Links
<1>7. LinksFromLeaders'
  <2>1. SUFFICES ASSUME NEW x \in AllLinks PROVE \E c \in Server : Won(c, x.entry.term)'
    BY SMTT(60), <1>3 DEF LinksFromLeaders
  <2>2. PICK c \in Server : Won(c, x.entry.term)
    BY DEF LinkInv, LinksFromLeaders
  <2>3. Won(c, x.entry.term)'
    BY <1>1, <1>4, <2>2, WonKept DEF Carries
  <2> QED BY <2>3
<1>8. LeaderHasAll'
  <2>1. SUFFICES ASSUME NEW s \in Server, role'[s] = "Leader", NEW x \in AllLinks,
                        x.entry.term = term'[s]
                 PROVE  x.index <= Len(log'[s])
    BY <1>3 DEF LeaderHasAll
  <2>2. CASE s # n
    BY <2>1, <2>2 DEF Carries, StepOf, LinkInv, LeaderHasAll
  <2>3. CASE s = n
    <3>1. role[n] = "Leader" /\ term'[n] = term[n] /\ Len(log'[n]) >= Len(log[n])
      BY <2>1, <2>3 DEF Runs
    <3>2. x.index <= Len(log[n])
      BY <2>1, <2>3, <3>1 DEF LinkInv, LeaderHasAll
    <3>3. Len(log[n]) \in Nat /\ Len(log'[n]) \in Nat
      BY SMTT(60), <1>1, LenProperties DEF TypeOK
    <3> QED BY <1>4, <2>3, <3>1, <3>2, <3>3
  <2> QED BY <2>2, <2>3
<1>9. RunnersHaveTerms'
  BY DEF Carries, StepOf, Runs, LinkInv, RunnersHaveTerms
<1>10. QED
  BY <1>5, <1>6, <1>7, <1>8, <1>9 DEF LinkInv

-----------------------------------------------------------------------------
(* Messages that carry no links but those of n's log.                      *)
Copies(n, ms) ==
    \A m \in ms :
        /\ m.kind = "AppendRequest" =>
               /\ RequestLinks(m) \subseteq LogLinks(log[n])
               /\ m.term \in Nat /\ m.term >= term[n]
        /\ IsGrant(m) => term'[m.from] = m.term

(* No server has a link of a term after its own.                           *)
LEMMA OwnLinks ==
    ASSUME LinkInv, NEW n \in Server, NEW x \in LogLinks(log[n]) \cup LogLinks(stable[n].log)
    PROVE  x \in AllLinks /\ x.entry.term <= term[n]
BY LinkSource DEF LinkInv, LinksBounded

(* A step that leaves all logs as they are.                                *)
LEMMA SameLogStep ==
    ASSUME ElectionInv, ElectionInv', LinkInv, NEW n \in Server, StepOf(n), UNCHANGED log,
           stable' = stable \/ Persist(n), NEW ms, Copies(n, ms), msgs' = msgs \/ Send(ms), Runs(n)
    PROVE  LinkInv'
<1>1. /\ term[n] \in Nat /\ term'[n] \in Nat /\ term'[n] >= term[n]
      /\ stable'[n].log \in {stable[n].log, log[n]}
  BY DEF ElectionInv, TypeOK, StepOf, Persist
<1>2. \A x \in AllLinks : x.entry.term \in Nat
  BY SMTT(60), AllLinksType DEF ElectionInv
<1>3. \A x \in LogLinks(log'[n]) \cup LogLinks(stable'[n].log) :
          x \in AllLinks /\ x.entry.term <= term'[n]
  <2>1. \A x \in LogLinks(log[n]) \cup LogLinks(stable[n].log) :
            x \in AllLinks /\ x.entry.term <= term'[n]
    BY <1>1, <1>2, OwnLinks
  <2> QED BY <1>1, <2>1
<1>4. ASSUME NEW m \in msgs' \ msgs
      PROVE  /\ m.kind = "AppendRequest" =>
                    \A x \in RequestLinks(m) : x \in AllLinks /\ x.entry.term <= m.term
             /\ IsGrant(m) => term'[m.from] = m.term
  <2>1. m \in ms
    BY <1>4 DEF Send
  <2>2. IsGrant(m) => term'[m.from] = m.term
    BY <2>1 DEF Copies
  <2>3. ASSUME m.kind = "AppendRequest", NEW x \in RequestLinks(m)
        PROVE  x \in AllLinks /\ x.entry.term <= m.term
    <3>1. x \in LogLinks(log[n]) /\ m.term \in Nat /\ m.term >= term[n]
      BY <2>1, <2>3 DEF Copies
    <3>2. x \in AllLinks /\ x.entry.term <= term[n]
      BY <3>1, OwnLinks
    <3> QED BY <1>1, <1>2, <3>1, <3>2
  <2> QED BY <2>2, <2>3
<1>5. Carries(n)
  BY SMTT(60), <1>3, <1>4 DEF Carries
<1>6. QED
  BY SMTT(60), <1>5, CarriedStep

(* Nobody runs who did not run before.                                     *)
LEMMA RunsOn ==
    ASSUME TypeOK, NEW n \in Server, UNCHANGED log,
           \/ role'[n] \in {"Follower", "PreCandidate"}
           \/ role'[n] = role[n] /\ term'[n] = term[n]
    PROVE  Runs(n)
<1>1. Len(log[n]) \in Nat
  BY LenProperties DEF TypeOK
<1>2. QED
  BY <1>1 DEF Runs

(* Messages other than append requests and grants.                         *)
LEMMA CopiesNothing ==
    ASSUME NEW n, NEW ms, \A m \in ms : m.kind # "AppendRequest" /\ ~IsGrant(m)
    PROVE  Copies(n, ms)
BY DEF Copies

(* Refusals and answers carry no entries and grant nothing.                *)
LEMMA AnswersCopyNothing ==
    ASSUME NEW n, NEW to, NEW t, NEW u, NEW b
    PROVE  /\ Copies(n, {})
           /\ Copies(n, {PreVoteResponse(n, to, t, u, b)})
           /\ Copies(n, {VoteResponse(n, to, t, FALSE)})
           /\ Copies(n, {AppendResponse(n, to, t, b, u)})
           /\ Copies(n, {TimeoutNow(n, to, t)})
<1>1. PreVoteResponse(n, to, t, u, b).kind = "PreVoteResponse"
  BY DEF PreVoteResponse
<1>2. ~VoteResponse(n, to, t, FALSE).granted /\ VoteResponse(n, to, t, FALSE).kind = "VoteResponse"
  BY DEF VoteResponse
<1>3. AppendResponse(n, to, t, b, u).kind = "AppendResponse"
  BY DEF AppendResponse
<1>4. TimeoutNow(n, to, t).kind = "TimeoutNow"
  BY DEF TimeoutNow
<1>5. Copies(n, {VoteResponse(n, to, t, FALSE)})
  BY <1>2, CopiesNothing, ZenonT(40) DEF IsGrant
<1>6. QED
  BY <1>1, <1>3, <1>4, <1>5, CopiesNothing DEF IsGrant

(* The requests a leader builds from its log.                              *)
LEMMA RequestCopiesLog ==
    ASSUME NEW n, NEW p, NEW t, NEW lg \in Seq(Entry), NEW next \in Nat, next >= 1, NEW c,
           NEW m, m = AppendRequest(n, p, t, lg, next, c)
    PROVE  /\ m.kind = "AppendRequest" /\ m.term = t
           /\ RequestLinks(m) \subseteq LogLinks(lg)
<1>1. /\ m.kind = "AppendRequest" /\ m.term = t /\ m.prev_log_index = next - 1
      /\ m.prev_log_term = term_at(lg, next - 1)
      /\ m.entries = entries_to_send(lg, next, MaxEntriesPerMsg)
  BY SMTT(60) DEF AppendRequest
<1>2. RequestLinks(m) \subseteq LogLinks(lg)
  BY <1>1, EntriesToSendLinks, BoundAssumption DEF RequestLinks
<1>3. QED
  BY <1>1, <1>2
=============================================================================
