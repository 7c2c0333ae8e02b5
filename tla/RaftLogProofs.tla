---------------------------- MODULE RaftLogProofs ----------------------------
(***************************************************************************)
(* What the operators of RaftLog return, for logs over any set of entries. *)
(***************************************************************************)
EXTENDS RaftLog, SequenceTheorems, WellFoundedInduction, TLAPS

(* The larger of two integers.                                             *)
LEMMA MaxOfTwo ==
    ASSUME NEW a \in Int, NEW b \in Int
    PROVE  Max({a, b}) = IF a >= b THEN a ELSE b
BY DEF Max

(* ... and the smaller.                                                    *)
LEMMA MinOfTwo ==
    ASSUME NEW a \in Int, NEW b \in Int
    PROVE  Min({a, b}) = IF a <= b THEN a ELSE b
BY DEF Min

(* A set of naturals has a least element ...                               *)
LEMMA LeastNatural ==
    ASSUME NEW S \in SUBSET Nat, S # {}
    PROVE  \E n \in S : \A m \in S : n <= m
<1> DEFINE R == {ss \in Nat \X Nat : ss[1] < ss[2]}
<1>1. IsWellFoundedOn(R, Nat)
  BY NatLessThanWellFounded DEF OpToRel
<1>2. PICK n \in S : \A m \in S : ~(<<m, n>> \in R)
  BY <1>1, WFMin
<1>3. \A m \in S : n <= m
  <2>1. SUFFICES ASSUME NEW m \in S, m < n PROVE FALSE
    OBVIOUS
  <2>2. <<m, n>> \in Nat \X Nat
    OBVIOUS
  <2>3. <<m, n>> \in R
    BY <2>1, <2>2
  <2>4. QED
    BY <1>2, <2>3
<1>4. QED
  BY <1>3

(* ... which Min finds ...                                                 *)
LEMMA MinOfNaturals ==
    ASSUME NEW S \in SUBSET Nat, S # {}
    PROVE  Min(S) \in S /\ \A x \in S : Min(S) <= x
<1>1. \E n \in S : \A m \in S : n <= m
  BY LeastNatural
<1>2. QED
  BY <1>1 DEF Min

(* ... and Max finds the greatest element of a bounded one.                *)
LEMMA MaxOfBounded ==
    ASSUME NEW top \in Nat, NEW S \in SUBSET (0 .. top), S # {}
    PROVE  Max(S) \in S /\ \A x \in S : x <= Max(S)
<1> DEFINE D == {k \in Nat : top - k \in S}
<1>1. \A x \in S : top - x \in D
  OBVIOUS
<1>2. D \in SUBSET Nat /\ D # {}
  BY <1>1
<1>3. PICK d \in D : \A m \in D : d <= m
  <2> HIDE DEF D
  <2> QED BY <1>2, LeastNatural
<1>4. \A y \in S : top - d >= y
  <2>1. SUFFICES ASSUME NEW y \in S PROVE top - d >= y
    OBVIOUS
  <2>2. d <= top - y
    BY <1>1, <1>3
  <2>3. QED
    BY <2>2, <1>3
<1>5. QED
  BY <1>3, <1>4 DEF Max

-----------------------------------------------------------------------------
(* Positions and terms of a log are naturals.                              *)
LEMMA LogTypes ==
    ASSUME NEW Value, NEW lg \in Seq([term : Nat, cmd : Value]), NEW i \in Int
    PROVE  /\ last_index(lg) \in Nat
           /\ term_at(lg, i) \in Nat
           /\ last_term(lg) \in Nat
<1>1. \A k \in 1 .. Len(lg) : lg[k] \in [term : Nat, cmd : Value]
  BY ElementOfSeq
<1>2. QED
  BY <1>1 DEF last_index, term_at, last_term

(* What a leader sends is a piece of its log.                              *)
LEMMA SentEntriesType ==
    ASSUME NEW S, NEW lg \in Seq(S), NEW next \in Nat, next >= 1, NEW max \in Nat
    PROVE  /\ entries_to_send(lg, next, max) \in Seq(S)
           /\ Len(entries_to_send(lg, next, max)) \in Nat
<1> DEFINE end == Min({next + max, Len(lg) + 1})
           last == Min({end, Len(lg)})
<1>1. end \in Int
  BY MinOfTwo
<1>2. last \in Int /\ last <= Len(lg)
  <2> HIDE DEF end
  <2> QED BY <1>1, MinOfTwo
<1>3. \A i \in next .. last : lg[i] \in S
  <2> HIDE DEF last
  <2> QED BY <1>2, ElementOfSeq
<1>4. SubSeq(lg, next, last) \in Seq(S)
  <2> HIDE DEF last
  <2> QED BY <1>2, <1>3, SubSeqProperties
<1>5. Max({next, 1}) = next
  BY MaxOfTwo
<1>6. QED
  BY <1>4, <1>5, LenProperties DEF entries_to_send, slice

(* What a follower's log becomes is made of its own and received entries.  *)
LEMMA AppendedLogType ==
    ASSUME NEW S, NEW lg \in Seq(S), NEW prev \in Nat, NEW entries \in Seq(S)
    PROVE  append_entries(lg, prev, entries) \in Seq(S)
<1> DEFINE new == {k \in DOMAIN entries : term_at(lg, prev + k) # entries[k].term}
           k == Min(new)
           cut == Min({prev + k - 1, Len(lg)})
<1>1. CASE new = {}
  BY <1>1 DEF append_entries
<1>2. CASE new # {}
  <2>1. new \in SUBSET Nat /\ new \subseteq 1 .. Len(entries)
    OBVIOUS
  <2>2. k \in 1 .. Len(entries)
    <3> HIDE DEF new
    <3> QED BY <1>2, <2>1, MinOfNaturals
  <2>3. cut \in Int /\ cut <= Len(lg)
    <3> HIDE DEF k
    <3> QED BY <2>2, MinOfTwo
  <2>4. SubSeq(lg, 1, cut) \in Seq(S)
    <3> HIDE DEF cut
    <3>1. \A i \in 1 .. cut : lg[i] \in S
      BY <2>3, ElementOfSeq
    <3>2. QED BY <2>3, <3>1, SubSeqProperties
  <2>5. SubSeq(entries, k, Len(entries)) \in Seq(S)
    <3> HIDE DEF k
    <3>1. \A i \in k .. Len(entries) : entries[i] \in S
      BY <2>2, ElementOfSeq
    <3>2. QED BY <2>2, <3>1, SubSeqProperties
  <2>6. append_entries(lg, prev, entries) = SubSeq(lg, 1, cut) \o SubSeq(entries, k, Len(entries))
    BY <1>2 DEF append_entries
  <2>7. QED
    <3> HIDE DEF cut, k
    <3> QED BY <2>4, <2>5, <2>6, ConcatProperties
<1>3. QED
  BY <1>1, <1>2

(* next_index stays at 1 or above.                                         *)
LEMMA NextIndexType ==
    ASSUME NEW S, NEW lg \in Seq(S), NEW max \in Nat, NEW pipelining \in BOOLEAN,
           NEW next \in Nat, next >= 1, NEW match \in Nat, NEW hint \in Nat
    PROVE  /\ next_after_send(lg, next, max, pipelining) \in Nat
           /\ next_after_send(lg, next, max, pipelining) >= 1
           /\ next_after_rejection(match, hint, pipelining) \in Nat
           /\ next_after_rejection(match, hint, pipelining) >= 1
<1>1. Len(entries_to_send(lg, next, max)) \in Nat
  BY SentEntriesType
<1>2. Max({hint + 1, match + 1}) \in Nat /\ Max({hint + 1, match + 1}) >= 1
  BY MaxOfTwo
<1>3. Max({hint + 1, 1}) \in Nat /\ Max({hint + 1, 1}) >= 1
  BY MaxOfTwo
<1>4. QED
  BY <1>1, <1>2, <1>3 DEF next_after_send, next_after_rejection
=============================================================================
