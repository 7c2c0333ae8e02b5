------------------------ MODULE PersistentDeltaProofs ------------------------
(***************************************************************************)
(* A record of the store, replayed on the state it was computed from,      *)
(* gives back the state that was saved (store.rs, save and recover), for   *)
(* logs of any length over any set of commands.                            *)
(*                                                                         *)
(* The argument.  common_prefix compares terms only.  By Log Matching two  *)
(* logs that agree in the term at an index agree up to there, so what      *)
(* apply_delta keeps of the old log is the beginning of the new one, and   *)
(* the record holds the rest.                                              *)
(***************************************************************************)
EXTENDS PersistentDelta, RaftLogProofs

States(Value, Voters) ==
    [term : Nat, voted_for : Voters, log : Seq([term : Nat, cmd : Value])]

(* The index both logs agree on lies in both, and the logs are equal up to *)
(* it when they satisfy Log Matching.                                      *)
LEMMA CommonPrefix ==
    ASSUME NEW Value, NEW Voters,
           NEW p \in States(Value, Voters), NEW q \in States(Value, Voters),
           LogsMatch(p.log, q.log)
    PROVE  /\ common_prefix(p, q) \in 0 .. Len(p.log)
           /\ common_prefix(p, q) \in 0 .. Len(q.log)
           /\ SubSeq(p.log, 1, common_prefix(p, q)) = SubSeq(q.log, 1, common_prefix(p, q))
<1> DEFINE E == [term : Nat, cmd : Value]
           top == Min({Len(p.log), Len(q.log)})
           S == {0} \cup {i \in 1 .. top : term_at(p.log, i) = term_at(q.log, i)}
           c == common_prefix(p, q)
<1>1. /\ p.log \in Seq(E) /\ q.log \in Seq(E)
      /\ Len(p.log) \in Nat /\ Len(q.log) \in Nat
  BY DEF States
<1>2. top \in Nat /\ top <= Len(p.log) /\ top <= Len(q.log)
  <2>1. Len(p.log) \in Int /\ Len(q.log) \in Int
    BY <1>1
  <2>2. top = IF Len(p.log) <= Len(q.log) THEN Len(p.log) ELSE Len(q.log)
    BY <2>1, MinOfTwo, Zenon
  <2> HIDE DEF top
  <2> QED BY <1>1, <2>2
<1>3. c = Max(S)
  BY DEF common_prefix, last_index
<1>4. S \in SUBSET (0 .. top) /\ S # {}
  BY <1>2
<1>5. c \in S
  <2> HIDE DEF S, top, c
  <2> QED BY <1>2, <1>3, <1>4, MaxOfBounded
<1>6. c \in 0 .. Len(p.log) /\ c \in 0 .. Len(q.log)
  <2> HIDE DEF top, c
  <2> QED BY <1>1, <1>2, <1>5
<1>7. CASE c = 0
  <2>1. SubSeq(p.log, 1, 0) = <<>> /\ SubSeq(q.log, 1, 0) = <<>>
    BY <1>1
  <2> QED BY <1>6, <1>7, <2>1
<1>8. CASE c # 0
  <2>1. c \in 1 .. top /\ term_at(p.log, c) = term_at(q.log, c)
    <3> HIDE DEF top, c
    <3> QED BY <1>5, <1>8
  <2>2. p.log[c].term = q.log[c].term
    <3> HIDE DEF top, c
    <3> QED BY <1>1, <1>2, <2>1 DEF term_at
  <2>3. SubSeq(p.log, 1, c) = SubSeq(q.log, 1, c)
    <3> HIDE DEF c
    <3> QED BY <2>1, <2>2 DEF LogsMatch
  <2> QED BY <1>6, <2>3
<1> QED BY <1>7, <1>8

(* A sequence is its beginning followed by the rest.                       *)
LEMMA SplitSequence ==
    ASSUME NEW E, NEW s \in Seq(E), NEW c \in 0 .. Len(s)
    PROVE  SubSeq(s, 1, c) \o SubSeq(s, c + 1, Len(s)) = s
<1> DEFINE a == SubSeq(s, 1, c)
           b == SubSeq(s, c + 1, Len(s))
<1>1. /\ a \in Seq(E) /\ Len(a) = c /\ \A i \in 1 .. c : a[i] = s[i]
      /\ b \in Seq(E) /\ Len(b) = Len(s) - c
      /\ \A i \in 1 .. Len(s) - c : b[i] = s[c + i]
  OBVIOUS
<1>2. Len(s) \in Nat /\ Len(a) \in Nat /\ Len(b) \in Nat
  OBVIOUS
<1> HIDE DEF a, b
<1>3. a \o b \in Seq(E) /\ Len(a \o b) = Len(s)
  BY <1>1, <1>2
<1>4. ASSUME NEW i \in 1 .. Len(s) PROVE (a \o b)[i] = s[i]
  <2>1. CASE i <= c
    BY <1>1, <1>2, <2>1
  <2>2. CASE i > c
    <3>1. i - c \in 1 .. Len(s) - c /\ (a \o b)[i] = b[i - c]
      BY <1>1, <1>2, <2>2
    <3>2. b[i - c] = s[c + (i - c)]
      BY <1>1, <3>1
    <3> QED BY <1>2, <3>1, <3>2
  <2>3. i <= c \/ i > c
    BY <1>2
  <2> QED BY <2>1, <2>2, <2>3
<1>5. a \o b = s
  BY <1>3, <1>4, SeqEqual
<1> QED BY <1>5 DEF a, b

(* Replaying the record that save writes for a state Raft may move to from *)
(* the saved one is accepted and leads to exactly that state (store.rs,    *)
(* save, recover and apply_delta).                                         *)
THEOREM ReplayGivesTheSavedState ==
    ASSUME NEW Value, NEW Voters,
           NEW p \in States(Value, Voters), NEW q \in States(Value, Voters),
           RaftMayBecome(p, q)
    PROVE  /\ delta_applies(p, delta(p, q))
           /\ apply_delta(p, delta(p, q)) = q
<1> DEFINE E == [term : Nat, cmd : Value]
           c == common_prefix(p, q)
<1>1. /\ p.log \in Seq(E) /\ q.log \in Seq(E) /\ p.term \in Nat /\ q.term \in Nat
      /\ Len(p.log) \in Nat /\ Len(q.log) \in Nat
  BY DEF States
<1>2. /\ c \in 0 .. Len(p.log) /\ c \in 0 .. Len(q.log)
      /\ SubSeq(p.log, 1, c) = SubSeq(q.log, 1, c)
  BY CommonPrefix DEF RaftMayBecome
<1>3. delta(p, q) = [term |-> q.term, voted_for |-> q.voted_for, truncate_after |-> c,
                     entries |-> slice(q.log, c + 1, Len(q.log))]
  BY DEF delta, last_index
<1> HIDE DEF c
<1>4. slice(q.log, c + 1, Len(q.log)) = SubSeq(q.log, c + 1, Len(q.log))
  <2>1. c + 1 \in Int /\ 1 \in Int /\ Len(q.log) \in Int /\ c + 1 >= 1
    BY <1>1, <1>2
  <2>2. Max({c + 1, 1}) = IF c + 1 >= 1 THEN c + 1 ELSE 1
    BY <2>1, MaxOfTwo, Zenon
  <2>3. Min({Len(q.log), Len(q.log)}) =
            IF Len(q.log) <= Len(q.log) THEN Len(q.log) ELSE Len(q.log)
    BY <2>1, MinOfTwo, Zenon
  <2>4. Max({c + 1, 1}) = c + 1 /\ Min({Len(q.log), Len(q.log)}) = Len(q.log)
    BY <2>1, <2>2, <2>3, Zenon
  <2> QED BY <2>4, Zenon DEF slice
<1>5. delta_applies(p, delta(p, q))
  BY <1>1, <1>2, <1>3 DEF delta_applies, RaftMayBecome, last_index
<1>6. apply_delta(p, delta(p, q)) =
          [term |-> q.term, voted_for |-> q.voted_for,
           log |-> SubSeq(q.log, 1, c) \o SubSeq(q.log, c + 1, Len(q.log))]
  <2>1. /\ delta(p, q).term = q.term /\ delta(p, q).voted_for = q.voted_for
        /\ delta(p, q).truncate_after = c
        /\ delta(p, q).entries = SubSeq(q.log, c + 1, Len(q.log))
    BY <1>3, <1>4
  <2> QED BY <1>2, <2>1, Zenon DEF apply_delta
<1>7. SubSeq(q.log, 1, c) \o SubSeq(q.log, c + 1, Len(q.log)) = q.log
  BY <1>1, <1>2, SplitSequence
<1>8. q = [term |-> q.term, voted_for |-> q.voted_for, log |-> q.log]
  BY DEF States
<1> QED BY <1>5, <1>6, <1>7, <1>8
=============================================================================
