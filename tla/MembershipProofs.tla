-------------------------- MODULE MembershipProofs --------------------------
(***************************************************************************)
(* Consecutive configurations have overlapping quorums, for every finite   *)
(* set of nodes, in both membership modes.                                 *)
(*                                                                         *)
(* The argument.  Two disjoint sets of votes that are majorities of S and  *)
(* of T, where S is a subset of T with at most one node less, would        *)
(* together be larger than T (MajoritiesMeet).  A single-server change,    *)
(* and SetMembers in single-server mode, leaves two such sets of voters;   *)
(* a joint configuration asks for a majority of the set it starts from and *)
(* of the set it leads to.                                                 *)
(***************************************************************************)
EXTENDS Membership, FiniteSetTheorems, TLAPS

Majority(V, Q) == Cardinality(V \cap Q) > Cardinality(V) \div 2

(* A majority of a set and one of a set with at most one more node share a *)
(* node (has_quorum counts votes > len / 2).                               *)
LEMMA MajoritiesMeet ==
    ASSUME NEW T, IsFiniteSet(T), NEW S \in SUBSET T,
           Cardinality(T) <= Cardinality(S) + 1,
           NEW Q1, NEW Q2, Majority(S, Q1), Majority(T, Q2)
    PROVE  Q1 \cap Q2 # {}
<1> SUFFICES ASSUME Q1 \cap Q2 = {} PROVE FALSE
  OBVIOUS
<1> DEFINE A == S \cap Q1
           B == T \cap Q2
<1>1. IsFiniteSet(S) /\ IsFiniteSet(A) /\ IsFiniteSet(B)
  BY FS_Subset
<1>2. /\ Cardinality(S) \in Nat /\ Cardinality(T) \in Nat
      /\ Cardinality(A) \in Nat /\ Cardinality(B) \in Nat
  BY <1>1, FS_CardinalityType
<1>3. A \cap B = {} /\ A \cup B \subseteq T
  OBVIOUS
<1>4. Cardinality(A \cap B) = 0
  BY <1>3, FS_EmptySet
<1>5. Cardinality(A \cup B) = Cardinality(A) + Cardinality(B) - Cardinality(A \cap B)
  BY <1>1, FS_Union
<1>6. Cardinality(A \cup B) <= Cardinality(T)
  BY <1>3, FS_Subset
<1>7. Cardinality(A) > Cardinality(S) \div 2 /\ Cardinality(B) > Cardinality(T) \div 2
  BY DEF Majority
<1> HIDE DEF A, B
<1>8. Cardinality(A) + Cardinality(B) <= Cardinality(T)
  BY <1>2, <1>4, <1>5, <1>6
<1> QED
  BY <1>2, <1>7, <1>8, SMT

(* Adding one node makes a set larger by at most one.                      *)
LEMMA OneMore ==
    ASSUME NEW S, IsFiniteSet(S), NEW x
    PROVE  IsFiniteSet(S \cup {x}) /\ Cardinality(S \cup {x}) <= Cardinality(S) + 1
<1>1. Cardinality(S) \in Nat
  BY FS_CardinalityType
<1> QED
  BY <1>1, FS_AddElement

(* A set is at most one larger than what is left without one node.         *)
LEMMA OneLess ==
    ASSUME NEW S, IsFiniteSet(S), NEW x
    PROVE  IsFiniteSet(S \ {x}) /\ Cardinality(S) <= Cardinality(S \ {x}) + 1
<1>1. IsFiniteSet(S \ {x})
  BY FS_Subset
<1>2. Cardinality(S) \in Nat
  BY FS_CardinalityType
<1> QED
  BY <1>1, <1>2, FS_RemoveElement

(* Sets that validate_single accepts are at most one node apart.           *)
LEMMA SingleChange ==
    ASSUME NEW S, IsFiniteSet(S), NEW T, IsFiniteSet(T),
           Cardinality(T \ S) + Cardinality(S \ T) <= 1
    PROVE  \/ S \subseteq T /\ Cardinality(T) <= Cardinality(S) + 1
           \/ T \subseteq S /\ Cardinality(S) <= Cardinality(T) + 1
<1>1. IsFiniteSet(T \ S) /\ IsFiniteSet(S \ T)
  BY FS_Subset
<1>2. Cardinality(T \ S) \in Nat /\ Cardinality(S \ T) \in Nat
  BY <1>1, FS_CardinalityType
<1>3. Cardinality(S) \in Nat /\ Cardinality(T) \in Nat
  BY FS_CardinalityType
<1>4. CASE Cardinality(T \ S) = 0
  <2>1. T \subseteq S
    BY <1>1, <1>4, FS_EmptySet
  <2>2. Cardinality(S \ T) = Cardinality(S) - Cardinality(S \cap T)
    BY FS_Difference
  <2>3. Cardinality(S \ T) = Cardinality(S) - Cardinality(T)
    <3>1. S \cap T = T
      BY <2>1
    <3> QED BY <2>2, <3>1
  <2>4. Cardinality(S) <= Cardinality(T) + 1
    BY <1>2, <1>3, <1>4, <2>3
  <2> QED
    BY <2>1, <2>4
<1>5. CASE Cardinality(S \ T) = 0
  <2>1. S \subseteq T
    BY <1>1, <1>5, FS_EmptySet
  <2>2. Cardinality(T \ S) = Cardinality(T) - Cardinality(T \cap S)
    BY FS_Difference
  <2>3. Cardinality(T \ S) = Cardinality(T) - Cardinality(S)
    <3>1. T \cap S = S
      BY <2>1
    <3> QED BY <2>2, <3>1
  <2>4. Cardinality(T) <= Cardinality(S) + 1
    BY <1>2, <1>3, <1>5, <2>3
  <2> QED
    BY <2>1, <2>4
<1> QED
  BY <1>2, <1>4, <1>5

-----------------------------------------------------------------------------
(* A configuration the log may hold, outside a joint transition: simple,   *)
(* with voters, none of which is a learner.                                *)
Settled(S, cfg) ==
    /\ cfg \in Configuration(S)
    /\ ~cfg.is_joint /\ cfg.old = cfg.new
    /\ cfg.new # {} /\ cfg.new \cap cfg.learners = {}

(* During a transition, what it leads to is settled.                       *)
Sound(S, cfg) == IF cfg.is_joint THEN cfg \in Configuration(S) /\ Settled(S, transition_target(cfg))
                 ELSE Settled(S, cfg)

(* A quorum of a configuration is a majority of both sets of its voters.   *)
LEMMA QuorumIsMajority ==
    ASSUME NEW cfg, NEW Q, has_quorum(cfg, Q)
    PROVE  Majority(cfg.old, Q) /\ Majority(cfg.new, Q)
BY DEF has_quorum, Majority

(* What a change of one node or of the members leads to, by its kind.      *)
LEMMA AppliedVoters ==
    ASSUME NEW S, NEW cfg \in Configuration(S), NEW mode, NEW change \in ConfigChange(S),
           cfg.old = cfg.new, validate(change, cfg, mode)
    PROVE  LET after == apply(change, cfg, mode)
           IN  \/ change.kind = "AddVoter" /\ after.new = cfg.new \cup {change.id}
               \/ change.kind = "RemoveVoter" /\ after.new = cfg.new \ {change.id}
               \/ after.new = cfg.new
               \/ /\ change.kind = "SetMembers" /\ mode = "JointConsensus"
                  /\ after.old = cfg.new
               \/ /\ change.kind = "SetMembers" /\ mode # "JointConsensus"
                  /\ after.new = change.voters
<1>1. CASE change \in NodeChange(S)
  BY <1>1 DEF NodeChange, apply, simple_with_learners
<1>2. CASE change \in MembersChange(S)
  BY <1>2 DEF MembersChange, apply, set_members, simple_with_learners, joint
<1> QED
  BY <1>1, <1>2 DEF ConfigChange

(* A quorum of a configuration and a quorum of what an accepted change     *)
(* turns it into share a node (membership.rs: "This guarantees overlapping *)
(* majorities between any two consecutive configs").                       *)
THEOREM ConsecutiveQuorumsOverlap ==
    ASSUME NEW S, IsFiniteSet(S), NEW cfg, Settled(S, cfg),
           NEW mode \in {"SingleServer", "JointConsensus"},
           NEW change \in ConfigChange(S), validate(change, cfg, mode),
           NEW Q1, has_quorum(cfg, Q1),
           NEW Q2, has_quorum(apply(change, cfg, mode), Q2)
    PROVE  Q1 \cap Q2 # {}
<1> DEFINE after == apply(change, cfg, mode)
<1>1. cfg \in Configuration(S) /\ cfg.old = cfg.new
  BY DEF Settled
<1>2. cfg.new \in SUBSET S /\ IsFiniteSet(cfg.new)
  <2>1. cfg.new \in SUBSET S
    BY <1>1 DEF Configuration
  <2> QED BY <2>1, FS_Subset
<1>3. Cardinality(cfg.new) \in Nat
  BY <1>2, FS_CardinalityType
<1>4. Majority(cfg.new, Q1) /\ Majority(after.old, Q2) /\ Majority(after.new, Q2)
  BY QuorumIsMajority
<1> HIDE DEF after
<1>5. CASE after.new = cfg.new \cup {change.id}
  <2> DEFINE T == cfg.new \cup {change.id}
  <2>1. IsFiniteSet(T) /\ Cardinality(T) <= Cardinality(cfg.new) + 1
    BY <1>2, OneMore
  <2>2. cfg.new \in SUBSET T /\ Majority(T, Q2)
    BY <1>4, <1>5
  <2> HIDE DEF T
  <2> QED BY <1>4, <2>1, <2>2, MajoritiesMeet
<1>6. CASE after.new = cfg.new \ {change.id}
  <2> DEFINE T == cfg.new \ {change.id}
  <2>1. Cardinality(cfg.new) <= Cardinality(T) + 1
    BY <1>2, OneLess
  <2>2. T \in SUBSET cfg.new /\ Majority(T, Q2)
    BY <1>4, <1>6
  <2> HIDE DEF T
  <2>3. Q2 \cap Q1 # {}
    BY <1>2, <1>4, <2>1, <2>2, MajoritiesMeet
  <2> QED BY <2>3
<1>7. CASE after.new = cfg.new \/ after.old = cfg.new
  <2>1. Majority(cfg.new, Q2)
    BY <1>4, <1>7
  <2>2. cfg.new \in SUBSET cfg.new /\ Cardinality(cfg.new) <= Cardinality(cfg.new) + 1
    BY <1>3
  <2> QED BY <1>2, <1>4, <2>1, <2>2, MajoritiesMeet
<1>8. CASE /\ change.kind = "SetMembers" /\ mode # "JointConsensus"
           /\ after.new = change.voters
  <2>1. Cardinality(after.new \ cfg.new) + Cardinality(cfg.new \ after.new) <= 1
    BY <1>8 DEF validate, validate_single
  <2>2. change.voters \in SUBSET S
    BY <1>8 DEF ConfigChange, NodeChange, MembersChange
  <2>3. IsFiniteSet(after.new)
    BY <1>8, <2>2, FS_Subset
  <2>4. CASE cfg.new \subseteq after.new /\ Cardinality(after.new) <= Cardinality(cfg.new) + 1
    BY <1>4, <2>3, <2>4, MajoritiesMeet
  <2>5. CASE after.new \subseteq cfg.new /\ Cardinality(cfg.new) <= Cardinality(after.new) + 1
    <3>1. Q2 \cap Q1 # {}
      BY <1>2, <1>4, <2>5, MajoritiesMeet
    <3> QED BY <3>1
  <2> QED
    BY <1>2, <2>1, <2>3, <2>4, <2>5, SingleChange
<1> QED
  BY <1>1, <1>5, <1>6, <1>7, <1>8, AppliedVoters DEF after

(* A quorum of a joint configuration and a quorum of the configuration it  *)
(* leads to share a node (append_transition_target).                       *)
THEOREM TransitionQuorumsOverlap ==
    ASSUME NEW S, IsFiniteSet(S), NEW cfg \in Configuration(S),
           NEW Q1, has_quorum(cfg, Q1),
           NEW Q2, has_quorum(transition_target(cfg), Q2)
    PROVE  Q1 \cap Q2 # {}
<1>1. cfg.new \in SUBSET S
  BY DEF Configuration
<1>2. IsFiniteSet(cfg.new) /\ Cardinality(cfg.new) \in Nat
  BY <1>1, FS_Subset, FS_CardinalityType
<1>3. Majority(cfg.new, Q1) /\ Majority(cfg.new, Q2)
  BY QuorumIsMajority DEF transition_target, simple_with_learners
<1>4. cfg.new \in SUBSET cfg.new /\ Cardinality(cfg.new) <= Cardinality(cfg.new) + 1
  BY <1>2
<1> QED
  BY <1>2, <1>3, <1>4, MajoritiesMeet

(* An accepted change leads to a configuration with voters that are not    *)
(* learners, if need be after a joint one (validate: WouldBeEmpty,         *)
(* AlreadyVoter).  So the last voter is never removed.                     *)
THEOREM ChangesKeepVoters ==
    ASSUME NEW S, IsFiniteSet(S), NEW cfg, Settled(S, cfg),
           NEW mode \in {"SingleServer", "JointConsensus"},
           NEW change \in ConfigChange(S), validate(change, cfg, mode)
    PROVE  Sound(S, apply(change, cfg, mode))
<1> USE DEF Sound, Settled, Configuration, simple_with_learners
<1>1. CASE change \in NodeChange(S) /\ change.kind = "RemoveVoter"
  <2>1. Cardinality(cfg.new) # 1 /\ IsFiniteSet(cfg.new)
    <3>1. cfg.new \in SUBSET S /\ Cardinality(cfg.new) # 1
      BY <1>1 DEF validate
    <3> QED BY <3>1, FS_Subset
  <2>2. cfg.new # {change.id}
    BY <2>1, FS_Singleton
  <2>3. cfg.new \ {change.id} # {}
    BY <2>2
  <2>4. apply(change, cfg, mode) = simple_with_learners(cfg.new \ {change.id}, cfg.learners)
    BY <1>1 DEF apply
  <2> QED
    BY <2>3, <2>4
<1>2. CASE change \in NodeChange(S) /\ change.kind # "RemoveVoter"
  BY <1>2 DEF NodeChange, validate, apply, is_voter, is_learner, voters
<1>3. CASE change \in MembersChange(S)
  BY <1>3 DEF MembersChange, validate, apply, set_members, joint, transition_target
<1> QED
  BY <1>1, <1>2, <1>3 DEF ConfigChange
=============================================================================
