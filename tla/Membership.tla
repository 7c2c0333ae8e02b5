----------------------------- MODULE Membership -----------------------------
(***************************************************************************)
(* Configurations and configuration changes (raft/membership.rs).  A       *)
(* simple configuration is a record whose two sets of voters are the same, *)
(* so that every query has one definition for both kinds.                  *)
(***************************************************************************)
EXTENDS Integers, FiniteSets

Configuration(S) ==
    [is_joint : BOOLEAN, old : SUBSET S, new : SUBSET S, learners : SUBSET S]

simple_with_learners(voters, learners) ==
    [is_joint |-> FALSE, old |-> voters, new |-> voters, learners |-> learners]

joint(old, new, learners) ==
    [is_joint |-> TRUE, old |-> old, new |-> new, learners |-> learners]

voters(cfg) == cfg.old \cup cfg.new
is_voter(cfg, id) == id \in voters(cfg)
is_learner(cfg, id) == id \in cfg.learners
all_nodes(cfg) == voters(cfg) \cup cfg.learners

(* The votes of a majority of each set of voters.                          *)
has_quorum(cfg, votes) ==
    /\ Cardinality(cfg.old \cap votes) > Cardinality(cfg.old) \div 2
    /\ Cardinality(cfg.new \cap votes) > Cardinality(cfg.new) \div 2

(* What a joint configuration leads to.                                    *)
transition_target(cfg) == simple_with_learners(cfg.new, cfg.learners)

-----------------------------------------------------------------------------
(* The changes one may ask for: one node, or a whole set of members.       *)
NodeChange(S) ==
    [kind : {"AddVoter", "RemoveVoter", "AddLearner", "RemoveLearner"}, id : S]

MembersChange(S) ==
    [kind : {"SetMembers"}, voters : SUBSET S, learners : SUBSET S]

ConfigChange(S) == NodeChange(S) \cup MembersChange(S)

Faulty_validate_single(current, newVoters) ==
    Cardinality(newVoters) \in Cardinality(current.new) - 1 .. Cardinality(current.new) + 1

(* At most one voter comes or goes.                                        *)
validate_single(current, newVoters) ==
    Cardinality(newVoters \ current.new) + Cardinality(current.new \ newVoters) <= 1

(* Whether the change may be made to the current configuration.            *)
validate(change, current, mode) ==
    /\ ~current.is_joint
    /\ CASE change.kind = "AddVoter" ->
              ~is_voter(current, change.id) /\ is_learner(current, change.id)
         [] change.kind = "RemoveVoter" ->
              is_voter(current, change.id) /\ Cardinality(current.new) # 1
         [] change.kind = "AddLearner" ->
              ~is_voter(current, change.id) /\ ~is_learner(current, change.id)
         [] change.kind = "RemoveLearner" -> is_learner(current, change.id)
         [] change.kind = "SetMembers" ->
              /\ <<change.voters, change.learners>> # <<current.new, current.learners>>
              /\ mode = "SingleServer" => validate_single(current, change.voters)
              /\ change.voters # {}
              /\ change.voters \cap change.learners = {}

Faulty_set_members(change, current, mode) ==
    simple_with_learners(change.voters, change.learners)

set_members(change, current, mode) ==
    IF mode = "JointConsensus" /\ current.new # change.voters
    THEN joint(current.new, change.voters, change.learners)
    ELSE simple_with_learners(change.voters, change.learners)

(* The configuration the change leads to.                                  *)
apply(change, current, mode) ==
    CASE change.kind = "AddVoter" ->
            simple_with_learners(current.new \cup {change.id}, current.learners \ {change.id})
      [] change.kind = "RemoveVoter" ->
            simple_with_learners(current.new \ {change.id}, current.learners)
      [] change.kind = "AddLearner" ->
            simple_with_learners(current.new, current.learners \cup {change.id})
      [] change.kind = "RemoveLearner" ->
            simple_with_learners(current.new, current.learners \ {change.id})
      [] change.kind = "SetMembers" -> set_members(change, current, mode)
=============================================================================
