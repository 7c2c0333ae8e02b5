---------------------------- MODULE MCMembership ----------------------------
(***************************************************************************)
(* Small instances of Reconfiguration.                                     *)
(***************************************************************************)
EXTENDS Reconfiguration

CONSTANTS s1, s2, s3, s4

Three == simple_with_learners({s1, s2, s3}, {})
Four == simple_with_learners({s1, s2, s3, s4}, {})

Set(vs, ls) == [kind |-> "SetMembers", voters |-> vs, learners |-> ls]
Change(k, id) == [kind |-> k, id |-> id]

FourLinks == {<<s1, s3>>, <<s2, s4>>}
ThreeLinks == {<<s1, s2>>, <<s1, s4>>, <<s2, s3>>, <<s2, s4>>}

AnyOne == <<{s1}, {s2}, {s1}>>
FourChanges == {Change("RemoveVoter", s1), Change("RemoveVoter", s2)}
ThreeChanges ==
    {Change("AddLearner", s4), Change("AddVoter", s4), Change("RemoveVoter", s1),
     Change("RemoveLearner", s4), Set({s1, s4}, {}), Set({s2, s3, s4}, {s1})}
=============================================================================
