------------------------------ MODULE MCCatchup ------------------------------
(***************************************************************************)
(* Catchup from logs of earlier terms that satisfy Log Matching.           *)
(***************************************************************************)
EXTENDS Catchup

OldLogs == {es \in FullLogs : \A i \in 1 .. Len(es) : es[i].term < LeaderTerm}

Prefix(a, b, i) == SubSeq(a, 1, i) = SubSeq(b, 1, i)

(* The follower only misses entries; the leader's log may be compact, and  *)
(* the follower knows some of its entries to be committed.                 *)
BehindLogs ==
    {[leader |-> Compacted(es, i), follower |-> Compacted(SubSeq(es, 1, k), 0), commit |-> c] :
        <<es, i, k, c>> \in {x \in OldLogs \X (0 .. MaxLog) \X (0 .. MaxLog) \X {0, 1} :
                                /\ Len(x[1]) = MaxLog - 1
                                /\ x[2] <= Len(x[1]) /\ x[3] <= Len(x[1]) /\ x[4] <= x[3]}}

(* The follower may also hold entries of a deposed leader.                 *)
ConflictingLogs ==
    {[leader |-> Compacted(a, 0), follower |-> Compacted(b, 0), commit |-> 0] :
        <<a, b>> \in {x \in OldLogs \X OldLogs :
            \A i \in 1 .. Min({Len(x[1]), Len(x[2])}) :
                x[1][i] = x[2][i] => Prefix(x[1], x[2], i)}}
=============================================================================
