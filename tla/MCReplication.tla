--------------------------- MODULE MCReplication ---------------------------
(***************************************************************************)
(* Raft from the moment the second leader of a cluster is elected.         *)
(*                                                                         *)
(* s1 led term 1, proposed some entries and replicated any prefix of them  *)
(* to s2 and to s3; then s2 won term 2 with the vote of s3 or of s1.       *)
(* Everything s1 sent may still arrive, and s1 may still believe to be     *)
(* leader.  All logs such a history can leave behind are initial states,   *)
(* so the run is spent on what the new leader does to them.                *)
(***************************************************************************)
EXTENDS MCRaft

CONSTANT c1

ReturnOfS1 == [t \in 1 .. MaxTerm |-> IF t = 2 THEN {s2} ELSE {s1}]

OnlyS2 == [t \in 1 .. MaxTerm |-> {s2}]

OldLog(k) == [i \in 1 .. k |-> [term |-> 1, cmd |-> c1]]

(* Requests s1 may have sent when its log had k entries.                   *)
OldRequests(k) ==
    {AppendRequest(s1, p, 1, OldLog(k), next, 0) : p \in {s2, s3}, next \in 1 .. k + 1}

AfterElection(k, k2, k3, voter) ==
    LET oldLog == [s \in Server |-> OldLog(IF s = s1 THEN k ELSE IF s = s2 THEN k2 ELSE k3)]
    IN
    /\ log = oldLog
    /\ log_is_up_to_date(log[voter], last_term(log[s2]), last_index(log[s2]))
    /\ term = [s \in Server |-> IF s \in {s2, voter} THEN 2 ELSE 1]
    /\ voted_for = [s \in Server |-> IF s \in {s2, voter} THEN s2 ELSE s1]
    /\ stable = [s \in Server |->
                    [term |-> term[s], voted_for |-> voted_for[s], log |-> log[s]]]
    /\ commit_index = [s \in Server |-> 0]
    /\ role = [s \in Server |-> IF s = s2 \/ (s = s1 /\ voter # s1) THEN "Leader" ELSE "Follower"]
    /\ leader = [s \in Server |-> IF s = s3 THEN s1 ELSE None]
    /\ heard = [s \in Server |-> FALSE]
    /\ votes = [s \in Server |-> {}]
    /\ next_index = [s \in Server |->
                        IF role[s] = "Leader" THEN [p \in Server |-> last_index(log[s]) + 1]
                        ELSE NoProgress]
    /\ match_index = [s \in Server |->
                         IF role[s] = "Leader"
                         THEN [p \in Server |-> IF p = s /\ ~ParallelDiskWrite
                                            THEN last_index(log[s]) ELSE 0]
                         ELSE NoProgress]
    /\ msgs = OldRequests(k)
              \cup {AppendRequest(s2, p, 2, log[s2], last_index(log[s2]) + 1, 0) : p \in {s1, s3}}

InitSecondLeader ==
    \E k \in 0 .. MaxLog : \E k2, k3 \in 0 .. k : \E voter \in {s1, s3} :
        AfterElection(k, k2, k3, voter)

SpecSecondLeader == InitSecondLeader /\ [][Next]_vars

(* The smallest such history with a conflict to come: s1 kept one entry to *)
(* itself.                                                                 *)
SpecDeposedLeader == AfterElection(1, 0, 0, s3) /\ [][Next]_vars
=============================================================================
