--------------------------- MODULE PersistentDelta ---------------------------
(***************************************************************************)
(* The records RaftStore writes (cloud9-node/src/store.rs): each one holds *)
(* the hard state and the part of the log that changed since the state the *)
(* store last saved.                                                       *)
(*                                                                         *)
(* A persistent state is [term, voted_for, log] (core.rs, Persistent).     *)
(* bootstrap_config never changes and is left out.                         *)
(***************************************************************************)
EXTENDS RaftLog

CONSTANT None       \* no vote

initial == [term |-> 0, voted_for |-> None, log |-> <<>>]

(* The last index at which both logs have an entry of the same term.       *)
common_prefix(durable, current) ==
    Max({0} \cup {i \in 1 .. Min({last_index(durable.log), last_index(current.log)}) :
                      term_at(durable.log, i) = term_at(current.log, i)})

(* The record save writes when the saved state is `durable`.               *)
delta(durable, current) ==
    [term |-> current.term, voted_for |-> current.voted_for,
     truncate_after |-> common_prefix(durable, current),
     entries |-> slice(current.log, common_prefix(durable, current) + 1, last_index(current.log))]

(* The state a record leads to, and whether apply_delta accepts it.        *)
apply_delta(state, d) ==
    [term |-> d.term, voted_for |-> d.voted_for,
     log |-> SubSeq(state.log, 1, d.truncate_after) \o d.entries]

delta_applies(state, d) ==
    /\ d.term >= state.term
    /\ d.truncate_after <= last_index(state.log)

-----------------------------------------------------------------------------
(* Log Matching for two logs: an entry of the same term at the same index  *)
(* means the same entries up to there.                                     *)
LogsMatch(a, b) ==
    \A i \in 1 .. Min({Len(a), Len(b)}) :
        a[i].term = b[i].term => SubSeq(a, 1, i) = SubSeq(b, 1, i)

(* What Raft may turn one persistent state into: the term only grows, the  *)
(* vote of a term stays, the two logs satisfy Log Matching, and an entry   *)
(* of the present term is not replaced in that term.                       *)
RaftMayBecome(p, q) ==
    /\ q.term >= p.term
    /\ q.term = p.term /\ p.voted_for # None => q.voted_for = p.voted_for
    /\ LogsMatch(p.log, q.log)
    /\ \A i \in DOMAIN p.log : p.log[i].term = q.term => term_at(q.log, i) = q.term
=============================================================================
