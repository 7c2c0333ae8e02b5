------------------------------- MODULE RaftLog -------------------------------
(***************************************************************************)
(* Operators on the replicated log (raft/log.rs) and the two pure steps    *)
(* of log replication that only look at a log: what a leader puts into an  *)
(* AppendEntries message (leader.rs, send_append_to) and what a follower's *)
(* log becomes when it accepts one (follower.rs, handle_append_request).   *)
(*                                                                         *)
(* A log is a sequence of entries [term, cmd]; the entry at position i is  *)
(* the one whose Rust field `index` is i.  Nothing is compacted here, so   *)
(* snapshot_index and snapshot_term are 0.                                 *)
(*                                                                         *)
(* Here and in the modules that use this one, Faulty_X is the definition X *)
(* with a plausible mistake.  No specification uses it; it takes the place *)
(* of X to see a property fail.                                            *)
(***************************************************************************)
EXTENDS Integers, Sequences, FiniteSetsExt

last_index(lg) == Len(lg)

(* Term at an index, 0 when the log has no entry there.                    *)
term_at(lg, i) == IF i \in 1 .. Len(lg) THEN lg[i].term ELSE 0

last_term(lg) == term_at(lg, Len(lg))

(* Entries from start to end, both included, clamped to the log.           *)
slice(lg, start, end) == SubSeq(lg, Max({start, 1}), Min({end, Len(lg)}))

(* (last_term, last_index) >= (our_term, our_index), lexicographically.    *)
log_is_up_to_date(lg, lastTerm, lastIndex) ==
    \/ lastTerm > last_term(lg)
    \/ lastTerm = last_term(lg) /\ lastIndex >= last_index(lg)

-----------------------------------------------------------------------------
(* The entries a leader sends to a peer whose next_index is next, when one *)
(* message may carry maxEntries: `end` is an inclusive bound of slice.     *)
entries_to_send(lg, next, maxEntries) ==
    slice(lg, next, Min({next + maxEntries, Len(lg) + 1}))

(* Leader.next_index for a peer after such a message: with pipelining it   *)
(* moves past what was sent, without waiting for the answer.               *)
next_after_send(lg, next, maxEntries, pipelining) ==
    IF pipelining THEN next + Len(entries_to_send(lg, next, maxEntries)) ELSE next

(* ... and after a rejection whose hint is the follower's last index.      *)
next_after_rejection(match, hint, pipelining) ==
    IF pipelining THEN Max({hint + 1, match + 1}) ELSE Max({hint + 1, 1})

(* The follower's consistency check on the entry before the new ones.      *)
Faulty_consistent_length_only(lg, prevIndex, prevTerm) == prevIndex <= Len(lg)

Faulty_consistent_missing_ok(lg, prevIndex, prevTerm) ==
    term_at(lg, prevIndex) \in {0, prevTerm}

consistent(lg, prevIndex, prevTerm) ==
    prevIndex = 0 \/ term_at(lg, prevIndex) = prevTerm

(* The follower's loop over the received entries.  Entries it already has  *)
(* with the same term are kept as they are; from the first one that is     *)
(* missing or has another term on, the old suffix is cut off and the       *)
(* received entries are appended.                                          *)
Faulty_append_entries(lg, prevIndex, entries) ==
    LET end == prevIndex + Len(entries)
    IN  [i \in 1 .. Max({Len(lg), end}) |->
            IF i \in prevIndex + 1 .. end THEN entries[i - prevIndex] ELSE lg[i]]

append_entries(lg, prevIndex, entries) ==
    LET new == {k \in DOMAIN entries :
                    term_at(lg, prevIndex + k) # entries[k].term}
    IN  IF new = {}
        THEN lg
        ELSE LET k == Min(new)
             IN  SubSeq(lg, 1, Min({prevIndex + k - 1, Len(lg)}))
                     \o SubSeq(entries, k, Len(entries))
=============================================================================
