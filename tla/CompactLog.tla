----------------------------- MODULE CompactLog -----------------------------
(***************************************************************************)
(* The log of raft/log.rs with a discarded prefix: entries[k] is the entry *)
(* at index snapshot_index + k, and snapshot_term is the term of the last  *)
(* discarded one.  RaftLog has the operators for logs that are complete.   *)
(***************************************************************************)
EXTENDS Integers, Sequences, FiniteSetsExt

CompactLog(snapshotIndex, snapshotTerm, entries) ==
    [snapshot_index |-> snapshotIndex, snapshot_term |-> snapshotTerm, entries |-> entries]

last_index(lg) == lg.snapshot_index + Len(lg.entries)

(* Term at an index, 0 if the entry is discarded or missing.               *)
term_at(lg, i) ==
    CASE i > lg.snapshot_index /\ i <= last_index(lg) -> lg.entries[i - lg.snapshot_index].term
      [] i = lg.snapshot_index /\ i > 0 -> lg.snapshot_term
      [] OTHER -> 0

(* Entries from start to end, both included, clamped to the log.           *)
slice(lg, start, end) ==
    SubSeq(lg.entries, Max({start, lg.snapshot_index + 1}) - lg.snapshot_index,
                       Min({end, last_index(lg)}) - lg.snapshot_index)

append(lg, entry) == [lg EXCEPT !.entries = Append(@, entry)]

truncate_after(lg, i) ==
    [lg EXCEPT !.entries = SubSeq(@, 1, Min({i - lg.snapshot_index, Len(@)}))]

truncate_prefix(lg, i, t) ==
    IF i <= lg.snapshot_index THEN lg
    ELSE CompactLog(i, t, SubSeq(lg.entries, i - lg.snapshot_index + 1, Len(lg.entries)))

(* The entries after the snapshot stay if the snapshot is a prefix of the  *)
(* log.                                                                    *)
snapshot_matches_prefix(lg, i, t) == i > lg.snapshot_index /\ term_at(lg, i) = t

install_snapshot(lg, i, t) ==
    IF snapshot_matches_prefix(lg, i, t) THEN truncate_prefix(lg, i, t)
    ELSE CompactLog(i, t, <<>>)

-----------------------------------------------------------------------------
(* The entries send_append_to puts into a message.                         *)
entries_to_send(lg, next, maxEntries) ==
    slice(lg, next, Min({next + maxEntries, last_index(lg) + 1}))

(* The follower's consistency check and its loop over the entries: from    *)
(* the first that conflicts or is missing on, they replace the old suffix. *)
consistent(lg, prevIndex, prevTerm) == prevIndex = 0 \/ term_at(lg, prevIndex) = prevTerm

append_entries(lg, prevIndex, entries) ==
    LET at(k) == prevIndex + k
        new == {k \in DOMAIN entries :
                   at(k) >= lg.snapshot_index /\ term_at(lg, at(k)) # entries[k].term}
        kept == truncate_after(lg, at(Min(new)) - 1).entries
    IN  IF new = {} THEN lg
        ELSE [lg EXCEPT !.entries =
                 kept \o SubSeq(entries, Max({Min(new), lg.snapshot_index - prevIndex + 1}),
                                Len(entries))]

(* Leader.next_index for a peer after a message was sent, and after a      *)
(* rejection whose hint is the follower's last index.                      *)
next_after_send(lg, next, maxEntries, pipelining) ==
    IF pipelining THEN next + Len(entries_to_send(lg, next, maxEntries)) ELSE next

Faulty_next_after_rejection(match, hint, pipelining) ==
    IF pipelining THEN Max({hint, match}) ELSE hint

next_after_rejection(match, hint, pipelining) ==
    IF pipelining THEN Max({hint + 1, match + 1}) ELSE Max({hint + 1, 1})
=============================================================================
