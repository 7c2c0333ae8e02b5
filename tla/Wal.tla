--------------------------------- MODULE Wal ---------------------------------
(***************************************************************************)
(* The segmented write-ahead log (cloud9-wal): what Wal.append, Wal.sync   *)
(* and Wal.open do to the files, one file-system call at a time, so that   *)
(* an error, a crash of the process or a loss of power can come between    *)
(* any two calls.                                                          *)
(*                                                                         *)
(* segs is the directory: the file of segment id i - 1 is segs[i], with    *)
(*   recs     the whole records the page cache holds,                      *)
(*   torn     whether an incomplete record follows them,                   *)
(*   synced   how many of the records an fsync has made durable,           *)
(*   linked   whether the directory entry is durable.                      *)
(* A process crash leaves the page cache alone; a loss of power keeps of   *)
(* it only what is synced, and any part of the rest.  A record has a field *)
(* len, its encoded length with the header.                                *)
(***************************************************************************)
EXTENDS Integers, Sequences, SequencesExt

CONSTANTS
    SegmentSize,    \* WalOptions.segment_size
    MaxSize,        \* WalOptions.max_size
    HeaderLen,      \* format::HEADER_LEN
    FsyncLinks      \* fsync of a file also makes its directory entry durable

(* validate_options.                                                       *)
ASSUME WalAssumption ==
    /\ {SegmentSize, MaxSize, HeaderLen} \subseteq Nat
    /\ HeaderLen <= SegmentSize /\ HeaderLen <= MaxSize
    /\ FsyncLinks \in BOOLEAN

VARIABLES
    segs,
    active,         \* position of the active segment, 0 when no process has the WAL open
    active_len, total_len, poisoned,
    call            \* the next call of the append that is under way, and its record

walVars == <<segs, active, active_len, total_len, poisoned, call>>

NoRecord == [len |-> 0]
Idle == [next |-> "none", rec |-> NoRecord]

WalInit ==
    /\ segs = <<>>
    /\ active = 0 /\ active_len = 0 /\ total_len = 0 /\ poisoned = FALSE
    /\ call = Idle

Sum(recs) == FoldSeq(LAMBDA r, n : r.len + n, 0, recs)
AllRecords(files) == FlattenSeq([i \in DOMAIN files |-> files[i].recs])

NewSegment == [recs |-> <<>>, torn |-> FALSE, synced |-> 0, linked |-> FALSE]

(* The file after fsync.                                                   *)
Fsynced(file) ==
    [file EXCEPT !.synced = Len(file.recs), !.linked = file.linked \/ FsyncLinks]

-----------------------------------------------------------------------------
(* Wal.append: the checks, and whether the record opens a new segment.     *)
Faulty_append_rejects(rec) == poisoned \/ rec.len > SegmentSize

append_rejects(rec) ==
    \/ poisoned
    \/ total_len + rec.len > MaxSize        \* WalFull
    \/ rec.len > SegmentSize                \* RecordTooLarge

Faulty_rotate_if_needed(rec) ==
    IF active_len # 0 /\ active_len + rec.len > SegmentSize THEN "rotate_create" ELSE "write"

rotate_if_needed(rec) ==
    IF active_len # 0 /\ active_len + rec.len > SegmentSize THEN "rotate_sync" ELSE "write"

append(rec) ==
    /\ active # 0 /\ call = Idle
    /\ ~append_rejects(rec)
    /\ call' = [next |-> rotate_if_needed(rec), rec |-> rec]
    /\ UNCHANGED <<segs, active, active_len, total_len, poisoned>>

RotateSync ==
    /\ call.next = "rotate_sync"
    /\ segs' = [segs EXCEPT ![active] = Fsynced(@)]
    /\ call' = [call EXCEPT !.next = "rotate_create"]
    /\ UNCHANGED <<active, active_len, total_len, poisoned>>

(* open_segment creates the file unless an earlier rotation left it.       *)
RotateCreate ==
    /\ call.next = "rotate_create"
    /\ segs' = IF active = Len(segs) THEN Append(segs, NewSegment) ELSE segs
    /\ call' = [call EXCEPT !.next = "rotate_link"]
    /\ UNCHANGED <<active, active_len, total_len, poisoned>>

(* sync_dir, after which the new segment is the active one.                *)
RotateLink ==
    /\ call.next = "rotate_link"
    /\ segs' = [i \in DOMAIN segs |-> [segs[i] EXCEPT !.linked = TRUE]]
    /\ active' = active + 1
    /\ active_len' = 0
    /\ call' = [call EXCEPT !.next = "write"]
    /\ UNCHANGED <<total_len, poisoned>>

Write ==
    /\ call.next = "write"
    /\ segs' = [segs EXCEPT ![active].recs = Append(@, call.rec)]
    /\ active_len' = active_len + call.rec.len
    /\ total_len' = total_len + call.rec.len
    /\ call' = [call EXCEPT !.next = "sync"]
    /\ UNCHANGED <<active, poisoned>>

(* Wal.sync.                                                               *)
Faulty_Sync ==
    /\ call.next = "sync"
    /\ call' = Idle
    /\ UNCHANGED <<segs, active, active_len, total_len, poisoned>>

Sync ==
    /\ call.next = "sync"
    /\ segs' = [segs EXCEPT ![active] = Fsynced(@)]
    /\ call' = Idle
    /\ UNCHANGED <<active, active_len, total_len, poisoned>>

(* The call fails and the append returns its error.  Only a failed write   *)
(* or sync poisons the WAL; a failed write may leave part of the record.   *)
CallFails ==
    /\ call # Idle
    /\ segs' \in IF call.next = "write" THEN {segs, [segs EXCEPT ![active].torn = TRUE]}
                                        ELSE {segs}
    /\ poisoned' = (poisoned \/ call.next \in {"rotate_sync", "write", "sync"})
    /\ call' = Idle
    /\ UNCHANGED <<active, active_len, total_len>>

-----------------------------------------------------------------------------
Closed ==
    /\ active' = 0 /\ active_len' = 0 /\ total_len' = 0 /\ poisoned' = FALSE
    /\ call' = Idle

(* The process dies, possibly in the middle of a write.                    *)
ProcessCrash ==
    /\ active # 0
    /\ segs' \in IF call.next = "write" THEN {segs, [segs EXCEPT ![active].torn = TRUE]}
                                        ELSE {segs}
    /\ Closed

(* What a loss of power may leave of a file.                               *)
Remains(file) ==
    {[recs |-> SubSeq(file.recs, 1, k), torn |-> t, synced |-> k, linked |-> TRUE] :
        k \in file.synced .. Len(file.recs), t \in BOOLEAN}

MayRemain(file, left) ==
    /\ left \in Remains(file)
    /\ left.torn => file.torn \/ Len(left.recs) < Len(file.recs)

PowerLoss ==
    /\ \E n \in 0 .. Len(segs) :
           /\ \A i \in n + 1 .. Len(segs) : ~segs[i].linked
           /\ \E left \in [1 .. n -> UNION {Remains(segs[i]) : i \in 1 .. n}] :
                  /\ \A i \in 1 .. n : MayRemain(segs[i], left[i])
                  /\ segs' = left
    /\ Closed

-----------------------------------------------------------------------------
(* segment::recover: an incomplete record ends the last segment (it is cut *)
(* off and the file synced) or makes the directory unreadable.             *)
recover(files) ==
    IF files = <<>>
    THEN <<[NewSegment EXCEPT !.linked = TRUE]>>
    ELSE [files EXCEPT ![Len(files)] = IF @.torn THEN Fsynced([@ EXCEPT !.torn = FALSE]) ELSE @]

recover_accepts(files) ==
    /\ \A i \in 1 .. Len(files) - 1 : ~files[i].torn
    /\ Sum(AllRecords(files)) <= MaxSize

(* Wal.open.  The lock file keeps a second process out.                    *)
open ==
    /\ active = 0
    /\ recover_accepts(segs)
    /\ segs' = recover(segs)
    /\ active' = Len(segs')
    /\ active_len' = Sum(segs'[Len(segs')].recs)
    /\ total_len' = Sum(AllRecords(segs'))
    /\ UNCHANGED <<poisoned, call>>

(* The first open stops after it has created segment 0.                    *)
OpenStops ==
    /\ active = 0 /\ segs = <<>>
    /\ segs' = <<NewSegment>>
    /\ UNCHANGED <<active, active_len, total_len, poisoned, call>>
=============================================================================
