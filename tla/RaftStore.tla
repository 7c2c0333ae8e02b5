------------------------------ MODULE RaftStore ------------------------------
(***************************************************************************)
(* One node's persistent Raft state on disk: RaftStore (store.rs) over the *)
(* write-ahead log, driven by the runtime's step (runtime.rs): check the   *)
(* failed flag, take the machine lock, let Raft change its state, save it  *)
(* if it changed, release the messages.                                    *)
(*                                                                         *)
(* current is the state in the library's memory and durable the copy the   *)
(* store keeps of the last state it saved.                                 *)
(***************************************************************************)
EXTENDS PersistentDelta, Wal

CONSTANTS
    Persistent,         \* bound: the states Raft goes through
    EntryLen,           \* encoded length of a log entry
    MaxSaves,           \* bound: records in the WAL
    MaxWaiting,         \* bound: steps past the health check, waiting for the lock
    FailWhileWaiting    \* whether a save may fail while a step waits for the lock

ASSUME StoreAssumption ==
    /\ initial \in Persistent
    /\ {EntryLen, MaxSaves, MaxWaiting} \subseteq Nat
    /\ FailWhileWaiting \in BOOLEAN

VARIABLES current, durable, failed, waiting

vars == <<walVars, current, durable, failed, waiting>>

Init ==
    /\ WalInit
    /\ current = initial /\ durable = initial
    /\ failed = FALSE
    /\ waiting = 0

running == active # 0

record(d) == [delta |-> d, len |-> HeaderLen + EntryLen * Len(d.entries)]

-----------------------------------------------------------------------------
(* RaftStore.recover: the deltas of all records, one after the other.      *)
replay(recs) == FoldLeft(LAMBDA state, r : apply_delta(state, r.delta), initial, recs)

replay_accepts(recs) ==
    \A k \in DOMAIN recs : delta_applies(replay(SubSeq(recs, 1, k - 1)), recs[k].delta)

(* RaftRuntime.open.                                                       *)
Open ==
    /\ open
    /\ replay_accepts(AllRecords(segs'))
    /\ durable' = replay(AllRecords(segs'))
    /\ current' = durable'
    /\ failed' = FALSE /\ waiting' = 0

(* A step has seen a healthy node and waits for the lock that a save holds. *)
Wait ==
    /\ running /\ ~failed /\ call # Idle
    /\ waiting < MaxWaiting
    /\ waiting' = waiting + 1
    /\ UNCHANGED <<walVars, current, durable, failed>>

(* A step takes the lock: one that waited does not look at failed again.   *)
MayStep == running /\ call = Idle /\ (~failed \/ waiting > 0)

TakesLock ==
    /\ MayStep
    /\ \/ ~failed /\ waiting' = waiting
       \/ waiting > 0 /\ waiting' = waiting - 1

(* Raft changes its persistent state to p and asks to persist it.  When    *)
(* the WAL refuses the record, save returns the error and the step fails.  *)
StepPersists(p) ==
    /\ TakesLock
    /\ p # current /\ RaftMayBecome(current, p) /\ RaftMayBecome(durable, p)
    /\ Len(AllRecords(segs)) < MaxSaves
    /\ current' = p
    /\ LET rec == record(delta(durable, p))
       IN  \/ append(rec) /\ UNCHANGED failed
           \/ append_rejects(rec) /\ failed' = TRUE /\ UNCHANGED walVars
    /\ UNCHANGED durable

(* Raft answers a message without any change to persist, and its messages  *)
(* leave the node.                                                         *)
StepAnswers ==
    /\ TakesLock
    /\ UNCHANGED <<walVars, current, durable, failed>>

SaveContinues ==
    /\ RotateSync \/ RotateCreate \/ RotateLink \/ Write
    /\ UNCHANGED <<current, durable, failed, waiting>>

(* save returns, and handle_effects releases the messages.                 *)
SaveReturns ==
    /\ Sync
    /\ durable' = current
    /\ UNCHANGED <<current, failed, waiting>>

SaveFails ==
    /\ CallFails
    /\ waiting = 0 \/ FailWhileWaiting
    /\ failed' = TRUE
    /\ UNCHANGED <<current, durable, waiting>>

Down ==
    /\ current' = initial /\ durable' = initial
    /\ failed' = FALSE /\ waiting' = 0

Next ==
    \/ Open
    \/ OpenStops /\ UNCHANGED <<current, durable, failed, waiting>>
    \/ Wait
    \/ \E p \in Persistent : StepPersists(p)
    \/ StepAnswers
    \/ SaveContinues
    \/ SaveReturns
    \/ SaveFails
    \/ ProcessCrash /\ Down
    \/ PowerLoss /\ Down

Spec == Init /\ [][Next]_vars

-----------------------------------------------------------------------------
(* The records that a loss of power cannot take away.                      *)
SafeRecords ==
    FlattenSeq([i \in DOMAIN segs |->
        IF segs[i].linked THEN SubSeq(segs[i].recs, 1, segs[i].synced) ELSE <<>>])

Recoverable ==
    {replay(SubSeq(AllRecords(segs), 1, k)) : k \in Len(SafeRecords) .. Len(AllRecords(segs))}

Status ==
    IF ~running THEN "down"
    ELSE IF call # Idle THEN "saving"
    ELSE IF failed THEN "failed" ELSE "ready"

Durable == INSTANCE DurableState WITH
    State <- Persistent, InitialState <- initial,
    status <- Status, current <- current, recoverable <- Recoverable

(* The files implement the promise DurableState makes to Raft: the state a *)
(* returned save wrote is what every restart finds until the next save,    *)
(* whatever errors, crashes and losses of power come between two           *)
(* file-system calls (wal.rs append, sync, open; store.rs save, recover).  *)
ImplementsDurableState == Durable!Spec

(* A node that stopped can always start again: segment::recover never      *)
(* meets an incomplete record before the last segment, the WAL is within   *)
(* its limit, and apply_delta accepts every record (store.rs:107).         *)
CanOpenAgain ==
    ~running => /\ recover_accepts(segs)
                /\ replay_accepts(AllRecords(segs))

(* The lengths the WAL keeps in memory are those of the files as long as   *)
(* no call has failed, so the limits it enforces are the real ones.        *)
LengthsAreReal ==
    running /\ ~poisoned => /\ active_len = Sum(segs[active].recs)
                            /\ total_len = Sum(AllRecords(segs))
                            /\ \A i \in DOMAIN segs : Sum(segs[i].recs) <= SegmentSize
                            /\ total_len <= MaxSize

(* "Persistent state is synced before network effects are released"        *)
(* (runtime.rs:3): a step that sends messages without a save finds Raft in *)
(* a state that the synced part of the WAL leads to.                       *)
SyncedBeforeReleased ==
    MayStep => current \in {replay(SubSeq(SafeRecords, 1, k)) : k \in 0 .. Len(SafeRecords)}
=============================================================================
